------------------------------- MODULE Program -------------------------------
(***************************************************************************)
(* Programs as the pipeline tells instructions apart: what they do to the  *)
(* flow of control, to the trap state and to the back end.  An address is  *)
(* a small number, 0 is the empty pipeline slot, and the address space     *)
(* wraps around as 32-bit addresses do.                                    *)
(***************************************************************************)
EXTENDS Naturals

CONSTANTS Last,      \* the last instruction address
          Handler,   \* mtvec
          Programs   \* the programs that may be in memory

Pc == 1..Last
Inc4(p) == IF p = Last THEN 1 ELSE p + 1

\* load: an access to cached data memory.  ack: a store to the device that
\* raises the interrupt, which withdraws it.  on, off: csrsi, csrci of
\* mstatus.MIE.  skip: a write that moves mepc past the instruction that
\* trapped.  fault: an illegal instruction.
Kinds == {"op", "load", "ack", "div", "on", "off", "skip", "jal", "jalr",
          "branch", "ecall", "fault", "mret", "wfi"}

\* dep: reads the register an older load writes.  to: where it may jump.
Instruction == [kind : Kinds, dep : BOOLEAN, to : SUBSET Pc]

\* irqs: whether the environment raises the interrupt.
Program == [code : [Pc -> Instruction], irqs : BOOLEAN]

ASSUME ProgramAssumption ==
  /\ Last \in Nat \ {0}
  /\ Handler \in Pc
  /\ Programs \subseteq Program
  /\ \A prog \in Programs, p \in Pc :    \* a jump leads somewhere
       prog.code[p].kind \in {"jal", "jalr", "branch"} => prog.code[p].to # {}

KindAt(prog, p) == IF p = 0 THEN "none" ELSE prog.code[p].kind

Successors(prog, p) ==
  LET i == prog.code[p]
  IN  CASE i.kind = "branch" -> {Inc4(p)} \cup i.to
        [] i.kind \in {"jal", "jalr"} -> i.to
        [] OTHER -> {Inc4(p)}

Raises(kind) == kind \in {"ecall", "fault"}
IsCsr(kind)  == kind \in {"on", "off", "skip"}

\* The trap CSRs after a CSR instruction.
Written(kind, csr) ==
  CASE kind = "on"   -> [csr EXCEPT !.mie = TRUE]
    [] kind = "off"  -> [csr EXCEPT !.mie = FALSE]
    [] kind = "skip" -> [csr EXCEPT !.mepc = Inc4(@)]
==============================================================================

------------------------------- MODULE Machine -------------------------------
(***************************************************************************)
(* What the core promises the programmer: instructions take effect one at  *)
(* a time, each at the address the previous one leads to, and a trap       *)
(* happens between two of them.  Nothing here knows of stages, caches,     *)
(* stalls or predictions; the pipeline (Core) implements this machine.     *)
(***************************************************************************)
EXTENDS Program

VARIABLES prog,   \* the program in memory
          pc,     \* the next instruction
          last,   \* the one that took effect last; 0 after a trap or a return
          csr     \* mstatus.MIE and MPIE; mepc, 0 before any trap

vars == <<prog, pc, last, csr>>

Init ==
  /\ prog \in Programs
  /\ pc = 1 /\ last = 0
  /\ csr = [mie |-> FALSE, mpie |-> FALSE, mepc |-> 0]

kind == KindAt(prog, pc)

Execute ==
  /\ ~Raises(kind) /\ kind # "mret"
  /\ pc' \in Successors(prog, pc)
  /\ last' = pc
  /\ csr' = IF IsCsr(kind) THEN Written(kind, csr) ELSE csr
  /\ UNCHANGED prog

\* An exception of the next instruction, or an interrupt before it.  The
\* instruction at mepc has had no effect, those before it have had all of it.
\* The core looks at MIE before the instruction in EXE writes it, so it may
\* still take an interrupt right behind the instruction that disables them.
Trap ==
  /\ Raises(kind) \/ csr.mie \/ KindAt(prog, last) = "off"
  /\ pc' = Handler /\ last' = 0
  /\ csr' = [mie |-> FALSE, mpie |-> csr.mie, mepc |-> pc]
  /\ UNCHANGED prog

Return ==
  /\ kind = "mret"
  /\ pc' = csr.mepc /\ last' = 0
  /\ csr' = [csr EXCEPT !.mie = csr.mpie, !.mpie = TRUE]
  /\ UNCHANGED prog

Next == Execute \/ Trap \/ Return

Spec == Init /\ [][Next]_vars
==============================================================================

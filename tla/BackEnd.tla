------------------------------ MODULE BackEnd ------------------------------
(***************************************************************************)
(* Where an instruction gets its operands from, and how many instructions  *)
(* minstret says have retired: ama_riscv_operand_forwarding.sv, the stages *)
(* EXE to RET of ama_riscv_core.sv, the register file and minstret in      *)
(* ama_riscv_csr.sv.  One step is one clock.                               *)
(*                                                                         *)
(* Programs are arbitrary: whenever DEC advances it has some instruction   *)
(* or nothing.  Operand "a" stands for rs1 and rs2, which are treated      *)
(* alike; "c" is the third operand, rd, of a dot product or a vector       *)
(* insert.  The n-th instruction's result is 2n, its paired result 2n + 1. *)
(* Left out: traps, and the operands that are no registers.                *)
(***************************************************************************)
EXTENDS Integers

CONSTANTS
  LastReg,  \* the registers are 0 .. LastReg
  Forms,    \* instructions: kind, a, c, rd (registers) and pair (a Boolean)
  MaxInsts  \* bound: how many come out of DEC

Reg == 0 .. LastReg

\* At most 32 registers; only format conversions and SIMD operations are paired.
ASSUME BackEndAssumption ==
  /\ LastReg \in 0 .. 31
  /\ Forms \subseteq [kind : {"alu", "load", "store", "div", "branch", "fmt", "simd", "csr",
                              "csrw"},
                      a : Reg, c : Reg, rd : Reg, pair : BOOLEAN]
  /\ \A f \in Forms : f.pair => f.kind \in {"fmt", "simd"}

\* kind: "alu", "load", "store", "div", "branch"; "fmt", done in EXE and possibly
\* paired; "simd", multiplications and SIMD arithmetic, done in WBK and possibly
\* paired; "csr" reads minstret, "csrw" reads and writes it.

VARIABLES
  exe, mem, wbk, ret,  \* the instruction in each stage
  op_exe,              \* op_a_exe and op_c_exe
  rs3_mem,
  rf,
  dc_stalled,          \* the data cache has missed and not answered yet
  div_busy, div_issued,
  branch_new,          \* the branch in MEM is there for its first clock
  minstret, inst_retired_d, csr_minstret_wr_skip,
  insts,               \* instructions that came out of DEC
  arch,                \* history: registers after the instructions that left EXE
  late_c,              \* history: what operand c of the one in MEM should be
  counted              \* history: what minstret should be

bvars == <<exe, mem, wbk, ret, op_exe, rs3_mem, rf, dc_stalled, div_busy, div_issued,
           branch_new, minstret, inst_retired_d, csr_minstret_wr_skip, insts, arch,
           late_c, counted>>

NoInst == [kind |-> "none", a |-> 0, c |-> 0, rd |-> 0, pair |-> FALSE, n |-> 0]
Unknown == -100
Result(i) == 2 * i.n
ResultP(i) == 2 * i.n + 1

-----------------------------------------------------------------------------
(* Forwarding.                                                              *)

OnRd(i, r) == r # 0 /\ i.rd # 0 /\ r = i.rd
OnRdp(i, r) == r # 0 /\ i.rd # 0 /\ i.pair /\ r = (i.rd + 1) % 32
On(i, r) == OnRd(i, r) \/ OnRdp(i, r)

e_writeback_mem == IF mem.kind \in {"load", "simd"} THEN Unknown ELSE Result(mem)
e_writeback_p_mem == IF mem.kind = "fmt" THEN ResultP(mem) ELSE Unknown
\* A load that is not answered yet gives nothing.
writeback == IF wbk.kind = "load" /\ dc_stalled THEN Unknown ELSE Result(wbk)
writeback_p == ResultP(wbk)

FromMem(r) == IF OnRdp(mem, r) THEN e_writeback_p_mem ELSE e_writeback_mem
FromWbk(r) == IF OnRdp(wbk, r) THEN writeback_p ELSE writeback

op_dec(r) == IF On(wbk, r) THEN FromWbk(r) ELSE rf[r]

op_r(r, saved) ==
  IF On(mem, r) THEN FromMem(r) ELSE IF On(wbk, r) THEN FromWbk(r) ELSE saved
op_a_r == op_r(exe.a, op_exe.a)
op_c_r_exe == op_r(exe.c, op_exe.c)
op_c_r_mem == IF On(wbk, mem.c) THEN FromWbk(mem.c) ELSE rs3_mem

hazard_from_mem ==
  /\ mem.kind \in {"load", "simd"}
  /\ On(mem, exe.a) \/ (On(mem, exe.c) /\ exe.kind # "simd")
hazard_from_wbk ==
  /\ wbk.kind = "load" /\ dc_stalled
  /\ On(wbk, exe.a) \/ On(wbk, exe.c)
hazard_to_exe == hazard_from_mem \/ hazard_from_wbk

-----------------------------------------------------------------------------
(* Stalls.  "wrong" says that the branch in MEM was mispredicted.           *)

div_start == exe.kind = "div" /\ ~div_issued /\ ~div_busy /\ ~hazard_to_exe
div_stalled(wrong) == (div_start \/ div_busy) /\ ~wrong

csr_drain_done == mem = NoInst /\ wbk = NoInst /\ ret = NoInst /\ ~inst_retired_d
csr_stalled(wrong) == exe.kind \in {"csr", "csrw"} /\ ~wrong /\ ~csr_drain_done

ctrl_dec_exe_en(wrong) ==
  ~dc_stalled /\ ~hazard_to_exe /\ ~div_stalled(wrong) /\ ~csr_stalled(wrong)
Leaves(wrong) == ctrl_dec_exe_en(wrong) /\ ~wrong

-----------------------------------------------------------------------------
(* The edges of one clock.                                                  *)

BackEndInit ==
  /\ exe = NoInst /\ mem = NoInst /\ wbk = NoInst /\ ret = NoInst
  /\ op_exe = [a |-> 0, c |-> 0] /\ rs3_mem = 0
  /\ rf = [r \in Reg |-> -r] /\ arch = rf
  /\ dc_stalled = FALSE /\ div_busy = FALSE /\ div_issued = FALSE /\ branch_new = FALSE
  /\ minstret = 0 /\ inst_retired_d = FALSE /\ csr_minstret_wr_skip = FALSE
  /\ insts = 0 /\ late_c = 0 /\ counted = 0

\* What DEC holds in a clock: an instruction, or nothing it can pass on.
InDec ==
  {NoInst} \union
  (IF insts < MaxInsts
     THEN {[kind |-> f.kind, a |-> f.a, c |-> f.c, rd |-> f.rd, pair |-> f.pair,
            n |-> insts + 1] : f \in Forms}
     ELSE {})

\* Fault: what was forwarded is not saved.
SavedOperandsKept == op_exe

\* The operands of an instruction that stays in EXE are saved as they are resolved.
SavedOperands == [a |-> op_a_r, c |-> op_c_r_exe]

ExeEdge(wrong) ==
  \/ /\ wrong
     /\ exe' = NoInst /\ op_exe' = [a |-> 0, c |-> 0] /\ UNCHANGED insts
  \/ /\ ~wrong /\ ~ctrl_dec_exe_en(wrong)
     /\ op_exe' = SavedOperands /\ UNCHANGED <<exe, insts>>
  \/ /\ ~wrong /\ ctrl_dec_exe_en(wrong)
     /\ exe' \in InDec
     /\ op_exe' = [a |-> op_dec(exe'.a), c |-> op_dec(exe'.c)]
     /\ insts' = IF exe' = NoInst THEN insts ELSE exe'.n

\* The unit takes any number of clocks; a misprediction stops it.
DivEdge(wrong) ==
  /\ div_busy' \in (IF wrong THEN {FALSE}
                    ELSE IF div_start \/ div_busy THEN BOOLEAN ELSE {FALSE})
  /\ div_issued' = (~Leaves(wrong) /\ (div_start \/ div_issued))

StageEdge(wrong) ==
  IF dc_stalled
    THEN UNCHANGED <<mem, rs3_mem, wbk>> /\ ret' = NoInst /\ branch_new' = FALSE
    ELSE /\ mem' = IF Leaves(wrong) THEN exe ELSE NoInst
         /\ rs3_mem' = IF Leaves(wrong) THEN op_c_r_exe ELSE 0
         /\ wbk' = mem /\ ret' = wbk
         /\ branch_new' = (mem'.kind = "branch")

\* A request that leaves MEM hits or misses; a miss is answered some clocks later.
CacheEdge ==
  dc_stalled' \in (IF dc_stalled \/ mem.kind \in {"load", "store"} THEN BOOLEAN
                                                                   ELSE {FALSE})

RegFileEdge ==
  rf' = [r \in Reg |-> IF On(wbk, r) THEN FromWbk(r) ELSE rf[r]]

csr_minstret_wr(wrong) == exe.kind = "csrw" /\ Leaves(wrong)

\* Fault: the instruction that writes the counter is counted.
csr_minstret_inc_always == inst_retired_d
csr_minstret_inc == inst_retired_d /\ ~csr_minstret_wr_skip

\* The value written is 0.
MinstretEdge(wrong) ==
  /\ minstret' = IF csr_minstret_wr(wrong) THEN 0
                 ELSE IF csr_minstret_inc THEN minstret + 1 ELSE minstret
  /\ inst_retired_d' = (ret # NoInst)
  /\ csr_minstret_wr_skip' = (ret.kind = "csrw")

History(wrong) ==
  IF Leaves(wrong) /\ exe # NoInst
    THEN /\ arch' = [r \in Reg |-> IF OnRd(exe, r) THEN Result(exe)
                                   ELSE IF exe.pair /\ exe.rd # 0 /\ r = exe.rd + 1
                                          THEN ResultP(exe) ELSE arch[r]]
         /\ late_c' = arch[exe.c]
         /\ counted' = IF exe.kind = "csrw" THEN 0 ELSE counted + 1
    ELSE UNCHANGED <<arch, late_c, counted>>

BackEndClock ==
  \E wrong \in (IF branch_new THEN BOOLEAN ELSE {FALSE}) :
    /\ ExeEdge(wrong) /\ DivEdge(wrong) /\ StageEdge(wrong) /\ CacheEdge /\ RegFileEdge
    /\ MinstretEdge(wrong) /\ History(wrong)

BackEndSpec == BackEndInit /\ [][BackEndClock]_bvars

-----------------------------------------------------------------------------
\* operand_forwarding.sv: an instruction that leaves EXE, a division when it
\* starts and a dot product in MEM have, for each operand, the result of the
\* youngest older instruction that writes the register, whatever stalled between
\* them, in whichever stage the result is and in whichever half of a pair.
OperandsAreLatest ==
  /\ exe # NoInst /\ (Leaves(FALSE) \/ div_start) =>
       /\ op_a_r = arch[exe.a]
       /\ exe.kind # "simd" => op_c_r_exe = arch[exe.c]
  /\ mem.kind = "simd" /\ ~dc_stalled => op_c_r_mem = late_c

\* csr.sv:235-249, core.sv:699-709: an instruction that reads minstret finds the
\* number of instructions that retired since it was last written, the one that
\* wrote it not among them.
MinstretCounts ==
  exe.kind \in {"csr", "csrw"} /\ Leaves(FALSE) => minstret = counted

=============================================================================

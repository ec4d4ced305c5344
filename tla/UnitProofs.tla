----------------------------- MODULE UnitProofs -----------------------------
(***************************************************************************)
(* Theorems about BackEnd, for every number of registers up to 32, every   *)
(* set of instructions and programs of any length; about Uart, for         *)
(* characters of any length and any number of bytes; about Clint, for      *)
(* registers of any width and any number of sequences; and about Divider,  *)
(* for words of any width.                                                 *)
(***************************************************************************)
EXTENDS BackEnd, Divider, Uart, Clint, FiniteSetTheorems, FunctionTheorems, TLAPS

-----------------------------------------------------------------------------
(* BackEnd: minstret.                                                                *)

\* What an instruction below EXE will still add to the counter.
Due(i) == IF i # NoInst /\ i.kind # "csrw" THEN 1 ELSE 0
DueNow == IF csr_minstret_inc THEN 1 ELSE 0

\* The counter and what is on its way to it add up to the instructions that left
\* EXE since the counter was written.
CountInv ==
  /\ minstret \in Nat /\ inst_retired_d \in BOOLEAN /\ csr_minstret_wr_skip \in BOOLEAN
  /\ counted = minstret + DueNow + Due(ret) + Due(wbk) + Due(mem)

LEMMA CountInit == BackEndInit => CountInv
<1> SUFFICES ASSUME BackEndInit PROVE CountInv
  OBVIOUS
<1>1. Due(ret) = 0 /\ Due(wbk) = 0 /\ Due(mem) = 0
  BY DEF BackEndInit, Due
<1>2. minstret = 0 /\ counted = 0
  BY DEF BackEndInit
<1>3. inst_retired_d = FALSE /\ csr_minstret_wr_skip = FALSE
  BY DEF BackEndInit
<1>4. DueNow = 0
  BY <1>3 DEF DueNow, csr_minstret_inc
<1>5. counted = minstret + DueNow + Due(ret) + Due(wbk) + Due(mem)
  BY <1>1, <1>2, <1>4
<1> QED
  BY <1>2, <1>3, <1>5 DEF CountInv

LEMMA DueType == ASSUME NEW i PROVE Due(i) \in Nat
  BY DEF Due

\* What retires is counted one clock later.
LEMMA DueNext ==
  ASSUME NEW wrong, MinstretEdge(wrong)
  PROVE  DueNow' = Due(ret) /\ inst_retired_d' \in BOOLEAN /\ csr_minstret_wr_skip' \in BOOLEAN
  BY DEF MinstretEdge, DueNow, Due, csr_minstret_inc, NoInst

\* An instruction that leaves EXE is due from then on, unless it writes the counter.
LEMMA DueMoves ==
  ASSUME NEW wrong \in BOOLEAN, StageEdge(wrong), CountInv
  PROVE  /\ Leaves(wrong) => /\ Due(mem)' = Due(exe) /\ Due(wbk)' = Due(mem)
                             /\ Due(ret)' = Due(wbk)
         /\ ~Leaves(wrong) => Due(ret)' + Due(wbk)' + Due(mem)' = Due(wbk) + Due(mem)
<1>1. CASE dc_stalled
  <2>1. ~Leaves(wrong)
    BY <1>1 DEF Leaves, ctrl_dec_exe_en
  <2>2. Due(ret)' = 0 /\ Due(wbk)' = Due(wbk) /\ Due(mem)' = Due(mem)
    BY <1>1 DEF StageEdge, Due, NoInst
  <2> QED
    BY <2>1, <2>2, DueType
<1>2. CASE ~dc_stalled
  <2>1. Due(wbk)' = Due(mem) /\ Due(ret)' = Due(wbk)
    BY <1>2 DEF StageEdge, Due
  <2>2. Leaves(wrong) => Due(mem)' = Due(exe)
    BY <1>2 DEF StageEdge, Due
  <2>3. ~Leaves(wrong) => Due(mem)' = 0
    BY <1>2 DEF StageEdge, Due, NoInst
  <2> QED
    BY <2>1, <2>2, <2>3, DueType
<1> QED
  BY <1>1, <1>2

\* The counter is written and read when the stages below EXE are empty.
LEMMA DrainedIsCounted ==
  ASSUME CountInv, csr_drain_done
  PROVE  minstret = counted /\ DueNow = 0 /\ Due(ret) = 0 /\ Due(wbk) = 0 /\ Due(mem) = 0
  BY DEF CountInv, csr_drain_done, Due, DueNow, csr_minstret_inc, NoInst

LEMMA CountStep ==
  ASSUME CountInv, BackEndClock PROVE CountInv'
<1> PICK wrong \in BOOLEAN : StageEdge(wrong) /\ MinstretEdge(wrong) /\ History(wrong)
  BY DEF BackEndClock
<1> USE DueType, DueNext, DueMoves
<1>1. DueNow \in Nat /\ minstret \in Nat
  BY DEF DueNow, CountInv
<1>2. CASE csr_minstret_wr(wrong)
  <2>1. csr_drain_done /\ Leaves(wrong) /\ exe.kind = "csrw" /\ exe # NoInst
    BY <1>2 DEF csr_minstret_wr, Leaves, ctrl_dec_exe_en, csr_stalled, NoInst
  <2>2. Due(ret) = 0 /\ Due(wbk) = 0 /\ Due(mem) = 0 /\ Due(exe) = 0
    BY <2>1, DrainedIsCounted DEF Due
  <2>3. minstret' = 0 /\ counted' = 0
    BY <1>2, <2>1 DEF MinstretEdge, History
  <2> QED
    BY <2>1, <2>2, <2>3 DEF CountInv
<1>3. CASE ~csr_minstret_wr(wrong)
  <2>1. minstret' = minstret + DueNow
    BY <1>1, <1>3 DEF MinstretEdge, DueNow
  <2>2. counted' = IF Leaves(wrong) THEN counted + Due(exe) ELSE counted
    BY <1>1, <1>3 DEF History, csr_minstret_wr, Due, CountInv
  <2>3. CASE Leaves(wrong)
    <3>1. /\ Due(mem)' = Due(exe) /\ Due(wbk)' = Due(mem) /\ Due(ret)' = Due(wbk)
          /\ DueNow' = Due(ret)
      BY <2>3
    <3> QED
      BY <1>1, <2>1, <2>2, <2>3, <3>1 DEF CountInv
  <2>4. CASE ~Leaves(wrong)
    <3>1. Due(ret)' + Due(wbk)' + Due(mem)' = Due(wbk) + Due(mem) /\ DueNow' = Due(ret)
      BY <2>4
    <3>2. Due(ret)' \in Nat /\ Due(wbk)' \in Nat /\ Due(mem)' \in Nat
      BY DEF Due
    <3> QED
      BY <1>1, <2>1, <2>2, <2>4, <3>1, <3>2 DEF CountInv
  <2> QED
    BY <2>3, <2>4
<1> QED
  BY <1>2, <1>3

LEMMA CountGives == CountInv => MinstretCounts
<1> SUFFICES ASSUME CountInv, exe.kind \in {"csr", "csrw"}, Leaves(FALSE)
             PROVE  minstret = counted
  BY DEF MinstretCounts
<1>1. csr_drain_done
  BY DEF Leaves, ctrl_dec_exe_en, csr_stalled
<1> QED
  BY <1>1, DrainedIsCounted

\* An instruction that reads minstret finds the number of instructions retired
\* since it was last written, the writer not among them (csr.sv:235-249 and
\* core.sv:699-709), for every program and however long the stages are held.
THEOREM MinstretIsExact == BackEndSpec => []MinstretCounts
<1>1. CountInv /\ [BackEndClock]_bvars => CountInv'
  BY CountStep DEF bvars, CountInv, Due, DueNow, csr_minstret_inc
<1> QED
  BY <1>1, CountInit, CountGives, PTL DEF BackEndSpec

-----------------------------------------------------------------------------
(* Operands.                                                                *)

Fields == [kind : {"none", "alu", "load", "store", "div", "branch", "fmt", "simd", "csr",
                   "csrw"},
           a : Reg, c : Reg, rd : Reg, pair : BOOLEAN, n : Nat]

\* Only format conversions and SIMD operations write two registers.
Paired(i) == i.pair => i.kind \in {"fmt", "simd"}

OperandTypes ==
  /\ insts \in Nat
  /\ exe \in Fields /\ mem \in Fields /\ wbk \in Fields
  /\ Paired(exe) /\ Paired(mem) /\ Paired(wbk)
  /\ rf \in [Reg -> Int] /\ arch \in [Reg -> Int]

\* What instruction i will have written to register r.
WrittenTo(i, r) == IF OnRdp(i, r) THEN ResultP(i) ELSE Result(i)

\* Register r after the instructions in WBK and MEM.
AfterWbk(r) == IF On(wbk, r) THEN WrittenTo(wbk, r) ELSE rf[r]
AfterMem(r) == IF On(mem, r) THEN WrittenTo(mem, r) ELSE AfterWbk(r)

\* A saved operand is only right when no instruction below will give it.
SavedRight(r, saved) == ~On(mem, r) /\ ~On(wbk, r) => saved = arch[r]

OperandInv ==
  /\ \A r \in Reg : arch[r] = AfterMem(r)
  /\ exe # NoInst => SavedRight(exe.a, op_exe.a) /\ SavedRight(exe.c, op_exe.c)
  /\ mem.kind = "simd" =>
       late_c = IF On(wbk, mem.c) THEN WrittenTo(wbk, mem.c) ELSE rs3_mem

LEMMA NoInstType == NoInst \in Fields /\ Paired(NoInst)
  BY BackEndAssumption DEF NoInst, Fields, Paired, Reg

LEMMA NoInstWrites == ASSUME NEW r PROVE ~On(NoInst, r)
  BY DEF NoInst, On, OnRd, OnRdp

LEMMA InDecType ==
  ASSUME NEW i \in InDec, insts \in Nat PROVE i \in Fields /\ Paired(i)
<1>1. CASE i = NoInst
  BY <1>1, NoInstType
<1>2. CASE i # NoInst
  <2>1. PICK f \in Forms :
          i = [kind |-> f.kind, a |-> f.a, c |-> f.c, rd |-> f.rd, pair |-> f.pair,
               n |-> insts + 1]
    BY <1>2 DEF InDec
  <2> QED
    BY <2>1, BackEndAssumption DEF Fields, Paired
<1> QED
  BY <1>1, <1>2

\* The two registers of a pair are different.
LEMMA HalvesDiffer ==
  ASSUME NEW i \in Fields, NEW r \in Reg, OnRdp(i, r) PROVE ~OnRd(i, r)
  BY BackEndAssumption DEF OnRd, OnRdp, Fields, Reg

\* What WBK forwards and writes to the register file once the data cache answers.
LEMMA WbkGives ==
  ASSUME NEW r, wbk.kind = "load" => ~dc_stalled
  PROVE  FromWbk(r) = WrittenTo(wbk, r)
  BY DEF FromWbk, writeback, writeback_p, WrittenTo

\* What MEM forwards, when it has a result.
LEMMA MemGives ==
  ASSUME NEW r, OperandTypes, mem.kind \notin {"load", "simd"}, On(mem, r)
  PROVE  FromMem(r) = WrittenTo(mem, r)
<1>1. OnRdp(mem, r) => mem.kind = "fmt"
  BY DEF OperandTypes, Paired, OnRdp
<1> QED
  BY <1>1 DEF FromMem, e_writeback_mem, e_writeback_p_mem, WrittenTo

\* An operand resolved in EXE is right unless a hazard holds it there.
LEMMA ResolvedRight ==
  ASSUME OperandTypes, NEW r \in Reg, NEW saved, arch[r] = AfterMem(r),
         SavedRight(r, saved),
         On(mem, r) => mem.kind \notin {"load", "simd"},
         On(wbk, r) /\ wbk.kind = "load" => ~dc_stalled
  PROVE  op_r(r, saved) = arch[r]
<1>1. CASE On(mem, r)
  BY <1>1, MemGives DEF op_r, AfterMem
<1>2. CASE ~On(mem, r) /\ On(wbk, r)
  BY <1>2, WbkGives DEF op_r, AfterMem, AfterWbk
<1>3. CASE ~On(mem, r) /\ ~On(wbk, r)
  BY <1>3 DEF op_r, SavedRight
<1> QED
  BY <1>1, <1>2, <1>3

\* An operand read in DEC, or resolved in EXE, in a clock in which MEM and WBK move.
LEMMA ReadRight ==
  ASSUME NEW r \in Reg, ~dc_stalled, arch[r] = AfterMem(r), ~On(mem, r)
  PROVE  op_dec(r) = arch[r]
  BY WbkGives DEF op_dec, AfterMem, AfterWbk

LEMMA SavedStillRight ==
  ASSUME NEW r \in Reg, NEW saved, SavedRight(r, saved), arch[r] = AfterMem(r),
         ~dc_stalled \/ ~On(wbk, r), ~On(mem, r)
  PROVE  op_r(r, saved) = arch[r]
<1>1. CASE On(wbk, r)
  BY <1>1, WbkGives DEF op_r, AfterMem, AfterWbk
<1>2. CASE ~On(wbk, r)
  BY <1>2 DEF op_r, SavedRight
<1> QED
  BY <1>1, <1>2

LEMMA OperandsGive == OperandTypes /\ OperandInv => OperandsAreLatest
<1> SUFFICES ASSUME OperandTypes, OperandInv PROVE OperandsAreLatest
  OBVIOUS
<1>1. ASSUME exe # NoInst, Leaves(FALSE) \/ div_start
      PROVE  op_a_r = arch[exe.a] /\ (exe.kind # "simd" => op_c_r_exe = arch[exe.c])
  <2>1. ~hazard_to_exe
    BY <1>1 DEF Leaves, ctrl_dec_exe_en, div_start
  <2>2. exe.a \in Reg /\ exe.c \in Reg
    BY DEF OperandTypes, Fields
  <2>3. op_a_r = arch[exe.a]
    BY <1>1, <2>1, <2>2, ResolvedRight
       DEF OperandInv, op_a_r, hazard_to_exe, hazard_from_mem, hazard_from_wbk
  <2>4. exe.kind # "simd" => op_c_r_exe = arch[exe.c]
    BY <1>1, <2>1, <2>2, ResolvedRight
       DEF OperandInv, op_c_r_exe, hazard_to_exe, hazard_from_mem, hazard_from_wbk
  <2> QED
    BY <2>3, <2>4
<1>2. mem.kind = "simd" /\ ~dc_stalled => op_c_r_mem = late_c
  BY WbkGives DEF OperandInv, op_c_r_mem
<1> QED
  BY <1>1, <1>2 DEF OperandsAreLatest

-----------------------------------------------------------------------------
(* One clock.                                                               *)

LEMMA OperandInit == BackEndInit => OperandTypes /\ OperandInv
<1> SUFFICES ASSUME BackEndInit PROVE OperandTypes /\ OperandInv
  OBVIOUS
<1>1. exe = NoInst /\ mem = NoInst /\ wbk = NoInst /\ insts = 0
  BY DEF BackEndInit
<1>2. rf \in [Reg -> Int] /\ arch = rf
  BY BackEndAssumption DEF BackEndInit, Reg
<1>3. \A r \in Reg : ~On(mem, r) /\ ~On(wbk, r)
  BY <1>1, NoInstWrites
<1>4. \A r \in Reg : arch[r] = AfterMem(r)
  BY <1>2, <1>3 DEF AfterMem, AfterWbk
<1>5. mem.kind # "simd"
  BY <1>1 DEF NoInst
<1> QED
  BY <1>1, <1>2, <1>4, <1>5, NoInstType DEF OperandTypes, OperandInv

\* The edges that move instructions and their results.
Edges(wrong) ==
  /\ ExeEdge(wrong) /\ StageEdge(wrong) /\ RegFileEdge /\ History(wrong)

LEMMA ClockEdges == BackEndClock => \E wrong \in BOOLEAN : Edges(wrong)
  BY DEF BackEndClock, Edges

LEMMA OnlyUnstalledLeave == ASSUME NEW wrong, Leaves(wrong) PROVE ~dc_stalled /\ ~wrong
  BY DEF Leaves, ctrl_dec_exe_en

LEMMA TypesStep ==
  ASSUME OperandTypes, NEW wrong \in BOOLEAN, Edges(wrong) PROVE OperandTypes'
<1>1. exe' \in Fields /\ Paired(exe') /\ insts' \in Nat
  <2>1. exe' = NoInst \/ exe' = exe \/ exe' \in InDec
    BY DEF Edges, ExeEdge
  <2>2. exe' \in Fields /\ Paired(exe')
    BY <2>1, NoInstType, InDecType DEF OperandTypes
  <2>3. insts' = insts \/ insts' = exe'.n
    BY DEF Edges, ExeEdge
  <2> QED
    BY <2>2, <2>3 DEF OperandTypes, Fields
<1>2. mem' \in Fields /\ Paired(mem') /\ wbk' \in Fields /\ Paired(wbk')
  <2>1. (mem' = mem \/ mem' = exe \/ mem' = NoInst) /\ (wbk' = wbk \/ wbk' = mem)
    BY DEF Edges, StageEdge
  <2> QED
    BY <2>1, NoInstType DEF OperandTypes
<1>3. rf' \in [Reg -> Int]
  <2>1. \A r \in Reg : FromWbk(r) \in Int /\ rf[r] \in Int
    BY DEF FromWbk, writeback, writeback_p, Result, ResultP, Unknown, OperandTypes, Fields
  <2> QED
    BY <2>1 DEF Edges, RegFileEdge
<1>4. arch' \in [Reg -> Int]
  <2>1. Result(exe) \in Int /\ ResultP(exe) \in Int /\ \A r \in Reg : arch[r] \in Int
    BY DEF Result, ResultP, OperandTypes, Fields
  <2>2. CASE Leaves(wrong) /\ exe # NoInst
    BY <2>1, <2>2 DEF Edges, History
  <2>3. CASE ~(Leaves(wrong) /\ exe # NoInst)
    BY <2>3 DEF Edges, History, OperandTypes
  <2> QED
    BY <2>2, <2>3
<1> QED
  BY <1>1, <1>2, <1>3, <1>4 DEF OperandTypes

\* The reference registers change by the instruction that leaves EXE.
LEMMA HistoryEffect ==
  ASSUME OperandTypes, NEW wrong \in BOOLEAN, History(wrong), NEW r \in Reg
  PROVE  arch'[r] = IF Leaves(wrong) /\ On(exe, r) THEN WrittenTo(exe, r) ELSE arch[r]
<1>1. CASE Leaves(wrong) /\ exe # NoInst
  <2>1. arch'[r] = IF OnRd(exe, r) THEN Result(exe)
                   ELSE IF exe.pair /\ exe.rd # 0 /\ r = exe.rd + 1 THEN ResultP(exe)
                   ELSE arch[r]
    BY <1>1 DEF History
  <2>2. exe \in Fields
    BY DEF OperandTypes
  <2>3. OnRdp(exe, r) <=> exe.pair /\ exe.rd # 0 /\ r = exe.rd + 1
    BY <2>2, BackEndAssumption DEF OnRdp, Fields, Reg
  <2> QED
    BY <1>1, <2>1, <2>2, <2>3, HalvesDiffer DEF On, WrittenTo
<1>2. CASE ~(Leaves(wrong) /\ exe # NoInst)
  BY <1>2, NoInstWrites DEF History
<1> QED
  BY <1>1, <1>2

LEMMA ArchStep ==
  ASSUME OperandTypes, OperandInv, NEW wrong \in BOOLEAN, Edges(wrong), NEW r \in Reg
  PROVE  arch'[r] = AfterMem(r)'
<1>1. arch'[r] = IF Leaves(wrong) /\ On(exe, r) THEN WrittenTo(exe, r) ELSE arch[r]
  BY HistoryEffect DEF Edges
<1>2. arch[r] = AfterMem(r)
  BY DEF OperandInv
<1>3. rf'[r] = IF On(wbk, r) THEN FromWbk(r) ELSE rf[r]
  BY DEF Edges, RegFileEdge
<1>4. CASE dc_stalled
  <2>1. ~Leaves(wrong) /\ mem' = mem /\ wbk' = wbk
    BY <1>4, OnlyUnstalledLeave DEF Edges, StageEdge
  <2> QED
    BY <1>1, <1>2, <1>3, <2>1 DEF AfterMem, AfterWbk, On, OnRd, OnRdp, WrittenTo, Result, ResultP
<1>5. CASE ~dc_stalled
  <2>1. wbk' = mem /\ mem' = IF Leaves(wrong) THEN exe ELSE NoInst
    BY <1>5 DEF Edges, StageEdge
  <2>2. rf'[r] = AfterWbk(r)
    BY <1>3, <1>5, WbkGives DEF AfterWbk
  <2>3. AfterWbk(r)' = arch[r]
    BY <1>2, <2>1, <2>2 DEF AfterWbk, AfterMem, On, OnRd, OnRdp, WrittenTo, Result, ResultP
  <2>4. CASE Leaves(wrong)
    BY <1>1, <2>1, <2>3, <2>4 DEF AfterMem, On, OnRd, OnRdp, WrittenTo, Result, ResultP
  <2>5. CASE ~Leaves(wrong)
    BY <1>1, <2>1, <2>3, <2>5, NoInstWrites DEF AfterMem, On, OnRd, OnRdp
  <2> QED
    BY <2>4, <2>5
<1> QED
  BY <1>4, <1>5

\* What EXE holds is read right from DEC, or kept right while it waits.
LEMMA SavedStep ==
  ASSUME OperandTypes, OperandInv, NEW wrong \in BOOLEAN, Edges(wrong), exe' # NoInst
  PROVE  SavedRight(exe.a, op_exe.a)' /\ SavedRight(exe.c, op_exe.c)'
<1>1. CASE ~wrong /\ ~ctrl_dec_exe_en(wrong)
  <2>1. exe' = exe /\ op_exe' = SavedOperands /\ ~Leaves(wrong)
    BY <1>1 DEF Edges, ExeEdge, Leaves
  <2>2. ASSUME NEW r \in Reg, NEW saved, SavedRight(r, saved), ~On(mem', r), ~On(wbk', r)
        PROVE  op_r(r, saved) = arch'[r]
    <3>1. arch'[r] = arch[r] /\ arch[r] = AfterMem(r)
      BY <2>1, HistoryEffect DEF Edges, OperandInv
    <3>2. ~On(mem, r) /\ (~dc_stalled \/ ~On(wbk, r))
      BY <2>2 DEF Edges, StageEdge
    <3> QED
      BY <2>2, <3>1, <3>2, SavedStillRight
  <2>3. exe.a \in Reg /\ exe.c \in Reg /\ exe # NoInst
    BY <2>1 DEF OperandTypes, Fields
  <2> QED
    BY <2>1, <2>2, <2>3
    DEF OperandInv, SavedRight, SavedOperands, op_a_r, op_c_r_exe, On, OnRd, OnRdp
<1>2. CASE ~wrong /\ ctrl_dec_exe_en(wrong)
  <2>1. /\ exe' \in Fields /\ op_exe' = [a |-> op_dec(exe'.a), c |-> op_dec(exe'.c)]
        /\ Leaves(wrong) /\ ~dc_stalled
    BY <1>2, InDecType, OnlyUnstalledLeave DEF Edges, ExeEdge, Leaves, OperandTypes
  <2>2. mem' = exe /\ wbk' = mem
    BY <2>1 DEF Edges, StageEdge
  <2>3. ASSUME NEW r \in Reg, ~On(mem', r), ~On(wbk', r)
        PROVE  op_dec(r) = arch'[r]
    <3>1. arch'[r] = arch[r] /\ arch[r] = AfterMem(r)
      BY <2>2, <2>3, HistoryEffect DEF Edges, OperandInv
    <3> QED
      BY <2>1, <2>2, <2>3, <3>1, ReadRight
  <2>4. exe'.a \in Reg /\ exe'.c \in Reg
    BY <2>1 DEF Fields
  <2> QED
    BY <2>1, <2>3, <2>4 DEF SavedRight, On, OnRd, OnRdp
<1>3. CASE wrong
  BY <1>3 DEF Edges, ExeEdge
<1> QED
  BY <1>1, <1>2, <1>3

\* A dot product takes its third operand along, or meets it in WBK.
LEMMA LateStep ==
  ASSUME OperandTypes, OperandInv, NEW wrong \in BOOLEAN, Edges(wrong), mem'.kind = "simd"
  PROVE  late_c' = IF On(wbk', mem'.c) THEN WrittenTo(wbk', mem'.c) ELSE rs3_mem'
<1>1. CASE dc_stalled
  <2>1. mem' = mem /\ wbk' = wbk /\ rs3_mem' = rs3_mem /\ late_c' = late_c
    BY <1>1, OnlyUnstalledLeave DEF Edges, StageEdge, History
  <2> QED
    BY <2>1 DEF OperandInv
<1>2. CASE ~dc_stalled
  <2>1. /\ Leaves(wrong) /\ exe # NoInst
        /\ mem' = exe /\ wbk' = mem /\ rs3_mem' = op_c_r_exe
    BY <1>2 DEF Edges, StageEdge, NoInst
  <2>2. late_c' = arch[exe.c] /\ arch[exe.c] = AfterMem(exe.c) /\ exe.c \in Reg
    BY <2>1 DEF Edges, History, OperandInv, OperandTypes, Fields
  <2>3. CASE On(mem, exe.c)
    BY <2>1, <2>2, <2>3 DEF AfterMem
  <2>4. CASE ~On(mem, exe.c)
    BY <1>2, <2>1, <2>2, <2>4, SavedStillRight DEF OperandInv, op_c_r_exe
  <2> QED
    BY <2>3, <2>4
<1> QED
  BY <1>1, <1>2

LEMMA OperandStep ==
  ASSUME OperandTypes, OperandInv, BackEndClock PROVE OperandTypes' /\ OperandInv'
<1> PICK wrong \in BOOLEAN : Edges(wrong)
  BY ClockEdges
<1>1. OperandTypes'
  BY TypesStep
<1>2. \A r \in Reg : arch'[r] = AfterMem(r)'
  BY ArchStep
<1>3. exe' # NoInst => SavedRight(exe.a, op_exe.a)' /\ SavedRight(exe.c, op_exe.c)'
  BY SavedStep
<1>4. mem'.kind = "simd" =>
        late_c' = IF On(wbk', mem'.c) THEN WrittenTo(wbk', mem'.c) ELSE rs3_mem'
  BY LateStep
<1> QED
  BY <1>1, <1>2, <1>3, <1>4 DEF OperandInv

\* Every operand is the result of the youngest older instruction that writes its
\* register (ama_riscv_operand_forwarding.sv), for every number of registers and
\* every sequence of instructions, stalls and mispredictions.
THEOREM OperandsAreRight == BackEndSpec => []OperandsAreLatest
<1>1. OperandTypes /\ OperandInv /\ [BackEndClock]_bvars => OperandTypes' /\ OperandInv'
  <2> SUFFICES ASSUME OperandTypes, OperandInv, [BackEndClock]_bvars
               PROVE  OperandTypes' /\ OperandInv'
    OBVIOUS
  <2>1. CASE BackEndClock
    BY <2>1, OperandStep
  <2>2. CASE UNCHANGED bvars
    BY <2>2 DEF bvars, OperandTypes, OperandInv, AfterMem, AfterWbk, On, OnRd, OnRdp,
                WrittenTo, Result, ResultP, SavedRight, Paired
  <2> QED
    BY <2>1, <2>2
<1> QED
  BY <1>1, OperandInit, OperandsGive, PTL DEF BackEndSpec

-----------------------------------------------------------------------------
(* Uart: the sequences of bytes.                                            *)

LEMMA AppendFacts ==
  ASSUME NEW s \in Seq(Nat), NEW e \in Nat
  PROVE  /\ Append(s, e) \in Seq(Nat) /\ Len(Append(s, e)) = Len(s) + 1
         /\ Len(s) \in Nat /\ DOMAIN s = 1 .. Len(s)
         /\ DOMAIN Append(s, e) = 1 .. Len(s) + 1
         /\ \A n \in 1 .. Len(s) : Append(s, e)[n] = s[n]
         /\ Append(s, e)[Len(s) + 1] = e
  OBVIOUS

LEMMA PrefixOfAppend ==
  ASSUME NEW s \in Seq(Nat), NEW e \in Nat
  PROVE  IsPrefix(s, s) /\ IsPrefix(s, Append(s, e))
<1>1. Len(s) \in Nat /\ Len(Append(s, e)) = Len(s) + 1
  OBVIOUS
<1>2. SubSeq(s, 1, Len(s)) = SubSeq(Append(s, e), 1, Len(s))
  OBVIOUS
<1> QED
  BY <1>1, <1>2 DEF IsPrefix

LEMMA ToSetOfAppend ==
  ASSUME NEW s \in Seq(Nat), NEW e \in Nat, NEW b
  PROVE  b \in ToSet(Append(s, e)) <=> b \in ToSet(s) \/ b = e
<1>1. \A x : x \in ToSet(s) <=> \E n \in 1 .. Len(s) : x = s[n]
  BY AppendFacts DEF ToSet
<1>2. \A x : x \in ToSet(Append(s, e)) <=> \E n \in 1 .. Len(s) + 1 : x = Append(s, e)[n]
  BY AppendFacts DEF ToSet
<1> QED
  BY <1>1, <1>2, AppendFacts

-----------------------------------------------------------------------------
(* Uart: what comes to MEM.                                                 *)

\* The access in MEM is held there.
Stays ==
  /\ uart_mem.hold # 0
  /\ uart_mem'.op = uart_mem.op /\ uart_mem'.hold = uart_mem.hold - 1
  /\ uart_wbk' = "none" /\ allowed' = AllowedNow
  /\ written_tx' = written_tx /\ meant' = meant

\* It goes to WBK and another one comes.
Moves(op, hold) ==
  /\ uart_mem.hold = 0
  /\ uart_mem'.op = op /\ uart_mem'.hold = hold /\ hold \in 0 .. MaxHold
  /\ op \in {"none"} \cup AllowedNow \cup (IF MayPoll THEN {"poll"} ELSE {})
  /\ uart_wbk' = uart_mem.op
  /\ allowed' = IF op = "poll" THEN {} ELSE AllowedNow \ {op}
  /\ written_tx' = IF op = "tx" THEN Append(written_tx, Len(written_tx) + 1)
                                ELSE written_tx
  /\ meant' = IF op = "rx" THEN recv_rsp.data' ELSE 0

LEMMA SoftwareEffect ==
  ASSUME UartTypeOK, Software
  PROVE  /\ uart_mem' \in [op : {"none", "poll", "rx", "tx"}, hold : Nat]
         /\ \/ Stays
            \/ \E op \in {"none", "poll", "rx", "tx"}, hold \in 0 .. MaxHold : Moves(op, hold)
<1>1. /\ uart_mem \in [op : {"none", "poll", "rx", "tx"}, hold : Nat]
  BY DEF UartTypeOK
<1>2. CASE uart_mem.hold > 0
  <2>1. /\ uart_mem' = [uart_mem EXCEPT !.hold = @ - 1]
        /\ allowed' = AllowedNow /\ UNCHANGED <<written_tx, meant>> /\ uart_wbk' = "none"
    BY <1>1, <1>2 DEF Software
  <2> QED
    BY <1>1, <1>2, <2>1 DEF Stays
<1>3. CASE ~(uart_mem.hold > 0)
  <2>1. uart_mem.hold = 0
    BY <1>1, <1>3
  <2>2. PICK op \in {"none", "poll", "rx", "tx"}, hold \in 0 .. MaxHold :
          /\ NextAccess(op, hold)
          /\ uart_mem' = [op |-> op, hold |-> hold]
          /\ allowed' = IF op = "poll" THEN {} ELSE AllowedNow \ {op}
          /\ written_tx' = IF op = "tx" THEN Append(written_tx, Len(written_tx) + 1)
                                        ELSE written_tx
          /\ meant' = IF op = "rx" THEN recv_rsp.data' ELSE 0
    BY <1>3 DEF Software
  <2>3. uart_wbk' = uart_mem.op
    BY <2>1 DEF Software
  <2>4. Moves(op, hold)
    BY <2>1, <2>2, <2>3 DEF Moves, NextAccess
  <2>5. hold \in Nat
    BY UartAssumption
  <2> QED
    BY <2>2, <2>4, <2>5
<1> QED
  BY <1>2, <1>3

\* Software does not poll at once after an access.
LEMMA PollWaits ==
  ASSUME UartTypeOK, Software, uart_mem'.op = "poll"
  PROVE  /\ uart_mem.op \in {"none", "poll"}
         /\ uart_mem.op = "poll" \/ since.rx # 0
<1>1. CASE Stays
  BY <1>1 DEF Stays
<1>2. CASE \E op \in {"none", "poll", "rx", "tx"}, hold \in 0 .. MaxHold : Moves(op, hold)
  <2>1. PICK op \in {"none", "poll", "rx", "tx"}, hold \in 0 .. MaxHold : Moves(op, hold)
    BY <1>2
  <2>2. op = "poll"
    BY <2>1 DEF Moves
  <2>3. AllowedNow \subseteq {"rx", "tx"}
    BY DEF AllowedNow, UartTypeOK
  <2>4. MayPoll
    BY <2>1, <2>2, <2>3 DEF Moves
  <2>5. Since("rx", RxSettle) >= RxSettle /\ Since("tx", TxSettle) >= TxSettle
    BY <2>4 DEF MayPoll
  <2>6. uart_mem.op # "rx" /\ uart_mem.op # "tx"
    BY <2>5, UartAssumption DEF Since
  <2>7. since.rx # 0
    BY <2>5, <2>6, UartAssumption DEF Since
  <2> QED
    BY <2>6, <2>7 DEF UartTypeOK
<1> QED
  BY <1>1, <1>2, SoftwareEffect

\* An access follows a poll that allows it, and takes the permission with it.
LEMMA AccessFollowsPoll ==
  ASSUME UartTypeOK, Software, Read, PollFirst,
         uart_mem.op \notin AllowedNow
  PROVE  /\ PollFirst'
         /\ uart_mem'.op \in {"rx", "tx"} =>
              uart_mem'.op \in AllowedNow \/ (Stays /\ uart_mem'.op = uart_mem.op)
         /\ uart_mem'.op \notin AllowedNow'
         /\ "tx" \in AllowedNow' => \/ "tx" \in AllowedNow
                                    \/ uart_mem.op = "poll" /\ uart_rv_ctrl.tx_ready
         /\ "rx" \in AllowedNow' => \/ "rx" \in AllowedNow
                                    \/ uart_mem.op = "poll" /\ uart_rv_ctrl.rx_valid
<1>1. AllowedNow \subseteq {"rx", "tx"}
  BY DEF AllowedNow, UartTypeOK
<1>2. uart_mem.op = "poll" => AllowedNow = {}
  BY DEF PollFirst, AllowedNow
<1>3. CASE Stays
  <2>1. AllowedNow' = AllowedNow
    BY <1>3 DEF Stays, AllowedNow
  <2>2. PollFirst'
    BY <1>2, <1>3 DEF Stays, PollFirst
  <2> QED
    BY <1>3, <2>1, <2>2 DEF Stays
<1>4. ASSUME NEW op \in {"none", "poll", "rx", "tx"}, NEW hold \in 0 .. MaxHold,
             Moves(op, hold)
      PROVE  /\ PollFirst'
             /\ op \in {"rx", "tx"} => op \in AllowedNow
             /\ op \notin AllowedNow'
             /\ "tx" \in AllowedNow' => \/ "tx" \in AllowedNow
                                        \/ uart_mem.op = "poll" /\ uart_rv_ctrl.tx_ready
             /\ "rx" \in AllowedNow' => \/ "rx" \in AllowedNow
                                        \/ uart_mem.op = "poll" /\ uart_rv_ctrl.rx_valid
  <2>1. op \in {"rx", "tx"} => op \in AllowedNow
    BY <1>4 DEF Moves
  <2>2. op = "poll" => uart_mem.op # "poll"
    BY <1>1, <1>4 DEF Moves, MayPoll
  <2>3. PollFirst'
    BY <1>4, <2>2 DEF Moves, PollFirst
  <2>4. CASE uart_mem.op = "poll"
    <3>1. recv' = uart_rv_ctrl /\ uart_wbk' = "poll"
      BY <1>4, <2>4 DEF Read, Moves
    <3>2. op = "none"
      BY <1>2, <2>1, <2>2, <2>4
    <3>3. AllowedNow' = (IF uart_rv_ctrl.rx_valid THEN {"rx"} ELSE {})
                          \cup (IF uart_rv_ctrl.tx_ready THEN {"tx"} ELSE {})
      BY <3>1 DEF AllowedNow
    <3> QED
      BY <2>3, <2>4, <3>2, <3>3
  <2>5. CASE uart_mem.op # "poll"
    <3>1. AllowedNow' = IF op = "poll" THEN {} ELSE AllowedNow \ {op}
      BY <1>4, <2>5 DEF Moves, AllowedNow
    <3> QED
      BY <2>1, <2>3, <3>1
  <2> QED
    BY <2>4, <2>5
<1>5. CASE \E op \in {"none", "poll", "rx", "tx"}, hold \in 0 .. MaxHold : Moves(op, hold)
  <2>1. PICK op \in {"none", "poll", "rx", "tx"}, hold \in 0 .. MaxHold : Moves(op, hold)
    BY <1>5
  <2>2. uart_mem'.op = op
    BY <2>1 DEF Moves
  <2> QED
    BY <1>4, <2>1, <2>2
<1> QED
  BY <1>3, <1>5, SoftwareEffect

LEMMA UartTypeStep ==
  ASSUME UartTypeOK, UartClock, uart_wbk = "rx" => recv \in Nat
  PROVE  UartTypeOK'
<1>1. uart_mem' \in [op : {"none", "poll", "rx", "tx"}, hold : Nat]
  BY SoftwareEffect DEF UartClock
<1>2. recv_rsp' \in [data : Nat, valid : BOOLEAN, ready : BOOLEAN]
  <2>1. Ready \in BOOLEAN /\ take_new_data \in BOOLEAN
    BY DEF UartTypeOK, Ready, take_new_data, raw_valid
  <2>2. recv_rsp' = [data |-> IF take_new_data THEN rx_byte ELSE recv_rsp.data,
                     valid |-> take_new_data \/ (recv_rsp.valid /\ ~recv_rsp.ready),
                     ready |-> Ready]
    BY DEF UartClock, Buffer
  <2> HIDE DEF take_new_data, Ready
  <2> QED
    BY <2>1, <2>2 DEF UartTypeOK
<1>3. /\ uart_wbk' \in {"none", "poll", "rx", "tx"} /\ allowed' \subseteq {"rx", "tx"}
      /\ written_tx' \in Seq(Nat) /\ meant' \in Nat
  <2>1. AllowedNow \subseteq {"rx", "tx"}
    BY DEF AllowedNow, UartTypeOK
  <2>2. Append(written_tx, Len(written_tx) + 1) \in Seq(Nat)
    BY DEF UartTypeOK
  <2>3. recv_rsp.data' \in Nat
    BY <1>2
  <2>4. CASE Stays
    BY <2>1, <2>4 DEF Stays, UartTypeOK
  <2>5. CASE \E op \in {"none", "poll", "rx", "tx"}, hold \in 0 .. MaxHold : Moves(op, hold)
    <3>1. PICK op \in {"none", "poll", "rx", "tx"}, hold \in 0 .. MaxHold : Moves(op, hold)
      BY <2>5
    <3>2. allowed' \subseteq {"rx", "tx"}
      BY <2>1, <3>1 DEF Moves
    <3>3. uart_wbk' \in {"none", "poll", "rx", "tx"}
      BY <3>1 DEF Moves, UartTypeOK
    <3>4. written_tx' \in Seq(Nat)
      BY <2>2, <3>1 DEF Moves, UartTypeOK
    <3>5. meant' \in Nat
      BY <2>3, <3>1 DEF Moves
    <3> QED
      BY <3>2, <3>3, <3>4, <3>5
  <2> QED
    BY <2>4, <2>5, SoftwareEffect DEF UartClock
<1>4. since' \in [rx : Nat, tx : Nat]
  <2>1. Since("rx", RxSettle) \in Nat /\ Since("tx", TxSettle) \in Nat
    BY UartAssumption DEF Since, UartTypeOK
  <2> QED
    BY <2>1 DEF UartClock, Software
<1>5. send_req' \in [valid : BOOLEAN, data : Nat]
  <2>1. Len(written_tx) \in Nat
    BY DEF UartTypeOK
  <2> QED
    BY <2>1 DEF UartClock, SendRequest
<1>6. uart_rv_ctrl' \in [rx_valid : BOOLEAN, tx_ready : BOOLEAN]
  <2>1. recv_rsp.valid \in BOOLEAN /\ (tx_left = 0 /\ ~send_req.valid) \in BOOLEAN
    BY DEF UartTypeOK
  <2>2. uart_rv_ctrl' = [rx_valid |-> recv_rsp.valid,
                         tx_ready |-> (tx_left = 0 /\ ~send_req.valid)]
    BY DEF UartClock, Control
  <2> QED
    BY <2>1, <2>2
<1>7. tx_left' \in Nat /\ sent' \in Seq(Nat)
  BY UartAssumption DEF UartClock, Transmit, UartTypeOK
<1>8. rx_left' \in Nat /\ rx_byte' \in Nat
  BY UartAssumption DEF UartClock, Receive, UartTypeOK
<1>9. has_byte' \in BOOLEAN /\ recv_rsp_raw_valid_d' \in BOOLEAN /\ raced' \in BOOLEAN
  BY DEF UartClock, Receive, Buffer, UartTypeOK, raw_valid
<1>10. got' \in Seq(Nat)
  BY DEF UartClock, Retire, UartTypeOK
<1> QED
  BY <1>1, <1>2, <1>3, <1>4, <1>5, <1>6, <1>7, <1>8, <1>9, <1>10 DEF UartTypeOK

\* What the transmitter sees.
LEMMA TransmitEffect ==
  ASSUME UartTypeOK, UartClock
  PROVE  /\ (send_req'.valid <=> uart_mem.op = "tx")
         /\ uart_mem.op = "tx" => send_req'.data = Len(written_tx)
         /\ IF send_req.valid /\ tx_left = 0
              THEN tx_left' = CHAR /\ sent' = Append(sent, send_req.data)
              ELSE /\ tx_left' = IF tx_left > 0 THEN tx_left - 1 ELSE 0
                   /\ sent' = sent
         /\ (uart_rv_ctrl'.tx_ready <=> tx_left = 0 /\ ~send_req.valid)
  BY DEF UartClock, SendRequest, Control, Transmit, UartTypeOK

LEMMA TxStep ==
  ASSUME UartTypeOK, PollFirst, UartClock, TxInv,
         AllowedBy("tx", uart_rv_ctrl.tx_ready, TxQuiet),
         "rx" \in AllowedNow => uart_mem.op # "rx"
  PROVE  TxInv' /\ AllowedBy("tx", uart_rv_ctrl.tx_ready, TxQuiet)'
<1> DEFINE op == uart_mem.op
           hold == uart_mem.hold
           pending == Append(sent, Len(sent) + 1)
<1>1. /\ Software /\ Read
      /\ op \in {"none", "poll", "rx", "tx"} /\ hold \in Nat /\ tx_left \in Nat
      /\ send_req.valid \in BOOLEAN /\ sent \in Seq(Nat) /\ written_tx \in Seq(Nat)
      /\ CHAR \in Nat /\ MaxHold \in Nat /\ MaxHold <= CHAR
  BY UartAssumption DEF UartClock, UartTypeOK
<1>2. "tx" \in AllowedNow => TxQuiet
  BY DEF AllowedBy
<1>3. op \notin AllowedNow
  <2>1. AllowedNow \subseteq {"rx", "tx"}
    BY DEF AllowedNow, UartTypeOK
  <2> QED
    BY <1>2, <2>1 DEF TxQuiet
<1>4. Len(sent) \in Nat /\ pending \in Seq(Nat) /\ Len(pending) = Len(sent) + 1 /\ pending # sent
  BY <1>1
<1>5. /\ (send_req'.valid <=> op = "tx")
      /\ op = "tx" => send_req'.data = Len(written_tx)
      /\ IF send_req.valid /\ tx_left = 0
           THEN tx_left' = CHAR /\ sent' = Append(sent, send_req.data)
           ELSE /\ tx_left' = IF tx_left > 0 THEN tx_left - 1 ELSE 0
                /\ sent' = sent
      /\ (uart_rv_ctrl'.tx_ready <=> tx_left = 0 /\ ~send_req.valid)
  BY TransmitEffect
\* While nothing is on its way and nothing is written, that stays so.
<1>6. ASSUME TxQuiet, uart_mem'.op # "tx" PROVE TxQuiet'
  <2>1. written_tx' = written_tx
    BY <1>6, SoftwareEffect, <1>1 DEF Stays, Moves
  <2> QED
    BY <1>5, <1>6, <2>1 DEF TxQuiet
<1>7. AllowedBy("tx", uart_rv_ctrl.tx_ready, TxQuiet)'
  <2>1. ASSUME "tx" \in AllowedNow' PROVE TxQuiet'
    <3>1. uart_mem'.op # "tx"
      BY <1>1, <1>3, <2>1, AccessFollowsPoll
    <3>2. TxQuiet
      BY <1>1, <1>3, <2>1, AccessFollowsPoll DEF AllowedBy
    <3> QED
      BY <1>6, <3>1, <3>2
  <2>2. ASSUME uart_mem'.op = "poll", uart_rv_ctrl'.tx_ready PROVE TxQuiet'
    <3>1. op # "tx"
      BY <1>1, <2>2, PollWaits
    <3>2. tx_left = 0 /\ ~send_req.valid
      BY <1>5, <2>2
    <3>3. sent = written_tx
      BY <3>1, <3>2 DEF TxInv
    <3> QED
      BY <1>6, <2>2, <3>1, <3>2, <3>3 DEF TxQuiet
  <2> QED
    BY <2>1, <2>2 DEF AllowedBy
\* A write comes to MEM.
<1>8. CASE op # "tx" /\ uart_mem'.op = "tx"
  <2>1. TxQuiet
    BY <1>1, <1>2, <1>3, <1>8, AccessFollowsPoll
  <2>2. PICK o \in {"none", "poll", "rx", "tx"}, h \in 0 .. MaxHold : Moves(o, h)
    BY <1>1, <1>8, SoftwareEffect DEF Stays
  <2>3. /\ uart_mem'.hold \in 0 .. MaxHold
        /\ written_tx' = Append(written_tx, Len(written_tx) + 1)
    BY <1>8, <2>2 DEF Moves
  <2>4. sent' = sent /\ tx_left' = 0 /\ ~send_req'.valid
    BY <1>5, <1>8, <2>1 DEF TxQuiet
  <2>5. written_tx' = Append(sent', Len(sent') + 1) /\ sent' # written_tx'
    BY <1>4, <2>1, <2>3, <2>4 DEF TxQuiet
  <2>6. uart_mem'.hold + (IF send_req'.valid THEN 1 ELSE 0) <= CHAR
    BY <1>1, <2>3, <2>4
  <2> QED
    BY <1>7, <1>8, <2>4, <2>5, <2>6 DEF TxInv
\* Otherwise nothing is written.
<1>9. CASE ~(op # "tx" /\ uart_mem'.op = "tx")
  <2>1. uart_mem'.op = "tx" => /\ op = "tx" /\ hold > 0 /\ uart_mem'.hold = hold - 1
    BY <1>1, <1>3, <1>9, AccessFollowsPoll, SoftwareEffect DEF Stays, Moves
  <2>2. written_tx' = written_tx
    BY <1>1, <2>1, SoftwareEffect DEF Stays, Moves
  <2>3. CASE sent = written_tx
    <3>1. ~(send_req.valid /\ tx_left = 0)
      BY <1>1, <2>3 DEF TxInv
    <3>2. sent' = written_tx' /\ tx_left' = IF tx_left > 0 THEN tx_left - 1 ELSE 0
      BY <1>5, <2>2, <2>3, <3>1
    <3>3. op = "tx" => send_req.valid /\ tx_left >= hold + 2
      BY <2>3 DEF TxInv
    <3>4. uart_mem'.op = "tx" => send_req'.valid /\ tx_left' >= uart_mem'.hold + 2
      BY <1>1, <1>5, <2>1, <3>2, <3>3
    <3>5. send_req'.valid => tx_left' >= 1
      BY <1>1, <1>5, <3>2, <3>3
    <3> QED
      BY <1>7, <3>2, <3>4, <3>5 DEF TxInv
  <2>4. CASE sent # written_tx /\ ~send_req.valid
    <3>1. /\ written_tx = pending /\ tx_left = 0 /\ op = "tx"
          /\ hold + 0 <= CHAR
      BY <2>4 DEF TxInv
    <3>2. sent' = sent /\ tx_left' = 0 /\ send_req'.valid /\ send_req'.data = Len(written_tx)
      BY <1>5, <2>4, <3>1
    <3>3. uart_mem'.op = "tx" => uart_mem'.hold + 1 <= CHAR
      BY <1>1, <2>1, <3>1
    <3>4. sent' # written_tx'
      BY <2>2, <2>4, <3>2
    <3>5. uart_mem'.op = "tx" =>
            uart_mem'.hold + (IF send_req'.valid THEN 1 ELSE 0) <= CHAR
      BY <3>2, <3>3
    <3> QED
      BY <1>7, <2>2, <3>1, <3>2, <3>4, <3>5 DEF TxInv
  <2>5. CASE sent # written_tx /\ send_req.valid
    <3>1. /\ written_tx = pending /\ tx_left = 0 /\ send_req.data = Len(written_tx)
          /\ op = "tx" => hold + 1 <= CHAR
      BY <2>5 DEF TxInv
    <3>2. sent' = written_tx' /\ tx_left' = CHAR
      BY <1>4, <1>5, <2>2, <2>5, <3>1
    <3>3. uart_mem'.op = "tx" => send_req'.valid /\ tx_left' >= uart_mem'.hold + 2
      BY <1>1, <1>5, <2>1, <3>1, <3>2
    <3>4. send_req'.valid => tx_left' >= 1
      BY <1>1, <1>5, <3>1, <3>2
    <3> QED
      BY <1>7, <3>2, <3>3, <3>4 DEF TxInv
  <2> QED
    BY <1>1, <2>3, <2>4, <2>5
<1> QED
  BY <1>8, <1>9

-----------------------------------------------------------------------------
(* Uart: what the receiver does.                                            *)

LEMMA ReceiveEffect ==
  ASSUME UartTypeOK, UartClock
  PROVE  /\ recv_rsp'.data = IF take_new_data THEN rx_byte ELSE recv_rsp.data
         /\ recv_rsp'.valid <=> take_new_data \/ (recv_rsp.valid /\ ~recv_rsp.ready)
         /\ recv_rsp'.ready <=> uart_mem.op = "rx" \/ (uart_mem.op = "poll" /\ recv_rsp.ready)
         /\ uart_rv_ctrl'.rx_valid <=> recv_rsp.valid
         /\ has_byte' <=> (rx_left = 1 \/ (has_byte /\ recv_rsp.valid))
         /\ take_new_data => has_byte /\ rx_left = 0 /\ ~recv_rsp.valid
<1>1. recv_rsp' = [data |-> IF take_new_data THEN rx_byte ELSE recv_rsp.data,
                   valid |-> take_new_data \/ (recv_rsp.valid /\ ~recv_rsp.ready),
                   ready |-> Ready]
  BY DEF UartClock, Buffer
<1>2. Ready <=> uart_mem.op = "rx" \/ (uart_mem.op = "poll" /\ recv_rsp.ready)
  BY DEF Ready, UartTypeOK
<1>3. take_new_data => has_byte /\ rx_left = 0 /\ ~recv_rsp.valid
  BY DEF take_new_data, raw_valid
<1>4. /\ uart_rv_ctrl'.rx_valid <=> recv_rsp.valid
      /\ has_byte' <=> (rx_left = 1 \/ (has_byte /\ recv_rsp.valid))
  BY DEF UartClock, Control, Receive
<1>5. /\ recv_rsp'.data = IF take_new_data THEN rx_byte ELSE recv_rsp.data
      /\ recv_rsp'.ready <=> Ready
      /\ recv_rsp'.valid <=> take_new_data \/ (recv_rsp.valid /\ ~recv_rsp.ready)
  BY <1>1
<1> QED
  BY <1>2, <1>3, <1>4, <1>5

\* A byte leaves MEM for WBK and WBK for software, and none is forgotten.
LEMMA ConsumedNext ==
  ASSUME UartTypeOK, UartClock, uart_wbk = "rx" => recv \in Nat, NEW b
  PROVE  /\ Consumed(b) => Consumed(b)'
         /\ Consumed(b)' => \/ Consumed(b)
                            \/ uart_mem.op = "rx" /\ uart_mem.hold = 0 /\ b = recv_rsp.data
         /\ uart_mem.op = "rx" /\ uart_mem.hold = 0 /\ b = recv_rsp.data => Consumed(b)'
<1>1. b \in ToSet(got)' <=> b \in ToSet(got) \/ (uart_wbk = "rx" /\ b = recv)
  <2>1. CASE uart_wbk = "rx"
    <3>1. got' = Append(got, recv) /\ got \in Seq(Nat) /\ recv \in Nat
      BY <2>1 DEF UartClock, Retire, UartTypeOK
    <3>2. b \in ToSet(Append(got, recv)) <=> b \in ToSet(got) \/ b = recv
      BY <3>1, ToSetOfAppend
    <3>3. ToSet(got)' = ToSet(Append(got, recv))
      BY <3>1 DEF ToSet
    <3> QED
      BY <2>1, <3>2, <3>3
  <2>2. CASE uart_wbk # "rx"
    <3>1. got' = got
      BY <2>2 DEF UartClock, Retire
    <3> QED
      BY <2>2, <3>1 DEF ToSet
  <2> QED
    BY <2>1, <2>2
<1>2. uart_wbk' = "rx" <=> uart_mem.op = "rx" /\ uart_mem.hold = 0
  BY SoftwareEffect DEF UartClock, Stays, Moves
<1>3. uart_mem.op = "rx" => recv' = recv_rsp.data
  BY DEF UartClock, Read
<1>4. Consumed(b)' <=> b \in ToSet(got)' \/ (uart_wbk' = "rx" /\ b = recv')
  BY DEF Consumed
<1>5. uart_mem.op = "rx" /\ uart_mem.hold = 0 /\ b = recv_rsp.data => Consumed(b)'
  BY <1>2, <1>3 DEF Consumed
<1> QED
  BY <1>1, <1>2, <1>3, <1>4, <1>5 DEF Consumed

LEMMA RxStep ==
  ASSUME UartTypeOK, UartTypeOK', PollFirst, UartClock, RxInv,
         AllowedBy("rx", uart_rv_ctrl.rx_valid, RxFresh),
         "tx" \in AllowedNow => uart_mem.op # "tx"
  PROVE  RxInv' /\ AllowedBy("rx", uart_rv_ctrl.rx_valid, RxFresh)'
<1> DEFINE op == uart_mem.op
           data == recv_rsp.data
<1>1. /\ Software /\ Read
      /\ op \in {"none", "poll", "rx", "tx"} /\ data \in Nat /\ data' \in Nat
      /\ rx_byte \in Nat /\ rx_left \in Nat /\ rx_byte' \in Nat /\ rx_left' \in Nat
  BY DEF UartClock, UartTypeOK
<1>2. /\ uart_wbk = "rx" => recv \in Nat /\ \A n \in DOMAIN got : got[n] < recv
      /\ rx_byte >= data /\ (rx_left > 0 \/ has_byte => rx_byte > data)
      /\ \A b \in Nat : Consumed(b) => b <= data
      /\ recv_rsp.valid /\ ~recv_rsp.ready => Unread
      /\ op = "rx" => Unread
      /\ recv_rsp.ready => since.rx = 0 /\ op # "poll"
  BY DEF RxInv
<1>3. /\ data' = IF take_new_data THEN rx_byte ELSE data
      /\ recv_rsp'.valid <=> take_new_data \/ (recv_rsp.valid /\ ~recv_rsp.ready)
      /\ recv_rsp'.ready <=> op = "rx" \/ (op = "poll" /\ recv_rsp.ready)
      /\ uart_rv_ctrl'.rx_valid <=> recv_rsp.valid
      /\ has_byte' <=> (rx_left = 1 \/ (has_byte /\ recv_rsp.valid))
      /\ take_new_data => has_byte /\ rx_left = 0 /\ ~recv_rsp.valid
  BY ReceiveEffect
<1>4. \/ rx_byte' = rx_byte + 1
      \/ rx_byte' = rx_byte /\ (rx_left' > 0 => rx_left > 0)
  BY <1>1 DEF UartClock, Receive
<1>5. "rx" \in AllowedNow => RxFresh
  BY DEF AllowedBy
<1>6. op \notin AllowedNow
  <2>1. AllowedNow \subseteq {"rx", "tx"}
    BY DEF AllowedNow, UartTypeOK
  <2> QED
    BY <1>5, <2>1 DEF RxFresh
<1>7. ASSUME NEW b \in Nat, Consumed(b)', ~(op = "rx" /\ uart_mem.hold = 0)
      PROVE  Consumed(b)
  BY <1>2, <1>7, ConsumedNext
<1>8. data' >= data /\ (take_new_data => data' > data)
  BY <1>1, <1>2, <1>3
<1> HIDE DEF data
\* An unread byte stays unread while it is not read.
<1>9. ASSUME RxFresh, uart_mem'.op # "rx" PROVE RxFresh'
  <2>1. recv_rsp'.valid /\ ~recv_rsp'.ready /\ data' = data
    BY <1>2, <1>3, <1>9 DEF RxFresh
  <2>2. ASSUME NEW b \in Nat, Consumed(b)' PROVE b < data'
    <3>1. Consumed(b)
      BY <1>7, <1>9, <2>2 DEF RxFresh
    <3> QED
      BY <1>9, <2>1, <3>1 DEF RxFresh, Unread, data
  <2>3. Unread'
    BY <2>2 DEF Unread, data
  <2> QED
    BY <1>9, <2>1, <2>3 DEF RxFresh
<1>10. AllowedBy("rx", uart_rv_ctrl.rx_valid, RxFresh)'
  <2>1. ASSUME "rx" \in AllowedNow' PROVE RxFresh'
    <3>1. uart_mem'.op # "rx"
      BY <1>1, <1>6, <2>1, AccessFollowsPoll
    <3>2. RxFresh
      BY <1>1, <1>6, <2>1, AccessFollowsPoll DEF AllowedBy
    <3> QED
      BY <1>9, <3>1, <3>2
  <2>2. ASSUME uart_mem'.op = "poll", uart_rv_ctrl'.rx_valid PROVE RxFresh'
    <3>1. op # "rx" /\ (op = "poll" \/ since.rx # 0)
      BY <1>1, <2>2, PollWaits
    <3>2. recv_rsp.valid /\ ~recv_rsp.ready
      BY <1>2, <1>3, <2>2, <3>1
    <3>3. RxFresh
      BY <1>2, <3>1, <3>2 DEF RxFresh
    <3> QED
      BY <1>9, <2>2, <3>3
  <2> QED
    BY <2>1, <2>2 DEF AllowedBy
<1>11. rx_byte' >= data' /\ (rx_left' > 0 \/ has_byte' => rx_byte' > data')
  <2>1. CASE take_new_data
    BY <1>1, <1>3, <1>4, <2>1
  <2>2. CASE ~take_new_data
    BY <1>1, <1>2, <1>3, <1>4, <2>2
  <2> QED
    BY <2>1, <2>2
<1>12. recv_rsp'.ready => since'.rx = 0 /\ uart_mem'.op # "poll"
  <2>1. recv_rsp'.ready => op = "rx"
    BY <1>2, <1>3
  <2>2. op = "rx" => uart_mem'.op # "poll"
    BY <1>1, PollWaits
  <2>3. op = "rx" => since'.rx = 0
    BY <1>1 DEF Software, Since
  <2> QED
    BY <2>1, <2>2, <2>3
<1>13. ASSUME NEW b \in Nat, Consumed(b)' PROVE b <= data'
  <2>1. Consumed(b) \/ b = data
    BY <1>2, <1>13, ConsumedNext DEF data
  <2> QED
    BY <1>1, <1>2, <1>8, <2>1
<1>14. recv_rsp'.valid /\ ~recv_rsp'.ready => Unread'
  <2> SUFFICES ASSUME recv_rsp'.valid, ~recv_rsp'.ready, NEW b \in Nat, Consumed(b)'
               PROVE  b < data'
    BY DEF Unread, data
  <2>1. Consumed(b)
    BY <1>3, <1>7
  <2>2. CASE take_new_data
    BY <1>1, <1>2, <1>8, <2>1, <2>2
  <2>3. CASE ~take_new_data
    BY <1>2, <1>3, <2>1, <2>3 DEF Unread, data
  <2> QED
    BY <2>2, <2>3
<1>15. uart_mem'.op = "rx" => Unread'
  <2> SUFFICES ASSUME uart_mem'.op = "rx", NEW b \in Nat, Consumed(b)' PROVE b < data'
    BY DEF Unread, data
  <2>1. (op # "rx" /\ RxFresh) \/ (op = "rx" /\ uart_mem.hold # 0)
    BY <1>1, <1>5, <1>6, AccessFollowsPoll DEF RxFresh, Stays
  <2>2. Consumed(b) /\ Unread
    BY <1>2, <1>7, <2>1 DEF RxFresh
  <2>3. b < data
    BY <2>2 DEF Unread, data
  <2> QED
    BY <1>1, <1>8, <2>3
<1>16. \A n \in DOMAIN got' :
         \/ n \in DOMAIN got /\ got'[n] = got[n]
         \/ uart_wbk = "rx" /\ got'[n] = recv /\ n = Len(got) + 1
  <2>1. CASE uart_wbk = "rx"
    <3>1. got' = Append(got, recv) /\ got \in Seq(Nat) /\ recv \in Nat
      BY <1>2, <2>1 DEF UartClock, Retire, UartTypeOK
    <3> QED
      BY <2>1, <3>1, AppendFacts
  <2>2. CASE uart_wbk # "rx"
    BY <2>2 DEF UartClock, Retire
  <2> QED
    BY <2>1, <2>2
<1>17. uart_wbk' = "rx" => recv' \in Nat /\ \A n \in DOMAIN got' : got'[n] < recv'
  <2> SUFFICES ASSUME uart_wbk' = "rx"
               PROVE  recv' \in Nat /\ \A n \in DOMAIN got' : got'[n] < recv'
    OBVIOUS
  <2>1. op = "rx"
    BY <1>1, SoftwareEffect DEF Stays, Moves
  <2>2. recv' = data
    BY <1>1, <2>1 DEF Read, data
  <2>3. ASSUME NEW n \in DOMAIN got' PROVE got'[n] < data
    <3>1. got \in Seq(Nat) /\ got' \in Seq(Nat)
      BY DEF UartTypeOK
    <3>2. Consumed(got'[n])
      BY <1>16, <3>1 DEF Consumed, ToSet
    <3>3. got'[n] \in Nat
      BY <3>1
    <3> QED
      BY <1>2, <2>1, <3>2, <3>3 DEF Unread, data
  <2> QED
    BY <1>1, <2>2, <2>3
<1>18. \A m, n \in DOMAIN got' : m < n => got'[m] < got'[n]
  <2> SUFFICES ASSUME NEW m \in DOMAIN got', NEW n \in DOMAIN got', m < n
               PROVE  got'[m] < got'[n]
    OBVIOUS
  <2>1. /\ m \in Nat /\ n \in Nat
        /\ \A k \in DOMAIN got : k <= Len(got) /\ Len(got) \in Nat
    <3>1. got \in Seq(Nat) /\ got' \in Seq(Nat)
      BY DEF UartTypeOK
    <3> QED
      BY <3>1
  <2>2. m \in DOMAIN got /\ got'[m] = got[m]
    BY <1>16, <2>1
  <2>3. CASE n \in DOMAIN got /\ got'[n] = got[n]
    BY <2>2, <2>3 DEF RxInv
  <2>4. CASE uart_wbk = "rx" /\ got'[n] = recv
    BY <1>2, <2>2, <2>4
  <2> QED
    BY <1>16, <2>3, <2>4
<1>19. RxInv'
  BY <1>11, <1>12, <1>13, <1>14, <1>15, <1>17, <1>18 DEF RxInv, data
<1> QED
  BY <1>10, <1>19

\* A byte the buffer lets go of is on its way to software, unless another one has
\* come while the read of it was held.
LEMMA TakenStep ==
  ASSUME UartTypeOK, UartTypeOK', UartClock, RxInv, TakenInv
  PROVE  TakenInv'
<1> DEFINE op == uart_mem.op
           data == recv_rsp.data
<1>1. /\ Software /\ (uart_wbk = "rx" => recv \in Nat)
      /\ data \in Nat /\ rx_byte \in Nat
  BY DEF UartClock, UartTypeOK, RxInv
<1>2. /\ data' = IF take_new_data THEN rx_byte ELSE data
      /\ recv_rsp'.valid <=> take_new_data \/ (recv_rsp.valid /\ ~recv_rsp.ready)
      /\ recv_rsp'.ready <=> op = "rx" \/ (op = "poll" /\ recv_rsp.ready)
      /\ take_new_data => has_byte /\ ~recv_rsp.valid
  BY ReceiveEffect
<1>3. /\ recv_rsp.ready => op # "poll"
      /\ has_byte => rx_byte > data
      /\ op # "rx" => meant = 0
      /\ \A b \in taken : b \in Nat \ {0}
      /\ ~raced => /\ op = "rx" => meant = data
                   /\ recv_rsp.ready => Consumed(data) \/ meant = data
                   /\ \A b \in taken : \/ Consumed(b) \/ b = meant
                                       \/ recv_rsp.valid /\ b = data
  BY DEF RxInv, TakenInv
<1>4. \/ uart_mem.hold # 0 /\ uart_mem'.op = op /\ meant' = meant
      \/ uart_mem.hold = 0 /\ meant' = IF uart_mem'.op = "rx" THEN data' ELSE 0
  BY <1>1, SoftwareEffect DEF Stays, Moves
<1>5. \A b \in taken' : b \in taken \/ (take_new_data /\ b = rx_byte)
  BY DEF UartClock, Buffer
<1>6. ~raced' => ~raced /\ ~(take_new_data /\ op = "rx")
  BY DEF UartClock, Buffer
<1> HIDE DEF data
<1>7. uart_mem'.op # "rx" => meant' = 0
  BY <1>3, <1>4
<1>8. \A b \in taken' : b \in Nat \ {0}
  BY <1>1, <1>2, <1>3, <1>5
<1>9. ASSUME ~raced', uart_mem'.op = "rx" PROVE meant' = data'
  BY <1>2, <1>3, <1>4, <1>6, <1>9
\* The byte that a read in MEM means is there, or in WBK, in the next clock.
<1>10. ASSUME ~raced', op = "rx", NEW b, b = data PROVE b = data' /\ (Consumed(b)' \/ b = meant')
  <2>1. data' = data /\ meant = data
    BY <1>2, <1>3, <1>6, <1>10
  <2>2. uart_mem.hold = 0 => Consumed(b)'
    BY <1>1, <1>10, ConsumedNext DEF data
  <2> QED
    BY <1>4, <1>10, <2>1, <2>2
<1>11. ASSUME ~raced', recv_rsp'.ready PROVE Consumed(data)' \/ meant' = data'
  <2>1. op = "rx"
    BY <1>2, <1>3, <1>11
  <2>2. PICK b : b = data
    OBVIOUS
  <2>3. b = data' /\ (Consumed(b)' \/ b = meant')
    BY <1>10, <1>11, <2>1, <2>2
  <2>4. Consumed(b)' => Consumed(data)'
    BY <2>3 DEF Consumed
  <2> QED
    BY <2>3, <2>4
<1>12. ASSUME ~raced', NEW b \in taken'
       PROVE  \/ Consumed(b)' \/ b = meant'
              \/ recv_rsp'.valid /\ b = data'
  <2>1. CASE take_new_data /\ b = rx_byte
    BY <1>2, <2>1
  <2>2. CASE b \in taken /\ Consumed(b)
    BY <1>1, <2>2, ConsumedNext
  <2>3. CASE b \in taken /\ b = meant
    <3>1. op = "rx"
      BY <1>3, <2>3
    <3>2. b = data
      BY <1>3, <1>6, <1>12, <2>3, <3>1
    <3> QED
      BY <1>10, <1>12, <3>1, <3>2
  <2>4. CASE b \in taken /\ recv_rsp.valid /\ b = data /\ ~recv_rsp.ready
    BY <1>2, <2>4
  <2>5. CASE b \in taken /\ b = data /\ recv_rsp.ready
    <3>1. Consumed(b) \/ b = meant
      BY <1>3, <1>6, <1>12, <2>5
    <3> QED
      BY <2>2, <2>3, <2>5, <3>1
  <2> QED
    BY <1>3, <1>5, <1>6, <1>12, <2>1, <2>2, <2>3, <2>4, <2>5
<1> QED
  BY <1>7, <1>8, <1>9, <1>11, <1>12 DEF TakenInv, data

-----------------------------------------------------------------------------
(* Uart: the invariant.                                                     *)

LEMMA UartInvInit == UartInit => UartInv
<1> SUFFICES ASSUME UartInit PROVE UartInv
  OBVIOUS
<1>1. UartTypeOK
  <2>1. RxSettle \in Nat /\ TxSettle \in Nat
    BY UartAssumption
  <2>2. << >> \in Seq(Nat)
    OBVIOUS
  <2>3. /\ since \in [rx : Nat, tx : Nat]
        /\ uart_mem \in [op : {"none", "poll", "rx", "tx"}, hold : Nat]
        /\ send_req \in [valid : BOOLEAN, data : Nat]
        /\ uart_rv_ctrl \in [rx_valid : BOOLEAN, tx_ready : BOOLEAN]
        /\ recv_rsp \in [data : Nat, valid : BOOLEAN, ready : BOOLEAN]
    BY <2>1 DEF UartInit
  <2>4. written_tx \in Seq(Nat) /\ sent \in Seq(Nat) /\ got \in Seq(Nat)
    BY <2>2 DEF UartInit
  <2> QED
    BY <2>3, <2>4 DEF UartInit, UartTypeOK
<1>2. AllowedNow = {} /\ PollFirst
  BY DEF UartInit, AllowedNow, PollFirst
<1>3. TxInv
  BY DEF UartInit, TxInv
<1>4. RxInv
  <2>1. \A b : ~Consumed(b)
    BY DEF UartInit, Consumed, ToSet
  <2> QED
    BY <2>1 DEF UartInit, RxInv, Unread
<1>5. TakenInv
  BY DEF UartInit, TakenInv
<1> QED
  BY <1>1, <1>2, <1>3, <1>4, <1>5 DEF UartInv, AllowedBy, UartInit

LEMMA UartInvKept == UartInv /\ [UartClock]_uvars => UartInv'
<1> SUFFICES ASSUME UartInv, [UartClock]_uvars PROVE UartInv'
  OBVIOUS
<1>1. CASE UartClock
  <2>1. UartTypeOK'
    BY <1>1, UartTypeStep DEF UartInv, RxInv
  <2>2. /\ "tx" \in AllowedNow => uart_mem.op # "tx"
        /\ "rx" \in AllowedNow => uart_mem.op # "rx"
    BY DEF UartInv, AllowedBy, TxQuiet, RxFresh
  <2>3. uart_mem.op \notin AllowedNow
    <3>1. AllowedNow \subseteq {"rx", "tx"}
      BY DEF AllowedNow, UartInv, UartTypeOK
    <3> QED
      BY <2>2, <3>1
  <2>4. PollFirst'
    BY <1>1, <2>3, AccessFollowsPoll DEF UartInv, UartClock
  <2>5. TxInv' /\ AllowedBy("tx", uart_rv_ctrl.tx_ready, TxQuiet)'
    BY <1>1, <2>2, TxStep DEF UartInv
  <2>6. RxInv' /\ AllowedBy("rx", uart_rv_ctrl.rx_valid, RxFresh)'
    BY <1>1, <2>1, <2>2, RxStep DEF UartInv
  <2>7. TakenInv'
    BY <1>1, <2>1, TakenStep DEF UartInv
  <2> QED
    BY <2>1, <2>4, <2>5, <2>6, <2>7 DEF UartInv
<1>2. CASE UNCHANGED uvars
  <2>1. UartTypeOK' /\ PollFirst' /\ TxInv'
    BY <1>2 DEF UartInv, uvars, software, registers, UartTypeOK, PollFirst, TxInv
  <2>2. /\ AllowedBy("tx", uart_rv_ctrl.tx_ready, TxQuiet)'
        /\ AllowedBy("rx", uart_rv_ctrl.rx_valid, RxFresh)'
    BY <1>2 DEF UartInv, uvars, software, registers, AllowedBy, AllowedNow, TxQuiet,
                RxFresh, Unread, Consumed, ToSet
  <2>3. RxInv' /\ TakenInv'
    BY <1>2 DEF UartInv, uvars, software, registers, RxInv, TakenInv, Unread, Consumed, ToSet
  <2> QED
    BY <2>1, <2>2, <2>3 DEF UartInv
<1> QED
  BY <1>1, <1>2

THEOREM UartInvariant == UartSpec => []UartInv
  BY UartInvInit, UartInvKept, PTL DEF UartSpec

\* Every byte that software writes when a poll allows it is sent, once and in order,
\* for every length of a character and however long, up to that, a store is held in
\* MEM and given to the UART again.
THEOREM BytesSentOnce == UartSpec => []SentOnce
<1>1. UartInv => SentOnce
  <2> SUFFICES ASSUME UartInv PROVE SentOnce
    OBVIOUS
  <2>1. sent \in Seq(Nat) /\ Len(sent) \in Nat
    BY DEF UartInv, UartTypeOK
  <2>2. CASE sent = written_tx
    BY <2>1, <2>2, PrefixOfAppend DEF SentOnce
  <2>3. CASE sent # written_tx
    <3>1. /\ written_tx = Append(sent, Len(sent) + 1)
          /\ uart_mem.op = "tx" \/ send_req.valid
      BY <2>3 DEF UartInv, TxInv
    <3> QED
      BY <2>1, <3>1, AppendFacts, PrefixOfAppend DEF SentOnce
  <2> QED
    BY <2>2, <2>3
<1> QED
  BY <1>1, UartInvariant, PTL

\* Software gets the bytes in their order and none twice, and what the buffer has
\* taken is not lost between the buffer and software, but for the race that the
\* README describes; whatever the times at which bytes arrive and reads are held.
THEOREM BytesReceivedOnce == UartSpec => []ReceivedOnce
<1>1. UartInv => ReceivedOnce
  BY DEF UartInv, RxInv, TakenInv, ReceivedOnce, Consumed
<1> QED
  BY <1>1, UartInvariant, PTL

-----------------------------------------------------------------------------
(* Clint: halves.                                                           *)

LEMMA HalvesOf ==
  ASSUME NEW H \in Nat \ {0}, NEW h \in 0 .. H - 1, NEW l \in 0 .. H - 1
  PROVE  /\ h * H + l \in 0 .. H * H - 1
         /\ (h * H + l) \div H = h /\ (h * H + l) % H = l
  OBVIOUS

LEMMA WholeOf ==
  ASSUME NEW H \in Nat \ {0}, NEW w \in 0 .. H * H - 1
  PROVE  /\ w \div H \in 0 .. H - 1 /\ w % H \in 0 .. H - 1
         /\ w = (w \div H) * H + (w % H)
<1>1. w % H \in 0 .. H - 1 /\ w \div H \in Int
  OBVIOUS
<1>2. w = H * (w \div H) + (w % H)
  OBVIOUS
<1>3. H * (w \div H) = (w \div H) * H
  BY <1>1
<1>4. w \div H \in 0 .. H - 1
  <2> DEFINE q == w \div H
  <2>1. q \in Int /\ H * q <= w /\ w < H * q + H
    BY <1>1, <1>2
  <2> HIDE DEF q
  <2>2. q >= 0
    <3>1. q < 0 => H * q + H <= 0
      BY <2>1
    <3> QED
      BY <2>1, <3>1
  <2>3. q < H
    <3>1. q >= H => H * q >= H * H
      BY <2>1
    <3> QED
      BY <2>1, <3>1
  <2> QED
    BY <2>1, <2>2, <2>3 DEF q
<1> QED
  BY <1>1, <1>2, <1>3, <1>4

LEMMA WrapsAround ==
  ASSUME NEW M \in Nat \ {0}, NEW w \in 0 .. M - 1
  PROVE  (w + 1) % M = (IF w = M - 1 THEN 0 ELSE w + 1)
<1>1. CASE w = M - 1
  BY <1>1
<1>2. CASE w # M - 1
  BY <1>2
<1> QED
  BY <1>1, <1>2

LEMMA ModulusFacts ==
  /\ HALF \in Nat \ {0, 1} /\ Modulus \in Nat \ {0}
  /\ Modulus = HALF * HALF /\ HALF <= Modulus - HALF 
  /\ CLOCKS_PER_US \in Nat \ {0} /\ 0 \in Halves /\ HALF - 1 \in Halves
<1>1. HALF \in Nat \ {0} /\ CLOCKS_PER_US \in Nat \ {0} /\ MaxGap \in Nat /\ MaxWait \in Nat
  BY ClintAssumption
<1>2. 2 <= (HALF - 1) * CLOCKS_PER_US
  BY <1>1, ClintAssumption
<1>3. HALF # 1
  BY <1>1, <1>2
<1>4. HALF * HALF >= 2 * HALF
  BY <1>1, <1>3
<1> QED
  BY <1>1, <1>3, <1>4 DEF Modulus, Halves

\* The half of the time that carries, and the other.
NextLo == IF mtime.lo = HALF - 1 THEN 0 ELSE mtime.lo + 1
NextHi == IF mtime.lo # HALF - 1 THEN mtime.hi
          ELSE IF mtime.hi = HALF - 1 THEN 0 ELSE mtime.hi + 1

LEMMA TickedIs ==
  ASSUME ClintTypeOK
  PROVE  /\ Ticked = [hi |-> NextHi, lo |-> NextLo]
         /\ NextHi \in Halves /\ NextLo \in Halves
<1>1. /\ mtime.hi \in 0 .. HALF - 1 /\ mtime.lo \in 0 .. HALF - 1
      /\ mtime.hi \in Nat /\ mtime.lo \in Nat /\ HALF \in Nat \ {0}
  BY ModulusFacts DEF ClintTypeOK, Halves
<1>2. /\ NextHi \in 0 .. HALF - 1 /\ NextLo \in 0 .. HALF - 1
  BY <1>1 DEF NextHi, NextLo
<1>3. Whole(mtime) \in 0 .. Modulus - 1
  BY <1>1, HalvesOf DEF Whole, Modulus
<1>4. (Whole(mtime) + 1) % Modulus = NextHi * HALF + NextLo
  <2>1. (Whole(mtime) + 1) % Modulus
          = (IF Whole(mtime) = Modulus - 1 THEN 0 ELSE Whole(mtime) + 1)
    BY <1>3, ModulusFacts, WrapsAround
  <2>2. CASE mtime.lo # HALF - 1
    <3>0. mtime.lo + 1 \in 0 .. HALF - 1
      BY <1>1, <2>2
    <3>1. mtime.hi * HALF + (mtime.lo + 1) \in 0 .. HALF * HALF - 1
      BY <1>1, <3>0, HalvesOf
    <3>2. Whole(mtime) + 1 = mtime.hi * HALF + (mtime.lo + 1)
      BY <1>1 DEF Whole
    <3>3. Whole(mtime) # Modulus - 1
      <4>1. Whole(mtime) + 1 \in 0 .. Modulus - 1
        BY <3>1, <3>2, ModulusFacts
      <4> QED
        BY <1>3, <4>1, ModulusFacts
    <3>4. NextHi = mtime.hi /\ NextLo = mtime.lo + 1
      BY <2>2 DEF NextHi, NextLo
    <3> QED
      BY <2>1, <3>2, <3>3, <3>4
  <2>3. CASE mtime.lo = HALF - 1 /\ mtime.hi = HALF - 1
    BY <1>1, <2>1, <2>3 DEF NextHi, NextLo, Whole, Modulus
  <2>4. CASE mtime.lo = HALF - 1 /\ mtime.hi # HALF - 1
    <3>1. (mtime.hi + 1) * HALF + 0 \in 0 .. HALF * HALF - 1
      BY SMTT(30), <1>1, <2>4, HalvesOf
    <3>2. (mtime.hi + 1) * HALF = mtime.hi * HALF + HALF
      BY <1>1
    <3>3. Whole(mtime) + 1 = (mtime.hi + 1) * HALF
      BY <1>1, <2>4, <3>2 DEF Whole
    <3>4. (mtime.hi + 1) * HALF \in 0 .. Modulus - 1
      BY <1>1, <3>1 DEF Modulus
    <3>5. (Whole(mtime) + 1) % Modulus = (mtime.hi + 1) * HALF
      BY <1>3, <2>1, <3>3, <3>4
    <3>6. NextHi = mtime.hi + 1 /\ NextLo = 0
      BY <2>4 DEF NextHi, NextLo
    <3>7. (mtime.hi + 1) * HALF \in Int
      BY <1>1
    <3> QED
      BY <3>5, <3>6, <3>7
  <2> QED
    BY <2>2, <2>3, <2>4
<1>5. /\ (NextHi * HALF + NextLo) \div HALF = NextHi
      /\ (NextHi * HALF + NextLo) % HALF = NextLo
  BY <1>1, <1>2, HalvesOf
<1> QED
  BY <1>2, <1>4, <1>5 DEF Ticked, Halves

LEMMA AccessInMem ==
  ASSUME ClintTypeOK
  PROVE  /\ clint_mem.access.half \in {"hi", "lo"} /\ clint_mem.access.data \in Halves
         /\ InMem <=> clint_mem.access.kind # "none"
         /\ InMem => /\ clint_mem.access.kind \in {"read", "write"}
                     /\ clint_mem.access.reg \in {"mtime", "mtimecmp"}
<1>1. clint_mem.access \in Accesses /\ 0 \in Halves
  BY ModulusFacts DEF ClintTypeOK
<1>2. CASE clint_mem.access = NoAccess
  BY <1>1, <1>2 DEF InMem, NoAccess
<1>3. CASE clint_mem.access # NoAccess
  BY <1>1, <1>3 DEF InMem, Accesses
<1> QED
  BY <1>2, <1>3

LEMMA TimeEffect ==
  ASSUME ClintTypeOK, Time
  PROVE  /\ mtime' \in [hi : Halves, lo : Halves]
         /\ mtime'.lo = IF Writes("mtime") /\ clint_mem.access.half = "lo"
                          THEN clint_mem.access.data
                          ELSE IF tick_us THEN NextLo ELSE mtime.lo
         /\ mtime'.hi = IF Writes("mtime") /\ clint_mem.access.half = "hi"
                          THEN clint_mem.access.data
                          ELSE IF tick_us THEN NextHi ELSE mtime.hi
<1> DEFINE r == IF tick_us THEN Ticked ELSE mtime
<1>1. /\ r \in [hi : Halves, lo : Halves]
      /\ r.lo = IF tick_us THEN NextLo ELSE mtime.lo
      /\ r.hi = IF tick_us THEN NextHi ELSE mtime.hi
  BY TickedIs DEF ClintTypeOK
<1>2. clint_mem.access.half \in {"hi", "lo"} /\ clint_mem.access.data \in Halves
  BY AccessInMem
<1>3. mtime' = IF Writes("mtime")
                 THEN [r EXCEPT ![clint_mem.access.half] = clint_mem.access.data] ELSE r
  BY DEF Time, Written
<1> HIDE DEF r
<1>4. CASE Writes("mtime") /\ clint_mem.access.half = "lo"
  BY <1>1, <1>2, <1>3, <1>4
<1>5. CASE Writes("mtime") /\ clint_mem.access.half = "hi"
  BY <1>1, <1>2, <1>3, <1>5
<1>6. CASE ~Writes("mtime")
  BY <1>1, <1>3, <1>6
<1> QED
  BY <1>2, <1>4, <1>5, <1>6

LEMMA CompareEffect ==
  ASSUME ClintTypeOK, Compare
  PROVE  /\ mtimecmp' \in [hi : Halves, lo : Halves]
         /\ mtimecmp'.lo = IF Writes("mtimecmp") /\ clint_mem.access.half = "lo"
                             THEN clint_mem.access.data ELSE mtimecmp.lo
         /\ mtimecmp'.hi = IF Writes("mtimecmp") /\ clint_mem.access.half = "hi"
                             THEN clint_mem.access.data ELSE mtimecmp.hi
<1>1. mtimecmp \in [hi : Halves, lo : Halves]
  BY DEF ClintTypeOK
<1>2. clint_mem.access.half \in {"hi", "lo"} /\ clint_mem.access.data \in Halves
  BY AccessInMem
<1>3. mtimecmp' = IF Writes("mtimecmp")
                    THEN [mtimecmp EXCEPT ![clint_mem.access.half] = clint_mem.access.data]
                    ELSE mtimecmp
  BY DEF Compare, Written
<1>4. CASE Writes("mtimecmp") /\ clint_mem.access.half = "lo"
  BY <1>1, <1>2, <1>3, <1>4
<1>5. CASE Writes("mtimecmp") /\ clint_mem.access.half = "hi"
  BY <1>1, <1>2, <1>3, <1>5
<1>6. CASE ~Writes("mtimecmp")
  BY <1>1, <1>3, <1>6
<1> QED
  BY <1>2, <1>4, <1>5, <1>6

\* Where no access writes the time, it is the ideal one's next.
LEMMA TimeCounts ==
  ASSUME ClintTypeOK, Time, Ideal, ~Writes("mtime"), Whole(mtime) = ideal
  PROVE  Whole(mtime)' = ideal'
<1>1. ~Done("mtime")
  BY DEF Done
<1>2. CASE tick_us
  <2>1. mtime' = Ticked
    BY <1>2 DEF Time, Written
  <2>2. (ideal + 1) % Modulus = NextHi * HALF + NextLo
    <3>1. /\ Ticked.hi = ((ideal + 1) % Modulus) \div HALF
          /\ Ticked.lo = ((ideal + 1) % Modulus) % HALF
      BY DEF Ticked
    <3>2. Ticked.hi = NextHi /\ Ticked.lo = NextLo
      BY TickedIs
    <3>3. (ideal + 1) % Modulus \in 0 .. HALF * HALF - 1
      <4>1. ideal \in Nat
        BY DEF ClintTypeOK
      <4>2. ASSUME NEW M \in Nat \ {0}, NEW i \in Nat PROVE (i + 1) % M \in 0 .. M - 1
        OBVIOUS
      <4>3. (ideal + 1) % Modulus \in 0 .. Modulus - 1
        BY <4>1, <4>2, ModulusFacts
      <4> QED
        BY <4>3, ModulusFacts
    <3>4. HALF \in Nat \ {0}
      BY ModulusFacts
    <3>5. (ideal + 1) % Modulus
            = (((ideal + 1) % Modulus) \div HALF) * HALF + (((ideal + 1) % Modulus) % HALF)
      BY <3>3, <3>4, WholeOf
    <3> QED
      BY <3>1, <3>2, <3>5
  <2> QED
    BY <1>1, <1>2, <2>1, <2>2, TickedIs DEF Ideal, Whole
<1>3. CASE ~tick_us
  BY <1>1, <1>3 DEF Time, Written, Ideal, Whole
<1> QED
  BY <1>2, <1>3

-----------------------------------------------------------------------------
(* Clint: the sequences.                                                    *)

\* The accesses of a sequence are of one kind, to one register.
Uniform(p, kind, reg) ==
  /\ p = <<p[1], p[2], p[3]>>
  /\ \A n \in 1 .. 3 : p[n] # NoAccess /\ p[n].kind = kind /\ p[n].reg = reg

LEMMA SequencesAreUniform ==
  ASSUME NEW t
  PROVE  /\ Uniform(ReadTime, "read", "mtime")
         /\ Uniform(SetTime(t), "write", "mtime")
         /\ Uniform(SetCompare(t), "write", "mtimecmp")
<1>1. ASSUME NEW kind, NEW reg, NEW a, NEW b, NEW c, NEW x, NEW y, NEW z,
             kind # "none"
      PROVE  Uniform(<<Access(kind, reg, a, x), Access(kind, reg, b, y),
                       Access(kind, reg, c, z)>>, kind, reg)
  <2> DEFINE p == <<Access(kind, reg, a, x), Access(kind, reg, b, y), Access(kind, reg, c, z)>>
  <2>1. /\ p[1] = Access(kind, reg, a, x) /\ p[2] = Access(kind, reg, b, y)
        /\ p[3] = Access(kind, reg, c, z)
    OBVIOUS
  <2>2. ASSUME NEW half, NEW data
        PROVE  /\ Access(kind, reg, half, data).kind = kind
               /\ Access(kind, reg, half, data).reg = reg
               /\ Access(kind, reg, half, data) # NoAccess
    BY <1>1 DEF Access, NoAccess
  <2>3. p = <<p[1], p[2], p[3]>>
    OBVIOUS
  <2> HIDE DEF p
  <2>4. ASSUME NEW n \in 1 .. 3 PROVE p[n] # NoAccess /\ p[n].kind = kind /\ p[n].reg = reg
    BY <2>1, <2>2
  <2>5. Uniform(p, kind, reg)
    BY <2>3, <2>4 DEF Uniform
  <2> QED
    BY <2>5 DEF p
<1> QED
  BY <1>1 DEF ReadTime, SetTime, SetCompare

LEMMA RestFacts ==
  ASSUME NEW p, p = <<p[1], p[2], p[3]>>
  PROVE  /\ Rest(p, 0) = <<p[1], p[2], p[3]>> /\ Rest(p, 1) = <<p[2], p[3]>>
         /\ Rest(p, 2) = <<p[3]>> /\ Rest(p, 3) = << >>
         /\ \A n \in 0 .. 2 : /\ Rest(p, n) # << >> /\ Head(Rest(p, n)) = p[n + 1]
                              /\ Tail(Rest(p, n)) = Rest(p, n + 1)
<1>1. /\ Rest(p, 0) = <<p[1], p[2], p[3]>> /\ Rest(p, 1) = <<p[2], p[3]>>
      /\ Rest(p, 2) = <<p[3]>> /\ Rest(p, 3) = << >>
  BY DEF Rest
<1> DEFINE a == p[1]  b == p[2]  c == p[3]
<1>2. /\ Rest(p, 0) = <<a, b, c>> /\ Rest(p, 1) = <<b, c>>
      /\ Rest(p, 2) = <<c>> /\ Rest(p, 3) = << >>
  BY <1>1
<1> HIDE DEF a, b, c
<1>3. ASSUME NEW n \in 0 .. 2
      PROVE  /\ Rest(p, n) # << >> /\ Head(Rest(p, n)) = p[n + 1]
             /\ Tail(Rest(p, n)) = Rest(p, n + 1)
  <2>1. CASE n = 0
    <3>1. Rest(p, 0) # << >> /\ Head(Rest(p, 0)) = a /\ Tail(Rest(p, 0)) = Rest(p, 1)
      <4>1. <<a, b, c>> # << >> /\ Head(<<a, b, c>>) = a /\ Tail(<<a, b, c>>) = <<b, c>>
        OBVIOUS
      <4> QED
        BY <1>2, <4>1
    <3> QED
      BY <2>1, <3>1 DEF a
  <2>2. CASE n = 1
    <3>1. Rest(p, 1) # << >> /\ Head(Rest(p, 1)) = b /\ Tail(Rest(p, 1)) = Rest(p, 2)
      <4>1. <<b, c>> # << >> /\ Head(<<b, c>>) = b /\ Tail(<<b, c>>) = <<c>>
        OBVIOUS
      <4> QED
        BY <1>2, <4>1
    <3>2. b = p[2] /\ n + 1 = 2
      BY <2>2 DEF b
    <3> QED
      BY <2>2, <3>1, <3>2
  <2>3. CASE n = 2
    <3>1. Rest(p, 2) # << >> /\ Head(Rest(p, 2)) = c /\ Tail(Rest(p, 2)) = Rest(p, 3)
      <4>1. <<c>> # << >> /\ Head(<<c>>) = c /\ Tail(<<c>>) = << >>
        OBVIOUS
      <4> QED
        BY <1>2, <4>1
    <3>2. c = p[3] /\ n + 1 = 3
      BY <2>3 DEF c
    <3> QED
      BY <2>3, <3>1, <3>2
  <2> QED
    BY <2>1, <2>2, <2>3
<1> QED
  BY <1>1, <1>3

LEMMA RestIsShorter ==
  ASSUME NEW p, p = <<p[1], p[2], p[3]>>, NEW n \in 1 .. 3
  PROVE  Rest(p, n) # ReadTime
<1>1. Len(ReadTime) = 3
  BY DEF ReadTime
<1>2. ASSUME NEW b, NEW c PROVE Len(<<b, c>>) = 2 /\ Len(<<c>>) = 1
  OBVIOUS
<1> DEFINE b == p[2]  c == p[3]
<1>3. Rest(p, 1) = <<b, c>> /\ Rest(p, 2) = <<c>> /\ Rest(p, 3) = << >>
  BY RestFacts
<1> HIDE DEF b, c
<1>4. Len(Rest(p, 1)) = 2 /\ Len(Rest(p, 2)) = 1 /\ Len(Rest(p, 3)) = 0
  BY <1>2, <1>3
<1> QED
  BY <1>1, <1>4

\* What is being set, now and after a step.
LEMMA SettingOf ==
  ASSUME NEW p, NEW kind, NEW k, Uniform(p, kind, k), NEW reg \in {"mtime", "mtimecmp"}
  PROVE  /\ \A n \in 0 .. 2 : Left(p, n) => (Setting(reg) <=> kind = "write" /\ k = reg)
         /\ \A n \in 1 .. 3 : Given(p, n) => (Setting(reg) <=> kind = "write" /\ k = reg)
         /\ \A n \in 0 .. 2 : Left(p, n)' => (Setting(reg)' <=> kind = "write" /\ k = reg)
         /\ \A n \in 1 .. 3 : Given(p, n)' => (Setting(reg)' <=> kind = "write" /\ k = reg)
         /\ NoSequence => ~Setting(reg)
         /\ NoSequence' => ~Setting(reg)'
<1>1. ASSUME NEW n \in 0 .. 2
      PROVE  /\ Rest(p, n) # << >> /\ Head(Rest(p, n)).kind = kind
             /\ Head(Rest(p, n)).reg = k
  <2>1. n + 1 \in 1 .. 3
    OBVIOUS
  <2>2. p = <<p[1], p[2], p[3]>> /\ p[n + 1].kind = kind /\ p[n + 1].reg = k
    BY <2>1 DEF Uniform
  <2> QED
    BY <2>2, RestFacts
<1>2. ASSUME NEW n \in 1 .. 3
      PROVE  /\ p[n].kind = kind /\ p[n].reg = k
             /\ n # 3 => /\ Rest(p, n) # << >> /\ Head(Rest(p, n)).kind = kind
                         /\ Head(Rest(p, n)).reg = k
             /\ n = 3 => Rest(p, n) = << >>
  <2>1. p[n].kind = kind /\ p[n].reg = k /\ p = <<p[1], p[2], p[3]>>
    BY DEF Uniform
  <2>2. n # 3 => n \in 0 .. 2
    OBVIOUS
  <2>3. Rest(p, 3) = << >>
    BY <2>1, RestFacts
  <2> QED
    BY <1>1, <2>1, <2>2, <2>3
<1>3. NoAccess.kind = "none"
  BY DEF NoAccess
<1>4. ASSUME NEW n \in 0 .. 2
      PROVE  /\ Left(p, n) => (Setting(reg) <=> kind = "write" /\ k = reg)
             /\ Left(p, n)' => (Setting(reg)' <=> kind = "write" /\ k = reg)
  BY <1>1, <1>3 DEF Left, Setting, Writes
<1>5. ASSUME NEW n \in 1 .. 3
      PROVE  /\ Given(p, n) => (Setting(reg) <=> kind = "write" /\ k = reg)
             /\ Given(p, n)' => (Setting(reg)' <=> kind = "write" /\ k = reg)
  BY <1>2 DEF Given, Setting, Writes
<1>6. (NoSequence => ~Setting(reg)) /\ (NoSequence' => ~Setting(reg)')
  BY <1>3 DEF NoSequence, Setting, Writes
<1> QED
  BY <1>4, <1>5, <1>6

LEMMA GivenStep ==
  ASSUME ClintTypeOK, ClintClock, NEW p, NEW kind, NEW reg, Uniform(p, kind, reg),
         NEW n \in 1 .. 3, Given(p, n)
  PROVE  /\ next' = next /\ began' = began /\ InMem
         /\ \/ Hold /\ Given(p, n)' /\ clint_mem'.wait = clint_mem.wait - 1
            \/ ~Hold /\ clint_mem.wait = 0 /\ n < 3 /\ Given(p, n + 1)' /\ clint_mem'.wait = 0
            \/ ~Hold /\ clint_mem.wait = 0 /\ n < 3 /\ Left(p, n)' /\ gap' = 1
            \/ ~Hold /\ clint_mem.wait = 0 /\ n = 3 /\ NoSequence'
<1>1. /\ todo = Rest(p, n) /\ clint_mem.access = p[n] /\ gap = 0
      /\ clint_mem.wait \in 0 .. MaxWait /\ MaxWait \in Nat
      /\ DOMAIN clint_mem = {"access", "wait"}
      /\ clint_mem = [access |-> p[n], wait |-> clint_mem.wait]
  BY ClintAssumption DEF Given, ClintTypeOK
<1>2. InMem /\ p[n] # NoAccess
  BY <1>1 DEF InMem, Uniform
<1>3. Rest(p, n) # ReadTime /\ (n < 3 => Rest(p, n) # << >>)
      /\ (n < 3 => Head(Rest(p, n)) = p[n + 1] /\ Tail(Rest(p, n)) = Rest(p, n + 1))
      /\ (n = 3 => Rest(p, n) = << >>)
  <2>1. p = <<p[1], p[2], p[3]>>
    BY DEF Uniform
  <2>3. Rest(p, n) # ReadTime
    BY <2>1, RestIsShorter
  <2>4. n < 3 => n \in 0 .. 2
    OBVIOUS
  <2> QED
    BY <2>1, <2>3, <2>4, RestFacts
<1>4. CASE Held
  <2>1. /\ Hold /\ clint_mem' = [clint_mem EXCEPT !.wait = @ - 1]
        /\ UNCHANGED <<todo, gap, began, next>>
    BY <1>4 DEF Held
  <2>2. clint_mem'.wait = clint_mem.wait - 1 /\ clint_mem'.access = p[n]
    BY <1>1, <2>1
  <2> QED
    BY <1>1, <1>2, <2>1, <2>2 DEF Given
<1>5. CASE Issue
  <2>1. PICK w \in 0 .. MaxWait :
          /\ w > 0 => ~InMem
          /\ clint_mem' = [access |-> Head(todo), wait |-> w]
    BY <1>5 DEF Issue
  <2>2. /\ ~Hold /\ todo # << >> /\ todo' = Tail(todo) /\ gap' = 0 /\ next' = next
        /\ began' = began
    BY <1>1, <1>3, <1>5 DEF Issue
  <2>3. w = 0 /\ clint_mem.wait = 0 /\ n < 3
    BY <1>1, <1>2, <1>3, <2>1, <2>2 DEF Hold
  <2>4. clint_mem'.access = p[n + 1] /\ clint_mem'.wait = 0 /\ todo' = Rest(p, n + 1)
    BY <1>1, <1>3, <2>1, <2>2, <2>3
  <2> QED
    BY <1>2, <2>2, <2>3, <2>4 DEF Given
<1>6. CASE Pause
  <2>1. /\ ~Hold /\ clint_mem' = [access |-> NoAccess, wait |-> 0]
        /\ gap' = IF todo # << >> THEN gap + 1 ELSE 0
        /\ UNCHANGED <<todo, began, next>>
    BY <1>6 DEF Pause
  <2>2. clint_mem.wait = 0 /\ clint_mem'.access = NoAccess
    BY <1>1, <1>2, <2>1 DEF Hold
  <2> QED
    BY <1>1, <1>2, <1>3, <2>1, <2>2 DEF Left, NoSequence
<1>7. ~Begin
  BY <1>2 DEF Begin
<1> QED
  BY <1>4, <1>5, <1>6, <1>7 DEF ClintClock

LEMMA LeftStep ==
  ASSUME ClintTypeOK, ClintClock, NEW p, NEW kind, NEW reg, Uniform(p, kind, reg),
         NEW n \in 0 .. 2, Left(p, n)
  PROVE  /\ next' = next /\ ~InMem /\ ~Hold
         /\ \/ Left(p, n)' /\ gap' = gap + 1 /\ gap < MaxGap /\ began' = began
            \/ /\ Given(p, n + 1)' /\ clint_mem'.wait \in 0 .. MaxWait
               /\ p = ReadTime /\ n = 0 => began' = ideal'
               /\ n # 0 => began' = began
<1>1. /\ todo = Rest(p, n) /\ clint_mem.access = NoAccess /\ gap \in 0 .. MaxGap
      /\ Rest(p, n) # << >> /\ Head(Rest(p, n)) = p[n + 1]
      /\ Tail(Rest(p, n)) = Rest(p, n + 1)
  BY RestFacts DEF Left, Uniform, ClintTypeOK
<1>2. ~InMem /\ ~Hold
  BY <1>1 DEF InMem, Hold
<1>3. (n = 0 => Rest(p, n) = p) /\ (n # 0 => Rest(p, n) # ReadTime)
  <2>1. p = <<p[1], p[2], p[3]>>
    BY DEF Uniform
  <2>2. n # 0 => n \in 1 .. 3
    OBVIOUS
  <2> QED
    BY <2>1, <2>2, RestFacts, RestIsShorter
<1>4. CASE Issue
  <2>1. PICK w \in 0 .. MaxWait : clint_mem' = [access |-> Head(todo), wait |-> w]
    BY <1>4 DEF Issue
  <2>2. /\ todo' = Tail(todo) /\ gap' = 0 /\ next' = next
        /\ began' = IF todo = ReadTime THEN ideal' ELSE began
    BY <1>4 DEF Issue
  <2> QED
    BY <1>1, <1>2, <1>3, <2>1, <2>2 DEF Given
<1>5. CASE Pause
  <2>1. /\ clint_mem' = [access |-> NoAccess, wait |-> 0]
        /\ todo # << >> => gap < MaxGap
        /\ gap' = IF todo # << >> THEN gap + 1 ELSE 0
        /\ UNCHANGED <<todo, began, next>>
    BY <1>5 DEF Pause
  <2> QED
    BY <1>1, <1>2, <2>1 DEF Left
<1>6. ~Begin /\ ~Held
  BY <1>1, <1>2 DEF Begin, Held
<1> QED
  BY <1>4, <1>5, <1>6 DEF ClintClock

LEMMA NoSequenceStep ==
  ASSUME ClintTypeOK, ClintClock, NoSequence
  PROVE  /\ ~InMem /\ ~Hold /\ began' = began
         /\ \/ NoSequence' /\ next' = next
            \/ ~rdata_due /\ Left(ReadTime, 0)' /\ next' = 0
            \/ ~rdata_due /\ \E t \in Times : /\ todo' = SetTime(t)
                                             /\ clint_mem'.access = NoAccess
                                             /\ next' = t[1] * HALF + t[2]
            \/ ~rdata_due /\ \E t \in Alarms : /\ todo' = SetCompare(t)
                                              /\ clint_mem'.access = NoAccess
                                              /\ next' = t[1] * HALF + t[2]
<1>1. todo = << >> /\ clint_mem.access = NoAccess
  BY DEF NoSequence
<1>2. ~InMem /\ ~Hold
  BY <1>1 DEF InMem, Hold
<1>3. CASE Pause
  BY <1>1, <1>2, <1>3 DEF Pause, NoSequence
<1>4. CASE Begin
  <2>1. /\ ~rdata_due /\ UNCHANGED <<clint_mem, began>>
        /\ \/ todo' = ReadTime /\ next' = 0
           \/ \E t \in Times : todo' = SetTime(t) /\ next' = t[1] * HALF + t[2]
           \/ \E t \in Alarms : todo' = SetCompare(t) /\ next' = t[1] * HALF + t[2]
    BY <1>4 DEF Begin
  <2>2. Rest(ReadTime, 0) = ReadTime
    BY DEF Rest
  <2> QED
    BY <1>1, <1>2, <2>1, <2>2 DEF Left
<1>5. ~Held /\ ~Issue
  BY <1>1, <1>2 DEF Held, Issue
<1> QED
  BY <1>3, <1>4, <1>5 DEF ClintClock

-----------------------------------------------------------------------------
(* Clint: types.                                                            *)

Sequence(p) == (\E n \in 0 .. 2 : Left(p, n)) \/ (\E n \in 1 .. 3 : Given(p, n))

LEMMA InSequence ==
  /\ ReadInv => NoSequence \/ Sequence(ReadTime)
  /\ SetTimeInv => Sequence(SetTime(Goal))
  /\ SetCompareInv => Sequence(SetCompare(Goal))
<1>1. 0 \in 0 .. 2 /\ 1 \in 0 .. 2 /\ 2 \in 0 .. 2 /\ 1 \in 1 .. 3 /\ 2 \in 1 .. 3 /\ 3 \in 1 .. 3
  OBVIOUS
<1>2. ASSUME NEW p
      PROVE  \/ Left(p, 0) \/ Left(p, 1) \/ Left(p, 2)
             \/ Given(p, 1) \/ Given(p, 2) \/ Given(p, 3)
             => Sequence(p)
  BY <1>1 DEF Sequence
<1>3. ReadInv => NoSequence \/ Sequence(ReadTime)
  BY <1>2 DEF ReadInv
<1>4. SetTimeInv => Sequence(SetTime(Goal))
  BY <1>2 DEF SetTimeInv
<1>5. SetCompareInv => Sequence(SetCompare(Goal))
  BY <1>2 DEF SetCompareInv
<1> QED
  BY <1>3, <1>4, <1>5

LEMMA GoalOf ==
  /\ \A t \in Halves \X Halves :
            /\ t[1] * HALF + t[2] \in 0 .. Modulus - 1
            /\ <<(t[1] * HALF + t[2]) \div HALF, (t[1] * HALF + t[2]) % HALF>> = t
  /\ next \in 0 .. Modulus - 1 =>
       /\ Goal \in Halves \X Halves /\ next = Goal[1] * HALF + Goal[2]
<1>1. HALF \in Nat \ {0} /\ Modulus = HALF * HALF
  BY ModulusFacts
<1>2. ASSUME NEW t \in Halves \X Halves
      PROVE  /\ t[1] * HALF + t[2] \in 0 .. Modulus - 1
             /\ <<(t[1] * HALF + t[2]) \div HALF, (t[1] * HALF + t[2]) % HALF>> = t
  <2>1. t[1] \in 0 .. HALF - 1 /\ t[2] \in 0 .. HALF - 1 /\ t = <<t[1], t[2]>>
    BY DEF Halves
  <2>2. /\ t[1] * HALF + t[2] \in 0 .. HALF * HALF - 1
        /\ (t[1] * HALF + t[2]) \div HALF = t[1] /\ (t[1] * HALF + t[2]) % HALF = t[2]
    BY <1>1, <2>1, HalvesOf
  <2> QED
    BY <1>1, <2>1, <2>2
<1>3. ASSUME next \in 0 .. Modulus - 1
      PROVE  Goal \in Halves \X Halves /\ next = Goal[1] * HALF + Goal[2]
  <2>1. /\ next \div HALF \in 0 .. HALF - 1 /\ next % HALF \in 0 .. HALF - 1
        /\ next = (next \div HALF) * HALF + (next % HALF)
    BY <1>1, <1>3, WholeOf
  <2>2. Goal[1] = next \div HALF /\ Goal[2] = next % HALF
    BY DEF Goal
  <2> QED
    BY <2>1, <2>2 DEF Goal, Halves
<1> QED
  BY <1>2, <1>3

LEMMA AccessesOf ==
  ASSUME NEW t \in Halves \X Halves
  PROVE  /\ \A n \in 1 .. 3 : /\ ReadTime[n] \in Accesses /\ SetTime(t)[n] \in Accesses
                              /\ SetCompare(t)[n] \in Accesses
<1>1. t[1] \in Halves /\ t[2] \in Halves /\ 0 \in Halves /\ HALF - 1 \in Halves
  BY ModulusFacts
<1>2. ASSUME NEW kind \in {"read", "write"}, NEW reg \in {"mtime", "mtimecmp"},
             NEW half \in {"hi", "lo"}, NEW data \in Halves
      PROVE  Access(kind, reg, half, data) \in Accesses
  BY DEF Access, Accesses
<1>3. ASSUME NEW n \in 1 .. 3 PROVE ReadTime[n] \in Accesses
  <2>1. /\ ReadTime[1] = Access("read", "mtime", "hi", 0)
        /\ ReadTime[2] = Access("read", "mtime", "lo", 0)
        /\ ReadTime[3] = Access("read", "mtime", "hi", 0)
    BY DEF ReadTime
  <2> QED
    BY <1>1, <1>2, <2>1
<1>4. ASSUME NEW n \in 1 .. 3 PROVE SetTime(t)[n] \in Accesses
  <2>1. /\ SetTime(t)[1] = Access("write", "mtime", "lo", 0)
        /\ SetTime(t)[2] = Access("write", "mtime", "hi", t[1])
        /\ SetTime(t)[3] = Access("write", "mtime", "lo", t[2])
    BY DEF SetTime
  <2> QED
    BY <1>1, <1>2, <2>1
<1>5. ASSUME NEW n \in 1 .. 3 PROVE SetCompare(t)[n] \in Accesses
  <2>1. /\ SetCompare(t)[1] = Access("write", "mtimecmp", "lo", HALF - 1)
        /\ SetCompare(t)[2] = Access("write", "mtimecmp", "hi", t[1])
        /\ SetCompare(t)[3] = Access("write", "mtimecmp", "lo", t[2])
    BY DEF SetCompare
  <2> QED
    BY <1>1, <1>2, <2>1
<1> QED
  BY <1>3, <1>4, <1>5

LEMMA MemType ==
  ASSUME ClintInv, ClintClock
  PROVE  /\ clint_mem' \in [access : Accesses, wait : 0 .. MaxWait]
         /\ gap' \in 0 .. MaxGap
<1>1. ClintTypeOK /\ MaxGap \in Nat /\ MaxWait \in Nat
  BY ClintAssumption DEF ClintInv
<1>2. /\ clint_mem \in [access : Accesses, wait : 0 .. MaxWait] /\ gap \in 0 .. MaxGap
      /\ 0 \in 0 .. MaxGap /\ 0 \in 0 .. MaxWait
  BY <1>1 DEF ClintTypeOK
<1>3. Goal \in Halves \X Halves
  BY <1>1, GoalOf DEF ClintTypeOK
<1>4. CASE Held
  BY <1>1, <1>2, <1>4 DEF Held, Hold
<1>5. CASE Pause
  <2>1. NoAccess \in Accesses
    BY DEF Accesses
  <2> QED
    BY <1>1, <1>2, <1>5, <2>1 DEF Pause
<1>6. CASE Begin
  BY <1>2, <1>6 DEF Begin
<1>7. CASE Issue
  <2>1. todo # << >> /\ gap' = 0
    BY <1>7 DEF Issue
  <2>2. PICK w \in 0 .. MaxWait : clint_mem' = [access |-> Head(todo), wait |-> w]
    BY <1>7 DEF Issue
  <2>3. ASSUME NEW p, NEW kind, NEW reg, Uniform(p, kind, reg), Sequence(p),
               \A n \in 1 .. 3 : p[n] \in Accesses
        PROVE  Head(todo) \in Accesses
    <3>1. p = <<p[1], p[2], p[3]>>
      BY <2>3 DEF Uniform
    <3>2. ASSUME NEW n \in 0 .. 2, todo = Rest(p, n) PROVE Head(todo) \in Accesses
      <4>1. n + 1 \in 1 .. 3
        OBVIOUS
      <4> QED
        BY <2>3, <3>1, <3>2, <4>1, RestFacts
    <3>3. ASSUME NEW n \in 1 .. 3, todo = Rest(p, n) PROVE n \in 0 .. 2
      <4>1. n # 3
        BY <2>1, <3>1, <3>3, RestFacts
      <4> QED
        BY <4>1
    <3> QED
      BY <2>3, <3>2, <3>3 DEF Sequence, Left, Given
  <2>4. Head(todo) \in Accesses
    <3>1. NoSequence \/ Sequence(ReadTime) \/ Sequence(SetTime(Goal)) \/ Sequence(SetCompare(Goal))
      BY InSequence DEF ClintInv
    <3>2. ~NoSequence
      BY <2>1 DEF NoSequence
    <3>3. Sequence(ReadTime) => Head(todo) \in Accesses
      BY <1>3, <2>3, SequencesAreUniform, AccessesOf
    <3>4. Sequence(SetTime(Goal)) => Head(todo) \in Accesses
      <4>1. PICK g : g = Goal
        OBVIOUS
      <4>2. Sequence(SetTime(g)) => Head(todo) \in Accesses
        BY <1>3, <2>3, <4>1, SequencesAreUniform, AccessesOf
      <4> QED
        BY <4>1, <4>2
    <3>5. Sequence(SetCompare(Goal)) => Head(todo) \in Accesses
      <4>1. PICK g : g = Goal
        OBVIOUS
      <4>2. Sequence(SetCompare(g)) => Head(todo) \in Accesses
        BY <1>3, <2>3, <4>1, SequencesAreUniform, AccessesOf
      <4> QED
        BY <4>1, <4>2
    <3> QED
      BY <3>1, <3>2, <3>3, <3>4, <3>5
  <2> QED
    BY <1>2, <2>1, <2>2, <2>4
<1> QED
  BY <1>4, <1>5, <1>6, <1>7 DEF ClintClock

LEMMA ReadType ==
  ASSUME ClintTypeOK, ClintClock
  PROVE  rdata' \in Halves /\ reads' \in Seq(Halves) /\ rdata_due' \in BOOLEAN
<1>1. /\ rdata \in Halves /\ reads \in Seq(Halves) /\ rdata_due \in BOOLEAN
      /\ mtime \in [hi : Halves, lo : Halves] /\ mtimecmp \in [hi : Halves, lo : Halves]
  BY DEF ClintTypeOK
<1>2. rdata' \in Halves
  <2>1. mtime[clint_mem.access.half] \in Halves /\ mtimecmp[clint_mem.access.half] \in Halves
    BY <1>1, AccessInMem
  <2>2. \/ rdata' = rdata \/ rdata' = mtime[clint_mem.access.half]
        \/ rdata' = mtimecmp[clint_mem.access.half]
    <3>1. /\ ReadData
          /\ \/ clint_mem.access.kind = "none" \/ clint_mem.access.reg = "mtime"
             \/ clint_mem.access.reg = "mtimecmp"
      BY AccessInMem DEF ClintClock
    <3> QED
      BY <3>1 DEF ReadData
  <2> QED
    BY <1>1, <2>1, <2>2
<1>3. reads' \in Seq(Halves)
  <2>1. Append(reads, rdata) \in Seq(Halves) /\ << >> \in Seq(Halves)
    BY <1>1
  <2> QED
    BY <1>1, <2>1 DEF ClintClock, TakeRead
<1> QED
  BY <1>2, <1>3 DEF ClintClock, TakeRead

LEMMA TypeStep ==
  ASSUME ClintInv, ClintClock
  PROVE  ClintTypeOK'
<1>1. ClintTypeOK
  BY DEF ClintInv
<1>2. mtime' \in [hi : Halves, lo : Halves] /\ mtimecmp' \in [hi : Halves, lo : Halves]
  BY <1>1, TimeEffect, CompareEffect DEF ClintClock
<1>3. cnt_us' \in 0 .. CLOCKS_PER_US - 1
  <2>1. cnt_us \in 0 .. CLOCKS_PER_US - 1 /\ CLOCKS_PER_US \in Nat \ {0}
    BY <1>1, ModulusFacts DEF ClintTypeOK
  <2> QED
    BY <2>1 DEF ClintClock, tick_us
<1>4. /\ ideal \in 0 .. Modulus - 1 /\ began \in 0 .. Modulus - 1
      /\ target \in 0 .. Modulus - 1 /\ next \in 0 .. Modulus - 1 /\ Modulus \in Nat \ {0}
  BY <1>1, ModulusFacts DEF ClintTypeOK
<1>5. ideal' \in 0 .. Modulus - 1 /\ target' \in 0 .. Modulus - 1
  <2>1. (ideal + 1) % Modulus \in 0 .. Modulus - 1
    BY <1>4, WrapsAround
  <2> QED
    BY <1>4, <2>1 DEF ClintClock, Ideal
<1>6. began' \in 0 .. Modulus - 1
  BY <1>4, <1>5 DEF ClintClock, Held, Issue, Pause, Begin
<1>7. next' \in 0 .. Modulus - 1
  <2>1. CASE Begin
    <3>1. Times \subseteq Halves \X Halves
      <4>1. /\ Times \subseteq (0 .. HALF - 1) \X (0 .. HALF - 2)
        BY ClintAssumption
      <4>2. 0 .. HALF - 2 \subseteq 0 .. HALF - 1
        BY ModulusFacts
      <4> QED
        BY <4>1, <4>2 DEF Halves
    <3>2. Alarms \subseteq Halves \X Halves
      BY ClintAssumption DEF Halves
    <3>3. \/ next' = 0
          \/ \E t \in Halves \X Halves : next' = t[1] * HALF + t[2]
      BY <2>1, <3>1, <3>2 DEF Begin
    <3> QED
      BY <1>4, <3>3, GoalOf
  <2> QED
    BY <1>4, <2>1 DEF ClintClock, Held, Issue, Pause
<1> QED
  BY <1>1, <1>2, <1>3, <1>5, <1>6, <1>7, MemType, ReadType DEF ClintTypeOK

-----------------------------------------------------------------------------
(* Clint: setting the time.                                                 *)

LEMMA SeenNothing ==
  ASSUME ClintTypeOK, TakeRead, Seen = << >>, clint_mem.access.kind # "read"
  PROVE  Seen' = << >> /\ ~rdata_due
<1>1. Append(reads, rdata) # << >>
  <2>1. reads \in Seq(Halves) /\ rdata \in Halves
    BY DEF ClintTypeOK
  <2>2. Len(Append(reads, rdata)) = Len(reads) + 1 /\ Len(reads) \in Nat
    BY <2>1
  <2> QED
    BY <2>2
<1>2. ~rdata_due /\ reads = << >>
  BY <1>1 DEF Seen, ClintTypeOK
<1>3. ~rdata_due' /\ reads' = << >>
  BY <1>2 DEF TakeRead
<1> QED
  BY <1>2, <1>3 DEF Seen

LEMMA BoundFacts ==
  /\ MaxGap \in Nat /\ MaxWait \in Nat /\ HALF \in Nat /\ CLOCKS_PER_US \in Nat \ {0}
  /\ CLOCKS_PER_US + 2 * MaxGap + MaxWait < HALF * CLOCKS_PER_US - 1
<1>1. /\ MaxGap \in Nat /\ MaxWait \in Nat /\ HALF \in Nat /\ CLOCKS_PER_US \in Nat \ {0}
      /\ 2 * MaxGap + MaxWait + 2 <= (HALF - 1) * CLOCKS_PER_US
  BY ClintAssumption
<1>2. (HALF - 1) * CLOCKS_PER_US = HALF * CLOCKS_PER_US - CLOCKS_PER_US
  BY <1>1
<1> DEFINE b == HALF * CLOCKS_PER_US
<1>3. b \in Int
  BY <1>1
<1>5. (HALF - 1) * CLOCKS_PER_US = b - CLOCKS_PER_US
  BY <1>2
<1> HIDE DEF b
<1>4. CLOCKS_PER_US + 2 * MaxGap + MaxWait < b - 1
  BY <1>1, <1>3, <1>5
<1> QED
  BY <1>1, <1>4 DEF b

LEMMA LowFacts ==
  ASSUME ClintTypeOK
  PROVE  /\ LowClocks \in Nat /\ mtime.lo \in Nat /\ cnt_us \in Nat
         /\ (mtime.lo + 1) * CLOCKS_PER_US = mtime.lo * CLOCKS_PER_US + CLOCKS_PER_US
         /\ mtime.lo = HALF - 1 /\ tick_us => LowClocks = HALF * CLOCKS_PER_US - 1
<1>1. /\ mtime.lo \in Nat /\ cnt_us \in Nat /\ HALF \in Nat \ {0}
      /\ CLOCKS_PER_US \in Nat \ {0} /\ mtime.lo * CLOCKS_PER_US \in Nat
  BY ModulusFacts DEF ClintTypeOK, Halves
<1>2. (mtime.lo + 1) * CLOCKS_PER_US = mtime.lo * CLOCKS_PER_US + CLOCKS_PER_US
  BY <1>1
<1>3. ASSUME mtime.lo = HALF - 1, tick_us PROVE LowClocks = HALF * CLOCKS_PER_US - 1
  <2>1. mtime.lo + 1 = HALF
    BY <1>1, <1>3
  <2>2. HALF * CLOCKS_PER_US = mtime.lo * CLOCKS_PER_US + CLOCKS_PER_US
    BY <1>2, <2>1
  <2>3. cnt_us = CLOCKS_PER_US - 1
    BY <1>3 DEF tick_us
  <2> DEFINE x == HALF * CLOCKS_PER_US  y == mtime.lo * CLOCKS_PER_US
  <2>4. x = y + CLOCKS_PER_US /\ LowClocks = y + cnt_us /\ y \in Nat
    BY <1>1, <2>2 DEF LowClocks
  <2> HIDE DEF x, y
  <2>5. LowClocks = x - 1
    BY <1>1, <2>3, <2>4
  <2> QED
    BY <2>5 DEF x
<1> QED
  BY <1>1, <1>2, <1>3 DEF LowClocks

\* A write of 0 sets the low half to 0.
LEMMA LowZero ==
  ASSUME ClintTypeOK, ClintClock, mtime'.lo = 0
  PROVE  LowClocks' < CLOCKS_PER_US
<1>1. cnt_us' < CLOCKS_PER_US /\ cnt_us' \in Nat
  <2>1. cnt_us \in 0 .. CLOCKS_PER_US - 1 /\ CLOCKS_PER_US \in Nat \ {0}
    BY ModulusFacts DEF ClintTypeOK
  <2> QED
    BY <2>1 DEF ClintClock, tick_us
<1>2. mtime'.lo * CLOCKS_PER_US = 0
  BY ModulusFacts
<1> QED
  BY <1>1, <1>2 DEF LowClocks

\* The low half goes on, and does not carry.
LEMMA LowStep ==
  ASSUME ClintTypeOK, ClintClock,
         LowClocks <= CLOCKS_PER_US + 2 * MaxGap + MaxWait
  PROVE  /\ mtime'.hi = IF Writes("mtime") /\ clint_mem.access.half = "hi"
                          THEN clint_mem.access.data ELSE mtime.hi
         /\ \/ Writes("mtime") /\ clint_mem.access.half = "lo"
            \/ LowClocks' = LowClocks + 1
<1>1. ~(mtime.lo = HALF - 1 /\ tick_us)
  <2> DEFINE b == HALF * CLOCKS_PER_US
  <2>1. b \in Int /\ CLOCKS_PER_US + 2 * MaxGap + MaxWait < b - 1
    BY BoundFacts
  <2>2. mtime.lo = HALF - 1 /\ tick_us => LowClocks = b - 1
    BY LowFacts
  <2> HIDE DEF b
  <2> QED
    BY <2>1, <2>2, LowFacts, BoundFacts
<1>2. /\ mtime'.lo = IF Writes("mtime") /\ clint_mem.access.half = "lo"
                       THEN clint_mem.access.data ELSE IF tick_us THEN NextLo ELSE mtime.lo
      /\ mtime'.hi = IF Writes("mtime") /\ clint_mem.access.half = "hi"
                       THEN clint_mem.access.data ELSE IF tick_us THEN NextHi ELSE mtime.hi
  BY TimeEffect DEF ClintClock
<1>3. tick_us => NextHi = mtime.hi /\ NextLo = mtime.lo + 1
  BY <1>1 DEF NextHi, NextLo
<1>4. cnt_us' = IF tick_us THEN 0 ELSE cnt_us + 1
  BY DEF ClintClock
<1>5. ASSUME ~(Writes("mtime") /\ clint_mem.access.half = "lo")
      PROVE  LowClocks' = LowClocks + 1
  <2>1. LowClocks' = mtime'.lo * CLOCKS_PER_US + cnt_us'
    BY DEF LowClocks
  <2>2. LowClocks = mtime.lo * CLOCKS_PER_US + cnt_us /\ mtime.lo * CLOCKS_PER_US \in Nat
    BY LowFacts, ModulusFacts DEF LowClocks
  <2>3. CASE tick_us
    <3>1. mtime'.lo = mtime.lo + 1 /\ cnt_us' = 0 /\ cnt_us = CLOCKS_PER_US - 1
      BY <1>2, <1>3, <1>4, <1>5, <2>3 DEF tick_us
    <3>2. mtime'.lo * CLOCKS_PER_US = mtime.lo * CLOCKS_PER_US + CLOCKS_PER_US
      BY <3>1, LowFacts
    <3> QED
      BY <2>1, <2>2, <3>1, <3>2, ModulusFacts
  <2>4. CASE ~tick_us
    <3>1. mtime'.lo = mtime.lo /\ cnt_us' = cnt_us + 1
      BY <1>2, <1>4, <1>5, <2>4
    <3> QED
      BY <2>1, <2>2, <3>1, LowFacts
  <2> QED
    BY <2>3, <2>4
<1> QED
  BY <1>2, <1>3, <1>5

LEMMA AccessIs ==
  ASSUME NEW t
  PROVE  /\ SetTime(t)[1] = Access("write", "mtime", "lo", 0)
         /\ SetTime(t)[2] = Access("write", "mtime", "hi", t[1])
         /\ SetTime(t)[3] = Access("write", "mtime", "lo", t[2])
         /\ SetCompare(t)[1] = Access("write", "mtimecmp", "lo", HALF - 1)
         /\ SetCompare(t)[2] = Access("write", "mtimecmp", "hi", t[1])
         /\ SetCompare(t)[3] = Access("write", "mtimecmp", "lo", t[2])
  BY DEF SetTime, SetCompare

\* What an access in MEM writes.
LEMMA WriteOf ==
  ASSUME NEW reg, NEW half, NEW data,
         clint_mem.access = Access("write", reg, half, data)
  PROVE  /\ Writes(reg) /\ clint_mem.access.half = half /\ clint_mem.access.data = data
         /\ clint_mem.access.kind = "write"
         /\ \A r : r # reg => ~Writes(r)
  BY DEF Access, Writes

LEMMA NotWriting ==
  ASSUME clint_mem.access = NoAccess
  PROVE  clint_mem.access.kind = "none" /\ \A r : ~Writes(r)
  BY DEF NoAccess, Writes

\* A sequence that sets the time goes on, or is over and has set it.
LEMMA SetTimeStep ==
  ASSUME ClintInv, ClintClock, SetTimeInv
  PROVE  \/ SetTimeInv'
         \/ NoSequence' /\ Seen' = << >> /\ Whole(mtime)' = ideal'
<1> DEFINE V == MaxWait  C == CLOCKS_PER_US
<1>1. PICK g : g = Goal
  OBVIOUS
<1>2. PICK p : p = SetTime(g)
  OBVIOUS
<1>3. /\ Uniform(p, "write", "mtime") /\ ClintTypeOK
      /\ p[1] = Access("write", "mtime", "lo", 0) /\ p[2] = Access("write", "mtime", "hi", g[1])
      /\ p[3] = Access("write", "mtime", "lo", g[2])
  BY <1>2, SequencesAreUniform, AccessIs DEF ClintInv
<1>4. /\ g[1] \in Nat /\ g[2] \in Nat /\ g[2] # HALF - 1 /\ next = g[1] * HALF + g[2]
      /\ MaxGap \in Nat /\ MaxWait \in Nat /\ CLOCKS_PER_US \in Nat
      /\ gap \in 0 .. MaxGap /\ clint_mem.wait \in 0 .. MaxWait /\ LowClocks \in Nat
  <2>1. Goal \in Halves \X Halves /\ next = Goal[1] * HALF + Goal[2]
    BY <1>3, GoalOf DEF ClintTypeOK
  <2>2. g[2] # HALF - 1
    BY <1>1 DEF SetTimeInv
  <2> QED
    BY <1>1, <1>3, <2>1, <2>2, BoundFacts, LowFacts, ModulusFacts DEF ClintTypeOK, Halves
<1>5. ASSUME next' = next,
             \/ Left(p, 0)'
             \/ Given(p, 1)'
             \/ Left(p, 1)' /\ gap' > 0 /\ LowClocks' < C + gap' - 1
             \/ Given(p, 2)' /\ LowClocks' < C + MaxGap + V - clint_mem'.wait
             \/ Left(p, 2)' /\ mtime'.hi = g[1] /\ LowClocks' < C + MaxGap + V + gap'
             \/ Given(p, 3)' /\ mtime'.hi = g[1]
                  /\ (mtime'.lo = g[2] \/ LowClocks' <= C + 2 * MaxGap + V),
             clint_mem.access.kind # "read"
      PROVE  SetTimeInv'
  <2>1. Goal' = g
    BY <1>1, <1>5 DEF Goal
  <2>2. SetTime(Goal)' = p
    BY <1>2, <2>1 DEF SetTime
  <2>3. Seen' = << >>
    BY <1>3, <1>5, SeenNothing DEF SetTimeInv, ClintClock
  <2> QED
    BY <1>4, <1>5, <2>1, <2>2, <2>3 DEF SetTimeInv
<1>6. /\ Seen = << >>
      /\ \/ Left(p, 0)
         \/ Given(p, 1)
         \/ Left(p, 1) /\ gap > 0 /\ LowClocks < C + gap - 1
         \/ Given(p, 2) /\ LowClocks < C + MaxGap + V - clint_mem.wait
         \/ Left(p, 2) /\ mtime.hi = g[1] /\ LowClocks < C + MaxGap + V + gap
         \/ Given(p, 3) /\ mtime.hi = g[1]
              /\ (mtime.lo = g[2] \/ LowClocks <= C + 2 * MaxGap + V)
  BY <1>1, <1>2 DEF SetTimeInv
<1>7. CASE Left(p, 0)
  <2>1. /\ next' = next
        /\ Left(p, 0)' \/ Given(p, 1)'
    BY <1>3, <1>7, LeftStep
  <2>2. clint_mem.access.kind # "read"
    BY <1>7, NotWriting DEF Left
  <2> QED
    BY <1>5, <2>1, <2>2
<1>8. CASE Given(p, 1)
  <2>1. /\ Writes("mtime") /\ clint_mem.access.half = "lo" /\ clint_mem.access.data = 0
        /\ clint_mem.access.kind # "read"
    BY <1>3, <1>8, WriteOf DEF Given
  <2>2. mtime'.lo = 0
    BY <1>3, <2>1, TimeEffect DEF ClintClock
  <2>3. LowClocks' < C
    BY <1>3, <2>2, LowZero
  <2>4. LowClocks' \in Int
    BY <1>3, <2>2, TypeStep, ModulusFacts DEF LowClocks, ClintTypeOK
  <2>5. /\ next' = next
        /\ \/ Given(p, 1)'
           \/ Given(p, 2)' /\ clint_mem'.wait = 0
           \/ Left(p, 1)' /\ gap' = 1
    BY <1>3, <1>8, GivenStep
  <2> QED
    BY <1>4, <1>5, <2>1, <2>3, <2>4, <2>5
<1>9. CASE Left(p, 1) /\ gap > 0 /\ LowClocks < C + gap - 1
  <2>1. (\A r : ~Writes(r)) /\ clint_mem.access.kind # "read"
    BY <1>9, NotWriting DEF Left
  <2>2. LowClocks' = LowClocks + 1
    BY <1>3, <1>4, <1>9, <2>1, LowStep
  <2>3. /\ next' = next
        /\ \/ Left(p, 1)' /\ gap' = gap + 1
           \/ Given(p, 2)' /\ clint_mem'.wait \in 0 .. MaxWait
    BY <1>3, <1>9, LeftStep
  <2> QED
    BY <1>4, <1>5, <1>9, <2>1, <2>2, <2>3
<1>10. CASE Given(p, 2) /\ LowClocks < C + MaxGap + V - clint_mem.wait
  <2>1. /\ Writes("mtime") /\ clint_mem.access.half = "hi" /\ clint_mem.access.data = g[1]
        /\ clint_mem.access.kind # "read"
    BY <1>3, <1>10, WriteOf DEF Given
  <2>2. LowClocks' = LowClocks + 1 /\ mtime'.hi = g[1]
    BY <1>3, <1>4, <1>10, <2>1, LowStep
  <2>3. /\ next' = next
        /\ \/ Given(p, 2)' /\ clint_mem'.wait = clint_mem.wait - 1
           \/ clint_mem.wait = 0 /\ Given(p, 3)' /\ clint_mem'.wait = 0
           \/ clint_mem.wait = 0 /\ Left(p, 2)' /\ gap' = 1
    BY <1>3, <1>10, GivenStep
  <2> QED
    BY SMTT(30), <1>4, <1>5, <1>10, <2>1, <2>2, <2>3
<1>11. CASE Left(p, 2) /\ mtime.hi = g[1] /\ LowClocks < C + MaxGap + V + gap
  <2>1. (\A r : ~Writes(r)) /\ clint_mem.access.kind # "read"
    BY <1>11, NotWriting DEF Left
  <2>2. LowClocks' = LowClocks + 1 /\ mtime'.hi = g[1]
    BY <1>3, <1>4, <1>11, <2>1, LowStep
  <2>3. /\ next' = next
        /\ \/ Left(p, 2)' /\ gap' = gap + 1 /\ gap < MaxGap
           \/ Given(p, 3)' /\ clint_mem'.wait \in 0 .. MaxWait
    BY <1>3, <1>11, LeftStep
  <2> QED
    BY <1>4, <1>5, <1>11, <2>1, <2>2, <2>3
<1>12. CASE Given(p, 3) /\ mtime.hi = g[1]
              /\ (mtime.lo = g[2] \/ LowClocks <= C + 2 * MaxGap + V)
  <2>1. /\ Writes("mtime") /\ clint_mem.access.half = "lo" /\ clint_mem.access.data = g[2]
        /\ clint_mem.access.kind # "read"
    BY <1>3, <1>12, WriteOf DEF Given
  <2>2. mtime'.lo = g[2]
    BY <1>3, <2>1, TimeEffect DEF ClintClock
  <2>3. mtime'.hi = g[1]
    <3>1. CASE mtime.lo = g[2]
      <4>1. NextHi = mtime.hi
        BY <1>4, <3>1 DEF NextHi
      <4> QED
        BY <1>3, <1>12, <2>1, <4>1, TimeEffect DEF ClintClock
    <3>2. CASE LowClocks <= C + 2 * MaxGap + V
      BY <1>3, <1>12, <2>1, <3>2, LowStep
    <3> QED
      BY <1>12, <3>1, <3>2
  <2>4. /\ next' = next
        /\ \/ Given(p, 3)'
           \/ ~Hold /\ InMem /\ NoSequence'
    BY <1>3, <1>12, GivenStep
  <2>5. CASE Given(p, 3)'
    BY <1>5, <2>1, <2>2, <2>3, <2>4, <2>5
  <2>6. CASE ~Hold /\ InMem /\ NoSequence'
    <3>1. todo = << >>
      BY <1>3, <1>12, RestFacts DEF Given, Uniform
    <3>2. ideal' = next
      BY <2>1, <2>6, <3>1 DEF ClintClock, Ideal, Done
    <3>3. Whole(mtime)' = next
      BY <1>4, <2>2, <2>3 DEF Whole
    <3>4. Seen' = << >>
      BY <1>3, <1>6, <2>1, SeenNothing DEF ClintClock
    <3> QED
      BY <2>6, <3>2, <3>3, <3>4
  <2> QED
    BY <2>4, <2>5, <2>6
<1> QED
  BY <1>6, <1>7, <1>8, <1>9, <1>10, <1>11, <1>12

-----------------------------------------------------------------------------
(* Clint: setting the comparator.                                           *)

\* A sequence that sets the comparator goes on, or is over and has set it.
LEMMA SetCompareStep ==
  ASSUME ClintInv, ClintClock, SetCompareInv
  PROVE  \/ SetCompareInv'
         \/ NoSequence' /\ Seen' = << >> /\ Whole(mtimecmp)' = target'
<1> DEFINE ones == mtimecmp.lo = HALF - 1
           above == Whole(mtimecmp) >= target
<1>1. PICK g : g = Goal
  OBVIOUS
<1>2. PICK p : p = SetCompare(g)
  OBVIOUS
<1>3. /\ Uniform(p, "write", "mtimecmp") /\ ClintTypeOK
      /\ p[1] = Access("write", "mtimecmp", "lo", HALF - 1)
      /\ p[2] = Access("write", "mtimecmp", "hi", g[1])
      /\ p[3] = Access("write", "mtimecmp", "lo", g[2])
  BY <1>2, SequencesAreUniform, AccessIs DEF ClintInv
<1>4. /\ next = g[1] * HALF + g[2] /\ target \in Int
      /\ mtimecmp.lo \in 0 .. HALF - 1 /\ mtimecmp.hi * HALF \in Int /\ HALF \in Nat
  <2>1. Goal \in Halves \X Halves /\ next = Goal[1] * HALF + Goal[2]
    BY <1>3, GoalOf DEF ClintTypeOK
  <2>2. mtimecmp.lo \in 0 .. HALF - 1 /\ mtimecmp.hi \in 0 .. HALF - 1 /\ target \in Int
    BY <1>3 DEF ClintTypeOK, Halves
  <2>3. mtimecmp.hi * HALF \in Int
    BY <2>2, ModulusFacts
  <2> QED
    BY <1>1, <2>1, <2>2, <2>3, ModulusFacts
<1>5. ASSUME next' = next,
             \/ Left(p, 0)' /\ above'
             \/ Given(p, 1)' /\ above'
             \/ Left(p, 1)' /\ ones' /\ above'
             \/ Given(p, 2)' /\ ones' /\ (above' \/ mtimecmp'.hi = g[1])
             \/ Left(p, 2)' /\ ones' /\ mtimecmp'.hi = g[1]
             \/ Given(p, 3)' /\ mtimecmp'.hi = g[1] /\ (ones' \/ mtimecmp'.lo = g[2]),
             clint_mem.access.kind # "read"
      PROVE  SetCompareInv'
  <2>1. Goal' = g
    BY <1>1, <1>5 DEF Goal
  <2>2. SetCompare(Goal)' = p
    BY <1>2, <2>1 DEF SetCompare
  <2>3. Seen' = << >>
    BY <1>3, <1>5, SeenNothing DEF SetCompareInv, ClintClock
  <2> QED
    BY <1>5, <2>1, <2>2, <2>3 DEF SetCompareInv
<1>6. /\ Seen = << >>
      /\ \/ Left(p, 0) /\ above
         \/ Given(p, 1) /\ above
         \/ Left(p, 1) /\ ones /\ above
         \/ Given(p, 2) /\ ones /\ (above \/ mtimecmp.hi = g[1])
         \/ Left(p, 2) /\ ones /\ mtimecmp.hi = g[1]
         \/ Given(p, 3) /\ mtimecmp.hi = g[1] /\ (ones \/ mtimecmp.lo = g[2])
  BY <1>1, <1>2 DEF SetCompareInv
<1>7. target' = IF Done("mtimecmp") THEN next ELSE target
  BY DEF ClintClock, Ideal
<1>8. ASSUME \A r : ~Writes(r) PROVE mtimecmp' = mtimecmp /\ target' = target
  BY <1>7, <1>8 DEF ClintClock, Compare, Written, Done
<1>9. ASSUME NEW n \in 1 .. 2, todo = Rest(p, n) PROVE target' = target
  <2>1. Rest(p, n) # << >>
    <3>1. n \in 0 .. 2 /\ p = <<p[1], p[2], p[3]>>
      BY <1>3 DEF Uniform
    <3> QED
      BY <3>1, RestFacts
  <2> QED
    BY <1>7, <1>9, <2>1 DEF Done
<1>10. CASE Left(p, 0) /\ above
  <2>1. (\A r : ~Writes(r)) /\ clint_mem.access.kind # "read"
    BY <1>10, NotWriting DEF Left
  <2>2. next' = next /\ (Left(p, 0)' \/ Given(p, 1)')
    BY <1>3, <1>10, LeftStep
  <2>3. above'
    BY <1>8, <1>10, <2>1 DEF Whole
  <2> QED
    BY <1>5, <2>1, <2>2, <2>3
<1>11. CASE Given(p, 1) /\ above
  <2>1. /\ Writes("mtimecmp") /\ clint_mem.access.half = "lo"
        /\ clint_mem.access.data = HALF - 1 /\ clint_mem.access.kind # "read"
    BY <1>3, <1>11, WriteOf DEF Given
  <2>2. mtimecmp'.lo = HALF - 1 /\ mtimecmp'.hi = mtimecmp.hi
    BY <1>3, <2>1, CompareEffect DEF ClintClock
  <2>3. above' /\ ones'
    <3>1. target' = target
      BY <1>9, <1>11 DEF Given
    <3>2. Whole(mtimecmp)' >= Whole(mtimecmp)
      BY <1>4, <2>2 DEF Whole
    <3>3. Whole(mtimecmp) \in Int /\ Whole(mtimecmp)' \in Int
      BY <1>4, <2>2 DEF Whole
    <3>4. Whole(mtimecmp)' >= target'
      BY <1>4, <1>11, <3>1, <3>2, <3>3
    <3> QED
      BY <2>2, <3>4
  <2>4. /\ next' = next
        /\ Given(p, 1)' \/ Given(p, 2)' \/ Left(p, 1)'
    BY <1>3, <1>11, GivenStep
  <2> QED
    BY <1>5, <2>1, <2>3, <2>4
<1>12. CASE Left(p, 1) /\ ones /\ above
  <2>1. (\A r : ~Writes(r)) /\ clint_mem.access.kind # "read"
    BY <1>12, NotWriting DEF Left
  <2>2. next' = next /\ (Left(p, 1)' \/ Given(p, 2)')
    BY <1>3, <1>12, LeftStep
  <2>3. above' /\ ones'
    BY <1>8, <1>12, <2>1 DEF Whole
  <2> QED
    BY <1>5, <2>1, <2>2, <2>3
<1>13. CASE Given(p, 2) /\ ones /\ (above \/ mtimecmp.hi = g[1])
  <2>1. /\ Writes("mtimecmp") /\ clint_mem.access.half = "hi"
        /\ clint_mem.access.data = g[1] /\ clint_mem.access.kind # "read"
    BY <1>3, <1>13, WriteOf DEF Given
  <2>2. mtimecmp'.lo = HALF - 1 /\ mtimecmp'.hi = g[1]
    BY <1>3, <1>13, <2>1, CompareEffect DEF ClintClock
  <2>3. /\ next' = next
        /\ Given(p, 2)' \/ Given(p, 3)' \/ Left(p, 2)'
    BY <1>3, <1>13, GivenStep
  <2> QED
    BY <1>5, <2>1, <2>2, <2>3
<1>14. CASE Left(p, 2) /\ ones /\ mtimecmp.hi = g[1]
  <2>1. (\A r : ~Writes(r)) /\ clint_mem.access.kind # "read"
    BY <1>14, NotWriting DEF Left
  <2>2. next' = next /\ (Left(p, 2)' \/ Given(p, 3)')
    BY <1>3, <1>14, LeftStep
  <2> QED
    BY <1>5, <1>8, <1>14, <2>1, <2>2
<1>15. CASE Given(p, 3) /\ mtimecmp.hi = g[1] /\ (ones \/ mtimecmp.lo = g[2])
  <2>1. /\ Writes("mtimecmp") /\ clint_mem.access.half = "lo"
        /\ clint_mem.access.data = g[2] /\ clint_mem.access.kind # "read"
    BY <1>3, <1>15, WriteOf DEF Given
  <2>2. mtimecmp'.lo = g[2] /\ mtimecmp'.hi = g[1]
    BY <1>3, <1>15, <2>1, CompareEffect DEF ClintClock
  <2>3. /\ next' = next
        /\ Given(p, 3)' \/ (~Hold /\ InMem /\ NoSequence')
    BY <1>3, <1>15, GivenStep
  <2>4. CASE Given(p, 3)'
    BY <1>5, <2>1, <2>2, <2>3, <2>4
  <2>5. CASE ~Hold /\ InMem /\ NoSequence'
    <3>1. todo = << >>
      BY <1>3, <1>15, RestFacts DEF Given, Uniform
    <3>2. target' = next
      BY <1>7, <2>1, <2>5, <3>1 DEF Done
    <3>3. Whole(mtimecmp)' = next
      BY <1>4, <2>2 DEF Whole
    <3>4. Seen' = << >>
      BY <1>3, <1>6, <2>1, SeenNothing DEF ClintClock
    <3> QED
      BY <2>5, <3>2, <3>3, <3>4
  <2> QED
    BY <2>3, <2>4, <2>5
<1> QED
  BY <1>6, <1>10, <1>11, <1>12, <1>13, <1>14, <1>15

\* While it is set, the comparator is not below both what it was and what it will be.
LEMMA CompareIsHigh ==
  ASSUME ClintTypeOK, SetCompareInv
  PROVE  Whole(mtimecmp) >= target \/ Whole(mtimecmp) >= next
<1>1. Goal \in Halves \X Halves /\ next = Goal[1] * HALF + Goal[2]
  BY GoalOf DEF ClintTypeOK
<1>2. /\ Goal[2] <= HALF - 1 /\ Goal[2] \in Int /\ Goal[1] * HALF \in Int /\ HALF \in Nat
  BY <1>1, ModulusFacts DEF Halves
<1>3. ASSUME mtimecmp.hi = Goal[1], mtimecmp.lo = HALF - 1 \/ mtimecmp.lo = Goal[2]
      PROVE  Whole(mtimecmp) >= next
  BY <1>1, <1>2, <1>3 DEF Whole
<1> QED
  BY <1>3 DEF SetCompareInv

-----------------------------------------------------------------------------
(* Clint: reading the time.                                                 *)

LEMMA DifferenceWraps ==
  ASSUME NEW M \in Nat \ {0}, NEW i \in 0 .. M - 1, NEW b \in 0 .. M - 1
  PROVE  /\ (i - b) % M = (IF b <= i THEN i - b ELSE i - b + M)
         /\ (i - b) % M \in 0 .. M - 1
<1>1. CASE b <= i
  BY <1>1
<1>2. CASE ~(b <= i)
  <2>1. i - b + M \in 0 .. M - 1
    BY <1>2
  <2>2. (i - b) % M = i - b + M
    BY <1>2, <2>1
  <2> QED
    BY <1>2, <2>1, <2>2
<1> QED
  BY <1>1, <1>2

LEMMA SumWraps ==
  ASSUME NEW M \in Nat \ {0}, NEW b \in 0 .. M - 1, NEW e \in 0 .. M - 1
  PROVE  /\ (b + e) % M = (IF b + e < M THEN b + e ELSE b + e - M)
         /\ (b + e) % M \in 0 .. M - 1
<1>1. CASE b + e < M
  BY <1>1
<1>2. CASE ~(b + e < M)
  <2>1. b + e - M \in 0 .. M - 1
    BY <1>2
  <2>2. (b + e) % M = b + e - M
    BY <1>2, <2>1
  <2> QED
    BY <1>2, <2>1, <2>2
<1> QED
  BY <1>1, <1>2

LEMMA ElapsedFacts ==
  ASSUME ClintTypeOK
  PROVE  Elapsed \in 0 .. Modulus - 1 /\ TimeAt(Elapsed) = ideal
<1>1. ideal \in 0 .. Modulus - 1 /\ began \in 0 .. Modulus - 1 /\ Modulus \in Nat \ {0}
  BY ModulusFacts DEF ClintTypeOK
<1>2. /\ Elapsed \in 0 .. Modulus - 1
      /\ Elapsed = IF began <= ideal THEN ideal - began ELSE ideal - began + Modulus
  BY <1>1, DifferenceWraps DEF Elapsed
<1>3. (began + Elapsed) % Modulus
        = IF began + Elapsed < Modulus THEN began + Elapsed ELSE began + Elapsed - Modulus
  BY <1>1, <1>2, SumWraps
<1> QED
  BY <1>1, <1>2, <1>3 DEF TimeAt

\* A sequence that reads is over before the high half comes round.
LEMMA ElapsedBound ==
  ASSUME ClintTypeOK, NEW n \in Int, n <= 3 * MaxWait + 2 * MaxGap + 4, Spent(n)
  PROVE  Elapsed <= Modulus - HALF
<1>1. /\ Elapsed \in Nat /\ cnt_us \in Nat /\ CLOCKS_PER_US \in Nat \ {0}
      /\ Modulus - HALF \in Nat /\ MaxWait \in Nat /\ MaxGap \in Nat
  BY ElapsedFacts, ModulusFacts, BoundFacts DEF ClintTypeOK
<1>2. n <= (Modulus - HALF) * CLOCKS_PER_US
  <2>1. 2 * MaxGap + 3 * MaxWait + 4 <= (Modulus - HALF) * CLOCKS_PER_US
    BY ClintAssumption DEF Modulus
  <2>2. (Modulus - HALF) * CLOCKS_PER_US \in Int
    BY <1>1
  <2> QED
    BY <1>1, <2>1, <2>2
<1>3. ASSUME NEW e \in Nat, NEW m \in Nat, NEW c \in Nat \ {0}, e > m
      PROVE  e * c >= m * c + c /\ e * c \in Int /\ m * c \in Int
  <2>1. e >= m + 1
    BY <1>3
  <2>2. e * c >= (m + 1) * c
    BY <2>1
  <2> QED
    BY <2>2
<1>4. ASSUME Elapsed > Modulus - HALF PROVE FALSE
  <2>1. /\ Elapsed * CLOCKS_PER_US >= (Modulus - HALF) * CLOCKS_PER_US + CLOCKS_PER_US
        /\ Elapsed * CLOCKS_PER_US \in Int /\ (Modulus - HALF) * CLOCKS_PER_US \in Int
    BY <1>1, <1>3, <1>4
  <2>2. Elapsed * CLOCKS_PER_US + cnt_us < CLOCKS_PER_US + n
    BY DEF Spent
  <2> QED
    BY <1>1, <1>2, <2>1, <2>2
<1> QED
  BY <1>1, <1>4

LEMMA ElapsedStep ==
  ASSUME ClintTypeOK, ClintTypeOK', ClintClock, ~Done("mtime"), began' = began,
         NEW n \in Int, n <= 3 * MaxWait + 2 * MaxGap + 4, Spent(n)
  PROVE  Elapsed <= Elapsed' /\ \A m \in Int : m >= n + 1 => Spent(m)'
<1>1. /\ Elapsed <= Modulus - HALF /\ Elapsed \in Nat /\ Modulus \in Nat \ {0}
      /\ HALF \in Nat \ {0, 1} /\ CLOCKS_PER_US \in Nat \ {0} /\ cnt_us \in Nat
      /\ ideal \in 0 .. Modulus - 1 /\ began \in 0 .. Modulus - 1
      /\ ideal' \in 0 .. Modulus - 1
  BY ElapsedBound, ElapsedFacts, ModulusFacts DEF ClintTypeOK
<1>2. ideal' = IF tick_us THEN (IF ideal = Modulus - 1 THEN 0 ELSE ideal + 1) ELSE ideal
  <2>1. (ideal + 1) % Modulus = (IF ideal = Modulus - 1 THEN 0 ELSE ideal + 1)
    BY <1>1, WrapsAround
  <2> QED
    BY <2>1 DEF ClintClock, Ideal
<1>3. /\ Elapsed = IF began <= ideal THEN ideal - began ELSE ideal - began + Modulus
      /\ Elapsed' = IF began <= ideal' THEN ideal' - began ELSE ideal' - began + Modulus
  <2>1. \A b, i \in 0 .. Modulus - 1 :
          (i - b) % Modulus = (IF b <= i THEN i - b ELSE i - b + Modulus)
    BY <1>1, DifferenceWraps
  <2> QED
    BY <1>1, <2>1 DEF Elapsed
<1>4. Elapsed' = IF tick_us THEN Elapsed + 1 ELSE Elapsed
  BY <1>1, <1>2, <1>3
<1>5. cnt_us' = IF tick_us THEN 0 ELSE cnt_us + 1
  BY DEF ClintClock
<1>6. Elapsed' * CLOCKS_PER_US + cnt_us' = Elapsed * CLOCKS_PER_US + cnt_us + 1
  <2>1. CASE tick_us
    <3>1. (Elapsed + 1) * CLOCKS_PER_US = Elapsed * CLOCKS_PER_US + CLOCKS_PER_US
      BY <1>1
    <3>2. Elapsed * CLOCKS_PER_US \in Int
      BY <1>1
    <3>3. Elapsed' = Elapsed + 1 /\ cnt_us' = 0 /\ cnt_us = CLOCKS_PER_US - 1
      BY <1>4, <1>5, <2>1 DEF tick_us
    <3>4. Elapsed' * CLOCKS_PER_US = Elapsed * CLOCKS_PER_US + CLOCKS_PER_US
      BY <3>1, <3>3
    <3> QED
      BY <1>1, <3>2, <3>3, <3>4
  <2>2. CASE ~tick_us
    <3>1. Elapsed' = Elapsed /\ cnt_us' = cnt_us + 1 /\ Elapsed * CLOCKS_PER_US \in Int
      BY <1>1, <1>4, <1>5, <2>2
    <3> QED
      BY <1>1, <3>1
  <2> QED
    BY <2>1, <2>2
<1>7. ASSUME NEW m \in Int, m >= n + 1 PROVE Spent(m)'
  <2>1. Elapsed * CLOCKS_PER_US + cnt_us < CLOCKS_PER_US + n /\ Elapsed * CLOCKS_PER_US \in Int
    BY <1>1 DEF Spent
  <2>2. Elapsed' * CLOCKS_PER_US + cnt_us' < CLOCKS_PER_US + m
    BY <1>1, <1>6, <1>7, <2>1
  <2> QED
    BY <2>2 DEF Spent
<1> QED
  BY <1>1, <1>4, <1>7

LEMMA SeenStep ==
  ASSUME ClintTypeOK, TakeRead, todo # << >> \/ InMem \/ rdata_due
  PROVE  Seen \in Seq(Halves)
         /\ Seen' = IF ~Hold /\ clint_mem.access.kind = "read" THEN Append(Seen, rdata') ELSE Seen
<1>1. reads \in Seq(Halves) /\ rdata \in Halves /\ Append(reads, rdata) \in Seq(Halves)
  BY DEF ClintTypeOK
<1>2. reads' = Seen
  BY DEF TakeRead, Seen
<1>3. rdata_due' <=> ~Hold /\ clint_mem.access.kind = "read"
  BY DEF TakeRead
<1> QED
  BY <1>1, <1>2, <1>3 DEF Seen

LEMMA SampledKept ==
  ASSUME ClintTypeOK, ClintTypeOK', Seen' = Seen, began' = began, Elapsed <= Elapsed',
         NEW n \in 0 .. 3, Sampled(n)
  PROVE  Sampled(n)'
<1>1. Elapsed \in Nat /\ Elapsed' \in Int
  <2>1. ideal' \in 0 .. Modulus - 1 /\ began' \in 0 .. Modulus - 1 /\ Modulus \in Nat \ {0}
    BY ModulusFacts DEF ClintTypeOK
  <2> QED
    BY <2>1, ElapsedFacts, DifferenceWraps DEF Elapsed
<1>2. PICK a, b, c \in 0 .. Elapsed :
        /\ a <= b /\ b <= c
        /\ n >= 1 => Seen[1] = TimeAt(a) \div HALF
        /\ n >= 2 => Seen[2] = TimeAt(b) % HALF
        /\ n >= 3 => Seen[3] = TimeAt(c) \div HALF
  BY DEF Sampled
<1>3. a \in 0 .. Elapsed' /\ b \in 0 .. Elapsed' /\ c \in 0 .. Elapsed'
  BY <1>1
<1>4. \A e : TimeAt(e)' = TimeAt(e)
  BY DEF TimeAt
<1> QED
  BY <1>2, <1>3, <1>4 DEF Sampled

\* The half that the n-th access reads.
HalfOf(n) == IF n = 1 THEN "lo" ELSE "hi"

LEMMA SampledOnce ==
  ASSUME ClintTypeOK, ClintTypeOK', began' = began, Elapsed <= Elapsed',
         Whole(mtime) = ideal, NEW n \in 0 .. 2, Sampled(n), Seen \in Seq(Halves),
         Seen' = Append(Seen, mtime[HalfOf(n)])
  PROVE  Sampled(n + 1)'
<1>1. Elapsed \in Nat /\ Elapsed' \in Int
  <2>1. ideal' \in 0 .. Modulus - 1 /\ began' \in 0 .. Modulus - 1 /\ Modulus \in Nat \ {0}
    BY ModulusFacts DEF ClintTypeOK
  <2> QED
    BY <2>1, ElapsedFacts, DifferenceWraps DEF Elapsed
<1>2. PICK a, b, c \in 0 .. Elapsed :
        /\ a <= b /\ b <= c
        /\ n >= 1 => Seen[1] = TimeAt(a) \div HALF
        /\ n >= 2 => Seen[2] = TimeAt(b) % HALF
        /\ n >= 3 => Seen[3] = TimeAt(c) \div HALF
  BY DEF Sampled
<1>3. \A e : TimeAt(e)' = TimeAt(e)
  BY DEF TimeAt
<1>4. mtime.hi = TimeAt(Elapsed) \div HALF /\ mtime.lo = TimeAt(Elapsed) % HALF
  <2>1. mtime.hi \in 0 .. HALF - 1 /\ mtime.lo \in 0 .. HALF - 1 /\ HALF \in Nat \ {0}
    BY ModulusFacts DEF ClintTypeOK, Halves
  <2>2. TimeAt(Elapsed) = mtime.hi * HALF + mtime.lo
    BY ElapsedFacts DEF Whole
  <2> QED
    BY <2>1, <2>2, HalvesOf
<1>5. Len(Seen) = n
  BY DEF Sampled
<1>6. /\ Len(Seen') = n + 1
      /\ n >= 1 => Seen'[1] = Seen[1]
      /\ n >= 2 => Seen'[2] = Seen[2]
      /\ Seen'[n + 1] = mtime[HalfOf(n)]
  <2> DEFINE x == mtime[HalfOf(n)]
  <2>1. x \in Halves /\ Seen' = Append(Seen, x)
    BY DEF ClintTypeOK, HalfOf
  <2> HIDE DEF x
  <2>2. /\ Len(Append(Seen, x)) = n + 1 /\ Append(Seen, x)[n + 1] = x
        /\ \A i \in 1 .. n : Append(Seen, x)[i] = Seen[i]
    BY <1>5, <2>1
  <2>3. (n >= 1 => 1 \in 1 .. n) /\ (n >= 2 => 2 \in 1 .. n)
    OBVIOUS
  <2> QED
    BY <2>1, <2>2, <2>3 DEF x
<1>7. PICK e : e = Elapsed
  OBVIOUS
<1>8. /\ a \in 0 .. Elapsed' /\ b \in 0 .. Elapsed' /\ e \in 0 .. Elapsed'
      /\ a <= e /\ b <= e /\ e <= e /\ a <= b
  BY <1>1, <1>2, <1>7
<1>9. CASE n = 0
  <2>1. Seen'[1] = TimeAt(e)' \div HALF /\ Len(Seen') = 1
    BY <1>3, <1>4, <1>6, <1>9, <1>7 DEF HalfOf
  <2> QED
    BY <1>8, <1>9, <2>1 DEF Sampled
<1>10. CASE n = 1
  <2>1. /\ Seen'[1] = TimeAt(a)' \div HALF /\ Seen'[2] = TimeAt(e)' % HALF
        /\ Len(Seen') = 2
    BY <1>2, <1>3, <1>4, <1>6, <1>10, <1>7 DEF HalfOf
  <2> QED
    BY <1>8, <1>10, <2>1 DEF Sampled
<1>11. CASE n = 2
  <2>1. /\ Seen'[1] = TimeAt(a)' \div HALF /\ Seen'[2] = TimeAt(b)' % HALF
        /\ Seen'[3] = TimeAt(e)' \div HALF /\ Len(Seen') = 3
    BY <1>2, <1>3, <1>4, <1>6, <1>11, <1>7 DEF HalfOf
  <2> QED
    BY <1>8, <1>11, <2>1 DEF Sampled
<1> QED
  BY <1>9, <1>10, <1>11

\* Spent, after the clock.
SpentThen(m) == Elapsed' * CLOCKS_PER_US + cnt_us' < CLOCKS_PER_US + m

\* A clock in which an access that reads is in MEM, or none.
LEMMA ReadClock ==
  ASSUME ClintTypeOK, ClintTypeOK', ClintClock, began' = began, Whole(mtime) = ideal,
         todo # << >> \/ InMem \/ rdata_due, \A r : ~Writes(r),
         NEW s \in Int, s <= 3 * MaxWait + 2 * MaxGap + 4, Spent(s),
         NEW n \in 0 .. 3, Sampled(n)
  PROVE  /\ \A m \in Int : m >= s + 1 => SpentThen(m)
         /\ ~InMem \/ Hold => Sampled(n)'
         /\ n < 3 /\ InMem /\ ~Hold /\ clint_mem.access = Access("read", "mtime", HalfOf(n), 0)
              => Sampled(n + 1)'
<1>1. Elapsed <= Elapsed' /\ \A m \in Int : m >= s + 1 => SpentThen(m)
  <2>1. Elapsed <= Elapsed' /\ \A m \in Int : m >= s + 1 => Spent(m)'
    BY ElapsedStep DEF Done
  <2> QED
    BY <2>1 DEF Spent, SpentThen
<1>2. /\ Seen \in Seq(Halves)
      /\ Seen' = IF ~Hold /\ clint_mem.access.kind = "read" THEN Append(Seen, rdata') ELSE Seen
  BY SeenStep DEF ClintClock
<1>3. ~InMem => clint_mem.access.kind = "none"
  BY DEF InMem, NoAccess
<1>4. ~InMem \/ Hold => Sampled(n)'
  BY <1>1, <1>2, <1>3, SampledKept
<1>5. ASSUME n < 3, ~Hold, clint_mem.access = Access("read", "mtime", HalfOf(n), 0)
      PROVE  Sampled(n + 1)'
  <2>1. /\ clint_mem.access.kind = "read" /\ clint_mem.access.reg = "mtime"
        /\ clint_mem.access.half = HalfOf(n)
    BY <1>5 DEF Access
  <2>2. rdata' = mtime[HalfOf(n)]
    BY <2>1 DEF ClintClock, ReadData
  <2>3. n \in 0 .. 2
    BY <1>5
  <2> QED
    BY <1>1, <1>2, <1>5, <2>1, <2>2, <2>3, SampledOnce
<1> QED
  BY <1>1, <1>4, <1>5

\* A sequence that reads the time goes on, or is over.
LEMMA ReadStep ==
  ASSUME ClintInv, ClintClock, ReadInv, ~NoSequence
  PROVE  ReadInv'
<1> DEFINE V == MaxWait  G == MaxGap
<1>1. PICK p : p = ReadTime
  OBVIOUS
<1>2. /\ Uniform(p, "read", "mtime") /\ ClintTypeOK /\ ClintTypeOK'
      /\ p[1] = Access("read", "mtime", "hi", 0) /\ p[2] = Access("read", "mtime", "lo", 0)
      /\ p[3] = Access("read", "mtime", "hi", 0)
  BY <1>1, SequencesAreUniform, TypeStep DEF ClintInv, ReadTime
<1>3. /\ MaxGap \in Nat /\ MaxWait \in Nat /\ CLOCKS_PER_US \in Nat \ {0}
      /\ gap \in 0 .. MaxGap /\ clint_mem.wait \in 0 .. MaxWait /\ gap' \in 0 .. MaxGap
      /\ clint_mem'.wait \in 0 .. MaxWait
  BY <1>2, BoundFacts DEF ClintTypeOK
<1>4. HalfOf(0) = "hi" /\ HalfOf(1) = "lo" /\ HalfOf(2) = "hi"
  BY DEF HalfOf
<1>5. Whole(mtime) = ideal
  <2>1. NoSequence \/ Sequence(p)
    BY <1>1, InSequence
  <2>2. ~Setting("mtime")
    BY <1>2, <2>1, SettingOf DEF Sequence
  <2> QED
    BY <2>2 DEF ClintInv
<1>6. ASSUME \/ Left(p, 0)' /\ Seen' = << >>
             \/ Given(p, 1)' /\ Sampled(0)' /\ SpentThen(V - clint_mem'.wait)
             \/ Left(p, 1)' /\ Sampled(1)' /\ SpentThen(V + gap')
             \/ Given(p, 2)' /\ Sampled(1)' /\ SpentThen(2 * V + G + 1 - clint_mem'.wait)
             \/ Left(p, 2)' /\ Sampled(2)' /\ SpentThen(2 * V + G + 1 + gap')
             \/ Given(p, 3)' /\ Sampled(2)' /\ SpentThen(3 * V + 2 * G + 2 - clint_mem'.wait)
             \/ NoSequence' /\ Sampled(3)' /\ rdata_due' /\ SpentThen(3 * V + 2 * G + 3)
      PROVE  ReadInv'
  <2>1. ReadTime' = p
    BY <1>1 DEF ReadTime
  <2> QED
    BY <1>6, <2>1 DEF ReadInv, Spent, SpentThen
<1>8. ASSUME NEW n \in 1 .. 3, Given(p, n)
      PROVE  /\ todo # << >> \/ InMem \/ rdata_due
             /\ \A r : ~Writes(r)
             /\ clint_mem.access = Access("read", "mtime", HalfOf(n - 1), 0)
             /\ InMem
  <2>1. clint_mem.access = p[n]
    BY <1>8 DEF Given
  <2>2. clint_mem.access = Access("read", "mtime", HalfOf(n - 1), 0)
    BY <1>2, <1>4, <2>1
  <2>3. \A r : ~Writes(r)
    BY <2>2 DEF Writes, Access
  <2> QED
    BY <1>2, <1>8, <2>2, <2>3, GivenStep
<1>9. ASSUME NEW n \in 0 .. 2, Left(p, n)
      PROVE  /\ todo # << >> /\ \A r : ~Writes(r)
             /\ ~InMem
  BY ZenonT(40), <1>2, <1>9, NotWriting, RestFacts, LeftStep DEF Left, Uniform
<1>10. CASE Left(p, 0) /\ Seen = << >>
  <2>1. /\ clint_mem.access.kind = "none" /\ \A r : ~Writes(r)
    BY <1>10, NotWriting DEF Left
  <2>2. Seen' = << >>
    BY <1>2, <1>10, <2>1, SeenNothing DEF ClintClock
  <2>3. Left(p, 0)' \/ (Given(p, 1)' /\ began' = ideal')
    BY <1>1, <1>2, <1>10, LeftStep
  <2>4. CASE Left(p, 0)'
    BY <1>6, <2>2, <2>4
  <2>5. CASE Given(p, 1)' /\ began' = ideal'
    <3>1. ideal' \in 0 .. Modulus - 1 /\ Modulus \in Nat \ {0}
      BY <1>2, ModulusFacts DEF ClintTypeOK
    <3>2. Elapsed' = 0
      <4>1. Elapsed' = (ideal' - ideal') % Modulus
        BY <2>5 DEF Elapsed
      <4>2. ASSUME NEW M \in Nat \ {0}, NEW i \in 0 .. M - 1 PROVE (i - i) % M = 0
        BY <4>2, DifferenceWraps
      <4> QED
        BY <3>1, <4>1, <4>2
    <3>3. Sampled(0)'
      BY <2>2, <3>2 DEF Sampled
    <3>4. SpentThen(V - clint_mem'.wait)
      <4>1. cnt_us' \in 0 .. CLOCKS_PER_US - 1
        BY <1>2 DEF ClintTypeOK
      <4>2. Elapsed' * CLOCKS_PER_US = 0
        BY <1>3, <3>2
      <4> QED
        BY <1>3, <4>1, <4>2 DEF SpentThen
    <3> QED
      BY <1>6, <2>5, <3>3, <3>4
  <2> QED
    BY <2>3, <2>4, <2>5
<1>11. CASE Given(p, 1) /\ Sampled(0) /\ Spent(V - clint_mem.wait)
  <2>1. PICK s : s = V - clint_mem.wait
    OBVIOUS
  <2>2. s \in Int /\ s <= 3 * V + 2 * G + 4 /\ Spent(s) /\ began' = began
    BY <1>2, <1>3, <1>11, <2>1, GivenStep
  <2>3. /\ todo # << >> \/ InMem \/ rdata_due
        /\ \A r : ~Writes(r)
        /\ clint_mem.access = Access("read", "mtime", HalfOf(0), 0) /\ InMem
    <3>1. 1 - 1 = 0 /\ 1 \in 1 .. 3
      OBVIOUS
    <3> QED
      BY <1>8, <1>11, <3>1
  <2>4. /\ \A m \in Int : m >= s + 1 => SpentThen(m)
        /\ Hold => Sampled(0)'
        /\ ~Hold => Sampled(1)'
    <3>1. 0 \in 0 .. 3 /\ 0 < 3 /\ 0 + 1 = 1
      OBVIOUS
    <3> QED
      BY <1>2, <1>5, <1>11, <2>2, <2>3, <3>1, ReadClock
  <2>5. \/ Hold /\ Given(p, 1)' /\ clint_mem'.wait = clint_mem.wait - 1
        \/ ~Hold /\ clint_mem.wait = 0 /\ Given(p, 2)' /\ clint_mem'.wait = 0
        \/ ~Hold /\ clint_mem.wait = 0 /\ Left(p, 1)' /\ gap' = 1
    BY <1>2, <1>11, GivenStep
  <2>6. CASE Hold /\ Given(p, 1)' /\ clint_mem'.wait = clint_mem.wait - 1
    <3>1. SpentThen(V - clint_mem'.wait)
      BY <1>3, <2>1, <2>4, <2>6
    <3> QED
      BY <1>6, <2>4, <2>6, <3>1
  <2>7. CASE ~Hold /\ clint_mem.wait = 0 /\ Given(p, 2)' /\ clint_mem'.wait = 0
    <3>1. SpentThen(2 * V + G + 1 - clint_mem'.wait)
      BY <1>3, <2>1, <2>4, <2>7
    <3> QED
      BY <1>6, <2>4, <2>7, <3>1
  <2>8. CASE ~Hold /\ clint_mem.wait = 0 /\ Left(p, 1)' /\ gap' = 1
    <3>1. SpentThen(V + gap')
      BY <1>3, <2>1, <2>4, <2>8
    <3> QED
      BY <1>6, <2>4, <2>8, <3>1
  <2> QED
    BY <2>5, <2>6, <2>7, <2>8
<1>12. CASE Left(p, 1) /\ Sampled(1) /\ Spent(V + gap)
  <2>1. PICK s : s = V + gap
    OBVIOUS
  <2>2. s \in Int /\ s <= 3 * V + 2 * G + 4 /\ Spent(s)
    BY <1>3, <1>12, <2>1
  <2>3. /\ began' = began
        /\ (Left(p, 1)' /\ gap' = gap + 1) \/ Given(p, 2)'
    BY <1>2, <1>12, LeftStep
  <2>4. (\A m \in Int : m >= s + 1 => SpentThen(m)) /\ Sampled(1)'
    <3>1. 1 \in 0 .. 3 /\ 1 \in 0 .. 2
      OBVIOUS
    <3> QED
      BY <1>2, <1>5, <1>9, <1>12, <2>2, <2>3, <3>1, ReadClock
  <2>5. CASE Left(p, 1)' /\ gap' = gap + 1
    <3>1. SpentThen(V + gap')
      BY <1>3, <2>1, <2>4, <2>5
    <3> QED
      BY <1>6, <2>4, <2>5, <3>1
  <2>6. CASE Given(p, 2)'
    <3>1. SpentThen(2 * V + G + 1 - clint_mem'.wait)
      BY <1>3, <2>1, <2>4
    <3> QED
      BY <1>6, <2>4, <2>6, <3>1
  <2> QED
    BY <2>3, <2>5, <2>6
<1>13. CASE Given(p, 2) /\ Sampled(1) /\ Spent(2 * V + G + 1 - clint_mem.wait)
  <2>1. PICK s : s = 2 * V + G + 1 - clint_mem.wait
    OBVIOUS
  <2>2. s \in Int /\ s <= 3 * V + 2 * G + 4 /\ Spent(s) /\ began' = began
    BY <1>2, <1>3, <1>13, <2>1, GivenStep
  <2>3. /\ todo # << >> \/ InMem \/ rdata_due
        /\ \A r : ~Writes(r)
        /\ clint_mem.access = Access("read", "mtime", HalfOf(1), 0) /\ InMem
    <3>1. 2 - 1 = 1 /\ 2 \in 1 .. 3
      OBVIOUS
    <3> QED
      BY <1>8, <1>13, <3>1
  <2>4. /\ \A m \in Int : m >= s + 1 => SpentThen(m)
        /\ Hold => Sampled(1)'
        /\ ~Hold => Sampled(2)'
    <3>1. 1 \in 0 .. 3 /\ 1 < 3 /\ 1 + 1 = 2
      OBVIOUS
    <3> QED
      BY <1>2, <1>5, <1>13, <2>2, <2>3, <3>1, ReadClock
  <2>5. \/ Hold /\ Given(p, 2)' /\ clint_mem'.wait = clint_mem.wait - 1
        \/ ~Hold /\ clint_mem.wait = 0 /\ Given(p, 3)' /\ clint_mem'.wait = 0
        \/ ~Hold /\ clint_mem.wait = 0 /\ Left(p, 2)' /\ gap' = 1
    BY <1>2, <1>13, GivenStep
  <2>6. CASE Hold /\ Given(p, 2)' /\ clint_mem'.wait = clint_mem.wait - 1
    <3>1. SpentThen(2 * V + G + 1 - clint_mem'.wait)
      BY <1>3, <2>1, <2>4, <2>6
    <3> QED
      BY <1>6, <2>4, <2>6, <3>1
  <2>7. CASE ~Hold /\ clint_mem.wait = 0 /\ Given(p, 3)' /\ clint_mem'.wait = 0
    <3>1. SpentThen(3 * V + 2 * G + 2 - clint_mem'.wait)
      BY <1>3, <2>1, <2>4, <2>7
    <3> QED
      BY <1>6, <2>4, <2>7, <3>1
  <2>8. CASE ~Hold /\ clint_mem.wait = 0 /\ Left(p, 2)' /\ gap' = 1
    <3>1. SpentThen(2 * V + G + 1 + gap')
      BY <1>3, <2>1, <2>4, <2>8
    <3> QED
      BY <1>6, <2>4, <2>8, <3>1
  <2> QED
    BY <2>5, <2>6, <2>7, <2>8
<1>14. CASE Left(p, 2) /\ Sampled(2) /\ Spent(2 * V + G + 1 + gap)
  <2>1. PICK s : s = 2 * V + G + 1 + gap
    OBVIOUS
  <2>2. s \in Int /\ s <= 3 * V + 2 * G + 4 /\ Spent(s)
    BY <1>3, <1>14, <2>1
  <2>3. /\ began' = began
        /\ (Left(p, 2)' /\ gap' = gap + 1) \/ Given(p, 3)'
    BY <1>2, <1>14, LeftStep
  <2>4. (\A m \in Int : m >= s + 1 => SpentThen(m)) /\ Sampled(2)'
    <3>1. 2 \in 0 .. 3 /\ 2 \in 0 .. 2
      OBVIOUS
    <3> QED
      BY <1>2, <1>5, <1>9, <1>14, <2>2, <2>3, <3>1, ReadClock
  <2>5. CASE Left(p, 2)' /\ gap' = gap + 1
    <3>1. SpentThen(2 * V + G + 1 + gap')
      BY <1>3, <2>1, <2>4, <2>5
    <3> QED
      BY <1>6, <2>4, <2>5, <3>1
  <2>6. CASE Given(p, 3)'
    <3>1. SpentThen(3 * V + 2 * G + 2 - clint_mem'.wait)
      BY <1>3, <2>1, <2>4
    <3> QED
      BY <1>6, <2>4, <2>6, <3>1
  <2> QED
    BY <2>3, <2>5, <2>6
<1>15. CASE Given(p, 3) /\ Sampled(2) /\ Spent(3 * V + 2 * G + 2 - clint_mem.wait)
  <2>1. PICK s : s = 3 * V + 2 * G + 2 - clint_mem.wait
    OBVIOUS
  <2>2. s \in Int /\ s <= 3 * V + 2 * G + 4 /\ Spent(s) /\ began' = began
    BY <1>2, <1>3, <1>15, <2>1, GivenStep
  <2>3. /\ todo # << >> \/ InMem \/ rdata_due
        /\ \A r : ~Writes(r)
        /\ clint_mem.access = Access("read", "mtime", HalfOf(2), 0) /\ InMem
    <3>1. 3 - 1 = 2 /\ 3 \in 1 .. 3
      OBVIOUS
    <3> QED
      BY <1>8, <1>15, <3>1
  <2>4. /\ \A m \in Int : m >= s + 1 => SpentThen(m)
        /\ Hold => Sampled(2)'
        /\ ~Hold => Sampled(3)'
    <3>1. 2 \in 0 .. 3 /\ 2 < 3 /\ 2 + 1 = 3
      OBVIOUS
    <3> QED
      BY <1>2, <1>5, <1>15, <2>2, <2>3, <3>1, ReadClock
  <2>5. \/ Hold /\ Given(p, 3)' /\ clint_mem'.wait = clint_mem.wait - 1
        \/ ~Hold /\ clint_mem.wait = 0 /\ NoSequence'
    BY <1>2, <1>15, GivenStep
  <2>6. CASE Hold /\ Given(p, 3)' /\ clint_mem'.wait = clint_mem.wait - 1
    <3>1. SpentThen(3 * V + 2 * G + 2 - clint_mem'.wait)
      BY <1>3, <2>1, <2>4, <2>6
    <3> QED
      BY <1>6, <2>4, <2>6, <3>1
  <2>7. CASE ~Hold /\ clint_mem.wait = 0 /\ NoSequence'
    <3>1. SpentThen(3 * V + 2 * G + 3)
      BY <1>3, <2>1, <2>4, <2>7
    <3>2. rdata_due'
      <4>1. clint_mem.access.kind = "read" /\ ~Hold
        BY <2>3, <2>7 DEF Access
      <4> QED
        BY <4>1 DEF ClintClock, TakeRead
    <3> QED
      BY <1>6, <2>4, <2>7, <3>1, <3>2
  <2> QED
    BY <2>5, <2>6, <2>7
<1> QED
  BY <1>1, <1>10, <1>11, <1>12, <1>13, <1>14, <1>15 DEF ReadInv

\* Where no sequence is under way, the next one begins or what was read is dropped.
LEMMA NoSequenceNext ==
  ASSUME ClintInv, ClintClock, ReadInv, NoSequence
  PROVE  ReadInv' \/ SetTimeInv' \/ SetCompareInv'
<1>1. /\ ClintTypeOK /\ ClintTypeOK' /\ MaxGap \in Nat /\ MaxWait \in Nat
      /\ clint_mem.access = NoAccess /\ todo = << >>
  BY TypeStep, BoundFacts DEF ClintInv, NoSequence
<1>2. (\A r : ~Writes(r)) /\ clint_mem.access.kind = "none"
  BY <1>1, NotWriting
<1>3. ~InMem /\ ~Hold /\ began' = began
  BY <1>1, NoSequenceStep
<1>4. Whole(mtime) = ideal /\ Whole(mtimecmp) = target
  BY <1>1, <1>2 DEF ClintInv, Setting
<1>5. ~rdata_due => Seen' = << >>
  <2>1. ASSUME ~rdata_due PROVE ~rdata_due' /\ reads' = << >>
    BY <1>1, <1>2, <1>3, <2>1 DEF ClintClock, TakeRead
  <2> QED
    BY <2>1 DEF Seen
<1>6. \/ Seen = << >>
      \/ Sampled(3) /\ rdata_due /\ Spent(3 * MaxWait + 2 * MaxGap + 3)
      \/ ~rdata_due
  <2>1. /\ ~Left(ReadTime, 0) /\ ~Left(ReadTime, 1) /\ ~Left(ReadTime, 2)
        /\ ~Given(ReadTime, 1) /\ ~Given(ReadTime, 2) /\ ~Given(ReadTime, 3)
    <3>1. PICK p : p = ReadTime
      OBVIOUS
    <3>2. Uniform(p, "read", "mtime") /\ p = <<p[1], p[2], p[3]>>
      BY <3>1, SequencesAreUniform DEF Uniform
    <3>3. Rest(p, 0) # << >> /\ Rest(p, 1) # << >> /\ Rest(p, 2) # << >>
      BY <3>2, RestFacts
    <3>4. p[3] # NoAccess
      BY <3>2 DEF Uniform
    <3> QED
      BY <1>1, <3>1, <3>3, <3>4 DEF Left, Given
  <2> QED
    BY <2>1 DEF ReadInv
<1>7. CASE Sampled(3) /\ rdata_due /\ Spent(3 * MaxWait + 2 * MaxGap + 3)
  <2>1. PICK s : s = 3 * MaxWait + 2 * MaxGap + 3
    OBVIOUS
  <2>2. SpentThen(s + 1) /\ Sampled(3)'
    <3>1. s \in Int /\ s + 1 \in Int /\ s <= 3 * MaxWait + 2 * MaxGap + 4 /\ Spent(s)
      BY <1>1, <1>7, <2>1
    <3> QED
      BY <1>1, <1>2, <1>3, <1>4, <1>7, <3>1, ReadClock
  <2>3. Spent(3 * MaxWait + 2 * MaxGap + 4)'
    <3>1. s + 1 = 3 * MaxWait + 2 * MaxGap + 4
      BY <1>1, <2>1
    <3> QED
      BY <2>2, <3>1 DEF Spent, SpentThen
  <2>4. ~rdata_due'
    BY <1>2 DEF ClintClock, TakeRead
  <2>5. NoSequence'
    BY <1>1, <1>7, NoSequenceStep
  <2> QED
    BY <2>2, <2>3, <2>4, <2>5 DEF ReadInv
<1>8. CASE ~rdata_due
  <2>1. Seen' = << >>
    BY <1>5, <1>8
  <2>2. CASE NoSequence' \/ Left(ReadTime, 0)'
    BY <2>1, <2>2 DEF ReadInv
  <2>3. ASSUME NEW t \in Times, todo' = SetTime(t), clint_mem'.access = NoAccess,
               next' = t[1] * HALF + t[2]
        PROVE  SetTimeInv'
    <3>1. t \in Halves \X Halves /\ t[2] # HALF - 1
      <4>1. t \in (0 .. HALF - 1) \X (0 .. HALF - 2)
        BY ClintAssumption
      <4>2. /\ t = <<t[1], t[2]>> /\ t[1] \in 0 .. HALF - 1 /\ t[2] \in 0 .. HALF - 2
        BY <4>1
      <4>3. t[2] \in 0 .. HALF - 1 /\ t[2] # HALF - 1
        BY <4>2, ModulusFacts
      <4> QED
        BY <4>2, <4>3 DEF Halves
    <3>2. Goal' = t
      BY <2>3, <3>1, GoalOf DEF Goal
    <3>3. SetTime(Goal)' = SetTime(t)
      BY <3>2 DEF SetTime
    <3>4. Left(SetTime(t), 0)'
      BY <2>3 DEF Left, Rest
    <3>5. Left(SetTime(Goal), 0)'
      BY <2>3, <3>3 DEF Left, Rest
    <3> QED
      BY <2>1, <3>1, <3>2, <3>5 DEF SetTimeInv
  <2>4. ASSUME NEW t \in Alarms, todo' = SetCompare(t), clint_mem'.access = NoAccess,
               next' = t[1] * HALF + t[2]
        PROVE  SetCompareInv'
    <3>1. t \in Halves \X Halves
      BY ClintAssumption DEF Halves
    <3>2. Goal' = t
      BY <2>4, <3>1, GoalOf DEF Goal
    <3>3. SetCompare(Goal)' = SetCompare(t)
      BY <3>2 DEF SetCompare
    <3>4. Left(SetCompare(Goal), 0)'
      BY <2>4, <3>3 DEF Left, Rest
    <3>5. mtimecmp' = mtimecmp /\ target' = target
      BY <1>2 DEF ClintClock, Compare, Ideal, Written, Done
    <3>6. Whole(mtimecmp)' >= target'
      <4>1. target \in Int
        BY <1>1 DEF ClintTypeOK
      <4> QED
        BY <1>4, <3>5, <4>1 DEF Whole
    <3> QED
      BY <2>1, <3>4, <3>6 DEF SetCompareInv
  <2> QED
    BY <1>1, <2>2, <2>3, <2>4, NoSequenceStep
<1>9. CASE Seen = << >>
  BY <1>1, <1>2, <1>8, <1>9, SeenNothing DEF ClintClock
<1> QED
  BY <1>6, <1>7, <1>8, <1>9

-----------------------------------------------------------------------------
(* Clint: the invariant.                                                    *)

LEMMA SettingWhich ==
  ASSUME ClintTypeOK
  PROVE  /\ ReadInv => ~Setting("mtime") /\ ~Setting("mtimecmp")
         /\ SetTimeInv => Setting("mtime") /\ ~Setting("mtimecmp")
         /\ SetCompareInv => ~Setting("mtime") /\ Setting("mtimecmp")
<1>1. ASSUME NEW p, NEW kind, NEW k, Uniform(p, kind, k), Sequence(p),
             NEW reg \in {"mtime", "mtimecmp"}
      PROVE  Setting(reg) <=> kind = "write" /\ k = reg
  BY <1>1, SettingOf DEF Sequence
<1>2. NoSequence => ~Setting("mtime") /\ ~Setting("mtimecmp")
  BY NotWriting DEF NoSequence, Setting
<1>3. ReadInv => ~Setting("mtime") /\ ~Setting("mtimecmp")
  <2>1. PICK p : p = ReadTime
    OBVIOUS
  <2> QED
    BY <1>1, <1>2, <2>1, InSequence, SequencesAreUniform
<1>4. SetTimeInv => Setting("mtime") /\ ~Setting("mtimecmp")
  <2>1. PICK g : g = Goal
    OBVIOUS
  <2>2. Sequence(SetTime(g)) => Setting("mtime") /\ ~Setting("mtimecmp")
    BY <1>1, SequencesAreUniform
  <2> QED
    BY <2>1, <2>2, InSequence
<1>5. SetCompareInv => ~Setting("mtime") /\ Setting("mtimecmp")
  <2>1. PICK g : g = Goal
    OBVIOUS
  <2>2. Sequence(SetCompare(g)) => ~Setting("mtime") /\ Setting("mtimecmp")
    BY <1>1, SequencesAreUniform
  <2> QED
    BY <2>1, <2>2, InSequence
<1> QED
  BY <1>3, <1>4, <1>5

LEMMA ClintInitInv == ClintInit => ClintInv
<1> SUFFICES ASSUME ClintInit PROVE ClintInv
  OBVIOUS
<1>1. /\ HALF \in Nat \ {0, 1} /\ CLOCKS_PER_US \in Nat \ {0} /\ Modulus \in Nat \ {0}
      /\ 0 \in Halves /\ HALF - 1 \in Halves /\ MaxGap \in Nat /\ MaxWait \in Nat
  BY ModulusFacts, BoundFacts
<1>2. ClintTypeOK
  <2>1. mtime \in [hi : Halves, lo : Halves] /\ mtimecmp \in [hi : Halves, lo : Halves]
    BY <1>1 DEF ClintInit
  <2>2. clint_mem \in [access : Accesses, wait : 0 .. MaxWait]
    BY <1>1 DEF ClintInit, Accesses
  <2>3. cnt_us \in 0 .. CLOCKS_PER_US - 1 /\ gap \in 0 .. MaxGap
    BY <1>1 DEF ClintInit
  <2>4. /\ ideal \in 0 .. Modulus - 1 /\ began \in 0 .. Modulus - 1
        /\ target \in 0 .. Modulus - 1 /\ next \in 0 .. Modulus - 1
    BY <1>1 DEF ClintInit
  <2>5. rdata \in Halves /\ reads \in Seq(Halves) /\ rdata_due \in BOOLEAN
    <3>1. reads = << >> /\ rdata = 0 /\ rdata_due = FALSE
      BY DEF ClintInit
    <3>2. << >> \in Seq(Halves)
      OBVIOUS
    <3> QED
      BY <1>1, <3>1, <3>2
  <2> QED
    BY <2>1, <2>2, <2>3, <2>4, <2>5 DEF ClintTypeOK
<1>3. ReadInv
  BY DEF ClintInit, ReadInv, NoSequence, Seen
<1>4. Whole(mtime) = ideal
  <2>1. mtime.hi = 0 /\ mtime.lo = 0 /\ ideal = 0
    BY DEF ClintInit
  <2> QED
    BY <1>1, <2>1 DEF Whole
<1>5. Whole(mtimecmp) = target
  <2>1. mtimecmp.hi = HALF - 1 /\ mtimecmp.lo = HALF - 1 /\ target = Modulus - 1
    BY DEF ClintInit
  <2>2. (HALF - 1) * HALF + (HALF - 1) = HALF * HALF - 1
    BY <1>1
  <2> QED
    BY <2>1, <2>2, ModulusFacts DEF Whole
<1> QED
  BY <1>2, <1>3, <1>4, <1>5 DEF ClintInv

LEMMA ClintNextInv == ClintInv /\ [ClintClock]_cvars => ClintInv'
<1> SUFFICES ASSUME ClintInv, [ClintClock]_cvars PROVE ClintInv'
  OBVIOUS
<1>1. CASE ClintClock
  <2>1. ClintTypeOK /\ ClintTypeOK'
    BY <1>1, TypeStep DEF ClintInv
  <2>2. Time /\ Ideal /\ Compare
    BY <1>1 DEF ClintClock
  <2>3. Writes("mtime") => Setting("mtime")
    BY DEF Setting
  <2>4. Writes("mtimecmp") => Setting("mtimecmp")
    BY DEF Setting
  <2>5. ~Setting("mtime") => Whole(mtime)' = ideal'
    BY <2>1, <2>2, <2>3, TimeCounts DEF ClintInv
  <2>6. ~Setting("mtimecmp") => Whole(mtimecmp)' = target'
    BY <2>2, <2>4 DEF ClintInv, Compare, Ideal, Done, Written, Whole
  <2>7. /\ SetTimeInv' => Setting("mtime")'
        /\ SetCompareInv' => Setting("mtimecmp")'
    <3>1. ClintTypeOK' => /\ SetTimeInv' => Setting("mtime")'
                          /\ SetCompareInv' => Setting("mtimecmp")'
      BY SettingWhich, PTL
    <3> QED
      BY <2>1, <3>1
  <2>8. ASSUME NoSequence', Seen' = << >> PROVE ReadInv'
    BY <2>8 DEF ReadInv
  <2>9. CASE ReadInv
    <3>1. ReadInv' \/ SetTimeInv' \/ SetCompareInv'
      BY <1>1, <2>9, ReadStep, NoSequenceNext
    <3>2. Whole(mtime)' = ideal' /\ Whole(mtimecmp)' = target'
      BY <2>1, <2>5, <2>6, <2>9, SettingWhich
    <3> QED
      BY <2>1, <3>1, <3>2 DEF ClintInv
  <2>10. CASE SetTimeInv
    <3>1. Whole(mtimecmp)' = target'
      BY <2>1, <2>6, <2>10, SettingWhich
    <3>2. SetTimeInv' \/ (ReadInv' /\ Whole(mtime)' = ideal')
      BY <1>1, <2>8, <2>10, SetTimeStep
    <3> QED
      BY <2>1, <2>7, <3>1, <3>2 DEF ClintInv
  <2>11. CASE SetCompareInv
    <3>1. Whole(mtime)' = ideal'
      BY <2>1, <2>5, <2>11, SettingWhich
    <3>2. SetCompareInv' \/ (ReadInv' /\ Whole(mtimecmp)' = target')
      BY <1>1, <2>8, <2>11, SetCompareStep
    <3> QED
      BY <2>1, <2>7, <3>1, <3>2 DEF ClintInv
  <2> QED
    BY <2>9, <2>10, <2>11 DEF ClintInv
<1>2. CASE UNCHANGED cvars
  <2>1. /\ UNCHANGED <<cnt_us, mtime, mtimecmp, rdata, clint_mem, todo, gap, reads>>
        /\ UNCHANGED <<rdata_due, ideal, began, target, next>>
    BY <1>2 DEF cvars
  <2>2. ClintTypeOK'
    BY <2>1 DEF ClintInv, ClintTypeOK
  <2>3. /\ Seen' = Seen /\ Goal' = Goal /\ LowClocks' = LowClocks /\ Elapsed' = Elapsed
        /\ Whole(mtime)' = Whole(mtime) /\ Whole(mtimecmp)' = Whole(mtimecmp)
    BY <2>1 DEF Seen, Goal, LowClocks, Elapsed, Whole
  <2>4. /\ Setting("mtime")' <=> Setting("mtime")
        /\ Setting("mtimecmp")' <=> Setting("mtimecmp")
    BY <2>1 DEF Setting, Writes
  <2>5. SetTimeInv' <=> SetTimeInv
    BY <2>1, <2>3 DEF SetTimeInv, SetTime, Left, Given, Rest
  <2>6. SetCompareInv' <=> SetCompareInv
    BY <2>1, <2>3 DEF SetCompareInv, SetCompare, Left, Given, Rest
  <2>7. ReadInv' <=> ReadInv
    BY <2>1, <2>3 DEF ReadInv, ReadTime, Left, Given, Rest, NoSequence, Sampled, Spent, TimeAt
  <2> QED
    BY <2>1, <2>2, <2>3, <2>4, <2>5, <2>6, <2>7 DEF ClintInv
<1> QED
  BY <1>1, <1>2

\* The invariant of the CLINT and of the sequences of software on it.
THEOREM ClintInvariant == ClintSpec => []ClintInv
  BY ClintInitInv, ClintNextInv, PTL DEF ClintSpec

\* TimeIsSet: after a sequence that sets the time it is what was set, and it counts
\* every microsecond, whenever the ticks fell and however long the writes were held.
THEOREM TimeStaysSet == ClintSpec => []TimeIsSet
<1>1. ClintInv => TimeIsSet
  BY DEF ClintInv, TimeIsSet
<1> QED
  BY <1>1, ClintInvariant, PTL

\* TimerExact: the timer interrupt is pending exactly from the comparator's time on,
\* and never too early while software sets the comparator.
THEOREM TimerOnTime == ClintSpec => []TimerExact
<1>1. ClintInv => TimerExact
  <2> SUFFICES ASSUME ClintInv, ~Setting("mtime")
               PROVE  IF Setting("mtimecmp") THEN mtip => ideal >= target \/ ideal >= next
                                             ELSE mtip <=> ideal >= target
    BY DEF TimerExact
  <2>1. Whole(mtime) = ideal /\ ClintTypeOK
    BY DEF ClintInv
  <2>2. ideal \in Int /\ target \in Int /\ next \in Int /\ Whole(mtimecmp) \in Int
    <3>1. mtimecmp.hi \in Int /\ mtimecmp.lo \in Int /\ HALF \in Int
      BY <2>1, ModulusFacts DEF ClintTypeOK, Halves
    <3>2. mtimecmp.hi * HALF \in Int
      BY <3>1
    <3> QED
      BY <2>1, <3>1, <3>2 DEF ClintTypeOK, Whole
  <2>3. CASE Setting("mtimecmp")
    <3>1. SetCompareInv
      BY <2>1, <2>3, SettingWhich DEF ClintInv
    <3>2. Whole(mtimecmp) >= target \/ Whole(mtimecmp) >= next
      BY <2>1, <3>1, CompareIsHigh
    <3> QED
      BY <2>1, <2>2, <2>3, <3>2 DEF mtip
  <2>4. CASE ~Setting("mtimecmp")
    BY <2>1, <2>4 DEF mtip, ClintInv
  <2> QED
    BY <2>3, <2>4
<1> QED
  BY <1>1, ClintInvariant, PTL

\* Three halves of times less than a turn of the high half apart are those of one.
LEMMA SameHigh ==
  ASSUME NEW H \in Nat \ {0}, NEW M \in Nat \ {0}, M = H * H,
         NEW s \in 0 .. M - 1, NEW d \in 0 .. M - H,
         NEW a \in 0 .. d, NEW b \in 0 .. d, NEW c \in 0 .. d, a <= b, b <= c,
         M - H <= M - 1,
         ((s + a) % M) \div H = ((s + c) % M) \div H
  PROVE  ((s + c) % M) \div H = ((s + b) % M) \div H
<1>1. a \in 0 .. M - 1 /\ b \in 0 .. M - 1 /\ c \in 0 .. M - 1
  OBVIOUS
<1>2. PICK x : x = (s + a) % M
  OBVIOUS
<1>3. PICK y : y = (s + b) % M
  OBVIOUS
<1>4. PICK z : z = (s + c) % M
  OBVIOUS
<1>5. /\ x = (IF s + a < M THEN s + a ELSE s + a - M) /\ x \in 0 .. M - 1
      /\ y = (IF s + b < M THEN s + b ELSE s + b - M) /\ y \in 0 .. M - 1
      /\ z = (IF s + c < M THEN s + c ELSE s + c - M) /\ z \in 0 .. M - 1
  BY <1>1, <1>2, <1>3, <1>4, SumWraps
<1>6. ASSUME NEW w \in 0 .. M - 1
      PROVE  /\ w \div H \in Nat /\ (w \div H) * H <= w /\ w < (w \div H) * H + H
             /\ (w \div H) * H \in Int
  <2>1. /\ w \div H \in 0 .. H - 1 /\ w % H \in 0 .. H - 1
        /\ w = (w \div H) * H + (w % H)
    BY WholeOf
  <2>2. (w \div H) * H \in Int
    BY <2>1
  <2> QED
    BY <2>1, <2>2
<1>7. PICK q : q = x \div H
  OBVIOUS
<1>8. /\ q \in Nat /\ q * H \in Int /\ q * H <= x /\ x < q * H + H /\ q * H <= z /\ z < q * H + H
  BY <1>2, <1>4, <1>5, <1>6, <1>7
<1>9. x <= y /\ y <= z
  BY <1>1, <1>5, <1>8
<1>10. q * H <= y /\ y < q * H + H /\ y \in Nat
  BY <1>5, <1>8, <1>9
<1>11. y \div H = q
  <2>1. y - q * H \in 0 .. H - 1 /\ y = q * H + (y - q * H)
    BY <1>8, <1>10
  <2>2. ASSUME NEW l \in 0 .. H - 1 PROVE (q * H + l) \div H = q
    BY <1>8
  <2> QED
    BY <2>1, <2>2
<1> QED
  BY <1>2, <1>3, <1>4, <1>7, <1>11

\* ReadConsistent: a time that is read with the same high half before and after was
\* the time at some clock of the sequence.
THEOREM ReadsAreTimes == ClintSpec => []ReadConsistent
<1>1. ClintInv => ReadConsistent
  <2> SUFFICES ASSUME ClintInv, Len(reads) = 3, reads[1] = reads[3]
               PROVE  ((reads[3] * HALF + reads[2]) - began) % Modulus <= Elapsed
    BY DEF ReadConsistent, Elapsed
  <2>1. /\ ClintTypeOK /\ reads \in Seq(Halves) /\ rdata \in Halves
        /\ HALF \in Nat \ {0, 1} /\ Modulus \in Nat \ {0} /\ Modulus = HALF * HALF
        /\ began \in 0 .. Modulus - 1 /\ MaxGap \in Nat /\ MaxWait \in Nat
    BY ModulusFacts, BoundFacts DEF ClintInv, ClintTypeOK
  <2>2. Len(Seen) >= 3 /\ Len(Seen) \in Nat /\ (Len(Seen) = 3 => Seen = reads)
    <3>1. Len(Append(reads, rdata)) = 4
      BY SMTT(30), <2>1
    <3> QED
      BY <3>1 DEF Seen
  <2>3. Seen # << >> /\ ~Sampled(0) /\ ~Sampled(1) /\ ~Sampled(2)
    <3>1. Len(<< >>) = 0
      OBVIOUS
    <3>2. ASSUME NEW n, Sampled(n) PROVE Len(Seen) = n
      BY <3>2 DEF Sampled
    <3> QED
      BY <2>2, <3>1, <3>2
  <2>4. Sampled(3) /\ \/ Spent(3 * MaxWait + 2 * MaxGap + 3)
                      \/ Spent(3 * MaxWait + 2 * MaxGap + 4)
    BY <2>3 DEF ClintInv, ReadInv, SetTimeInv, SetCompareInv
  <2>5. Elapsed <= Modulus - HALF /\ Elapsed \in Nat
    <3>1. \A n \in Int : n <= 3 * MaxWait + 2 * MaxGap + 4 /\ Spent(n) => Elapsed <= Modulus - HALF
      BY <2>1, ElapsedBound
    <3> QED
      BY <2>1, <2>4, <3>1, ElapsedFacts
  <2>6. PICK a, b, c \in 0 .. Elapsed :
          /\ a <= b /\ b <= c
          /\ reads[1] = TimeAt(a) \div HALF
          /\ reads[2] = TimeAt(b) % HALF
          /\ reads[3] = TimeAt(c) \div HALF
    BY <2>2, <2>4 DEF Sampled
  <2>7. reads[3] = TimeAt(b) \div HALF
    <3>1. Elapsed \in 0 .. Modulus - HALF /\ Modulus - HALF <= Modulus - 1
      BY <2>1, <2>5
    <3>2. ((began + a) % Modulus) \div HALF = ((began + c) % Modulus) \div HALF
      BY <2>6 DEF TimeAt
    <3>3. PICK d, s, h, m : d = Elapsed /\ s = began /\ h = HALF /\ m = Modulus
      OBVIOUS
    <3>4. ((s + c) % m) \div h = ((s + b) % m) \div h
      <4>1. /\ h \in Nat \ {0} /\ m \in Nat \ {0} /\ m = h * h /\ s \in 0 .. m - 1
            /\ d \in 0 .. m - h /\ m - h <= m - 1 /\ a \in 0 .. d /\ b \in 0 .. d
            /\ c \in 0 .. d /\ a <= b /\ b <= c
        BY <2>1, <2>6, <3>1, <3>3
      <4>2. ((s + a) % m) \div h = ((s + c) % m) \div h
        BY <3>2, <3>3
      <4> QED
        BY <4>1, <4>2, SameHigh
    <3> QED
      BY <2>6, <3>3, <3>4 DEF TimeAt
  <2>8. b \in 0 .. Modulus - 1
    BY <2>1, <2>5
  <2>9. reads[3] * HALF + reads[2] = TimeAt(b)
    <3>1. TimeAt(b) \in 0 .. HALF * HALF - 1
      BY <2>1, <2>8, SumWraps DEF TimeAt
    <3>2. TimeAt(b) = (TimeAt(b) \div HALF) * HALF + (TimeAt(b) % HALF)
      BY <2>1, <3>1, WholeOf
    <3> QED
      BY <2>6, <2>7, <3>2
  <2>10. (TimeAt(b) - began) % Modulus = b
    <3>1. /\ TimeAt(b) = (IF began + b < Modulus THEN began + b ELSE began + b - Modulus)
          /\ TimeAt(b) \in 0 .. Modulus - 1
      BY <2>1, <2>8, SumWraps DEF TimeAt
    <3>2. (TimeAt(b) - began) % Modulus
            = (IF began <= TimeAt(b) THEN TimeAt(b) - began ELSE TimeAt(b) - began + Modulus)
      BY <2>1, <3>1, DifferenceWraps
    <3> QED
      BY <2>1, <2>8, <3>1, <3>2
  <2> QED
    BY <2>5, <2>9, <2>10
<1> QED
  BY <1>1, ClintInvariant, PTL

-----------------------------------------------------------------------------
(* Divider: powers of two.                                                           *)

\* A set of m + n bits is one of m bits and one of n others.
LEMMA PowerSum ==
  ASSUME NEW m \in Nat, NEW n \in Nat
  PROVE  2^(m + n) = 2^m * 2^n
<1> DEFINE S == 1 .. m
           T == m + 1 .. m + n
           U == 1 .. m + n
           f == [p \in (SUBSET S) \X (SUBSET T) |-> p[1] \cup p[2]]
<1>1. /\ IsFiniteSet(S) /\ Cardinality(S) = m
      /\ IsFiniteSet(T) /\ Cardinality(T) = n
      /\ IsFiniteSet(U) /\ Cardinality(U) = m + n
  <2>1. IsFiniteSet(S) /\ Cardinality(S) = IF 1 > m THEN 0 ELSE m - 1 + 1
    BY FS_Interval
  <2>2. IsFiniteSet(T) /\ Cardinality(T) = IF m + 1 > m + n THEN 0 ELSE (m + n) - (m + 1) + 1
    BY FS_Interval
  <2>3. IsFiniteSet(U) /\ Cardinality(U) = IF 1 > m + n THEN 0 ELSE (m + n) - 1 + 1
    BY FS_Interval
  <2> QED
    BY <2>1, <2>2, <2>3
<1>2. S \cup T = U /\ S \cap T = {}
  OBVIOUS
<1> HIDE DEF S, T, U
<1>3. /\ IsFiniteSet(SUBSET S) /\ Cardinality(SUBSET S) = 2^m
      /\ IsFiniteSet(SUBSET T) /\ Cardinality(SUBSET T) = 2^n
      /\ Cardinality(SUBSET U) = 2^(m + n)
  BY <1>1, FS_SUBSET
<1>4. /\ IsFiniteSet((SUBSET S) \X (SUBSET T))
      /\ Cardinality((SUBSET S) \X (SUBSET T)) = 2^m * 2^n
  BY <1>3, FS_Product
<1>5. f \in Bijection((SUBSET S) \X (SUBSET T), SUBSET U)
  <2>1. f \in [(SUBSET S) \X (SUBSET T) -> SUBSET U]
    BY <1>2
  <2>2. ASSUME NEW p \in (SUBSET S) \X (SUBSET T), NEW q \in (SUBSET S) \X (SUBSET T),
               f[p] = f[q]
        PROVE  p = q
    <3>1. p[1] \cup p[2] = q[1] \cup q[2]
      BY <2>2
    <3>2. p[1] = q[1] /\ p[2] = q[2]
      BY <3>1, <1>2
    <3> QED
      BY <3>2
  <2>3. ASSUME NEW u \in SUBSET U
        PROVE  \E p \in (SUBSET S) \X (SUBSET T) : f[p] = u
    <3>1. <<u \cap S, u \cap T>> \in (SUBSET S) \X (SUBSET T)
      OBVIOUS
    <3>2. f[<<u \cap S, u \cap T>>] = (u \cap S) \cup (u \cap T)
      BY <3>1
    <3>3. (u \cap S) \cup (u \cap T) = u
      BY <1>2
    <3> QED
      BY <3>1, <3>2, <3>3
  <2> QED
    BY <2>1, <2>2, <2>3, Fun_IsBij
<1>6. ExistsBijection((SUBSET S) \X (SUBSET T), SUBSET U)
  BY <1>5 DEF ExistsBijection
<1>7. Cardinality(SUBSET U) = Cardinality((SUBSET S) \X (SUBSET T))
  BY <1>4, <1>6, FS_Bijection
<1> QED
  BY <1>3, <1>4, <1>7

LEMMA PowerPositive == ASSUME NEW n \in Nat PROVE 2^n \in Nat /\ 2^n >= 1
<1>1. IsFiniteSet(1 .. n) /\ Cardinality(1 .. n) = n
  BY FS_Interval
<1>2. IsFiniteSet(SUBSET (1 .. n)) /\ Cardinality(SUBSET (1 .. n)) = 2^n
  BY <1>1, FS_SUBSET
<1>3. 2^n \in Nat
  BY <1>2, FS_CardinalityType
<1>4. SUBSET (1 .. n) # {}
  OBVIOUS
<1>5. 2^n # 0
  BY <1>2, <1>4, FS_EmptySet
<1> QED
  BY <1>3, <1>5

LEMMA PowerNext == ASSUME NEW n \in Nat PROVE 2^(n + 1) = 2 * 2^n
<1>1. 2^(n + 1) = 2^n * 2^1
  BY PowerSum
<1>2. 2^1 = 2
  OBVIOUS
<1>3. 2^n \in Nat
  BY PowerPositive
<1> QED
  BY <1>1, <1>2, <1>3

LEMMA PowerMonotone ==
  ASSUME NEW m \in Nat, NEW n \in Nat, m <= n
  PROVE  2^m <= 2^n
<1>1. PICK d \in Nat : n = m + d
  <2>1. n - m \in Nat /\ n = m + (n - m)
    OBVIOUS
  <2> QED
    BY <2>1
<1>2. 2^n = 2^m * 2^d
  BY <1>1, PowerSum
<1>3. 2^m \in Nat /\ 2^d \in Nat /\ 2^d >= 1
  BY PowerPositive
<1>4. ASSUME NEW a \in Nat, NEW b \in Nat, b >= 1 PROVE a <= a * b
  BY <1>4
<1>5. 2^m <= 2^m * 2^d
  BY <1>3, <1>4
<1> QED
  BY <1>2, <1>5

\* The position of the first one: as many powers of two are not above x.
LEMMA LeadingZeros ==
  ASSUME NEW x \in Word, x # 0
  PROVE  cnt(x) \in 0 .. W - 1 /\ 2^(W - 1 - cnt(x)) <= x /\ x < 2^(W - cnt(x))
<1> DEFINE S == {k \in 0 .. W - 1 : 2^k <= x}
           c == Cardinality(S)
<1>1. W \in Nat /\ W >= 1 /\ 2^W \in Nat /\ x \in Nat /\ x >= 1 /\ x < 2^W
  <2>1. W \in Nat /\ W >= 1
    BY DividerAssumption
  <2>2. 2^W \in Nat
    BY <2>1, PowerPositive
  <2> QED
    BY <2>1, <2>2 DEF Word
<1>2. \A n \in Nat : 2^n \in Nat
  BY PowerPositive
<1>3. IsFiniteSet(S)
  <2>1. IsFiniteSet(0 .. W - 1)
    BY <1>1, FS_Interval
  <2>2. S \subseteq 0 .. W - 1
    OBVIOUS
  <2> QED
    BY <2>1, <2>2, FS_Subset
<1>4. c \in Nat
  BY <1>3, FS_CardinalityType
<1>5. ASSUME NEW k \in S, NEW j \in 0 .. k PROVE j \in S
  <2>1. k \in Nat /\ j \in Nat /\ j <= k /\ k <= W - 1 /\ 2^k <= x
    BY <1>1, <1>5
  <2>2. 2^j <= 2^k
    BY <2>1, PowerMonotone
  <2>3. 2^j <= x
    BY <2>1, <2>2, <1>1, <1>2
  <2> QED
    BY <2>1, <2>3, <1>1
<1> HIDE DEF S, c
<1>6. c \notin S
  <2> SUFFICES ASSUME c \in S PROVE FALSE
    OBVIOUS
  <2>1. 0 .. c \subseteq S
    BY <1>5
  <2>2. IsFiniteSet(0 .. c) /\ Cardinality(0 .. c) = c + 1
    <3>1. 0 \in Int /\ c \in Int /\ ~(0 > c)
      BY <1>4
    <3> QED
      BY <3>1, <1>4, FS_Interval
  <2>3. c + 1 <= c
    <3>1. 0 .. c \in SUBSET S
      BY <2>1
    <3>2. Cardinality(0 .. c) <= Cardinality(S)
      BY <1>3, <3>1, FS_Subset
    <3> QED
      BY <2>2, <3>2 DEF c
  <2> QED
    BY <2>3, <1>4
<1>7. 0 \in S
  <2>1. 2^0 = 1
    OBVIOUS
  <2> QED
    BY <2>1, <1>1 DEF S
<1>8. c >= 1
  <2>1. c # 0
    BY <1>3, <1>7, FS_EmptySet DEF c
  <2> QED
    BY <2>1, <1>4
<1>9. c - 1 \in S
  <2> SUFFICES ASSUME c - 1 \notin S PROVE FALSE
    OBVIOUS
  <2>1. S \subseteq 0 .. c - 2
    <3> SUFFICES ASSUME NEW k \in S PROVE k \in 0 .. c - 2
      OBVIOUS
    <3>1. k \in Nat
      BY <1>1 DEF S
    <3>2. ~(c - 1 <= k)
      <4> SUFFICES ASSUME c - 1 <= k PROVE FALSE
        OBVIOUS
      <4>1. c - 1 \in 0 .. k
        BY <3>1, <1>4, <1>8
      <4> QED
        BY <4>1, <1>5
    <3> QED
      BY <3>1, <3>2, <1>4, <1>8
  <2>2. IsFiniteSet(0 .. c - 2) /\ Cardinality(0 .. c - 2) = c - 1
    <3>1. 0 \in Int /\ c - 2 \in Int
      BY <1>4
    <3>2. IsFiniteSet(0 .. c - 2)
          /\ Cardinality(0 .. c - 2) = IF 0 > c - 2 THEN 0 ELSE (c - 2) - 0 + 1
      BY <3>1, FS_Interval
    <3>3. (IF 0 > c - 2 THEN 0 ELSE (c - 2) - 0 + 1) = c - 1
      BY <1>4, <1>8
    <3> QED
      BY <3>2, <3>3
  <2>3. c <= c - 1
    <3>1. S \in SUBSET (0 .. c - 2)
      BY <2>1
    <3>2. Cardinality(S) <= Cardinality(0 .. c - 2)
      BY <2>2, <3>1, FS_Subset
    <3> QED
      BY <2>2, <3>2 DEF c
  <2> QED
    BY <2>3, <1>4
<1>10. c - 1 \in 0 .. W - 1 /\ 2^(c - 1) <= x
  BY <1>9 DEF S
<1>11. x < 2^c
  <2>1. CASE c = W
    BY <2>1, <1>1
  <2>2. CASE c # W
    <3>1. c \in 0 .. W - 1
      BY <2>2, <1>10, <1>1, <1>4
    <3>2. ~(2^c <= x)
      BY <3>1, <1>6 DEF S
    <3> QED
      BY <3>2, <1>2, <1>1, <1>4
  <2> QED
    BY <2>1, <2>2
<1>12. x \div 2^(c - 1) = 1
  <2>1. c - 1 \in Nat /\ (c - 1) + 1 = c
    BY <1>4, <1>8
  <2>2. 2^c = 2 * 2^(c - 1)
    BY <2>1, PowerNext
  <2>3. 2^(c - 1) \in Nat /\ 2^(c - 1) >= 1
    BY <2>1, PowerPositive
  <2>4. ASSUME NEW d \in Nat, d >= 1, d <= x, x < 2 * d PROVE x \div d = 1
    BY <2>4, <1>1
  <2> QED
    BY <2>2, <2>3, <2>4, <1>10, <1>11
<1>13. \E n \in 0 .. W - 1 : x \div 2^(W - 1 - n) = 1
  <2>1. W - c \in 0 .. W - 1 /\ W - 1 - (W - c) = c - 1
    BY <1>10, <1>4, <1>8, <1>1
  <2> QED
    BY <2>1, <1>12
<1>14. PICK n : n = cnt(x)
  OBVIOUS
<1>15. n \in 0 .. W - 1 /\ x \div 2^(W - 1 - n) = 1
  BY <1>13, <1>14, <1>1 DEF cnt
<1>16. 2^(W - 1 - n) <= x /\ x < 2^(W - n)
  <2>1. W - 1 - n \in Nat /\ (W - 1 - n) + 1 = W - n
    BY <1>15, <1>1
  <2>2. 2^(W - n) = 2 * 2^(W - 1 - n)
    BY <2>1, PowerNext
  <2>3. 2^(W - 1 - n) \in Nat /\ 2^(W - 1 - n) >= 1
    BY <2>1, PowerPositive
  <2>4. ASSUME NEW d \in Nat, d >= 1, x \div d = 1 PROVE d <= x /\ x < 2 * d
    BY <2>4, <1>1
  <2> QED
    BY <2>2, <2>3, <2>4, <1>15
<1> QED
  BY <1>14, <1>15, <1>16

-----------------------------------------------------------------------------
(* Divider: what DIV, DIVU, REM and REMU give.                                       *)

LEMMA WordRange ==
  /\ 2^W \in Nat /\ 2^(W - 1) \in Nat /\ 2^(W - 1) >= 1 /\ 2^W = 2 * 2^(W - 1)
  /\ W \in Nat /\ W >= 1 /\ W - 1 \in Nat
<1>1. W \in Nat /\ W >= 1 /\ W - 1 \in Nat /\ (W - 1) + 1 = W
  BY DividerAssumption
<1> QED
  BY <1>1, PowerNext, PowerPositive

LEMMA RequestType ==
  ASSUME NEW r \in Requests(Word \X Word)
  PROVE  /\ r.a \in Word /\ r.b \in Word /\ r.op_rem \in BOOLEAN /\ r.op_uns \in BOOLEAN
  BY DEF Requests

\* The size and the sign of a number make up what the word stands for.
LEMMA SizeAndSign ==
  ASSUME NEW x \in Word, NEW r
  PROVE  /\ Abs(x, r) \in Word
         /\ Value(x, r) = IF Negative(x, r) THEN -Abs(x, r) ELSE Abs(x, r)
         /\ Abs(x, r) = 0 <=> x = 0
         /\ Negative(x, r) => Abs(x, r) > 0
         /\ Value(x, r) % 2^W = x
<1>1. PICK P \in Nat, H \in Nat : P = 2^W /\ H = 2^(W - 1) /\ H >= 1 /\ P = 2 * H
  BY WordRange
<1>2. x \in 0 .. P - 1
  BY <1>1 DEF Word
<1>3. CASE Negative(x, r)
  <2>1. x >= H
    BY <1>1, <1>3 DEF Negative
  <2>2. Abs(x, r) = (P - x) % P /\ Value(x, r) = x - P
    BY <1>1, <1>3 DEF Abs, Neg, Value
  <2>3. (P - x) % P = P - x /\ (x - P) % P = x
    BY <2>1, <1>1, <1>2
  <2>4. PICK y : y = Abs(x, r)
    OBVIOUS
  <2>5. y = P - x /\ y \in 1 .. P - 1 /\ x # 0
    <3>1. y = P - x
      BY <2>2, <2>3, <2>4
    <3> QED
      BY <3>1, <2>1, <1>1, <1>2
  <2>6. y \in Word /\ x - P = -y /\ y > 0 /\ (y = 0 <=> x = 0)
    BY <2>5, <1>1, <1>2 DEF Word
  <2>7. (x - P) % 2^W = x
    BY <2>3, <1>1
  <2> QED
    BY <2>2, <2>4, <2>6, <2>7, <1>3
<1>4. CASE ~Negative(x, r)
  <2>1. Abs(x, r) = x /\ Value(x, r) = x
    BY <1>4 DEF Abs, Value
  <2>2. x % P = x
    BY <1>2
  <2> QED
    BY <2>1, <2>2, <1>1, <1>2, <1>4 DEF Word
<1> QED
  BY <1>3, <1>4

LEMMA SquareBound ==
  ASSUME NEW x \in Int, NEW b \in Nat
  PROVE  x * x < b * b <=> -b < x /\ x < b
<1>1. ASSUME -b < x, x < b PROVE x * x < b * b
  <2>1. CASE x >= 0
    <3>1. x * x <= x * b /\ x * b < b * b
      BY <1>1, <2>1
    <3> QED
      BY <3>1
  <2>2. CASE x < 0
    <3>1. PICK y \in Nat : y = -x
      BY <2>2
    <3>2. y < b /\ x * x = y * y
      BY <1>1, <3>1
    <3>3. y * y <= y * b /\ y * b < b * b
      BY <3>1, <3>2
    <3> QED
      BY <3>2, <3>3
  <2> QED
    BY <2>1, <2>2
<1>2. ASSUME x >= b PROVE x * x >= b * b
  BY <1>2
<1>3. ASSUME x <= -b PROVE x * x >= b * b
  <2>1. PICK y \in Nat : y = -x
    BY <1>3
  <2>2. y >= b /\ x * x = y * y
    BY <1>3, <2>1
  <2> QED
    BY <2>1, <2>2
<1> QED
  BY <1>1, <1>2, <1>3

\* There is one quotient rounded towards zero.
LEMMA OneQuotient ==
  ASSUME NEW a \in Int, NEW b \in Int, b # 0, NEW p \in Int, NEW q \in Int,
         NEW x \in Int, NEW y \in Int, x = a - p * b, y = a - q * b,
         x * x < b * b, x = 0 \/ (x > 0 <=> a > 0),
         y * y < b * b, y = 0 \/ (y > 0 <=> a > 0)
  PROVE  p = q
<1>1. PICK c \in Nat : c > 0 /\ (c = b \/ c = -b) /\ c * c = b * b
  <2>1. CASE b > 0
    BY <2>1
  <2>2. CASE b < 0
    <3>1. -b \in Nat /\ -b > 0 /\ (-b) * (-b) = b * b
      BY <2>2
    <3> QED
      BY <3>1
  <2> QED
    BY <2>1, <2>2
<1>2. -c < x /\ x < c /\ -c < y /\ y < c
  BY <1>1, SquareBound
<1>3. -c < x - y /\ x - y < c
  BY <1>2
<1>4. PICK d \in Int : d = q - p
  OBVIOUS
<1>5. x - y = d * b
  BY <1>4
<1>6. ASSUME d >= 1 PROVE FALSE
  <2>1. c <= d * c
    BY <1>1, <1>6
  <2>2. d * b = d * c \/ d * b = -(d * c)
    BY <1>1
  <2> QED
    BY <2>1, <2>2, <1>3, <1>5
<1>7. ASSUME d <= -1 PROVE FALSE
  <2>1. d * c <= -c
    BY <1>1, <1>7
  <2>2. d * b = d * c \/ d * b = -(d * c)
    BY <1>1
  <2> QED
    BY <2>1, <2>2, <1>3, <1>5
<1> QED
  BY <1>4, <1>6, <1>7

LEMMA SignedWord ==
  ASSUME NEW q \in Word, NEW negative \in BOOLEAN
  PROVE  /\ Signed(q, negative) \in Word
         /\ Signed(q, negative) = (IF negative THEN -q ELSE q) % 2^W
<1>1. PICK P \in Nat : P = 2^W /\ P >= 1
  BY WordRange
<1>2. q \in 0 .. P - 1
  BY <1>1 DEF Word
<1>3. CASE negative
  <2>1. Signed(q, negative) = (P - q) % P
    BY <1>1, <1>3 DEF Signed, Neg
  <2>2. (P - q) % P = (-q) % P /\ (P - q) % P \in 0 .. P - 1
    BY <1>1, <1>2
  <2> QED
    BY <2>1, <2>2, <1>1, <1>3 DEF Word
<1>4. CASE ~negative
  <2>1. Signed(q, negative) = q
    BY <1>4 DEF Signed
  <2>2. q % P = q
    BY <1>2
  <2> QED
    BY <2>1, <2>2, <1>1, <1>4
<1> QED
  BY <1>3, <1>4

\* The division of the sizes, with the signs put back, is what the instructions give.
LEMMA SignsPutBack ==
  ASSUME NEW r \in Requests(Word \X Word), r.b # 0, NEW q \in Nat, NEW m \in Nat,
         abs_a(r) = q * abs_b(r) + m, m < abs_b(r)
  PROVE  /\ q \in Word /\ m \in Word
         /\ Signed(q, quot_neg(r)) = Quotient(r) % 2^W
         /\ Signed(m, rem_neg(r)) = Remainder(r)
<1>1. PICK P \in Nat : P = 2^W /\ P >= 1
  BY WordRange
<1>2. PICK a, b, A, B : /\ a = Value(r.a, r) /\ b = Value(r.b, r)
                        /\ A = abs_a(r) /\ B = abs_b(r)
  OBVIOUS
<1> DEFINE na == Negative(r.a, r)
           nb == Negative(r.b, r)
<1>3. /\ A \in 0 .. P - 1 /\ a = (IF na THEN -A ELSE A) /\ (na => A > 0)
      /\ B \in 1 .. P - 1 /\ b = IF nb THEN -B ELSE B
  <2>1. r.a \in Word /\ r.b \in Word
    BY RequestType
  <2>2. A = Abs(r.a, r) /\ B = Abs(r.b, r)
    BY <1>2 DEF abs_a, abs_b
  <2>3. A \in Word /\ a = (IF na THEN -A ELSE A) /\ (na => A > 0)
    BY <2>1, <2>2, <1>2, SizeAndSign
  <2>4. B \in Word /\ b = (IF nb THEN -B ELSE B) /\ B # 0
    BY <2>1, <2>2, <1>2, SizeAndSign
  <2> QED
    BY <2>3, <2>4, <1>1 DEF Word
<1>4. na \in BOOLEAN /\ nb \in BOOLEAN
  BY DEF Negative
<1>5. quot_neg(r) = (na # nb) /\ rem_neg(r) = na
  BY DEF quot_neg, rem_neg
<1> HIDE DEF na, nb
<1>6. A = q * B + m /\ m < B /\ a \in Int /\ b \in Int
  <2>1. a \in Int /\ b \in Int
    BY <1>3, <1>4
  <2> QED
    BY <2>1, <1>2
<1>7. q <= A /\ m <= A
  <2>1. q * B >= q
    BY <1>3
  <2>2. q * B \in Nat
    BY <1>3
  <2> QED
    BY <2>1, <2>2, <1>3, <1>6
<1>8. q \in Word /\ m \in Word
  BY <1>1, <1>3, <1>7 DEF Word
<1>9. PICK s \in Int : s = IF na # nb THEN -q ELSE q
  OBVIOUS
<1>10. PICK x \in Int : x = a - s * b
  BY <1>6
<1>11. x = IF na THEN -m ELSE m
  <2>1. s * b = IF na THEN -(q * B) ELSE q * B
    BY <1>3, <1>4, <1>9
  <2> QED
    BY <2>1, <1>3, <1>4, <1>6, <1>10
<1>12. b \in Int /\ b # 0 /\ b * b = B * B
  BY <1>3, <1>4
<1>13. x * x < b * b
  <2>1. -B < x /\ x < B
    BY <1>11, <1>6, <1>3
  <2>2. x * x < B * B
    BY <2>1, <1>3, SquareBound
  <2> QED
    BY <2>2, <1>12
<1>14. x = 0 \/ (x > 0 <=> a > 0)
  BY <1>3, <1>4, <1>6, <1>11
<1>15. Quotient(r) = s
  <2> DEFINE Rounded(t) == /\ (a - t * b) * (a - t * b) < b * b
                           /\ a - t * b = 0 \/ (a - t * b > 0 <=> a > 0)
  <2>1. Rounded(s)
    BY <1>10, <1>13, <1>14
  <2>2. s \in -(2^W) .. 2^W
    BY <1>1, <1>3, <1>7, <1>9
  <2>3. ASSUME NEW t \in -(2^W) .. 2^W, Rounded(t) PROVE t = s
    <3>1. t \in Int
      BY <1>1
    <3>2. PICK y \in Int : y = a - t * b
      BY <3>1, <1>6
    <3>3. y * y < b * b /\ (y = 0 \/ (y > 0 <=> a > 0))
      BY <2>3, <3>2
    <3>4. a \in Int
      BY <1>3, <1>4
    <3> HIDE DEF Rounded
    <3> QED
      BY <3>1, <3>2, <3>3, <3>4, <1>10, <1>12, <1>13, <1>14, OneQuotient
  <2>4. Quotient(r) = CHOOSE t \in -(2^W) .. 2^W : Rounded(t)
    BY <1>2, <1>12 DEF Quotient
  <2> HIDE DEF Rounded
  <2> QED
    BY <2>1, <2>2, <2>3, <2>4
<1>16. Signed(q, quot_neg(r)) = Quotient(r) % 2^W
  <2>1. quot_neg(r) \in BOOLEAN
    BY DEF quot_neg
  <2>2. Signed(q, quot_neg(r)) = (IF quot_neg(r) THEN -q ELSE q) % 2^W
    BY <2>1, <1>8, SignedWord
  <2>3. (IF quot_neg(r) THEN -q ELSE q) = s
    BY <1>5, <1>9
  <2> QED
    BY <2>2, <2>3, <1>15
<1>17. Signed(m, rem_neg(r)) = Remainder(r)
  <2>1. Remainder(r) = x % 2^W
    BY <1>2, <1>10, <1>15 DEF Remainder
  <2>2. Signed(m, rem_neg(r)) = (IF na THEN -m ELSE m) % 2^W
    BY <1>4, <1>5, <1>8, SignedWord
  <2> QED
    BY <2>1, <2>2, <1>11
<1> QED
  BY <1>8, <1>16, <1>17

\* The four cases that need no iteration.
LEMMA SpecialRight ==
  ASSUME NEW r \in Requests(Word \X Word), Special(r)
  PROVE  /\ special_quot(r) \in Word /\ special_quot(r) = Quotient(r) % 2^W
         /\ special_rem(r) \in Word /\ special_rem(r) = Remainder(r)
<1>1. PICK P \in Nat, H \in Nat : P = 2^W /\ H = 2^(W - 1) /\ H >= 1 /\ P = 2 * H
  BY WordRange
<1>2. r.a \in 0 .. P - 1 /\ r.b \in 0 .. P - 1 /\ r.a \in Word /\ r.b \in Word
  BY <1>1, RequestType DEF Word
<1>3. /\ abs_a(r) \in Word /\ abs_b(r) \in Word
      /\ abs_b(r) = 0 <=> r.b = 0
      /\ Value(r.a, r) % 2^W = r.a
      /\ Value(r.a, r) = IF Negative(r.a, r) THEN -abs_a(r) ELSE abs_a(r)
  BY <1>2, SizeAndSign DEF abs_a, abs_b
<1>4. PICK A \in 0 .. P - 1, B \in 0 .. P - 1 : A = abs_a(r) /\ B = abs_b(r)
  BY <1>1, <1>3 DEF Word
<1>5. CASE div_by_zero(r)
  <2>1. r.b = 0
    BY <1>5 DEF div_by_zero
  <2>2. Value(r.b, r) = 0
    BY <2>1, <1>2, SizeAndSign
  <2>3. Quotient(r) = -1 /\ Remainder(r) = r.a
    BY <2>1, <2>2 DEF Quotient, Remainder
  <2>4. special_quot(r) = P - 1 /\ special_rem(r) = r.a
    BY <1>1, <1>5 DEF special_quot, special_rem
  <2>5. (-1) % P = P - 1
    BY <1>1
  <2> QED
    BY <2>3, <2>4, <2>5, <1>1, <1>2 DEF Word
<1>6. CASE ~div_by_zero(r) /\ overflow(r)
  <2>1. r.b # 0 /\ r.a = H /\ r.b = P - 1 /\ ~r.op_uns
    BY <1>1, <1>6 DEF div_by_zero, overflow
  <2>2. Negative(r.a, r) /\ Negative(r.b, r)
    BY <2>1, <1>1 DEF Negative
  <2>3. Neg(H) = H /\ Neg(P - 1) = 1 /\ Neg(0) = 0
    <3>1. (P - H) % P = H /\ (P - (P - 1)) % P = 1 /\ (P - 0) % P = 0
      <4>1. P - H = H /\ H \in 0 .. P - 1 /\ P - (P - 1) = 1 /\ 1 \in 0 .. P - 1
        BY <1>1
      <4>2. ASSUME NEW x \in 0 .. P - 1 PROVE x % P = x
        BY <1>1
      <4>3. P % P = 0 /\ P - 0 = P
        BY <1>1
      <4> QED
        BY <4>1, <4>2, <4>3
    <3> QED
      BY <3>1, <1>1 DEF Neg
  <2>4. abs_a(r) = H /\ abs_b(r) = 1
    BY <2>1, <2>2, <2>3 DEF abs_a, abs_b, Abs
  <2>5. H = H * 1 + 0 /\ 0 < 1 /\ 0 \in Nat
    BY <1>1
  <2>6. /\ Signed(H, quot_neg(r)) = Quotient(r) % 2^W
        /\ Signed(0, rem_neg(r)) = Remainder(r)
    BY <2>1, <2>4, <2>5, SignsPutBack
  <2>7. Signed(H, quot_neg(r)) = H /\ Signed(0, rem_neg(r)) = 0
    BY <2>2, <2>3 DEF Signed, quot_neg, rem_neg
  <2>8. special_quot(r) = r.a /\ special_rem(r) = 0
    BY <1>6 DEF special_quot, special_rem
  <2>9. 0 \in Word
    BY <1>1 DEF Word
  <2> QED
    BY <2>1, <2>6, <2>7, <2>8, <2>9, <1>2
<1>7. CASE ~div_by_zero(r) /\ ~overflow(r) /\ less_than_divisor(r)
  <2>1. r.b # 0 /\ A < B
    BY <1>4, <1>7 DEF div_by_zero, less_than_divisor
  <2>2. A = 0 * B + A /\ 0 \in Nat /\ A \in Nat
    BY <1>4
  <2>3. /\ Signed(0, quot_neg(r)) = Quotient(r) % 2^W
        /\ Signed(A, rem_neg(r)) = Remainder(r)
    BY <2>1, <2>2, <1>4, SignsPutBack
  <2>4. Signed(0, quot_neg(r)) = 0
    <3>1. (P - 0) % P = 0
      BY <1>1
    <3> QED
      BY <3>1, <1>1 DEF Signed, Neg
  <2>5. Signed(A, rem_neg(r)) = r.a
    <3>1. rem_neg(r) = Negative(r.a, r) /\ rem_neg(r) \in BOOLEAN
      BY DEF rem_neg, Negative
    <3>2. Signed(A, rem_neg(r)) = (IF rem_neg(r) THEN -A ELSE A) % 2^W
      BY <3>1, <1>3, <1>4, SignedWord
    <3>3. Value(r.a, r) = IF rem_neg(r) THEN -A ELSE A
      BY <3>1, <1>3, <1>4
    <3> QED
      BY <3>2, <3>3, <1>3
  <2>6. special_quot(r) = 0 /\ special_rem(r) = r.a
    BY <1>7 DEF special_quot, special_rem
  <2>7. 0 \in Word
    BY <1>1 DEF Word
  <2> QED
    BY <2>3, <2>4, <2>5, <2>6, <2>7, <1>2
<1>8. CASE ~div_by_zero(r) /\ ~overflow(r) /\ ~less_than_divisor(r)
  <2>1. r.b # 0 /\ B >= 1
    BY <1>3, <1>4, <1>8 DEF div_by_zero
  <2>2. PICK q \in Nat, m \in Nat : q = A \div B /\ m = A % B /\ A = q * B + m /\ m < B
    <3>1. A \div B \in Nat /\ A % B \in Nat /\ A = (A \div B) * B + (A % B) /\ A % B < B
      BY <2>1, <1>4
    <3> QED
      BY <3>1
  <2>3. /\ q \in Word /\ m \in Word
        /\ Signed(q, quot_neg(r)) = Quotient(r) % 2^W
        /\ Signed(m, rem_neg(r)) = Remainder(r)
    BY <2>1, <2>2, <1>4, SignsPutBack
  <2>4. quot_neg(r) \in BOOLEAN /\ rem_neg(r) \in BOOLEAN
    BY DEF quot_neg, rem_neg, Negative
  <2>5. Signed(q, quot_neg(r)) \in Word /\ Signed(m, rem_neg(r)) \in Word
    BY <2>3, <2>4, SignedWord
  <2>6. special_quot(r) = Signed(q, quot_neg(r)) /\ special_rem(r) = Signed(m, rem_neg(r))
    BY <1>4, <1>8, <2>2 DEF special_quot, special_rem
  <2> QED
    BY <2>3, <2>5, <2>6
<1> QED
  BY <1>5, <1>6, <1>7, <1>8

-----------------------------------------------------------------------------
(* Divider: the iterations.                                                          *)

\* The normalised start: the bits in front of the first one of the divisor are skipped.
LEMMA StartCount ==
  ASSUME NEW r \in Requests(Word \X Word), ~Special(r)
  PROVE  /\ abs_a(r) \in Word /\ abs_b(r) \in Word /\ abs_b(r) >= 1
         /\ iter_count(r) \in 1 .. W /\ skip(r) = W - iter_count(r)
         /\ abs_a(r) \div 2^iter_count(r) < abs_b(r)
<1>1. PICK A, B : A = abs_a(r) /\ B = abs_b(r)
  OBVIOUS
<1>2. A \in Word /\ B \in Word /\ B # 0 /\ ~(A < B)
  <2>1. r.a \in Word /\ r.b \in Word /\ r.b # 0
    BY RequestType DEF Special, div_by_zero
  <2>2. A \in Word /\ B \in Word /\ (B = 0 <=> r.b = 0)
    BY <2>1, <1>1, SizeAndSign DEF abs_a, abs_b
  <2>3. ~(A < B)
    BY <1>1, <2>1 DEF Special, less_than_divisor, div_by_zero
  <2> QED
    BY <2>1, <2>2, <2>3
<1>3. A \in Nat /\ B \in Nat /\ B >= 1 /\ A >= B
  BY <1>2, WordRange DEF Word
<1>4. PICK a, b : a = cnt(A) /\ b = cnt(B)
  OBVIOUS
<1>5. /\ a \in 0 .. W - 1 /\ 2^(W - 1 - a) <= A /\ A < 2^(W - a)
      /\ b \in 0 .. W - 1 /\ 2^(W - 1 - b) <= B /\ B < 2^(W - b)
  <2>1. A # 0
    BY <1>3
  <2> QED
    BY <2>1, <1>2, <1>4, LeadingZeros
<1>6. \A n \in Nat : 2^n \in Nat
  BY PowerPositive
<1>7. a <= b
  <2> SUFFICES ASSUME a > b PROVE FALSE
    BY <1>5, WordRange
  <2>1. W - a \in Nat /\ W - 1 - b \in Nat /\ W - a <= W - 1 - b
    BY <1>5, WordRange
  <2>2. 2^(W - a) <= 2^(W - 1 - b)
    BY <2>1, PowerMonotone
  <2> QED
    BY <2>1, <2>2, <1>3, <1>5, <1>6
<1>8. skip(r) = a + (W - b - 1) /\ iter_count(r) = W - skip(r)
  BY <1>1, <1>4 DEF skip, iter_count
<1>9. PICK i \in Int : i = b - a + 1
  BY <1>5, WordRange
<1>10. iter_count(r) = i /\ skip(r) = W - i /\ i \in 1 .. W
  BY <1>5, <1>7, <1>8, <1>9, WordRange
<1>11. A \div 2^i < B
  <2>1. i \in Nat /\ W - 1 - b \in Nat /\ W - a = i + (W - 1 - b)
    BY <1>5, <1>7, <1>9, WordRange
  <2>2. 2^(W - a) = 2^i * 2^(W - 1 - b)
    BY <2>1, PowerSum
  <2>3. 2^i \in Nat /\ 2^i >= 1 /\ 2^(W - 1 - b) \in Nat
    BY <2>1, PowerPositive
  <2>4. ASSUME NEW x \in Nat, NEW k \in Nat, NEW t \in Nat, k >= 1, x < k * t
        PROVE  x \div k < t
    <3>1. PICK d \in Nat : d = x \div k /\ d * k <= x
      BY <2>4
    <3>2. ASSUME d >= t PROVE d * k >= k * t
      BY <2>4, <3>1, <3>2
    <3>3. d < t
      BY <2>4, <3>1, <3>2
    <3> QED
      BY <3>1, <3>3
  <2>5. A \div 2^i < 2^(W - 1 - b)
    BY <2>2, <2>3, <2>4, <1>3, <1>5
  <2>6. A \div 2^i \in Nat
    BY <2>3, <1>3
  <2> QED
    BY <2>3, <2>5, <2>6, <1>3, <1>5
<1> QED
  BY <1>1, <1>2, <1>3, <1>10, <1>11

\* The registers the start loads are a division of which no bit is done.
LEMMA StartDivides ==
  ASSUME NEW A \in Word, NEW i \in 1 .. W
  PROVE  \E low \in 0 .. 2^i - 1 :
           /\ A = (A \div 2^i) * 2^i + low
           /\ (A * 2^(W - i)) % 2^W = low * 2^(W - i)
<1>1. i \in Nat /\ W - i \in Nat /\ W = i + (W - i)
  BY WordRange
<1>2. PICK k \in Nat, t \in Nat, P \in Nat :
        k = 2^i /\ t = 2^(W - i) /\ P = 2^W /\ k >= 1 /\ t >= 1 /\ P = k * t
  <2>1. 2^(i + (W - i)) = 2^i * 2^(W - i)
    BY <1>1, PowerSum
  <2>2. 2^W = 2^i * 2^(W - i)
    BY <2>1, <1>1
  <2>3. 2^i \in Nat /\ 2^(W - i) \in Nat /\ 2^i >= 1 /\ 2^(W - i) >= 1 /\ 2^W \in Nat
    BY <1>1, PowerPositive, WordRange
  <2> QED
    BY <2>2, <2>3
<1>3. A \in Nat
  BY WordRange DEF Word
<1>4. PICK low \in Nat, d \in Nat :
        low = A % k /\ d = A \div k /\ A = k * d + low /\ low < k
  <2>1. ASSUME NEW x \in Nat, NEW y \in Nat, y >= 1
        PROVE  /\ x \div y \in Nat /\ x % y \in Nat
               /\ x = y * (x \div y) + (x % y) /\ x % y < y
    BY <2>1
  <2> QED
    BY <2>1, <1>2, <1>3
<1>5. A = d * k + low /\ low < k
  BY <1>2, <1>4
<1>6. A * t = d * P + low * t
  BY <1>2, <1>5
<1>7. low * t \in Nat /\ low * t < P
  BY <1>2, <1>5
<1>8. (A * t) % P = low * t
  <2>1. ASSUME NEW x \in Nat, NEW y \in Nat, y < P, x = d * P + y PROVE x % P = y
    <3>1. PICK e \in Nat, z \in Nat : z = x % P /\ x = P * e + z /\ z < P
      <4>1. x \div P \in Nat /\ x % P \in Nat /\ x = P * (x \div P) + (x % P) /\ x % P < P
        BY <2>1
      <4> QED
        BY <4>1
    <3>2. P * (d - e) = z - y
      <4>1. PICK f \in Int, g \in Int : f = P * d /\ g = P * e
        OBVIOUS
      <4>2. P * (d - e) = f - g /\ d * P = f
        BY <4>1
      <4>3. x = f + y /\ x = g + z
        BY <2>1, <3>1, <4>1, <4>2
      <4> QED
        BY <4>2, <4>3
    <3>3. ~(d - e >= 1)
      <4> SUFFICES ASSUME d - e >= 1 PROVE FALSE
        OBVIOUS
      <4>1. P * (d - e) >= P
        OBVIOUS
      <4> QED
        BY <4>1, <2>1, <3>1, <3>2
    <3>4. ~(d - e <= -1)
      <4> SUFFICES ASSUME d - e <= -1 PROVE FALSE
        OBVIOUS
      <4>1. P * (d - e) <= -P
        OBVIOUS
      <4> QED
        BY <4>1, <2>1, <3>1, <3>2
    <3>5. d = e
      BY <3>3, <3>4
    <3> QED
      BY <2>1, <3>1, <3>5
  <2>2. A * t \in Nat
    BY <1>2, <1>3
  <2> QED
    BY <2>1, <2>2, <1>6, <1>7
<1>9. low \in 0 .. k - 1
  BY <1>5, <1>2
<1> QED
  BY <1>2, <1>4, <1>5, <1>8, <1>9

LEMMA QuotientBound ==
  ASSUME NEW q \in Nat, NEW B \in Nat, NEW m \in Nat, NEW k \in Nat, NEW low \in Nat,
         NEW A \in Nat, B >= 1, k >= 1, A = (q * B + m) * k + low
  PROVE  q <= A
<1>1. PICK c \in Nat : c = q * B /\ c >= q
  <2>1. q * B \in Nat /\ q * B >= q
    OBVIOUS
  <2> QED
    BY <2>1
<1>2. (c + m) * k >= c + m
  OBVIOUS
<1> QED
  BY <1>1, <1>2

\* A clock of the loop does one bit.
LEMMA IterateDivides ==
  ASSUME DividerInv, Iterate, NEW r, r = setup
  PROVE  /\ ds.iter_count \in 1 .. W
         /\ ds' \in [result : Word, dividend : Word, divisor : Word, quot : Word, rem : Word,
                     iter_count : 0 .. W, op_rem : BOOLEAN, quot_neg : BOOLEAN,
                     rem_neg : BOOLEAN]
         /\ ds'.iter_count = ds.iter_count - 1 /\ ds'.divisor = ds.divisor
         /\ ds'.op_rem = ds.op_rem /\ ds'.quot_neg = ds.quot_neg /\ ds'.rem_neg = ds.rem_neg
         /\ Divided(r, ds.iter_count)'
<1>1. /\ DividerTypeOK /\ r \in Requests(Word \X Word) /\ Underway(r)
      /\ div_state = "ITER"
  BY DEF DividerInv, Iterate, DividerTypeOK
<1>2. PICK i \in 1 .. W : i = ds.iter_count
  <2>1. ds.iter_count \in 0 .. W /\ ds.iter_count # 0
    BY <1>1 DEF DividerTypeOK, Underway
  <2> QED
    BY <2>1
<1>3. PICK A \in Nat, B \in Nat :
        A = abs_a(r) /\ B = abs_b(r) /\ A < 2^W /\ B < 2^W /\ B >= 1
  <2>1. abs_a(r) \in Word /\ abs_b(r) \in Word /\ abs_b(r) >= 1
    BY <1>1, StartCount DEF Underway
  <2> QED
    BY <2>1, WordRange DEF Word
<1>4. PICK q \in Nat, m \in Nat : q = ds.quot /\ m = ds.rem /\ m < B
  BY <1>1, <1>2, <1>3, WordRange DEF DividerTypeOK, Underway, Divided, Word
<1>5. i - 1 \in Nat /\ W - i \in Nat /\ W - 1 \in Nat /\ W \in Nat /\ (i - 1) + 1 = i
      /\ (W - i) + 1 = W - (i - 1) /\ W - 1 = (i - 1) + (W - i)
  BY WordRange
<1>6. PICK k \in Nat, t \in Nat, P \in Nat :
        /\ k = 2^(i - 1) /\ t = 2^(W - i) /\ P = 2^W /\ k >= 1 /\ t >= 1
        /\ 2^i = 2 * k /\ 2^(W - (i - 1)) = 2 * t /\ 2^(W - 1) = k * t /\ P = 2 * (k * t)
  <2>1. 2^(i - 1) \in Nat /\ 2^(W - i) \in Nat /\ 2^(i - 1) >= 1 /\ 2^(W - i) >= 1
    BY <1>5, PowerPositive
  <2>2. 2^i = 2 * 2^(i - 1)
    <3>1. 2^((i - 1) + 1) = 2 * 2^(i - 1)
      BY <1>5, PowerNext
    <3> QED
      BY <3>1, <1>5
  <2>3. 2^(W - (i - 1)) = 2 * 2^(W - i)
    <3>1. 2^((W - i) + 1) = 2 * 2^(W - i)
      BY <1>5, PowerNext
    <3> QED
      BY <3>1, <1>5
  <2>4. 2^(W - 1) = 2^(i - 1) * 2^(W - i)
    <3>1. 2^((i - 1) + (W - i)) = 2^(i - 1) * 2^(W - i)
      BY <1>5, PowerSum
    <3> QED
      BY <3>1, <1>5
  <2> QED
    BY <2>1, <2>2, <2>3, <2>4, WordRange
<1>7. PICK low \in Nat : /\ low < 2 * k /\ A = (q * B + m) * (2 * k) + low
                         /\ ds.dividend = low * t
  <2>1. PICK l \in 0 .. 2^i - 1 :
          abs_a(r) = (ds.quot * abs_b(r) + ds.rem) * 2^i + l /\ ds.dividend = l * 2^(W - i)
    BY <1>1, <1>2 DEF Underway, Divided
  <2>2. l \in Nat /\ l < 2 * k
    BY <1>6
  <2> QED
    BY <2>1, <2>2, <1>3, <1>4, <1>6
<1>8. PICK bit \in {0, 1} : bit = IF low < k THEN 0 ELSE 1
  OBVIOUS
<1>9. PICK behind \in 0 .. k - 1, s \in Nat :
        /\ behind = low - bit * k /\ s = 2 * m + bit /\ s < 2 * B
        /\ (low * t) \div (k * t) = bit
        /\ (2 * (low * t)) % (2 * (k * t)) = behind * (2 * t)
        /\ A = ((2 * q) * B + s) * k + behind
        /\ A = ((2 * q + 1) * B + (s - B)) * k + behind
  <2>1. /\ (low * t) \div (k * t) = bit
        /\ (2 * (low * t)) % (2 * (k * t)) = (low - bit * k) * (2 * t)
    <3>1. PICK d \in Nat, h \in Nat : d = low * t /\ h = k * t /\ h >= 1
      <4>1. low * t \in Nat /\ k * t \in Nat /\ k * t >= 1
        BY <1>6
      <4> QED
        BY <4>1
    <3>2. CASE low < k
      <4>1. d < h
        BY <3>1, <3>2, <1>6
      <4>2. d \div h = 0 /\ (2 * d) % (2 * h) = 2 * d
        BY <4>1, <3>1
      <4>3. 2 * d = (low - 0 * k) * (2 * t)
        BY <3>1
      <4> QED
        BY <4>2, <4>3, <3>1, <3>2, <1>8
    <3>3. CASE ~(low < k)
      <4>1. h <= d /\ d < 2 * h
        BY <3>1, <3>3, <1>6, <1>7
      <4>2. d \div h = 1 /\ (2 * d) % (2 * h) = 2 * d - 2 * h
        BY <4>1, <3>1
      <4>3. 2 * d - 2 * h = (low - 1 * k) * (2 * t)
        BY <3>1
      <4> QED
        BY <4>2, <4>3, <3>1, <3>3, <1>8
    <3> QED
      BY <3>2, <3>3
  <2>2. low - bit * k \in 0 .. k - 1 /\ 2 * m + bit \in Nat /\ 2 * m + bit < 2 * B
    BY <1>4, <1>7, <1>8
  <2>3. A = ((2 * q) * B + (2 * m + bit)) * k + (low - bit * k)
    BY <1>7
  <2>4. A = ((2 * q + 1) * B + (2 * m + bit - B)) * k + (low - bit * k)
    BY <1>7
  <2> QED
    BY <2>1, <2>2, <2>3, <2>4
<1>10. PICK u \in {0, 1}, v \in Nat :
         /\ u = (IF s >= B THEN 1 ELSE 0) /\ v = (IF s >= B THEN s - B ELSE s)
         /\ v < B /\ A = ((2 * q + u) * B + v) * k + behind
  <2>1. CASE s >= B
    <3>1. s - B \in Nat /\ s - B < B
      BY <2>1, <1>9
    <3> QED
      BY <3>1, <2>1, <1>9
  <2>2. CASE ~(s >= B)
    BY <2>2, <1>9
  <2> QED
    BY <2>1, <2>2
<1>11. 2 * q + u \in Nat /\ 2 * q + u <= A
  <2>1. 2 * q + u \in Nat /\ behind \in Nat
    BY <1>6
  <2> QED
    BY <2>1, <1>3, <1>6, <1>10, QuotientBound
<1>12. /\ 2 * q + u < P /\ v < P
       /\ (2 * q + u) % P = 2 * q + u /\ v % P = v
  <2>1. 2 * q + u < P /\ v < P
    BY <1>3, <1>6, <1>10, <1>11
  <2>2. ASSUME NEW x \in Nat, x < P PROVE x % P = x
    BY <2>2
  <2> QED
    BY <2>1, <2>2, <1>11
<1>13. /\ 2 * ds.rem + ds.dividend \div 2^(W - 1) = s
       /\ (2 * ds.dividend) % 2^W = behind * (2 * t)
  BY <1>4, <1>6, <1>7, <1>8, <1>9
<1>14. ds' = [ds EXCEPT
           !.dividend = (2 * @) % 2^W,
           !.quot = (2 * @ + IF s >= ds.divisor THEN 1 ELSE 0) % 2^W,
           !.rem = (IF s >= ds.divisor THEN s - ds.divisor ELSE s) % 2^W,
           !.iter_count = @ - 1]
  BY <1>13 DEF Iterate
<1>15. ds.divisor = B /\ ds.iter_count = i
  BY <1>1, <1>2, <1>3 DEF Underway
<1>16. behind * (2 * t) \in 0 .. P - 1
  <2>1. 2 * ds.dividend \in Nat
    BY <1>7
  <2>2. ASSUME NEW x \in Nat PROVE x % P \in 0 .. P - 1
    <3>1. P >= 1
      BY <1>6, WordRange
    <3> QED
      BY <3>1
  <2>3. (2 * ds.dividend) % P \in 0 .. P - 1
    BY <2>1, <2>2
  <2> QED
    BY <2>3, <1>6, <1>13
<1>17. /\ ds'.dividend = behind * (2 * t) /\ ds'.quot = 2 * q + u /\ ds'.rem = v
       /\ ds'.iter_count = i - 1
       /\ ds'.divisor = ds.divisor /\ ds'.op_rem = ds.op_rem /\ ds'.result = ds.result
       /\ ds'.quot_neg = ds.quot_neg /\ ds'.rem_neg = ds.rem_neg
       /\ DOMAIN ds' = DOMAIN ds
  <2>1. (2 * ds.quot + IF s >= ds.divisor THEN 1 ELSE 0) % 2^W = 2 * q + u
    BY <1>4, <1>6, <1>10, <1>12, <1>15
  <2>2. (IF s >= ds.divisor THEN s - ds.divisor ELSE s) % 2^W = v
    BY <1>6, <1>10, <1>12, <1>15
  <2> QED
    BY <2>1, <2>2, <1>1, <1>13, <1>14, <1>15 DEF DividerTypeOK
<1>18. ds' \in [result : Word, dividend : Word, divisor : Word, quot : Word, rem : Word,
                iter_count : 0 .. W, op_rem : BOOLEAN, quot_neg : BOOLEAN,
                rem_neg : BOOLEAN]
  <2>1. behind * (2 * t) \in Word /\ 2 * q + u \in Word /\ v \in Word /\ i - 1 \in 0 .. W
    BY <1>5, <1>6, <1>11, <1>12, <1>16 DEF Word
  <2> QED
    BY <2>1, <1>1, <1>14, <1>17 DEF DividerTypeOK
<1>19. Divided(r, ds.iter_count)'
  <2>2. ds'.rem < abs_b(r)
    BY <1>3, <1>10, <1>17
  <2>3. behind \in 0 .. 2^(i - 1) - 1
    BY <1>6
  <2>4. abs_a(r) = (ds'.quot * abs_b(r) + ds'.rem) * 2^(i - 1) + behind
    BY <1>3, <1>6, <1>10, <1>17
  <2>5. ds'.dividend = behind * 2^(W - (i - 1))
    BY <1>6, <1>17
  <2> QED
    BY <2>2, <2>3, <2>4, <2>5, <1>17 DEF Divided
<1> QED
  BY <1>15, <1>17, <1>18, <1>19

-----------------------------------------------------------------------------
(* Divider: its clocks.                                                              *)

DsType == [result : Word, dividend : Word, divisor : Word, quot : Word, rem : Word,
           iter_count : 0 .. W, op_rem : BOOLEAN, quot_neg : BOOLEAN, rem_neg : BOOLEAN]
CacheType == [a : Word, b : Word, op_uns : BOOLEAN, quot : Word, rem : Word]

\* The result depends on the operands and on whether they are signed.
LEMMA SameOperandsSameResult ==
  ASSUME NEW r, NEW s, r.a = s.a, r.b = s.b, r.op_uns = s.op_uns
  PROVE  Quotient(r) = Quotient(s) /\ Remainder(r) = Remainder(s)
<1> DEFINE Rounded(a, b) ==
      IF b = 0 THEN -1
      ELSE CHOOSE q \in -(2^W) .. 2^W :
             LET rest == a - q * b IN
               /\ rest * rest < b * b
               /\ rest = 0 \/ (rest > 0 <=> a > 0)
<1>1. Value(r.a, r) = Value(s.a, s) /\ Value(r.b, r) = Value(s.b, s)
  BY DEF Value, Negative
<1>2. /\ Quotient(r) = Rounded(Value(r.a, r), Value(r.b, r))
      /\ Quotient(s) = Rounded(Value(s.a, s), Value(s.b, s))
  BY DEF Quotient
<1> HIDE DEF Rounded
<1>3. Quotient(r) = Quotient(s)
  BY <1>1, <1>2
<1>4. Remainder(r) = Remainder(s)
  BY <1>1, <1>3 DEF Remainder
<1> QED
  BY <1>3, <1>4

LEMMA OperandsAreWords == Requests(Operands) \subseteq Requests(Word \X Word)
<1>1. Operands \subseteq Word \X Word
  BY DividerAssumption DEF Operands
<1> QED
  BY <1>1 DEF Requests

LEMMA SignsAreBoolean ==
  ASSUME NEW r PROVE quot_neg(r) \in BOOLEAN /\ rem_neg(r) \in BOOLEAN
  BY DEF quot_neg, rem_neg, Negative

LEMMA DividerStarts == DividerInit => DividerInv
<1> SUFFICES ASSUME DividerInit PROVE DividerInv
  OBVIOUS
<1>1. 0 \in Word /\ 2^W - 1 \in Word /\ 0 \in 0 .. W
  BY WordRange DEF Word
<1>2. NoRequest \in Requests(Word \X Word)
  <2>1. PICK p \in Word \X Word, f \in BOOLEAN : p[1] = 0 /\ p[2] = 0 /\ f = FALSE
    <3>1. <<0, 0>> \in Word \X Word /\ <<0, 0>>[1] = 0 /\ <<0, 0>>[2] = 0
      BY <1>1
    <3> QED
      BY <3>1
  <2>2. NoRequest = [a |-> p[1], b |-> p[2], op_rem |-> f, op_uns |-> f]
    BY <2>1 DEF NoRequest
  <2>3. [a |-> p[1], b |-> p[2], op_rem |-> f, op_uns |-> f] \in Requests(Word \X Word)
    BY DEF Requests
  <2> QED
    BY <2>2, <2>3
<1>3. ds \in DsType
  BY <1>1 DEF DividerInit, DsType
<1>4. div_cache \in CacheType
  BY <1>1 DEF DividerInit, CacheType
<1>5. DividerTypeOK
  BY <1>2, <1>3, <1>4 DEF DividerInit, DividerTypeOK, DsType, CacheType
<1>6. div_state = "IDLE" /\ div_cache_valid = FALSE /\ asked = Nothing
  BY DEF DividerInit
<1> QED
  BY <1>5, <1>6 DEF DividerInv, Idle, ResultRight

LEMMA HitStep == DividerInv /\ Hit => DividerInv'
<1> SUFFICES ASSUME DividerInv, Hit PROVE DividerInv'
  OBVIOUS
<1>1. PICK r \in Requests(Operands) :
        /\ Start(r) /\ start_div_cache_hit(r)
        /\ ds' = [ds EXCEPT !.result = IF r.op_rem THEN div_cache.rem ELSE div_cache.quot]
        /\ UNCHANGED <<div_state, setup, div_cache, div_cache_valid>>
  BY DEF Hit
<1>2. DividerTypeOK
  BY DEF DividerInv
<1>3. Idle /\ asked' = r
  BY <1>1 DEF Start
<1>4. DividerTypeOK'
  <2>1. ds' \in DsType
    BY <1>1, <1>2 DEF DividerTypeOK, DsType
  <2> QED
    BY <2>1, <1>1, <1>2 DEF DividerTypeOK, DsType
<1>5. /\ div_cache.quot = Quotient(CachedRequest) % 2^W
      /\ div_cache.rem = Remainder(CachedRequest)
  BY <1>1 DEF DividerInv, start_div_cache_hit
<1>6. ds'.result = Reference(r)
  <2>1. Quotient(r) = Quotient(CachedRequest) /\ Remainder(r) = Remainder(CachedRequest)
    <3>1. /\ CachedRequest.a = div_cache.a /\ CachedRequest.b = div_cache.b
          /\ CachedRequest.op_uns = div_cache.op_uns
      BY DEF CachedRequest
    <3>2. r.a = CachedRequest.a /\ r.b = CachedRequest.b /\ r.op_uns = CachedRequest.op_uns
      BY <3>1, <1>1 DEF start_div_cache_hit
    <3> QED
      BY <3>2, SameOperandsSameResult
  <2>2. ds'.result = IF r.op_rem THEN div_cache.rem ELSE div_cache.quot
    BY <1>1, <1>2 DEF DividerTypeOK
  <2> QED
    BY <2>1, <2>2, <1>5 DEF Reference
<1>7. CachedRequest' = CachedRequest
  BY <1>1 DEF CachedRequest
<1>8. ResultRight'
  BY <1>3, <1>6 DEF ResultRight
<1> QED
  BY <1>1, <1>3, <1>4, <1>5, <1>7, <1>8 DEF DividerInv, Idle

LEMMA MissStep == DividerInv /\ Miss => DividerInv'
<1> SUFFICES ASSUME DividerInv, Miss PROVE DividerInv'
  OBVIOUS
<1>1. PICK r \in Requests(Operands) :
        /\ Start(r) /\ div_state' = "SETUP" /\ setup' = r
        /\ UNCHANGED <<ds, div_cache, div_cache_valid>>
  BY DEF Miss
<1>2. r \in Requests(Word \X Word)
  BY OperandsAreWords
<1>3. DividerTypeOK'
  BY <1>1, <1>2 DEF DividerInv, DividerTypeOK
<1>4. CachedRequest' = CachedRequest
  BY <1>1 DEF CachedRequest
<1>5. asked' = setup' /\ ~Idle'
  BY <1>1 DEF Start, Idle
<1> QED
  BY <1>1, <1>3, <1>4, <1>5 DEF DividerInv, ResultRight

LEMMA SpecialStep == DividerInv /\ SetupSpecial => DividerInv'
<1> SUFFICES ASSUME DividerInv, SetupSpecial PROVE DividerInv'
  OBVIOUS
<1>1. PICK r : r = setup
  OBVIOUS
<1>2. r \in Requests(Word \X Word) /\ Special(r) /\ asked = r /\ DividerTypeOK
  BY <1>1 DEF DividerInv, DividerTypeOK, SetupSpecial, Idle
<1>3. ds' = [ds EXCEPT !.result = IF r.op_rem THEN special_rem(r) ELSE special_quot(r)]
  BY <1>1 DEF SetupSpecial
<1>4. /\ special_quot(r) \in Word /\ special_quot(r) = Quotient(r) % 2^W
      /\ special_rem(r) \in Word /\ special_rem(r) = Remainder(r)
  BY <1>2, SpecialRight
<1>5. DividerTypeOK'
  <2>1. (IF r.op_rem THEN special_rem(r) ELSE special_quot(r)) \in Word
    BY <1>4
  <2>2. ds' \in DsType
    BY <2>1, <1>2, <1>3 DEF DividerTypeOK, DsType
  <2> QED
    BY <2>2, <1>2 DEF DividerTypeOK, DsType, SetupSpecial
<1>6. ds'.result = Reference(r) /\ asked' = r
  <2>1. ds'.result = IF r.op_rem THEN special_rem(r) ELSE special_quot(r)
    BY <1>2, <1>3 DEF DividerTypeOK
  <2> QED
    BY <2>1, <1>2, <1>4 DEF Reference, SetupSpecial
<1>7. CachedRequest' = CachedRequest /\ UNCHANGED <<div_cache, div_cache_valid>>
  BY DEF CachedRequest, SetupSpecial
<1>8. div_state' = "IDLE"
  BY DEF SetupSpecial
<1>9. ResultRight'
  BY <1>6 DEF ResultRight
<1> QED
  BY <1>5, <1>7, <1>8, <1>9 DEF DividerInv, Idle

LEMMA SetupIterStep == DividerInv /\ SetupIter => DividerInv'
<1> SUFFICES ASSUME DividerInv, SetupIter PROVE DividerInv'
  OBVIOUS
<1>1. PICK r : r = setup
  OBVIOUS
<1>2. r \in Requests(Word \X Word) /\ ~Special(r) /\ asked = r /\ DividerTypeOK
  BY <1>1 DEF DividerInv, DividerTypeOK, SetupIter, SetupRegisters, Idle
<1>3. PICK A, B, i : A = abs_a(r) /\ B = abs_b(r) /\ i = iter_count(r)
  OBVIOUS
<1>4. /\ A \in Word /\ B \in Word /\ B >= 1 /\ i \in 1 .. W /\ skip(r) = W - i
      /\ A \div 2^i < B
  BY <1>2, <1>3, StartCount
<1>5. ds' = [ds EXCEPT
       !.dividend = (A * 2^(W - i)) % 2^W, !.divisor = B, !.quot = 0,
       !.rem = A \div 2^i, !.iter_count = i, !.op_rem = r.op_rem,
       !.quot_neg = quot_neg(r), !.rem_neg = rem_neg(r)]
  BY <1>1, <1>3, <1>4 DEF SetupIter, SetupRegisters
<1>6. (A * 2^(W - i)) % 2^W \in Word /\ 0 \in Word /\ A \div 2^i \in Word /\ i \in 0 .. W
  <2>1. i \in Nat /\ W - i \in Nat
    BY <1>4, WordRange
  <2>2. PICK P \in Nat, t \in Nat, k \in Nat :
          P = 2^W /\ t = 2^(W - i) /\ k = 2^i /\ P >= 1 /\ k >= 1
    BY <2>1, PowerPositive, WordRange
  <2>3. A \in Nat /\ B \in Nat /\ B < P /\ A * t \in Nat
    BY <1>4, <2>2 DEF Word
  <2>4. ASSUME NEW x \in Nat PROVE x % P \in 0 .. P - 1
    BY <2>2
  <2>5. ASSUME NEW x \in Nat PROVE x \div k \in Nat
    BY <2>2
  <2>6. A \div k \in 0 .. P - 1
    BY <2>2, <2>3, <2>5, <1>4
  <2> QED
    BY <2>2, <2>3, <2>4, <2>6, <1>4, WordRange DEF Word
<1>7. DividerTypeOK'
  <2>1. ds' \in DsType
    BY <1>2, <1>4, <1>5, <1>6, RequestType, SignsAreBoolean DEF DividerTypeOK, DsType
  <2>2. div_cache' \in CacheType
    BY <1>1, <1>2, RequestType DEF DividerTypeOK, CacheType, SetupIter, SetupRegisters
  <2> QED
    BY <2>1, <2>2, <1>2
       DEF DividerTypeOK, DsType, CacheType, SetupIter, SetupRegisters
<1>8. /\ ds'.dividend = (A * 2^(W - i)) % 2^W /\ ds'.divisor = B /\ ds'.quot = 0
      /\ ds'.rem = A \div 2^i /\ ds'.iter_count = i /\ ds'.op_rem = r.op_rem
      /\ ds'.quot_neg = quot_neg(r) /\ ds'.rem_neg = rem_neg(r)
  BY <1>2, <1>5 DEF DividerTypeOK
<1>9. div_cache'.a = r.a /\ div_cache'.b = r.b /\ div_cache'.op_uns = r.op_uns
  BY <1>1, <1>2 DEF DividerTypeOK, SetupIter, SetupRegisters
<1>10. Divided(r, ds.iter_count)'
  <2>1. PICK low \in 0 .. 2^i - 1 :
          A = (A \div 2^i) * 2^i + low /\ (A * 2^(W - i)) % 2^W = low * 2^(W - i)
    BY <1>4, StartDivides
  <2>2. B \in Nat /\ A \div 2^i \in Nat
    BY <1>4, <1>6, WordRange DEF Word
  <2>3. 0 * B + (A \div 2^i) = A \div 2^i
    BY <2>2
  <2>4. A = (ds'.quot * B + ds'.rem) * 2^i + low
    BY <2>1, <2>3, <1>8
  <2> QED
    BY <2>1, <2>4, <1>3, <1>4, <1>8 DEF Divided
<1>11. div_state' = "ITER" /\ div_cache_valid' = FALSE /\ setup' = r /\ asked' = r
  BY <1>1, <1>2 DEF SetupIter, SetupRegisters
<1>12. Underway(r)'
  <2>1. ~(ds'.iter_count = 0) /\ ~(div_state' = "FIXUP")
    BY <1>4, <1>8, <1>11
  <2> QED
    BY <2>1, <1>2, <1>3, <1>8, <1>9, <1>10, <1>11 DEF Underway
<1> QED
  BY <1>7, <1>11, <1>12 DEF DividerInv, Idle, ResultRight

LEMMA IterateStep == DividerInv /\ Iterate => DividerInv'
<1> SUFFICES ASSUME DividerInv, Iterate PROVE DividerInv'
  OBVIOUS
<1>1. PICK r : r = setup
  OBVIOUS
<1>2. /\ ds.iter_count \in 1 .. W
      /\ ds' \in DsType
      /\ ds'.iter_count = ds.iter_count - 1 /\ ds'.divisor = ds.divisor
      /\ ds'.op_rem = ds.op_rem /\ ds'.quot_neg = ds.quot_neg /\ ds'.rem_neg = ds.rem_neg
      /\ Divided(r, ds.iter_count)'
  BY <1>1, IterateDivides DEF DsType
<1>3. /\ div_state' = IF ds.iter_count = 1 THEN "FIXUP" ELSE "ITER"
      /\ UNCHANGED <<setup, div_cache, div_cache_valid, asked, divisions>>
  BY DEF Iterate
<1>4. DividerTypeOK'
  BY <1>2, <1>3 DEF DividerInv, DividerTypeOK, DsType
<1>5. Underway(r)
  BY <1>1 DEF DividerInv, Iterate
<1>6. ds'.iter_count = 0 <=> div_state' = "FIXUP"
  BY <1>2, <1>3
<1>7. Underway(r)'
  BY <1>2, <1>3, <1>5, <1>6 DEF Underway
<1>8. asked' = setup' /\ setup' = r /\ ~Idle' /\ div_cache_valid' = FALSE
  BY <1>1, <1>3, <1>5 DEF DividerInv, Iterate, Idle, DividerTypeOK, Underway
<1> QED
  BY <1>4, <1>7, <1>8 DEF DividerInv, ResultRight

LEMMA FixupStep == DividerInv /\ Fixup => DividerInv'
<1> SUFFICES ASSUME DividerInv, Fixup PROVE DividerInv'
  OBVIOUS
<1>1. PICK r : r = setup
  OBVIOUS
<1>2. /\ r \in Requests(Word \X Word) /\ asked = r /\ DividerTypeOK /\ Underway(r)
      /\ ds.iter_count = 0
  BY <1>1 DEF DividerInv, DividerTypeOK, Fixup, Idle, Underway
<1>3. PICK q \in Nat, m \in Nat :
        /\ q = ds.quot /\ m = ds.rem
        /\ abs_a(r) = q * abs_b(r) + m /\ m < abs_b(r)
  <2>1. ds.quot \in Nat /\ ds.rem \in Nat
    BY <1>2, WordRange DEF DividerTypeOK, Word
  <2>2. abs_b(r) \in Nat
    <3>1. abs_b(r) \in Word
      BY <1>2, StartCount DEF Underway
    <3> QED
      BY <3>1, WordRange DEF Word
  <2>3. 2^0 = 1 /\ 0 .. 1 - 1 = {0}
    OBVIOUS
  <2>4. ds.rem < abs_b(r) /\ abs_a(r) = (ds.quot * abs_b(r) + ds.rem) * 1 + 0
    BY <2>3, <1>2 DEF Underway, Divided
  <2> QED
    BY <2>1, <2>2, <2>4
<1>4. /\ Signed(q, quot_neg(r)) = Quotient(r) % 2^W
      /\ Signed(m, rem_neg(r)) = Remainder(r)
      /\ Signed(q, quot_neg(r)) \in Word /\ Signed(m, rem_neg(r)) \in Word
  <2>1. r.b # 0
    BY <1>2 DEF Underway, Special, div_by_zero
  <2>2. /\ q \in Word /\ m \in Word
        /\ Signed(q, quot_neg(r)) = Quotient(r) % 2^W
        /\ Signed(m, rem_neg(r)) = Remainder(r)
    BY <2>1, <1>2, <1>3, SignsPutBack
  <2> QED
    BY <2>2, SignedWord, SignsAreBoolean
<1>5. quot_fixed = Signed(q, quot_neg(r)) /\ rem_fixed = Signed(m, rem_neg(r))
  BY <1>2, <1>3 DEF quot_fixed, rem_fixed, Underway
<1>6. /\ ds' = [ds EXCEPT !.result = IF r.op_rem THEN rem_fixed ELSE quot_fixed]
      /\ div_cache' = [div_cache EXCEPT !.quot = quot_fixed, !.rem = rem_fixed]
  BY <1>2 DEF Fixup, Underway
<1>7. DividerTypeOK'
  <2>1. quot_fixed \in Word /\ rem_fixed \in Word
    BY <1>4, <1>5
  <2>2. ds' \in DsType
    BY <2>1, <1>2, <1>6 DEF DividerTypeOK, DsType
  <2>3. div_cache' \in CacheType
    BY <2>1, <1>2, <1>6 DEF DividerTypeOK, CacheType
  <2> QED
    BY <2>2, <2>3, <1>2 DEF DividerTypeOK, DsType, CacheType, Fixup
<1>8. ds'.result = Reference(r)
  <2>1. ds'.result = IF r.op_rem THEN rem_fixed ELSE quot_fixed
    BY <1>2, <1>6 DEF DividerTypeOK
  <2> QED
    BY <2>1, <1>4, <1>5 DEF Reference
<1>9. /\ div_cache'.quot = Quotient(CachedRequest') % 2^W
      /\ div_cache'.rem = Remainder(CachedRequest')
  <2>1. /\ div_cache'.quot = quot_fixed /\ div_cache'.rem = rem_fixed
        /\ div_cache'.a = r.a /\ div_cache'.b = r.b /\ div_cache'.op_uns = r.op_uns
    BY <1>2, <1>6 DEF DividerTypeOK, Underway
  <2>2. PICK s : s = CachedRequest'
    OBVIOUS
  <2>3. s.a = r.a /\ s.b = r.b /\ s.op_uns = r.op_uns
    BY <2>1, <2>2 DEF CachedRequest
  <2>4. Quotient(s) = Quotient(r) /\ Remainder(s) = Remainder(r)
    BY <2>3, SameOperandsSameResult
  <2> QED
    BY <2>1, <2>2, <2>4, <1>4, <1>5
<1>10. div_state' = "IDLE" /\ asked' = r
  BY <1>2 DEF Fixup
<1>11. ResultRight'
  BY <1>8, <1>10 DEF ResultRight
<1> QED
  BY <1>7, <1>9, <1>10, <1>11 DEF DividerInv, Idle

LEMMA LeaveStep == DividerInv /\ (Flush \/ TakeResult) => DividerInv'
<1> SUFFICES ASSUME DividerInv, Flush \/ TakeResult PROVE DividerInv'
  OBVIOUS
<1>1. /\ div_state' = "IDLE" /\ asked' = Nothing
      /\ UNCHANGED <<setup, ds, div_cache, div_cache_valid>>
  BY DEF Flush, TakeResult, Idle
<1>2. DividerTypeOK'
  BY <1>1 DEF DividerInv, DividerTypeOK
<1>3. CachedRequest' = CachedRequest
  BY <1>1 DEF CachedRequest
<1> QED
  BY <1>1, <1>2, <1>3 DEF DividerInv, Idle, ResultRight

LEMMA DividerStutters == DividerInv /\ UNCHANGED dvars => DividerInv'
<1> SUFFICES ASSUME DividerInv, UNCHANGED dvars PROVE DividerInv'
  OBVIOUS
<1>1. UNCHANGED <<div_state, setup, ds, div_cache, div_cache_valid, asked>>
  BY DEF dvars
<1>2. DividerTypeOK'
  BY <1>1 DEF DividerInv, DividerTypeOK
<1>3. CachedRequest' = CachedRequest /\ Underway(setup)' = Underway(setup)
  BY <1>1 DEF CachedRequest, Underway, Divided
<1>4. ResultRight'
  BY <1>1 DEF DividerInv, ResultRight, Idle
<1> QED
  BY <1>1, <1>2, <1>3, <1>4 DEF DividerInv, Idle

\* Each bit that is done leaves a division of the bits before it, the cache holds the
\* division of its operands, and nothing waits for anything but its own request.
THEOREM DividerInvariant == DividerSpec => []DividerInv
<1>1. DividerInv /\ [DividerNext]_dvars => DividerInv'
  BY HitStep, MissStep, SpecialStep, SetupIterStep, IterateStep, FixupStep, LeaveStep,
     DividerStutters DEF DividerNext
<1> QED
  BY <1>1, DividerStarts, PTL DEF DividerSpec

\* For words of any width, the result the core takes is that of DIV, DIVU, REM or REMU for
\* its own operands: from the iterations, from a special case and from the cache.
THEOREM ResultIsRight == DividerSpec => []ResultRight
<1>1. DividerInv => ResultRight
  BY DEF DividerInv
<1> QED
  BY <1>1, DividerInvariant, PTL

=============================================================================

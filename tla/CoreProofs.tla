----------------------------- MODULE CoreProofs -----------------------------
(***************************************************************************)
(* Type correctness of Core, that a result the divider delivers is the one *)
(* of the division that waits for it, that an instruction goes through the *)
(* pipeline under its own address, and that the trap CSRs are written      *)
(* alone: for every set of programs, whatever the caches, the divider, the *)
(* predictor and the interrupt do.                                         *)
(***************************************************************************)
EXTENDS Core, TLAPS

-----------------------------------------------------------------------------
(* The strengthening: what is followed as an address is one.                *)

\* An instruction has an address, and one that can steer the front end from MEM
\* leads to one.
StagesInv ==
  /\ dec_d.inst # 0 => dec_d.pc \in Pc
  /\ exe.live => exe.inst # 0
  /\ mem.live => mem.npc \in Pc

\* The address on its way to mepc, and then mepc, is that of an instruction.
TrapInv ==
  /\ trap = "WFI" => wfi_mepc \in Pc
  /\ trap \in {"TRAP_PENDING", "TRAP_WRITE"} => trap_info_mepc \in Pc
  /\ trap \in {"TRAPPED", "RESTORE_PENDING", "RESTORE_WRITE"} => csr.mepc \in Pc

CoreInv == TypeOK /\ StagesInv /\ TrapInv

-----------------------------------------------------------------------------
(* Facts about the operators.                                               *)

LEMMA AddressFacts ==
  /\ Pc \subseteq Address /\ 0 \in Address /\ Address \subseteq Nat
  /\ 1 \in Pc /\ Handler \in Pc
  /\ \A p \in Address : p # 0 => p \in Pc
  BY ProgramAssumption DEF Pc, Address

LEMMA Inc4Type == ASSUME NEW p \in Address PROVE Inc4(p) \in Pc
  BY ProgramAssumption DEF Inc4, Pc, Address

LEMMA JumpType ==
  ASSUME NEW pr \in Programs, NEW p \in Address,
         KindAt(pr, p) \in {"jal", "jalr", "branch"}
  PROVE  (CHOOSE t \in pr.code[p].to : TRUE) \in Pc
<1>1. p \in Pc
  BY AddressFacts DEF KindAt
<1>2. pr.code[p].to \subseteq Pc /\ pr.code[p].to # {}
  BY <1>1, ProgramAssumption DEF KindAt, Program, Instruction
<1> QED
  BY <1>2

LEMMA SuccessorsType ==
  ASSUME NEW pr \in Programs, NEW p \in Pc PROVE Successors(pr, p) \subseteq Pc
<1>1. pr.code[p].to \subseteq Pc
  BY ProgramAssumption DEF Program, Instruction
<1>2. Inc4(p) \in Pc
  BY Inc4Type, AddressFacts
<1> QED
  BY <1>1, <1>2 DEF Successors

LEMMA ChoicesType ==
  ASSUME NEW set, set # {}, NEW matters, NEW x \in Choices(set, matters)
  PROVE  x \in set
  BY DEF Choices

LEMMA CsrWrittenType ==
  ASSUME NEW k, IsCsr(k), NEW c \in [mie : BOOLEAN, mpie : BOOLEAN, mepc : Address]
  PROVE  /\ Written(k, c) \in [mie : BOOLEAN, mpie : BOOLEAN, mepc : Address]
         /\ c.mepc \in Pc => Written(k, c).mepc \in Pc
<1>1. Inc4(c.mepc) \in Pc /\ Inc4(c.mepc) \in Address
  BY Inc4Type, AddressFacts
<1> QED
  BY <1>1 DEF Written, IsCsr

LEMMA DecType ==
  ASSUME CoreInv
  PROVE  dec \in [pc : Address, inst : Address] /\ (dec.inst # 0 => dec.pc \in Pc)
  BY AddressFacts DEF CoreInv, TypeOK, StagesInv, dec, Empty, ready, rsp_valid

-----------------------------------------------------------------------------
(* The registers, a group at a time.                                        *)

\* What the front end may do in a cycle: an address is written to the PC only if it
\* is one.
FrontType ==
  [pc : Address, we : BOOLEAN, req : BOOLEAN, bubble : BOOLEAN]
FrontOK(f) == f \in FrontType /\ (f.we => f.pc \in Pc)

LEMMA FrontEdgeType ==
  ASSUME CoreInv, NEW f, FrontOK(f), FrontEdge(f)
  PROVE  /\ fe' \in {"RST", "STEADY", "STALL_FLOW", "STALL_FE_IC", "STALL_BE"}
         /\ stalled_pc' \in Address /\ stall_res_flow_d' \in BOOLEAN
         /\ stale_ic_miss' \in BOOLEAN /\ pc_fet_last' \in Pc
<1>1. fe' \in {"RST", "STEADY", "STALL_FLOW", "STALL_FE_IC", "STALL_BE"}
  BY DEF FrontEdge, NextFe, Onward, AfterJump, CoreInv, TypeOK
<1>2. stalled_pc' \in Address
  BY DecType, AddressFacts DEF FrontEdge, CoreInv, TypeOK
<1>3. stall_res_flow_d' \in BOOLEAN /\ stale_ic_miss' \in BOOLEAN
  BY DEF FrontEdge, stall_res_flow, redirect_req
<1>4. pc_fet_last' \in Pc
  BY DEF FrontEdge, FrontOK, CoreInv, TypeOK
<1> QED
  BY <1>1, <1>2, <1>3, <1>4

LEMMA SpecEdgeType ==
  ASSUME CoreInv, NEW pred \in BOOLEAN, SpecEdge(pred)
  PROVE  /\ spec_entry' \in [0..1 -> [pc : Address, taken : BOOLEAN]]
         /\ se_ptr_h' \in 0..1 /\ se_ptr_t' \in 0..1 /\ state_e' \in {"NS_E", "SPEC_E"}
<1>1. NoEntry \in [pc : Address, taken : BOOLEAN]
  BY AddressFacts DEF NoEntry
<1>2. [pc |-> dec.pc, taken |-> pred] \in [pc : Address, taken : BOOLEAN]
  BY DecType
<1>3. /\ spec_entry \in [0..1 -> [pc : Address, taken : BOOLEAN]]
      /\ se_ptr_h \in 0..1 /\ se_ptr_t \in 0..1 /\ state_e \in {"NS_E", "SPEC_E"}
  BY DEF CoreInv, TypeOK
<1>4. state_e' \in {"NS_E", "SPEC_E"}
  BY <1>3 DEF SpecEdge
<1>5. spec_entry' \in [0..1 -> [pc : Address, taken : BOOLEAN]]
  BY <1>1, <1>2, <1>3 DEF SpecEdge
<1>6. se_ptr_h' \in 0..1 /\ se_ptr_t' \in 0..1
  BY <1>3 DEF SpecEdge
<1> QED
  BY <1>4, <1>5, <1>6

LEMMA ExeEdgeType ==
  ASSUME CoreInv, NEW f, ExeEdge(f)
  PROVE  /\ exe' \in [pc : Address, inst : Address, live : BOOLEAN,
                      tag : {"none", "trapped", "mret"}]
         /\ exe'.live => exe'.inst # 0
<1>1. tag_dec(f.bubble) \in {"none", "trapped", "mret"}
  BY DEF tag_dec
<1>2. CASE exe' = EmptyExe
  BY <1>2, AddressFacts DEF EmptyExe
<1>3. CASE exe' = exe
  BY <1>3 DEF CoreInv, TypeOK, StagesInv
<1>4. CASE exe' = [pc |-> dec.pc, inst |-> dec.inst, tag |-> tag_dec(f.bubble),
                   live |-> dec.inst # 0 /\ tag_dec(f.bubble) # "trapped"]
  BY <1>1, <1>4, DecType
<1> QED
  BY <1>2, <1>3, <1>4 DEF ExeEdge

LEMMA MemEdgeType ==
  ASSUME CoreInv, NEW t \in BOOLEAN,
         NEW npc \in (IF leaves_exe /\ exe.inst # 0
                        THEN Successors(prog, exe.inst) ELSE {0}),
         MemEdge(t, npc)
  PROVE  /\ mem' \in [pc : Address, inst : Address, live : BOOLEAN,
                      tag : {"none", "trapped", "mret"}, taken : BOOLEAN, npc : Address]
         /\ mem'.live => mem'.npc \in Pc
<1>1. /\ exe \in [pc : Address, inst : Address, live : BOOLEAN,
                  tag : {"none", "trapped", "mret"}]
      /\ exe.live => exe.inst # 0
  BY DEF CoreInv, TypeOK, StagesInv
<1>2. leaves_exe /\ exe.inst # 0 => npc \in Pc
  BY <1>1, SuccessorsType, AddressFacts DEF CoreInv, TypeOK
<1>3. npc \in Address
  BY <1>2, AddressFacts
<1>4. CASE mem' = mem
  BY <1>4 DEF CoreInv, TypeOK, StagesInv
<1>5. CASE leaves_exe /\ mem' = [pc |-> exe.pc, inst |-> exe.inst, live |-> exe.live,
                                 tag |-> exe.tag, taken |-> t, npc |-> npc]
  BY <1>1, <1>2, <1>3, <1>5
<1>6. CASE mem' = EmptyMem
  BY <1>6, AddressFacts DEF EmptyMem
<1> QED
  BY <1>4, <1>5, <1>6 DEF MemEdge

LEMMA RetireEdgeType ==
  ASSUME CoreInv, RetireEdge
  PROVE  /\ wbk' \in [pc : Address, load : BOOLEAN, tag : {"none", "trapped", "mret"}]
         /\ ret' \in BOOLEAN /\ inst_retired_d' \in BOOLEAN
<1>1. In(mem, {"load"}) \in BOOLEAN
  BY DEF In, CoreInv, TypeOK
<1>2. wbk' \in [pc : Address, load : BOOLEAN, tag : {"none", "trapped", "mret"}]
  BY <1>1, AddressFacts DEF RetireEdge, EmptyWbk, CoreInv, TypeOK
<1>3. ret' \in BOOLEAN /\ inst_retired_d' \in BOOLEAN
  BY DEF RetireEdge, CoreInv, TypeOK
<1> QED
  BY <1>2, <1>3

LEMMA HoldEdgeType ==
  ASSUME CoreInv, HoldEdge
  PROVE  /\ be_stalled_d' \in BOOLEAN /\ dec_d' \in [pc : Address, inst : Address]
         /\ dec_d'.inst # 0 => dec_d'.pc \in Pc
<1>1. stall_be \in BOOLEAN
  BY DEF stall_be, dc_stalled, hazard_to_exe, div_stalled, csr_stalled, CoreInv, TypeOK
<1> QED
  BY <1>1, DecType DEF HoldEdge

\* A counter that is given a time and counts down stays within it.
LEMMA DivEdgeType ==
  ASSUME CoreInv, NEW w \in DivWaits, DivEdge(w)
  PROVE  /\ div'.issued \in BOOLEAN /\ div'.for \in Address
         /\ \E v \in {0} \cup DivWaits : div'.busy \in 0..v
<1>1. div.issued \in BOOLEAN /\ div.for \in Address /\ exe.pc \in Address
  BY DEF CoreInv, TypeOK
<1>2. div'.issued \in BOOLEAN /\ div'.for \in Address
  BY <1>1, AddressFacts DEF DivEdge
<1>3. PICK v \in {0} \cup DivWaits : div.busy \in 0..v
  BY DEF CoreInv, TypeOK
<1>4. v \in Nat /\ w \in Nat
  BY CoreAssumption
<1>5. div'.busy \in 0..v \/ div'.busy \in 0..w
  BY <1>3, <1>4 DEF DivEdge
<1> QED
  BY <1>2, <1>5

LEMMA CacheEdgeType ==
  ASSUME CoreInv, NEW f, FrontOK(f), NEW i \in {0, IcMiss}, NEW d \in {0} \cup DcMisses,
         CacheEdge(f, i, d)
  PROVE  /\ ic' \in [addr : Address, busy : 0..IcMiss]
         /\ \E w \in {1} \cup DcMisses : dc' \in 0..w
<1>1. ic' \in [addr : Address, busy : 0..IcMiss]
  <2>1. ic \in [addr : Address, busy : 0..IcMiss]
    BY DEF CoreInv, TypeOK
  <2>2. i \in 0..IcMiss /\ IcMiss \in Nat
    BY CoreAssumption
  <2>3. CASE f.req /\ ready
    BY <2>2, <2>3 DEF CacheEdge, FrontOK, FrontType
  <2>4. CASE ~ready
    BY <2>1, <2>2, <2>4 DEF CacheEdge, ready
  <2>5. CASE ~f.req /\ ready
    BY <2>1, <2>5, AddressFacts DEF CacheEdge
  <2> QED
    BY <2>3, <2>4, <2>5
<1>2. PICK w \in {1} \cup DcMisses : dc \in 0..w
  BY DEF CoreInv, TypeOK
<1>3. w \in Nat /\ d \in Nat
  BY CoreAssumption
<1>4. (dc' = dc - 1 /\ dc > 0) \/ dc' = d \/ dc' = 0
  BY DEF CacheEdge, dc_stalled
<1>5. CASE dc' = dc - 1 /\ dc > 0
  BY <1>1, <1>2, <1>3, <1>5
<1>6. CASE dc' = d
  BY <1>1, <1>3, <1>6
<1>7. CASE dc' = 0
  BY <1>1, <1>7
<1> QED
  BY <1>4, <1>5, <1>6, <1>7

LEMMA TrapEdgeType ==
  ASSUME CoreInv, NEW f, TrapEdge(f), CsrEdge
  PROVE  /\ trap' \in {"IDLE", "WFI", "TRAP_PENDING", "TRAP_WRITE", "TRAPPED",
                       "RESTORE_PENDING", "RESTORE_WRITE"}
         /\ trap_info_mepc' \in Address /\ wfi_mepc' \in Address
         /\ csr' \in [mie : BOOLEAN, mpie : BOOLEAN, mepc : Address]
         /\ TrapInv'
<1>1. trap' \in {"IDLE", "WFI", "TRAP_PENDING", "TRAP_WRITE", "TRAPPED",
                 "RESTORE_PENDING", "RESTORE_WRITE"}
  BY DEF TrapEdge, NextTrap, CoreInv, TypeOK
<1>2. Inc4(pc_fet_last) \in Pc /\ Inc4(pc_fet_last) \in Address
  BY Inc4Type, AddressFacts DEF CoreInv, TypeOK
<1>3. trap_info_mepc' \in Address /\ wfi_mepc' \in Address
  BY <1>2, DecType DEF TrapEdge, CoreInv, TypeOK
<1>4. csr' \in [mie : BOOLEAN, mpie : BOOLEAN, mepc : Address]
  BY CsrWrittenType DEF CsrEdge, CoreInv, TypeOK
<1>5. trap' = "WFI" => wfi_mepc' \in Pc
  BY <1>2 DEF TrapEdge, NextTrap, CoreInv, TrapInv, wfi_catch
<1>6. trap' \in {"TRAP_PENDING", "TRAP_WRITE"} => trap_info_mepc' \in Pc
  BY DecType DEF TrapEdge, NextTrap, CoreInv, TrapInv, wfi_launch, catch
<1>7. trap' \in {"TRAPPED", "RESTORE_PENDING", "RESTORE_WRITE"} => csr'.mepc \in Pc
  <2>1. trap' \in {"TRAPPED", "RESTORE_PENDING", "RESTORE_WRITE"} =>
          trap \in {"TRAP_WRITE", "TRAPPED", "RESTORE_PENDING"}
    BY DEF TrapEdge, NextTrap
  <2>2. CASE trap = "TRAP_WRITE"
    BY <2>2 DEF CsrEdge, CoreInv, TrapInv
  <2>3. CASE trap \in {"TRAPPED", "RESTORE_PENDING"}
    BY <2>3, CsrWrittenType DEF CsrEdge, CoreInv, TrapInv, TypeOK
  <2> QED
    BY <2>1, <2>2, <2>3
<1> QED
  BY <1>1, <1>3, <1>4, <1>5, <1>6, <1>7 DEF TrapInv

LEMMA ArchEdgeType ==
  ASSUME CoreInv,
         NEW npc \in (IF leaves_exe /\ exe.inst # 0
                        THEN Successors(prog, exe.inst) ELSE {0}),
         ArchEdge(npc)
  PROVE  arch' \in [pc : Pc, last : Address]
<1>1. exe.inst \in Address /\ arch \in [pc : Pc, last : Address] /\ prog \in Programs
  BY DEF CoreInv, TypeOK
<1>2. commits => npc \in Pc
  BY <1>1, SuccessorsType, AddressFacts DEF commits, CoreInv, StagesInv
<1>3. trap = "RESTORE_WRITE" => csr.mepc \in Pc
  BY DEF CoreInv, TrapInv
<1> QED
  BY <1>1, <1>2, <1>3, AddressFacts DEF ArchEdge

-----------------------------------------------------------------------------
(* One clock.                                                               *)

LEMMA ClockKeeps ==
  ASSUME CoreInv, NEW f, FrontOK(f), NEW pred \in BOOLEAN, Clock(f, pred)
  PROVE  CoreInv'
<1>1. PICK w \in Choices(DivWaits, div_start) : DivEdge(w)
  BY DEF Clock
<1>2. PICK i \in (IF fe = "RST" THEN {IcMiss} ELSE Choices({0, IcMiss}, f.req /\ ready)),
           d \in Choices({0} \cup DcMisses, In(mem, {"load"})) : CacheEdge(f, i, d)
  BY DEF Clock
<1>3. PICK npc \in (IF leaves_exe /\ exe.inst # 0
                      THEN Successors(prog, exe.inst) ELSE {0}),
           t \in Choices(BOOLEAN, K(exe.inst) = "branch") :
             MemEdge(t, npc) /\ ArchEdge(npc)
  BY DEF Clock
<1>4. w \in DivWaits /\ i \in {0, IcMiss} /\ d \in {0} \cup DcMisses /\ t \in BOOLEAN
  <2>1. w \in DivWaits
    BY ChoicesType, CoreAssumption
  <2>2. i \in {0, IcMiss}
    BY ChoicesType
  <2>3. d \in {0} \cup DcMisses
    BY ChoicesType
  <2>4. t \in BOOLEAN
    BY ChoicesType
  <2> QED
    BY <2>1, <2>2, <2>3, <2>4
<1>5. prog' \in Programs /\ irq' \in BOOLEAN
  BY DEF Clock, IrqEdge, CoreInv, TypeOK
<1>6. /\ FrontEdge(f) /\ SpecEdge(pred) /\ ExeEdge(f) /\ RetireEdge /\ HoldEdge
      /\ TrapEdge(f) /\ CsrEdge
  BY DEF Clock
<1>7. TypeOK'
  BY <1>1, <1>2, <1>3, <1>4, <1>5, <1>6, FrontEdgeType, SpecEdgeType, ExeEdgeType,
     MemEdgeType, RetireEdgeType, HoldEdgeType, DivEdgeType, CacheEdgeType, TrapEdgeType,
     ArchEdgeType
  DEF TypeOK, Address, Pc
<1>8. StagesInv' /\ TrapInv'
  BY <1>3, <1>4, <1>6, ExeEdgeType, MemEdgeType, HoldEdgeType, TrapEdgeType
  DEF StagesInv, Pc
<1> QED
  BY <1>7, <1>8 DEF CoreInv

\* The address a redirect, a prediction or a jump leads to.
LEMMA TargetType ==
  ASSUME CoreInv
  PROVE  /\ pc_sel_pc \in Pc /\ decoder_pc \in Pc
         /\ Inc4(pc_fet_last) \in Pc /\ Inc4(spec_entry[se_ptr_t].pc) \in Pc
         /\ branch_taken \/ flow_update => mem.npc \in Pc
         /\ branch_in_dec => (CHOOSE t \in prog.code[dec.inst].to : TRUE) \in Pc
<1>1. /\ Inc4(pc_fet_last) \in Pc /\ Inc4(spec_entry[se_ptr_t].pc) \in Pc
      /\ pc_fet_last \in Pc /\ prog \in Programs
  BY Inc4Type, AddressFacts DEF CoreInv, TypeOK
<1>2. pc_sel_pc \in Pc
  BY <1>1, AddressFacts DEF pc_sel_pc, CoreInv, TrapInv
<1>3. K(dec.inst) \in {"jal", "branch"} => (CHOOSE t \in prog.code[dec.inst].to : TRUE) \in Pc
  BY <1>1, DecType, JumpType DEF K
<1>4. decoder_pc \in Pc
  BY <1>1, <1>3 DEF decoder_pc
<1>5. branch_taken \/ flow_update => mem.npc \in Pc
  BY DEF branch_taken, flow_update, In, CoreInv, StagesInv
<1> QED
  BY <1>1, <1>2, <1>3, <1>4, <1>5 DEF branch_in_dec

LEMMA WiresAreBoolean ==
  ASSUME CoreInv
  PROVE  ready \in BOOLEAN /\ wfi_launch \in BOOLEAN /\ decoder_pc_we \in BOOLEAN
  BY DEF ready, wfi_launch, decoder_pc_we

LEMMA HoldOK == ASSUME NEW b \in BOOLEAN PROVE FrontOK(Hold(b))
  BY AddressFacts DEF FrontOK, FrontType, Hold

LEMMA FetchOK ==
  ASSUME NEW p \in Pc
  PROVE  /\ FrontOK(Fetch(p)) /\ FrontOK([Fetch(p) EXCEPT !.bubble = TRUE])
         /\ \A b \in BOOLEAN : FrontOK([Fetch(p) EXCEPT !.we = b])
  BY AddressFacts DEF FrontOK, FrontType, Fetch

\* Whatever the front end does in a cycle, it writes addresses only.
LEMMA NextIsClock ==
  ASSUME CoreInv, Next
  PROVE  \E f : FrontOK(f) /\ \E pred \in BOOLEAN : Clock(f, pred)
<1> USE TargetType, WiresAreBoolean, HoldOK, FetchOK
<1>1. CASE SinkStale \/ MeetJump \/ AwaitJump \/ WaitForAnswer
  BY <1>1 DEF SinkStale, MeetJump, AwaitJump, WaitForAnswer
<1>2. CASE Relaunch
  BY <1>2 DEF Relaunch
<1>3. CASE Redirect
  <2> DEFINE target == IF ~spec_wrong THEN pc_sel_pc
                       ELSE IF branch_taken THEN mem.npc
                       ELSE Inc4(spec_entry[se_ptr_t].pc)
             f == [pc |-> target, we |-> TRUE, req |-> ready, bubble |-> TRUE]
  <2>1. target \in Pc
    OBVIOUS
  <2> HIDE DEF target
  <2>2. FrontOK(f)
    BY <2>1, AddressFacts DEF FrontOK, FrontType
  <2>3. Clock(f, FALSE)
    BY <1>3 DEF Redirect, target
  <2> QED
    BY <2>2, <2>3
<1>4. CASE Park
  BY <1>4 DEF Park
<1>5. CASE Boot
  <2> DEFINE f == [pc |-> pc_sel_pc, we |-> FALSE, req |-> TRUE, bubble |-> TRUE]
  <2>1. FrontOK(f)
    BY AddressFacts DEF FrontOK, FrontType
  <2>2. Clock(f, FALSE)
    BY <1>5 DEF Boot
  <2> QED
    BY <2>1, <2>2
<1>6. CASE WaitForBackEnd
  BY <1>6 DEF WaitForBackEnd
<1>7. CASE Predict
  <2>1. branch_in_dec
    BY <1>7 DEF Predict, spec_enter
  <2>2. PICK pred \in BOOLEAN :
          Clock(Fetch(IF pred THEN CHOOSE t \in prog.code[dec.inst].to : TRUE
                      ELSE Inc4(pc_fet_last)), pred)
    BY <1>7 DEF Predict
  <2>3. (IF pred THEN CHOOSE t \in prog.code[dec.inst].to : TRUE
         ELSE Inc4(pc_fet_last)) \in Pc
    BY <2>1
  <2> QED
    BY <2>2, <2>3
<1>8. CASE FollowDecoder
  BY <1>8 DEF FollowDecoder
<1>9. CASE FollowJump
  <2>1. (IF flow_update THEN mem.npc ELSE Inc4(pc_fet_last)) \in Pc
    OBVIOUS
  <2> QED
    BY <1>9, <2>1 DEF FollowJump
<1> QED
  BY <1>1, <1>2, <1>3, <1>4, <1>5, <1>6, <1>7, <1>8, <1>9 DEF Next

LEMMA CoreInit == Init => CoreInv
<1> SUFFICES ASSUME Init PROVE CoreInv
  OBVIOUS
<1>1. /\ Empty \in [pc : Address, inst : Address] /\ NoEntry \in [pc : Address, taken : BOOLEAN]
      /\ EmptyExe \in [pc : Address, inst : Address, live : BOOLEAN,
                        tag : {"none", "trapped", "mret"}]
      /\ EmptyMem \in [pc : Address, inst : Address, live : BOOLEAN,
                        tag : {"none", "trapped", "mret"}, taken : BOOLEAN, npc : Address]
      /\ EmptyWbk \in [pc : Address, load : BOOLEAN, tag : {"none", "trapped", "mret"}]
  BY AddressFacts DEF Empty, NoEntry, EmptyExe, EmptyMem, EmptyWbk
<1>2. Empty.inst = 0 /\ ~EmptyExe.live /\ ~EmptyMem.live
  BY DEF Empty, EmptyExe, EmptyMem
<1>3. StagesInv /\ TrapInv
  BY <1>2 DEF Init, StagesInv, TrapInv
<1>4. /\ prog \in Programs /\ irq \in BOOLEAN
      /\ fe \in {"RST", "STEADY", "STALL_FLOW", "STALL_FE_IC", "STALL_BE"}
      /\ stalled_pc \in Address /\ stall_res_flow_d \in BOOLEAN
      /\ stale_ic_miss \in BOOLEAN /\ pc_fet_last \in Pc
  BY AddressFacts DEF Init
<1>5. /\ spec_entry \in [0..1 -> [pc : Address, taken : BOOLEAN]]
      /\ se_ptr_h \in 0..1 /\ se_ptr_t \in 0..1 /\ state_e \in {"NS_E", "SPEC_E"}
  BY <1>1 DEF Init
<1>6. /\ be_stalled_d \in BOOLEAN
      /\ dec_d \in [pc : Address, inst : Address]
      /\ exe \in [pc : Address, inst : Address, live : BOOLEAN,
                   tag : {"none", "trapped", "mret"}]
      /\ mem \in [pc : Address, inst : Address, live : BOOLEAN,
                   tag : {"none", "trapped", "mret"}, taken : BOOLEAN, npc : Address]
      /\ wbk \in [pc : Address, load : BOOLEAN, tag : {"none", "trapped", "mret"}]
      /\ ret \in BOOLEAN /\ inst_retired_d \in BOOLEAN
  BY <1>1 DEF Init
<1>7. /\ div.issued \in BOOLEAN /\ div.for \in Address
      /\ \E w \in {0} \cup DivWaits : div.busy \in 0..w
  BY AddressFacts DEF Init
<1>8. ic \in [addr : Address, busy : 0..IcMiss] /\ \E w \in {1} \cup DcMisses : dc \in 0..w
  BY AddressFacts, CoreAssumption DEF Init
<1>9. /\ trap \in {"IDLE", "WFI", "TRAP_PENDING", "TRAP_WRITE", "TRAPPED",
                    "RESTORE_PENDING", "RESTORE_WRITE"}
      /\ trap_info_mepc \in Address /\ wfi_mepc \in Address
      /\ csr \in [mie : BOOLEAN, mpie : BOOLEAN, mepc : Address]
      /\ arch \in [pc : Pc, last : Address]
  BY AddressFacts DEF Init
<1> QED
  BY <1>3, <1>4, <1>5, <1>6, <1>7, <1>8, <1>9 DEF CoreInv, TypeOK

LEMMA CoreStep == ASSUME CoreInv, [Next]_vars PROVE CoreInv'
<1>1. CASE Next
  BY <1>1, NextIsClock, ClockKeeps
<1>2. CASE UNCHANGED vars
  <2>1. UNCHANGED <<prog, irq, fe, stalled_pc, stall_res_flow_d, stale_ic_miss,
                   pc_fet_last, spec_entry, se_ptr_h, se_ptr_t, state_e,
                   be_stalled_d, dec_d, exe, mem, wbk, ret, inst_retired_d, div,
                   ic, dc, trap, trap_info_mepc, wfi_mepc, csr, arch>>
    BY <1>2 DEF vars, front, spec, back, traps
  <2>2. TypeOK'
    <3>1. TypeOK
      BY DEF CoreInv
    <3>2. /\ prog' \in Programs /\ irq' \in BOOLEAN
          /\ fe' \in {"RST", "STEADY", "STALL_FLOW", "STALL_FE_IC", "STALL_BE"}
          /\ stalled_pc' \in Address /\ stall_res_flow_d' \in BOOLEAN
          /\ stale_ic_miss' \in BOOLEAN /\ pc_fet_last' \in Pc
          /\ spec_entry' \in [0..1 -> [pc : Address, taken : BOOLEAN]]
          /\ se_ptr_h' \in 0..1 /\ se_ptr_t' \in 0..1
          /\ state_e' \in {"NS_E", "SPEC_E"}
      BY <2>1, <3>1 DEF TypeOK
    <3>3. /\ be_stalled_d' \in BOOLEAN
          /\ dec_d' \in [pc : Address, inst : Address]
          /\ exe' \in [pc : Address, inst : Address, live : BOOLEAN,
                       tag : {"none", "trapped", "mret"}]
          /\ mem' \in [pc : Address, inst : Address, live : BOOLEAN,
                       tag : {"none", "trapped", "mret"}, taken : BOOLEAN, npc : Address]
          /\ wbk' \in [pc : Address, load : BOOLEAN, tag : {"none", "trapped", "mret"}]
          /\ ret' \in BOOLEAN /\ inst_retired_d' \in BOOLEAN
      BY <2>1, <3>1 DEF TypeOK
    <3>4. /\ div'.issued \in BOOLEAN /\ div'.for \in Address
          /\ \E w \in {0} \cup DivWaits : div'.busy \in 0..w
      BY <2>1, <3>1 DEF TypeOK
    <3>5. /\ ic' \in [addr : Address, busy : 0..IcMiss]
          /\ \E w \in {1} \cup DcMisses : dc' \in 0..w
      BY <2>1, <3>1 DEF TypeOK
    <3>6. /\ trap' \in {"IDLE", "WFI", "TRAP_PENDING", "TRAP_WRITE", "TRAPPED",
                        "RESTORE_PENDING", "RESTORE_WRITE"}
          /\ trap_info_mepc' \in Address /\ wfi_mepc' \in Address
          /\ csr' \in [mie : BOOLEAN, mpie : BOOLEAN, mepc : Address]
          /\ arch' \in [pc : Pc, last : Address]
      BY <2>1, <3>1 DEF TypeOK
    <3> QED
      BY <3>2, <3>3, <3>4, <3>5, <3>6 DEF TypeOK
  <2>3. StagesInv' /\ TrapInv'
    BY <2>1 DEF CoreInv, StagesInv, TrapInv
  <2> QED
    BY <2>2, <2>3 DEF CoreInv
<1> QED
  BY <1>1, <1>2

\* Every register of the core keeps its type, for every set of programs, every time
\* the caches and the divider take and every prediction; with it, the front end is
\* never sent to anything but an instruction's address, by a branch, a
\* jump, a trap or a return (ama_riscv_fe_ctrl.sv, ama_riscv_trap_ctrl.sv).
THEOREM TypeCorrect == Spec => []TypeOK
<1>1. CoreInv /\ [Next]_vars => CoreInv'
  BY CoreStep
<1>2. CoreInv => TypeOK
  BY DEF CoreInv
<1> QED
  BY <1>1, <1>2, CoreInit, PTL DEF Spec

-----------------------------------------------------------------------------
(* A division leaves with its own quotient, whatever the program.           *)

\* Nothing is in flight that the state says is not; behind a redirect that waits
\* for a miss, and behind a trap or its return, no division is in EXE while a
\* branch is unresolved; and a division in EXE that counts as issued is the one
\* the unit was given.
QuotientInv ==
  /\ state_e = "NS_E" => \A i \in 0..1 : spec_entry[i].pc = 0
  /\ \/ stale_ic_miss
     \/ trap \in {"TRAP_PENDING", "TRAP_WRITE", "RESTORE_PENDING", "RESTORE_WRITE"}
     => state_e = "NS_E" \/ ~In(exe, {"div"})
  /\ div.issued /\ In(exe, {"div"}) => div.for = exe.pc

\* What the front end always does in a cycle: it predicts only a branch that it
\* enters, and it sends nothing on behind a redirect or a trap.
Disciplined(f) ==
  /\ stale_ic_miss \/ redirect_req => f.bubble
  /\ pending /\ ~wfi_launch => f.bubble

LEMMA NextIsDisciplined ==
  ASSUME CoreInv, Next
  PROVE  \E f : Disciplined(f) /\ \E pred \in BOOLEAN : Clock(f, pred)
<1>1. CASE SinkStale
  BY <1>1 DEF SinkStale, Hold, Disciplined
<1>2. CASE Relaunch
  BY <1>2 DEF Relaunch, Fetch, Disciplined
<1>3. CASE Redirect
  BY <1>3 DEF Redirect, Disciplined
<1>4. CASE Park
  BY <1>4 DEF Park, Hold, Disciplined
<1>5. CASE Boot \/ WaitForAnswer \/ WaitForBackEnd \/ MeetJump \/ AwaitJump
  BY <1>5 DEF Boot, WaitForAnswer, WaitForBackEnd, MeetJump, AwaitJump, Running, Free,
     Hold, Disciplined
<1>6. CASE Predict
  BY <1>6 DEF Predict, Running, Free, Disciplined
<1>7. CASE FollowDecoder
  BY <1>7 DEF FollowDecoder, Running, Free, Disciplined
<1>8. CASE FollowJump
  BY <1>8 DEF FollowJump, Free, Disciplined
<1> QED
  BY <1>1, <1>2, <1>3, <1>4, <1>5, <1>6, <1>7, <1>8 DEF Next

\* A mispredicted branch, resolved while a redirect waits for a miss, finds no
\* division in EXE: the flush that EXE does not see there loses none.
LEMMA NoDivisionMissesAFlush ==
  ASSUME CoreInv, QuotientInv, spec_wrong, In(exe, {"div"})
  PROVE  bubble_exe
<1>1. se_ptr_t \in 0..1 /\ spec_entry[se_ptr_t].pc # 0
  BY DEF CoreInv, TypeOK, spec_wrong, spec_resolve
<1>2. state_e # "NS_E"
  BY <1>1 DEF QuotientInv
<1> QED
  BY <1>2 DEF QuotientInv, bubble_exe

\* A division comes into EXE only when EXE is left, and then DEC is not bubbled.
LEMMA DivisionComes ==
  ASSUME NEW f, ExeEdge(f), In(exe, {"div"})'
  PROVE  exe' = exe \/ (leaves_exe /\ ~f.bubble /\ exe'.inst = dec.inst)
<1>1. ~EmptyExe.live
  BY DEF EmptyExe
<1>2. exe'.live
  BY DEF In
<1>3. stall_be \/ ~dc_stalled
  BY DEF stall_be
<1> QED
  BY <1>1, <1>2, <1>3 DEF ExeEdge, leaves_exe

\* Entries are there only while the state says so.
LEMMA EntriesKept ==
  ASSUME CoreInv, QuotientInv, NEW pred, SpecEdge(pred), state_e' = "NS_E"
  PROVE  \A i \in 0..1 : spec_entry'[i].pc = 0
<1>1. /\ spec_entry \in [0..1 -> [pc : Address, taken : BOOLEAN]]
      /\ se_ptr_h \in 0..1 /\ se_ptr_t \in 0..1 /\ state_e \in {"NS_E", "SPEC_E"}
  BY DEF CoreInv, TypeOK
<1>2. NoEntry.pc = 0
  BY DEF NoEntry
<1>3. ~spec_enter
  BY DEF SpecEdge
<1>4. CASE spec_wrong
  BY <1>2, <1>4 DEF SpecEdge
<1>5. CASE ~spec_wrong /\ state_e = "NS_E"
  <2>1. spec_entry' = spec_entry
    BY <1>3, <1>5 DEF SpecEdge
  <2> QED
    BY <1>5, <2>1 DEF QuotientInv
<1>6. CASE ~spec_wrong /\ state_e = "SPEC_E"
  <2>1. spec_resolve /\ spec_entry[se_ptr_h].pc = 0
    BY <1>3, <1>6 DEF SpecEdge, branch_queued
  <2>2. spec_entry' = [spec_entry EXCEPT ![se_ptr_t] = NoEntry]
    BY <1>3, <1>6, <2>1 DEF SpecEdge
  <2>3. spec_entry[se_ptr_t].pc # 0
    BY <2>1 DEF spec_resolve
  <2>4. \A i \in 0..1 : i = se_ptr_h \/ i = se_ptr_t
    BY <1>1, <2>1, <2>3
  <2> QED
    BY <1>1, <1>2, <2>1, <2>2, <2>4
<1> QED
  BY <1>1, <1>4, <1>5, <1>6

LEMMA ClockKeepsQuotient ==
  ASSUME CoreInv, QuotientInv, NEW f, Disciplined(f), NEW pred, Clock(f, pred)
  PROVE  QuotientInv'
<1>1. /\ FrontEdge(f) /\ SpecEdge(pred) /\ ExeEdge(f) /\ TrapEdge(f) /\ prog' = prog
      /\ \E w : DivEdge(w)
  BY DEF Clock
<1>2. state_e' = "NS_E" => \A i \in 0..1 : spec_entry'[i].pc = 0
  BY <1>1, EntriesKept
<1>3. CASE ~In(exe, {"div"})'
  BY <1>2, <1>3 DEF QuotientInv
<1>4. CASE In(exe, {"div"})' /\ exe' = exe
  <2>1. In(exe, {"div"}) /\ exe.live
    BY <1>1, <1>4 DEF In, K
  <2>2. exe # EmptyExe
    BY <2>1 DEF EmptyExe
  <2>3. ~bubble_exe
    BY <1>1, <1>4, <2>2 DEF ExeEdge
  <2>4. ~spec_wrong
    BY <2>1, <2>3, NoDivisionMissesAFlush
  <2>5. state_e = "NS_E" /\ ~spec_enter => state_e' = "NS_E"
    BY <1>1 DEF SpecEdge
  <2>6. ASSUME \/ stale_ic_miss
               \/ trap \in {"TRAP_PENDING", "TRAP_WRITE", "RESTORE_PENDING", "RESTORE_WRITE"}
        PROVE  state_e' = "NS_E"
    <3>1. state_e = "NS_E"
      BY <2>1, <2>6 DEF QuotientInv
    <3>2. ~spec_enter
      BY <2>6 DEF spec_enter, pending, redirect_req
    <3> QED
      BY <2>5, <3>1, <3>2
  <2>7. ASSUME wfi_resume \/ wfi_launch PROVE state_e' = "NS_E"
    <3>1. state_e = "NS_E"
      BY <2>7 DEF wfi_resume, wfi_launch, irq_pend, CoreInv, TypeOK
    <3>2. ~spec_enter
      BY <2>7 DEF spec_enter, pending, wfi_resume, wfi_launch
    <3> QED
      BY <2>5, <3>1, <3>2
  \* What is caught in DEC goes to EXE in the same cycle.
  <2>8. dec_en(f.bubble) => /\ exe.tag = tag_dec(f.bubble) /\ exe.inst = dec.inst
                            /\ tag_dec(f.bubble) # "trapped"
    <3> SUFFICES ASSUME dec_en(f.bubble)
                 PROVE  /\ exe.tag = tag_dec(f.bubble) /\ exe.inst = dec.inst
                        /\ tag_dec(f.bubble) # "trapped"
      OBVIOUS
    <3>1. ~stall_be /\ ~f.bubble
      BY DEF dec_en
    <3>2. exe = [pc |-> dec.pc, inst |-> dec.inst, tag |-> tag_dec(f.bubble),
                 live |-> dec.inst # 0 /\ tag_dec(f.bubble) # "trapped"]
      BY <1>1, <1>4, <2>3, <3>1 DEF ExeEdge
    <3> QED
      BY <2>1, <3>2
  <2>9. ~catch(f.bubble) /\ ~mret_catch(f.bubble)
    BY <2>1, <2>8 DEF catch, mret_catch, tag_dec, In
  <2>10. stale_ic_miss' => state_e' = "NS_E"
    BY <1>1, <2>4, <2>6, <2>7 DEF FrontEdge, redirect_req
  <2>11. trap' \in {"TRAP_PENDING", "TRAP_WRITE", "RESTORE_PENDING", "RESTORE_WRITE"}
           => state_e' = "NS_E"
    BY <1>1, <2>6, <2>7, <2>9 DEF TrapEdge, NextTrap
  <2>12. div'.issued => div'.for = exe.pc
    BY <1>1, <2>1, <2>4 DEF DivEdge, QuotientInv
  <2> QED
    BY <1>2, <1>4, <2>10, <2>11, <2>12 DEF QuotientInv
<1>5. CASE In(exe, {"div"})' /\ leaves_exe /\ ~f.bubble /\ exe'.inst = dec.inst
  <2>1. exe'.live /\ K(dec.inst) = "div"
    BY <1>1, <1>5 DEF In, K
  <2>2. ~bubble_exe /\ ~stall_be
    BY <1>5 DEF leaves_exe
  <2>3. tag_dec(f.bubble) # "trapped"
    BY <1>1, <1>5, <2>1, <2>2 DEF ExeEdge
  <2>4. ~catch(f.bubble) /\ ~wfi_launch /\ ~mret_catch(f.bubble)
    BY <2>1, <2>3 DEF tag_dec, mret_catch
  <2>5. ~stale_ic_miss /\ ~redirect_req /\ ~pending
    BY <1>5, <2>4 DEF Disciplined
  <2>6. ~stale_ic_miss'
    BY <1>1, <2>5 DEF FrontEdge
  <2>7. trap' \notin {"TRAP_PENDING", "TRAP_WRITE", "RESTORE_PENDING", "RESTORE_WRITE"}
    BY <1>1, <2>4, <2>5 DEF TrapEdge, NextTrap, pending, redirect_req
  <2>8. ~div'.issued
    BY <1>1, <1>5 DEF DivEdge
  <2> QED
    BY <1>2, <2>6, <2>7, <2>8 DEF QuotientInv
<1> QED
  BY <1>1, <1>3, <1>4, <1>5, DivisionComes

\* A division leaves EXE with the result of its own operands, for every program,
\* every prediction and every time the caches and the divider take, though the unit
\* may be busy with a division that was flushed and the stage be held for a cache
\* (ama_riscv_core.sv: div_start, div_stalled, the flush of the divider).
THEOREM DivisionsAreOwn == Spec => OwnQuotient
<1>1. Init => CoreInv /\ QuotientInv
  BY CoreInit DEF Init, QuotientInv, NoEntry
<1>2. CoreInv /\ QuotientInv /\ [Next]_vars => (CoreInv /\ QuotientInv)'
  <2> SUFFICES ASSUME CoreInv, QuotientInv, [Next]_vars PROVE (CoreInv /\ QuotientInv)'
    OBVIOUS
  <2>1. CoreInv'
    BY CoreStep
  <2>2. CASE Next
    BY <2>1, <2>2, NextIsDisciplined, ClockKeepsQuotient
  <2>3. CASE UNCHANGED vars
    BY <2>1, <2>3 DEF vars, front, spec, back, traps, QuotientInv, In, K
  <2> QED
    BY <2>2, <2>3
<1>3. CoreInv /\ QuotientInv =>
        (leaves_exe /\ In(exe, {"div"}) =>
           div.issued /\ div.busy = 0 /\ div.for = exe.pc)
  <2> SUFFICES ASSUME CoreInv, QuotientInv, leaves_exe, In(exe, {"div"})
               PROVE  div.issued /\ div.busy = 0 /\ div.for = exe.pc
    OBVIOUS
  <2>1. ~spec_wrong
    BY NoDivisionMissesAFlush DEF leaves_exe
  <2>2. ~hazard_to_exe /\ ~div_stalled
    BY DEF leaves_exe, stall_be
  <2>3. ~div_start /\ ~(div.busy > 0)
    BY <2>1, <2>2 DEF div_stalled
  <2>4. div.busy \in Nat
    BY CoreAssumption DEF CoreInv, TypeOK
  <2>5. div.busy = 0
    BY <2>3, <2>4
  <2>6. div.issued
    BY <2>2, <2>3, <2>5 DEF div_start
  <2> QED
    BY <2>5, <2>6 DEF QuotientInv
<1> QED
  BY <1>1, <1>2, <1>3, PTL DEF Spec, OwnQuotient

-----------------------------------------------------------------------------
(* An instruction goes through the pipeline under its own address, and the  *)
(* trap CSRs are written alone.                                             *)

\* A trap, a return or a sleep is on its way or being written: what follows in the
\* pipeline is not decoded.
Quiet == trap \in {"WFI", "TRAP_PENDING", "TRAP_WRITE", "RESTORE_PENDING", "RESTORE_WRITE"}

\* The trap controller waits for a tag in WBK.
Catching == trap \in {"TRAP_PENDING", "RESTORE_PENDING"}

\* The instruction stands in the slot under its own address.
Own(slot) == slot.inst # 0 => slot.pc = slot.inst

Labels == Own(exe) /\ Own(mem)

\* A slot has an address when it has an instruction; what is trapped is not decoded,
\* and only an mret carries the tag of a return.
Form(stage) ==
  /\ stage.inst = 0 <=> stage.pc = 0
  /\ stage.live <=> stage.inst # 0 /\ stage.tag # "trapped"
  /\ stage.tag = "mret" => K(stage.inst) = "mret"

Forms == Form(exe) /\ Form(mem) /\ (dec_d.inst = 0 <=> dec_d.pc = 0)

\* Until the first request nothing has happened.
Reset ==
  fe = "RST" =>
    /\ trap = "IDLE" /\ ~stale_ic_miss /\ state_e = "NS_E"
    /\ exe.pc = 0 /\ dec_d = Empty /\ ic.addr = 0

\* A cache that is not ready was asked, and so it was while the front end runs.
Asked ==
  /\ ~ready /\ fe # "RST" => ic.addr # 0
  /\ fe \in {"STEADY", "STALL_FE_IC"} /\ ~stale_ic_miss /\ ~Quiet => ic.addr # 0

\* The answer is the PC's, but for a stale one and for the one behind a trap.
Answer ==
  ic.addr # 0 /\ ~stale_ic_miss /\ trap \notin {"TRAP_PENDING", "TRAP_WRITE"} =>
    ic.addr = pc_fet_last

\* What a stalled back end holds in DEC has its own label whenever it may be decoded.
HeldOwn ==
  be_stalled_d =>
    /\ ready /\ ic.addr = 0 /\ ~stale_ic_miss /\ ~Quiet => Own(dec_d)
    /\ trap = "WFI" => Own(dec_d)

\* What is held while the cache serves the next request has no branch in front of it,
\* is not the jump in EXE, and stays in DEC until the data cache is ready.
HeldLate ==
  be_stalled_d /\ ~ready /\ ~stale_ic_miss /\ ~Quiet /\ dec_d.inst # 0 =>
    /\ state_e = "NS_E"
    /\ K(dec_d.inst) = "jalr" => exe.pc # dec_d.pc
    /\ fe = "STEADY" => dc > 0

\* While an answer is stale nothing is speculated on and EXE is empty, but for a wfi
\* that was resumed: then the answer is the PC's after all.
Stale ==
  stale_ic_miss =>
    /\ state_e = "NS_E"
    /\ trap \notin {"WFI", "TRAP_PENDING", "TRAP_WRITE"}
    /\ \/ exe.pc = 0
       \/ K(exe.inst) = "wfi" /\ ic.addr = pc_fet_last /\ (be_stalled_d => Own(dec_d))

\* A core that sleeps has at most the wfi in EXE, no tag, and no jump to wait for.
Asleep ==
  trap = "WFI" =>
    /\ fe \notin {"STALL_FLOW", "RST"} /\ mem.tag = "none" /\ exe.tag = "none"
    /\ exe.pc = 0 \/ K(exe.inst) = "wfi"

\* The speculative entries in the order they were made.
Older == spec_entry[se_ptr_t].pc
Younger == spec_entry[1 - se_ptr_t].pc

\* The pointers and the state tell how many entries there are.
Shape ==
  \/ Older = 0 /\ Younger = 0 /\ se_ptr_h = se_ptr_t /\ state_e = "NS_E"
  \/ Older # 0 /\ Younger = 0 /\ se_ptr_h = 1 - se_ptr_t /\ state_e = "SPEC_E"
  \/ Older # 0 /\ Younger # 0 /\ se_ptr_h = se_ptr_t /\ state_e = "SPEC_E"

Entries ==
  /\ Shape
  /\ Older # 0 => K(Older) = "branch"
  /\ Younger # 0 => K(Younger) = "branch"

\* The cache has answered and nothing more was asked for.
Quieted == ~stale_ic_miss /\ ic.addr = 0 /\ (be_stalled_d => dec_d.inst = 0)

\* The jump that is waited for is not in the pipeline.
LostJump == stalled_pc = 0 \/ stalled_pc \notin {exe.pc, mem.pc}

\* A branch that has an entry is in EXE or MEM, until it is resolved there; only one
\* met behind a jump that is waited for in vain is not.
InFlight ==
  /\ Older # 0 => \/ Older = exe.pc \/ Older = mem.pc
                  \/ fe = "STALL_FLOW" /\ ~Quiet /\ Quieted /\ LostJump
  /\ Younger # 0 => Older = mem.pc /\ Younger = exe.pc

\* While a jump is waited for, either nothing more comes from the cache or the jump is
\* lost and nothing is speculated on.
Flow == fe = "STALL_FLOW" /\ ~Quiet => Quieted \/ (LostJump /\ state_e = "NS_E")

\* A jump in EXE is the one waited for.
Jump ==
  In(exe, {"jalr"}) =>
    /\ fe = "STALL_FLOW" /\ stalled_pc = exe.pc /\ mem.pc # exe.pc
    /\ Quieted /\ ~Quiet

\* A miss of the data cache outlasts the branches resolved in it: the one in MEM, and
\* the one in EXE when it is the same branch again, since entries go by address.
Delays ==
  /\ dc = 1 => ~spec_resolve
  /\ dc = 2 /\ spec_resolve => Younger = 0

\* A tag moves alone: nothing is behind it, and it is there only for the trap
\* controller that waits for it.
Tags ==
  /\ dc > 0 => wbk.tag = "none"
  /\ wbk.tag # "none" => mem.pc = 0 /\ mem.tag = "none"
  /\ mem.tag # "none" => exe.pc = 0 /\ exe.tag = "none"
  /\ exe.tag # "none" => Catching
  /\ Catching => \/ exe.pc = 0 \/ exe.tag # "none"
                 \/ exe.tag = "none" /\ mem.tag = "none" /\ wbk.tag = "none"
  /\ trap \in {"TRAP_WRITE", "RESTORE_WRITE"} => exe.pc = 0 /\ exe.tag = "none"

\* The divider works for the division in EXE.
Unit == div.busy > 0 => In(exe, {"div"})

LabelInv ==
  /\ CoreInv /\ Labels /\ Forms /\ Reset /\ Asked /\ Answer /\ HeldOwn /\ HeldLate
  /\ Stale /\ Asleep /\ Entries /\ InFlight /\ Flow /\ Jump /\ Delays /\ Tags /\ Unit

\* The instruction in DEC: the answer of the cache, or what is held, or none.
LEMMA DecIs ==
  /\ rsp_valid => dec.pc = pc_fet_last /\ dec.inst = ic.addr /\ ic.addr # 0
  /\ ~rsp_valid /\ be_stalled_d => dec = dec_d
  /\ ~rsp_valid /\ ~be_stalled_d => dec.pc = 0 /\ dec.inst = 0
  /\ rsp_valid <=> ready /\ ic.addr # 0
  BY DEF dec, Empty, rsp_valid

\* An empty DEC has neither an address nor an instruction.
LEMMA DecForm ==
  ASSUME LabelInv
  PROVE  dec.inst = 0 <=> dec.pc = 0
<1>1. pc_fet_last # 0
  BY AddressFacts, ProgramAssumption DEF LabelInv, CoreInv, TypeOK, Pc
<1>2. dec_d.inst = 0 <=> dec_d.pc = 0
  BY DEF LabelInv, Forms
<1>3. CASE rsp_valid
  BY <1>1, <1>3, DecIs
<1>4. CASE ~rsp_valid /\ be_stalled_d
  BY <1>2, <1>4, DecIs
<1>5. CASE ~rsp_valid /\ ~be_stalled_d
  BY <1>5, DecIs
<1> QED
  BY <1>3, <1>4, <1>5

\* When nothing is pending, an answer that is there has its own label; so has what
\* is in DEC while a wfi waits.
LEMMA DecOwn ==
  ASSUME LabelInv, ~stale_ic_miss, (ready /\ ~Quiet) \/ trap = "WFI"
  PROVE  Own(dec)
<1>1. ic.addr # 0 => ic.addr = pc_fet_last
  BY DEF LabelInv, Answer, Quiet
<1>2. CASE rsp_valid
  BY <1>1, <1>2, DecIs DEF Own
<1>3. CASE ~rsp_valid /\ be_stalled_d
  <2>1. ready /\ ~Quiet => ic.addr = 0
    BY <1>3, DecIs
  <2>2. Own(dec_d)
    BY <1>3, <2>1 DEF LabelInv, HeldOwn
  <2> QED
    BY <1>3, <2>2, DecIs
<1>4. CASE ~rsp_valid /\ ~be_stalled_d
  BY <1>4, DecIs DEF Own
<1> QED
  BY <1>2, <1>3, <1>4

\* An empty slot has no kind.
LEMMA KindOfNothing == K(0) = "none"
  BY DEF K, KindAt

\* The kind of an instruction is one of a program's.
LEMMA KindType ==
  ASSUME CoreInv, NEW p \in Address
  PROVE  /\ p = 0 => K(p) = "none"
         /\ p # 0 => K(p) \in Kinds
<1>1. prog \in Program
  BY ProgramAssumption DEF CoreInv, TypeOK
<1> QED
  BY <1>1, AddressFacts DEF K, KindAt, Program, Instruction

\* A misprediction is that of a branch in MEM, met when no answer is stale: EXE is
\* flushed, and if the back end stalls it is for the data cache and for another cycle.
LEMMA WrongFacts ==
  ASSUME LabelInv, spec_wrong
  PROVE  /\ state_e = "SPEC_E" /\ ~stale_ic_miss /\ bubble_exe /\ spec_resolve
         /\ mem.pc # 0 /\ mem.pc = Older /\ K(mem.inst) = "branch" /\ mem.inst = mem.pc
         /\ stall_be => dc > 0 /\ dc # 1
<1>1. /\ spec_resolve /\ Older # 0 /\ Older = mem.pc
  BY DEF spec_wrong, spec_resolve, Older
<1>2. state_e = "SPEC_E" /\ K(Older) = "branch"
  BY <1>1 DEF LabelInv, Entries, Shape
<1>3. ~stale_ic_miss
  BY <1>2 DEF LabelInv, Stale
<1>4. mem.inst # 0 /\ mem.inst = mem.pc
  BY <1>1 DEF LabelInv, Forms, Form, Labels, Own
<1>5. stall_be => dc_stalled
  <2>1. ~In(mem, {"load"})
    BY <1>1, <1>2, <1>4 DEF In
  <2>2. ~div_stalled /\ ~csr_stalled
    BY DEF div_stalled, csr_stalled
  <2> QED
    BY <2>1, <2>2 DEF stall_be, hazard_to_exe
<1>6. dc # 1
  BY <1>1 DEF LabelInv, Delays
<1> QED
  BY <1>1, <1>2, <1>3, <1>4, <1>5, <1>6 DEF bubble_exe, dc_stalled

\* A tag in WBK that a trap waits for has an EXE behind it that does not stall.
LEMMA NothingHoldsExe ==
  ASSUME LabelInv, Catching, wbk.tag # "none"
  PROVE  ~stall_be
<1>1. dc = 0 /\ ~dc_stalled
  BY CoreAssumption DEF LabelInv, Tags, CoreInv, TypeOK, dc_stalled
<1>2. mem.pc = 0 /\ ~mem.live /\ ~In(mem, {"load"})
  BY DEF LabelInv, Tags, Forms, Form, In
<1>3. exe.pc = 0 \/ exe.tag # "none"
  BY DEF LabelInv, Tags
<1>4. exe.tag \in {"none", "trapped", "mret"}
  BY DEF LabelInv, CoreInv, TypeOK
<1>5. exe.live => K(exe.inst) = "mret"
  BY <1>3, <1>4 DEF LabelInv, Forms, Form
<1>6. ~In(exe, {"div"}) /\ ~(exe.live /\ IsCsr(K(exe.inst)))
  BY <1>5 DEF In, IsCsr
<1>7. ~hazard_to_exe
  BY <1>1, <1>2 DEF hazard_to_exe
<1>8. ~div_stalled
  BY <1>6 DEF div_stalled, div_start, LabelInv, Unit
<1> QED
  BY <1>1, <1>6, <1>7, <1>8 DEF stall_be, csr_stalled


-----------------------------------------------------------------------------
(* What the front end does in a cycle, whichever action it is.              *)

\* The states in which the front end takes instructions.
Moving == fe \in {"STEADY", "STALL_FE_IC", "STALL_BE"}

\* Asking: a request has the PC's address, but for the one behind an illegal
\* instruction; an address is written without a request only behind a redirect that
\* waits.
Asking(f) ==
  /\ f.req => f.pc # 0
  /\ f.we /\ ~(f.req /\ ready) => redirect_req /\ ~stale_ic_miss /\ ~ready
  /\ f.req /\ ready /\ ~f.we => f.pc = pc_fet_last \/ catch(f.bubble)
  /\ (stale_ic_miss \/ redirect_req) /\ ready => f.req
  /\ pending /\ ~redirect_req /\ ~stale_ic_miss => ~f.req
  /\ wfi_resume /\ f.we => f.pc = pc_fet_last
  /\ Free /\ ready /\ ~f.req => NextFe \in {"STALL_BE", "STALL_FLOW"}
  /\ Free /\ ready /\ f.req /\ stall_be => dec.inst = 0

\* Sending: DEC is sent on only while nothing is pending, and a jump there is waited for.
Sending(f) ==
  /\ stale_ic_miss \/ redirect_req => f.bubble
  /\ pending /\ ~wfi_launch => f.bubble
  /\ ~f.bubble /\ ~stall_be /\ ~wfi_launch =>
       /\ Free /\ ready /\ Moving
       /\ jalr_in_dec => ~f.req /\ NextFe = "STALL_FLOW" /\ save_stall_entry
  /\ spec_enter => \/ ~f.bubble /\ Moving
                   \/ fe = "STALL_FLOW" /\ LostJump
  /\ Free /\ fe = "STALL_FLOW" /\ ~stall_res_flow => f.bubble /\ ~f.req
  /\ Free /\ fe # "STALL_FLOW" /\ NextFe = "STALL_FLOW" =>
       /\ ~stall_be /\ jalr_in_dec /\ save_stall_entry /\ ~f.req
       /\ ready \/ (f.bubble /\ be_stalled_d)

\* A boot asks for the address the PC has.
LEMMA BootSteers ==
  ASSUME LabelInv, Boot
  PROVE  \E f : FrontOK(f) /\ Asking(f) /\ Sending(f) /\ \E pred \in BOOLEAN : Clock(f, pred)
<1> DEFINE f == [pc |-> pc_sel_pc, we |-> FALSE, req |-> TRUE, bubble |-> TRUE]
<1>1. Clock(f, FALSE) /\ Free /\ fe = "RST"
  BY DEF Boot
<1>2. pc_sel_pc \in Pc /\ pc_sel_pc \in Address /\ pc_sel_pc # 0
  BY TargetType, AddressFacts DEF LabelInv, Pc
<1>3. pc_sel_pc = pc_fet_last
  BY <1>1 DEF Free, redirect_req, pc_sel_pc
<1>4. dec.inst = 0
  BY <1>1, DecIs DEF LabelInv, Reset, Empty
<1>5. ~spec_enter
  BY <1>4, KindOfNothing DEF spec_enter, branch_in_dec
<1>6. NextFe # "STALL_FLOW"
  BY <1>1 DEF NextFe
<1> HIDE DEF f
<1>7. f.pc = pc_fet_last /\ f.pc # 0 /\ f.we = FALSE /\ f.req = TRUE /\ f.bubble = TRUE
  BY <1>2, <1>3 DEF f
<1>8. FrontOK(f)
  BY <1>2 DEF f, FrontOK, FrontType
<1>9. Asking(f)
  BY <1>1, <1>4, <1>7 DEF Asking, Free
<1>10. Sending(f)
  BY <1>1, <1>5, <1>6, <1>7 DEF Sending
<1> QED
  BY <1>1, <1>8, <1>9, <1>10

\* While an answer is stale it is waited for, and the PC asked for in its place.
LEMMA StaleSteers ==
  ASSUME LabelInv, SinkStale \/ Relaunch
  PROVE  \E f : FrontOK(f) /\ Asking(f) /\ Sending(f) /\ \E pred \in BOOLEAN : Clock(f, pred)
<1>1. stale_ic_miss /\ ~Free /\ ~spec_enter
  BY DEF SinkStale, Relaunch, Free, spec_enter
<1>2. ~wfi_resume
  BY <1>1 DEF LabelInv, Stale, wfi_resume
<1>3. CASE SinkStale
  <2> DEFINE f == Hold(TRUE)
  <2>1. Clock(f, FALSE) /\ ~ready
    BY <1>3 DEF SinkStale
  <2>2. FrontOK(f) /\ f.we = FALSE /\ f.req = FALSE /\ f.bubble = TRUE
    BY HoldOK DEF Hold
  <2> HIDE DEF f
  <2>3. Asking(f)
    BY <1>1, <1>2, <2>1, <2>2 DEF Asking
  <2>4. Sending(f)
    BY <1>1, <1>2, <2>1, <2>2 DEF Sending
  <2> QED
    BY <2>1, <2>2, <2>3, <2>4
<1>4. CASE Relaunch
  <2> DEFINE f == [Fetch(pc_sel_pc) EXCEPT !.bubble = TRUE]
  <2>1. Clock(f, FALSE) /\ ready
    BY <1>4 DEF Relaunch
  <2>2. pc_sel_pc \in Pc /\ pc_sel_pc # 0
    BY TargetType, AddressFacts DEF LabelInv, Pc
  <2>3. FrontOK(f) /\ f.we = TRUE /\ f.req = TRUE /\ f.bubble = TRUE /\ f.pc # 0
    BY <2>2, FetchOK DEF Fetch
  <2> HIDE DEF f
  <2>4. Asking(f)
    BY <1>1, <1>2, <2>1, <2>3 DEF Asking
  <2>5. Sending(f)
    BY <1>1, <1>2, <2>1, <2>3 DEF Sending
  <2> QED
    BY <2>1, <2>3, <2>4, <2>5
<1> QED
  BY <1>3, <1>4

\* A redirect asks for its target, or leaves it in the PC.
LEMMA RedirectSteers ==
  ASSUME LabelInv, Redirect
  PROVE  \E f : FrontOK(f) /\ Asking(f) /\ Sending(f) /\ \E pred \in BOOLEAN : Clock(f, pred)
<1> DEFINE target == IF ~spec_wrong THEN pc_sel_pc
                     ELSE IF branch_taken THEN mem.npc
                     ELSE Inc4(spec_entry[se_ptr_t].pc)
           f == [pc |-> target, we |-> TRUE, req |-> ready, bubble |-> TRUE]
<1>1. Clock(f, FALSE) /\ redirect_req /\ ~stale_ic_miss /\ ~Free /\ ~spec_enter
  BY DEF Redirect, Free, spec_enter
<1>2. target \in Pc /\ target # 0 /\ target \in Address
  BY TargetType, AddressFacts DEF LabelInv, Pc
<1>3. wfi_resume => target = pc_fet_last
  BY DEF wfi_resume, pc_sel_pc
<1> HIDE DEF target
<1>4. FrontOK(f)
  BY <1>2, WiresAreBoolean DEF FrontOK, FrontType, LabelInv
<1>5. f.pc = target /\ f.we = TRUE /\ f.req = ready /\ f.bubble = TRUE
  OBVIOUS
<1> HIDE DEF f
<1>6. Asking(f)
  BY <1>1, <1>2, <1>3, <1>5 DEF Asking
<1>7. Sending(f)
  BY <1>1, <1>5 DEF Sending
<1> QED
  BY <1>1, <1>4, <1>6, <1>7

\* A trap that is pending asks for nothing.
LEMMA ParkSteers ==
  ASSUME LabelInv, Park
  PROVE  \E f : FrontOK(f) /\ Asking(f) /\ Sending(f) /\ \E pred \in BOOLEAN : Clock(f, pred)
<1> DEFINE f == Hold(~wfi_launch)
<1>1. Clock(f, FALSE) /\ pending /\ ~redirect_req /\ ~stale_ic_miss /\ ~Free /\ ~spec_enter
  BY DEF Park, Free, spec_enter
<1>2. FrontOK(f) /\ f.we = FALSE /\ f.req = FALSE /\ f.bubble = ~wfi_launch
  BY HoldOK, WiresAreBoolean DEF Hold, LabelInv
<1>3. ~wfi_resume
  BY <1>1 DEF redirect_req
<1> HIDE DEF f
<1>4. Asking(f)
  BY <1>1, <1>2, <1>3 DEF Asking
<1>5. Sending(f)
  BY <1>1, <1>2, <1>3 DEF Sending
<1> QED
  BY <1>1, <1>2, <1>4, <1>5

\* While nothing steers the front end, none of the signals for it is there.
LEMMA FreeFacts ==
  ASSUME LabelInv, Free
  PROVE  /\ ~stale_ic_miss /\ ~redirect_req /\ ~pending /\ ~Quiet /\ ~spec_wrong
         /\ ~wfi_resume /\ ~wfi_launch
         /\ trap \in {"IDLE", "TRAPPED"}
  BY DEF Free, redirect_req, pending, Quiet, wfi_launch, LabelInv, CoreInv, TypeOK

\* A jump is waited for in DEC only; one in EXE is waited for already.
LEMMA OnlyDecJumps ==
  ASSUME LabelInv, fe # "STALL_FLOW", stall_flow
  PROVE  jalr_in_dec /\ dec.inst # 0 /\ (ready \/ be_stalled_d)
<1>1. jalr_in_dec
  BY DEF stall_flow, LabelInv, Jump
<1>2. dec.inst # 0
  BY <1>1, KindOfNothing DEF jalr_in_dec
<1> QED
  BY <1>1, <1>2, DecIs

\* The front end comes to wait for a jump when the one in DEC is met.
LEMMA WaitsForDec ==
  ASSUME LabelInv, Free, Moving, NextFe = "STALL_FLOW"
  PROVE  /\ ~stall_be /\ stall_flow /\ jalr_in_dec /\ save_stall_entry
         /\ ready \/ be_stalled_d
<1>1. ~spec_wrong
  BY FreeFacts
<1>2. /\ Onward = "STALL_FLOW"
      /\ fe \in {"STEADY", "STALL_BE"} \/ (fe = "STALL_FE_IC" /\ ready)
  BY <1>1 DEF NextFe, Moving
<1>3. ~stall_be /\ stall_flow
  BY <1>2 DEF Onward
<1> QED
  BY <1>2, <1>3, OnlyDecJumps DEF Moving, save_stall_entry

\* What is there in DEC while nothing steers the front end was asked for, or is held.
LEMMA WaitsAreMisses ==
  ASSUME LabelInv, Free, Waiting
  PROVE  ~ready /\ Moving
<1>1. fe \in {"STEADY", "STALL_FE_IC"} => ic.addr # 0
  BY FreeFacts DEF LabelInv, Asked
<1> QED
  BY <1>1, DecIs DEF Waiting, Moving

\* An answer that is not there is waited for.
LEMMA WaitSteers ==
  ASSUME LabelInv, WaitForAnswer
  PROVE  \E f : FrontOK(f) /\ Asking(f) /\ Sending(f) /\ \E pred \in BOOLEAN : Clock(f, pred)
<1> DEFINE f == Hold(TRUE)
<1>1. Clock(f, FALSE) /\ Free /\ Waiting
  BY DEF WaitForAnswer
<1>2. FrontOK(f) /\ f.we = FALSE /\ f.req = FALSE /\ f.bubble = TRUE
  BY HoldOK DEF Hold
<1>3. ~ready /\ Moving /\ ~spec_enter
  BY <1>1, WaitsAreMisses DEF spec_enter
<1>4. ~stale_ic_miss /\ ~redirect_req /\ ~pending /\ ~wfi_resume
  BY <1>1, FreeFacts
<1> HIDE DEF f
<1>5. Asking(f)
  BY <1>2, <1>3, <1>4 DEF Asking
<1>6. Sending(f)
  <2>1. NextFe = "STALL_FLOW" =>
          ~stall_be /\ jalr_in_dec /\ save_stall_entry /\ (ready \/ be_stalled_d)
    BY <1>1, <1>3, WaitsForDec
  <2> QED
    BY <1>2, <1>3, <1>4, <2>1 DEF Sending
<1> QED
  BY <1>1, <1>2, <1>5, <1>6

\* The back end is waited for.
LEMMA BackEndSteers ==
  ASSUME LabelInv, WaitForBackEnd
  PROVE  \E f : FrontOK(f) /\ Asking(f) /\ Sending(f) /\ \E pred \in BOOLEAN : Clock(f, pred)
<1> DEFINE f == Hold(fe = "STALL_FE_IC")
<1>1. Clock(f, FALSE) /\ Free /\ Running /\ stall_be /\ Moving
  BY DEF WaitForBackEnd, Running, Moving
<1>2. FrontOK(f) /\ f.we = FALSE /\ f.req = FALSE
  BY HoldOK DEF Hold
<1>3. ~spec_enter
  BY <1>1 DEF spec_enter
<1>4. ~stale_ic_miss /\ ~redirect_req /\ ~pending /\ ~wfi_resume /\ ~spec_wrong
  BY <1>1, FreeFacts
<1>5. ready => NextFe = "STALL_BE"
  BY <1>1, <1>4 DEF NextFe, Onward, Moving
<1> HIDE DEF f
<1>6. Asking(f)
  BY <1>2, <1>4, <1>5 DEF Asking
<1>7. Sending(f)
  <2>1. NextFe # "STALL_FLOW"
    BY <1>1, WaitsForDec
  <2> QED
    BY <1>1, <1>2, <1>3, <1>4, <2>1 DEF Sending, Moving
<1> QED
  BY <1>1, <1>2, <1>6, <1>7

\* A jump is in DEC when the cache is ready, or waits for the back end.
LEMMA JumpSteers ==
  ASSUME LabelInv, MeetJump
  PROVE  \E f : FrontOK(f) /\ Asking(f) /\ Sending(f) /\ \E pred \in BOOLEAN : Clock(f, pred)
<1> DEFINE f == Hold(FALSE)
<1>1. /\ Clock(f, FALSE) /\ Free /\ Running /\ ~stall_be /\ stall_flow /\ Moving
      /\ ~Waiting /\ fe # "STALL_FLOW"
  BY DEF MeetJump, Running, Moving
<1>2. FrontOK(f) /\ f.we = FALSE /\ f.req = FALSE /\ f.bubble = FALSE
  BY HoldOK DEF Hold
<1>3. ~spec_enter
  BY <1>1 DEF spec_enter
<1>4. ~stale_ic_miss /\ ~redirect_req /\ ~pending /\ ~wfi_resume /\ ~spec_wrong /\ ~Quiet
  BY <1>1, FreeFacts
<1>5. jalr_in_dec /\ dec.inst # 0
  BY <1>1, OnlyDecJumps
<1>6. ready
  <2>1. CASE fe \in {"STALL_FE_IC", "STALL_BE"}
    BY <1>1, <2>1, DecIs DEF Waiting
  <2>2. CASE fe = "STEADY" /\ ~ready
    <3>1. be_stalled_d /\ dec_d.inst # 0
      BY <1>5, <2>2, DecIs
    <3>2. dc > 0
      BY <1>4, <2>2, <3>1 DEF LabelInv, HeldLate
    <3> QED
      BY <1>1, <3>2 DEF stall_be, dc_stalled
  <2> QED
    BY <1>1, <2>1, <2>2 DEF Moving
<1>7. NextFe = "STALL_FLOW" /\ save_stall_entry
  BY <1>1, <1>4, <1>6 DEF NextFe, Onward, Moving, save_stall_entry
<1> HIDE DEF f
<1>8. Asking(f)
  BY <1>2, <1>4, <1>7 DEF Asking
<1>9. Sending(f)
  BY <1>1, <1>2, <1>3, <1>4, <1>5, <1>6, <1>7 DEF Sending
<1> QED
  BY <1>1, <1>2, <1>8, <1>9

\* A prediction is asked for.
LEMMA PredictSteers ==
  ASSUME LabelInv, Predict
  PROVE  \E f : FrontOK(f) /\ Asking(f) /\ Sending(f) /\ \E pred \in BOOLEAN : Clock(f, pred)
<1>1. /\ Free /\ Running /\ spec_enter /\ branch_in_dec /\ ready /\ Moving
      /\ ~stall_be /\ ~stall_flow
  BY DEF Predict, Running, Moving, spec_enter
<1> DEFINE ahead == CHOOSE t \in prog.code[dec.inst].to : TRUE
           target(pred) == IF pred THEN ahead ELSE Inc4(pc_fet_last)
<1>2. PICK pred \in BOOLEAN : Clock(Fetch(target(pred)), pred)
  BY DEF Predict
<1>3. target(pred) \in Pc /\ target(pred) # 0
  <2>1. Inc4(pc_fet_last) \in Pc /\ ahead \in Pc
    BY <1>1, TargetType DEF LabelInv
  <2> HIDE DEF ahead
  <2>2. target(pred) \in Pc
    BY <2>1
  <2> QED
    BY <2>2 DEF Pc
<1> HIDE DEF target
<1> DEFINE f == Fetch(target(pred))
<1>4. FrontOK(f) /\ f.pc # 0 /\ f.we = TRUE /\ f.req = TRUE /\ f.bubble = FALSE
  BY <1>3, FetchOK DEF Fetch
<1>5. Clock(f, pred)
  BY <1>2
<1>6. ~stale_ic_miss /\ ~redirect_req /\ ~pending /\ ~wfi_resume
  BY <1>1, FreeFacts
<1>7. ~jalr_in_dec
  BY <1>1 DEF branch_in_dec, jalr_in_dec
<1> HIDE DEF f
<1>8. Asking(f)
  BY <1>1, <1>4, <1>6 DEF Asking
<1>9. Sending(f)
  <2>1. NextFe # "STALL_FLOW"
    BY <1>1, WaitsForDec
  <2> QED
    BY <1>1, <1>4, <1>6, <1>7, <2>1 DEF Sending, Moving
<1> QED
  BY <1>4, <1>5, <1>8, <1>9

\* Without a write to the PC what is asked for is behind an instruction that traps.
LEMMA StandsStillToTrap ==
  ASSUME LabelInv, HandlerDecodes, Free, fe = "STEADY", ready, ~decoder_pc_we,
         ~stall_be, ~stall_flow, ~spec_enter
  PROVE  catch(FALSE)
<1>1. ~stale_ic_miss /\ ~redirect_req /\ ~pending /\ ~Quiet /\ ~spec_wrong
  BY FreeFacts
<1>2. trap \in {"IDLE", "TRAPPED"}
  BY FreeFacts
<1>3. ic.addr # 0
  BY <1>1 DEF LabelInv, Asked
<1>4. dec.inst # 0 /\ dec.inst \in Address
  BY <1>3, DecIs, DecType DEF LabelInv
<1>5. K(dec.inst) \in Kinds
  BY <1>4, KindType DEF LabelInv
<1>6. K(dec.inst) # "none"
  BY <1>5 DEF Kinds
<1>7. K(dec.inst) # "branch"
  BY <1>1 DEF spec_enter, branch_in_dec
<1>8. K(dec.inst) # "jalr"
  BY <1>1 DEF stall_flow, jalr_in_dec
<1>9. K(dec.inst) = "fault"
  BY <1>6, <1>7, <1>8 DEF decoder_pc_we
<1>10. trap = "IDLE"
  BY <1>2, <1>9 DEF HandlerDecodes
<1> QED
  BY <1>4, <1>9, <1>10 DEF catch, dec_en, Raises

\* The decoder is followed when the cache is ready.
LEMMA DecoderSteers ==
  ASSUME LabelInv, HandlerDecodes, FollowDecoder
  PROVE  \E f : FrontOK(f) /\ Asking(f) /\ Sending(f) /\ \E pred \in BOOLEAN : Clock(f, pred)
<1> DEFINE f == [Fetch(decoder_pc) EXCEPT !.we = (fe = "STEADY" => decoder_pc_we)]
<1>1. /\ Clock(f, FALSE) /\ Free /\ Running /\ ~stall_be /\ ~stall_flow /\ ~spec_enter
      /\ ~Waiting /\ Moving
  BY DEF FollowDecoder, Running, Moving
<1>2. decoder_pc \in Pc /\ decoder_pc # 0
  BY TargetType, AddressFacts DEF LabelInv, Pc
<1>3. /\ FrontOK(f) /\ f.pc # 0 /\ f.req = TRUE /\ f.bubble = FALSE
      /\ ~f.we => fe = "STEADY" /\ ~decoder_pc_we
  BY <1>2, FetchOK, WiresAreBoolean DEF Fetch, LabelInv
<1>4. ~stale_ic_miss /\ ~redirect_req /\ ~pending /\ ~wfi_resume
  BY <1>1, FreeFacts
<1>5. ready
  BY <1>1, DecIs DEF Waiting, Moving
<1>6. ~jalr_in_dec
  BY <1>1, <1>4 DEF stall_flow
<1>7. ~f.we => catch(FALSE)
  BY <1>1, <1>3, <1>5, StandsStillToTrap
<1> HIDE DEF f
<1>8. Asking(f)
  BY <1>1, <1>3, <1>4, <1>5, <1>7 DEF Asking
<1>9. Sending(f)
  <2>1. NextFe # "STALL_FLOW"
    BY <1>1, WaitsForDec
  <2> QED
    BY <1>1, <1>3, <1>4, <1>5, <1>6, <2>1 DEF Sending, Moving
<1> QED
  BY <1>1, <1>3, <1>8, <1>9

\* While a jump is waited for, nothing is asked for and nothing is sent on.
LEMMA AwaitSteers ==
  ASSUME LabelInv, AwaitJump
  PROVE  \E f : FrontOK(f) /\ Asking(f) /\ Sending(f) /\ \E pred \in BOOLEAN : Clock(f, pred)
<1> DEFINE f == Hold(TRUE)
<1>1. Clock(f, FALSE) /\ Free /\ fe = "STALL_FLOW" /\ ~stall_res_flow
  BY DEF AwaitJump
<1>2. FrontOK(f) /\ f.we = FALSE /\ f.req = FALSE /\ f.bubble = TRUE
  BY HoldOK DEF Hold
<1>3. ~stale_ic_miss /\ ~redirect_req /\ ~pending /\ ~wfi_resume /\ ~spec_wrong /\ ~Quiet
  BY <1>1, FreeFacts
<1>4. NextFe = "STALL_FLOW"
  BY <1>1, <1>3 DEF NextFe
<1>5. spec_enter => LostJump
  <2>1. ASSUME spec_enter, Quieted PROVE FALSE
    <3>1. dec.inst = 0
      BY <2>1, DecIs DEF Quieted
    <3> QED
      BY <2>1, <3>1, KindOfNothing DEF spec_enter, branch_in_dec
  <2> QED
    BY <1>1, <1>3, <2>1 DEF LabelInv, Flow
<1> HIDE DEF f
<1>6. Asking(f)
  BY <1>2, <1>3, <1>4 DEF Asking
<1>7. Sending(f)
  BY <1>1, <1>2, <1>3, <1>5 DEF Sending
<1> QED
  BY <1>1, <1>2, <1>6, <1>7

\* A jump in MEM is followed when nothing is asked for any more.
LEMMA FollowSteers ==
  ASSUME LabelInv, FollowJump
  PROVE  \E f : FrontOK(f) /\ Asking(f) /\ Sending(f) /\ \E pred \in BOOLEAN : Clock(f, pred)
<1> DEFINE target == IF flow_update THEN mem.npc ELSE Inc4(pc_fet_last)
           f == [Fetch(target) EXCEPT !.bubble = TRUE]
<1>1. Clock(f, FALSE) /\ Free /\ fe = "STALL_FLOW" /\ stall_res_flow
  BY DEF FollowJump
<1>2. target \in Pc /\ target # 0
  BY TargetType, AddressFacts DEF LabelInv, Pc
<1> HIDE DEF target
<1>3. FrontOK(f) /\ f.pc # 0 /\ f.we = TRUE /\ f.req = TRUE /\ f.bubble = TRUE
  BY <1>2, FetchOK DEF Fetch
<1>4. ~stale_ic_miss /\ ~redirect_req /\ ~pending /\ ~wfi_resume /\ ~Quiet
  BY <1>1, FreeFacts
<1>5. Quieted
  BY <1>1, <1>4 DEF LabelInv, Flow, stall_res_flow, LostJump
<1>6. ready /\ dec.inst = 0
  BY <1>1, <1>5, DecIs DEF LabelInv, Asked, Quieted
<1>7. ~spec_enter
  BY <1>6, KindOfNothing DEF spec_enter, branch_in_dec
<1> HIDE DEF f
<1>8. Asking(f)
  BY <1>3, <1>4, <1>6 DEF Asking
<1>9. Sending(f)
  BY <1>1, <1>3, <1>4, <1>7 DEF Sending
<1> QED
  BY <1>1, <1>3, <1>8, <1>9

\* Every step of the core is a clock with a front end that asks and sends as above.
LEMMA NextSteers ==
  ASSUME LabelInv, HandlerDecodes, Next
  PROVE  \E f : FrontOK(f) /\ Asking(f) /\ Sending(f) /\ \E pred \in BOOLEAN : Clock(f, pred)
<1>1. CASE SinkStale \/ Relaunch
  BY <1>1, StaleSteers
<1>2. CASE Redirect
  BY <1>2, RedirectSteers
<1>3. CASE Park
  BY <1>3, ParkSteers
<1>4. CASE Boot
  BY <1>4, BootSteers
<1>5. CASE WaitForAnswer
  BY <1>5, WaitSteers
<1>6. CASE WaitForBackEnd
  BY <1>6, BackEndSteers
<1>7. CASE MeetJump
  BY <1>7, JumpSteers
<1>8. CASE Predict
  BY <1>8, PredictSteers
<1>9. CASE FollowDecoder
  BY <1>9, DecoderSteers
<1>10. CASE AwaitJump
  BY <1>10, AwaitSteers
<1>11. CASE FollowJump
  BY <1>11, FollowSteers
<1> QED
  BY <1>1, <1>2, <1>3, <1>4, <1>5, <1>6, <1>7, <1>8, <1>9, <1>10, <1>11 DEF Next

-----------------------------------------------------------------------------
(* What a cycle does to the stages.                                         *)

Cycle(f, pred) == FrontOK(f) /\ Asking(f) /\ Sending(f) /\ Clock(f, pred)

\* The edges of a cycle, but for the choices of the data path.
LEMMA Edges ==
  ASSUME NEW f, NEW pred, Cycle(f, pred)
  PROVE  /\ FrontOK(f) /\ Asking(f) /\ Sending(f)
         /\ FrontEdge(f) /\ SpecEdge(pred) /\ ExeEdge(f) /\ RetireEdge /\ HoldEdge
         /\ TrapEdge(f) /\ prog' = prog
  BY DEF Cycle, Clock

\* EXE is emptied, held, or given what is in DEC.
LEMMA ExeCases ==
  ASSUME NEW f, NEW pred, Cycle(f, pred)
  PROVE  \/ /\ bubble_exe \/ (~stall_be /\ f.bubble)
            /\ exe'.pc = 0 /\ exe'.inst = 0 /\ ~exe'.live /\ exe'.tag = "none"
         \/ stall_be /\ ~bubble_exe /\ exe' = exe
         \/ /\ ~stall_be /\ ~f.bubble /\ ~bubble_exe
            /\ exe'.pc = dec.pc /\ exe'.inst = dec.inst /\ exe'.tag = tag_dec(f.bubble)
            /\ exe'.live <=> dec.inst # 0 /\ tag_dec(f.bubble) # "trapped"
<1>1. ExeEdge(f)
  BY Edges
<1>2. CASE exe' = EmptyExe /\ (bubble_exe \/ (~stall_be /\ f.bubble))
  BY <1>2 DEF EmptyExe
<1>3. CASE stall_be /\ ~bubble_exe
  BY <1>1, <1>3 DEF ExeEdge
<1>4. CASE ~stall_be /\ ~f.bubble /\ ~bubble_exe
  <2>1. exe' = [pc |-> dec.pc, inst |-> dec.inst, tag |-> tag_dec(f.bubble),
                live |-> dec.inst # 0 /\ tag_dec(f.bubble) # "trapped"]
    BY <1>1, <1>4 DEF ExeEdge
  <2> QED
    BY <1>4, <2>1
<1>5. bubble_exe \/ (~stall_be /\ f.bubble /\ ~bubble_exe) => exe' = EmptyExe
  BY <1>1 DEF ExeEdge
<1> QED
  BY <1>2, <1>3, <1>4, <1>5

\* MEM is held, given what leaves EXE, or emptied.
LEMMA MemCases ==
  ASSUME NEW f, NEW pred, Cycle(f, pred)
  PROVE  \/ dc_stalled /\ mem' = mem
         \/ /\ leaves_exe /\ ~dc_stalled
            /\ mem'.pc = exe.pc /\ mem'.inst = exe.inst /\ mem'.live = exe.live
            /\ mem'.tag = exe.tag
         \/ /\ ~leaves_exe /\ ~dc_stalled
            /\ mem'.pc = 0 /\ mem'.inst = 0 /\ ~mem'.live /\ mem'.tag = "none"
<1>1. PICK t, npc : MemEdge(t, npc)
  BY DEF Cycle, Clock
<1>2. CASE dc_stalled
  BY <1>1, <1>2 DEF MemEdge, leaves_exe
<1>3. CASE leaves_exe /\ ~dc_stalled
  <2>1. mem' = [pc |-> exe.pc, inst |-> exe.inst, live |-> exe.live, tag |-> exe.tag,
                taken |-> t, npc |-> npc]
    BY <1>1, <1>3 DEF MemEdge
  <2> QED
    BY <1>3, <2>1
<1>4. CASE ~leaves_exe /\ ~dc_stalled
  BY <1>1, <1>4 DEF MemEdge, EmptyMem
<1> QED
  BY <1>2, <1>3, <1>4

\* What is in WBK is held, or that of MEM.
LEMMA WbkCases ==
  ASSUME NEW f, NEW pred, Cycle(f, pred)
  PROVE  \/ dc_stalled /\ wbk' = wbk
         \/ ~dc_stalled /\ wbk'.tag \in {mem.tag, "none"} /\ wbk'.pc \in {mem.pc, 0}
<1>1. RetireEdge
  BY Edges
<1>2. CASE dc_stalled
  BY <1>1, <1>2 DEF RetireEdge
<1>3. CASE ~dc_stalled
  BY <1>1, <1>3 DEF RetireEdge, EmptyWbk
<1> QED
  BY <1>2, <1>3

\* The instruction cache is given a request, serves one, or has none.
LEMMA IcCases ==
  ASSUME CoreInv, NEW f, NEW pred, Cycle(f, pred)
  PROVE  \/ f.req /\ ready /\ ic'.addr = f.pc
         \/ ~ready /\ ic'.addr = ic.addr
         \/ ready /\ ~f.req /\ ic'.addr = 0 /\ ready'
<1>1. PICK i, d : CacheEdge(f, i, d)
  BY DEF Cycle, Clock
<1>2. ic \in [addr : Address, busy : 0..IcMiss]
  BY DEF CoreInv, TypeOK
<1>3. CASE f.req /\ ready
  BY <1>1, <1>3 DEF CacheEdge
<1>4. CASE ~ready
  BY <1>1, <1>2, <1>4 DEF CacheEdge
<1>5. CASE ~f.req /\ ready
  BY <1>1, <1>2, <1>5 DEF CacheEdge, ready
<1> QED
  BY <1>3, <1>4, <1>5

\* The data cache counts down, misses or is ready; a miss takes at least three cycles,
\* and only a load misses.
LEMMA DcCases ==
  ASSUME CoreInv, NEW f, NEW pred, Cycle(f, pred)
  PROVE  /\ dc \in Nat /\ dc' \in Nat
         /\ \/ dc > 0 /\ dc_stalled /\ dc' = dc - 1
            \/ dc = 0 /\ ~dc_stalled /\ dc' = 0
            \/ dc = 0 /\ ~dc_stalled /\ dc' > 2 /\ In(mem, {"load"})
<1>1. PICK i \in (IF fe = "RST" THEN {IcMiss} ELSE Choices({0, IcMiss}, f.req /\ ready)),
           d \in Choices({0} \cup DcMisses, In(mem, {"load"})) : CacheEdge(f, i, d)
  BY DEF Cycle, Clock
<1>2. d \in {0} \cup DcMisses
  BY ChoicesType
<1>3. d = 0 \/ (d \in Nat /\ d > 2)
  BY <1>2, CoreAssumption
<1>4. dc \in Nat
  BY CoreAssumption DEF CoreInv, TypeOK
<1> QED
  BY <1>1, <1>3, <1>4 DEF CacheEdge, dc_stalled

-----------------------------------------------------------------------------
(* What a cycle does to the speculative entries and to the trap controller. *)

\* An instruction that does not leave DEC is not caught.
LEMMA NoneCaught ==
  ASSUME NEW b, b \/ stall_be
  PROVE  ~catch(b) /\ ~wfi_catch(b) /\ ~mret_catch(b)
  BY DEF catch, wfi_catch, mret_catch, dec_en

\* The trap controller does not go to sleep or to a trap by itself, and is awake
\* again by a redirect only.
LEMMA TrapMoves ==
  ASSUME LabelInv, NEW f, NEW pred, Cycle(f, pred)
  PROVE  /\ Quiet /\ ~Quiet' => redirect_req
         /\ ~Quiet /\ ~catch(f.bubble) /\ ~wfi_catch(f.bubble) /\ ~mret_catch(f.bubble)
              => trap' = trap
         /\ trap' = "WFI" =>
              \/ trap = "WFI" /\ ~spec_wrong /\ ~wfi_resume /\ ~wfi_launch
              \/ trap = "IDLE" /\ wfi_catch(f.bubble)
         /\ trap' = "TRAP_WRITE" =>
              trap = "TRAP_PENDING" /\ ~spec_wrong /\ wbk.tag = "trapped"
         /\ trap' = "RESTORE_WRITE" => trap = "RESTORE_PENDING" /\ wbk.tag = "mret"
         /\ trap' = "TRAP_PENDING" =>
              \/ trap = "TRAP_PENDING" /\ ~spec_wrong
              \/ trap = "WFI" /\ wfi_launch
              \/ trap = "IDLE" /\ catch(f.bubble)
         /\ trap' = "RESTORE_PENDING" =>
              trap = "RESTORE_PENDING" \/ (trap = "TRAPPED" /\ mret_catch(f.bubble))
<1>1. trap' = NextTrap(f.bubble)
  BY Edges DEF TrapEdge
<1>2. trap \in {"IDLE", "WFI", "TRAP_PENDING", "TRAP_WRITE", "TRAPPED",
                "RESTORE_PENDING", "RESTORE_WRITE"}
  BY DEF LabelInv, CoreInv, TypeOK
<1>3. CASE trap \in {"IDLE", "TRAPPED"}
  BY <1>1, <1>3 DEF NextTrap, Quiet
<1>4. CASE trap = "WFI"
  <2>1. spec_wrong \/ wfi_resume => redirect_req
    BY DEF redirect_req
  <2> QED
    BY <1>1, <1>4, <2>1 DEF NextTrap, Quiet
<1>5. CASE trap = "TRAP_PENDING"
  <2>1. spec_wrong => redirect_req
    BY DEF redirect_req
  <2> QED
    BY <1>1, <1>5, <2>1 DEF NextTrap, Quiet
<1>6. CASE trap \in {"TRAP_WRITE", "RESTORE_WRITE"}
  <2>1. redirect_req
    BY <1>6 DEF redirect_req
  <2> QED
    BY <1>1, <1>6, <2>1 DEF NextTrap, Quiet
<1>7. CASE trap = "RESTORE_PENDING"
  BY <1>1, <1>7 DEF NextTrap, Quiet
<1> QED
  BY <1>2, <1>3, <1>4, <1>5, <1>6, <1>7

\* What is caught becomes a trap, a return or a sleep.
LEMMA CaughtMoves ==
  ASSUME NEW f, NEW pred, Cycle(f, pred)
  PROVE  /\ catch(f.bubble) => trap' = "TRAP_PENDING"
         /\ wfi_launch => trap' = "TRAP_PENDING"
         /\ mret_catch(f.bubble) => trap' = "RESTORE_PENDING"
<1>1. trap' = NextTrap(f.bubble)
  BY Edges DEF TrapEdge
<1>2. catch(f.bubble) => trap = "IDLE" /\ ~wfi_catch(f.bubble)
  BY DEF catch, wfi_catch
<1>3. wfi_launch => trap = "WFI" /\ ~spec_wrong /\ ~wfi_resume
  BY DEF wfi_launch, wfi_resume
<1>4. mret_catch(f.bubble) => trap = "TRAPPED"
  BY DEF mret_catch
<1>5. catch(f.bubble) => trap' = "TRAP_PENDING"
  BY <1>1, <1>2 DEF NextTrap
<1>6. wfi_launch => trap' = "TRAP_PENDING"
  BY <1>1, <1>3 DEF NextTrap
<1>7. mret_catch(f.bubble) => trap' = "RESTORE_PENDING"
  BY <1>1, <1>4 DEF NextTrap
<1> QED
  BY <1>5, <1>6, <1>7

\* Without a branch in flight none is resolved, and without one entered there is none
\* in the next cycle.
LEMMA NoneInFlight ==
  ASSUME LabelInv, state_e = "NS_E"
  PROVE  /\ Older = 0 /\ ~spec_resolve /\ ~spec_wrong /\ ~bubble_exe
         /\ \A pred : SpecEdge(pred) /\ ~spec_enter => state_e' = "NS_E"
<1>1. Older = 0
  BY DEF LabelInv, Entries, Shape
<1>2. ~spec_resolve /\ ~spec_wrong
  BY <1>1 DEF spec_resolve, spec_wrong, Older
<1> QED
  BY <1>1, <1>2 DEF bubble_exe, SpecEdge

\* A branch is entered when nothing steers the front end, under its own address.
LEMMA EnteredIsBranch ==
  ASSUME LabelInv, spec_enter
  PROVE  /\ Free /\ ready /\ ~stall_be /\ ~spec_wrong /\ ~stale_ic_miss
         /\ dec.inst # 0 /\ dec.pc = dec.inst /\ K(dec.pc) = "branch" /\ dec.pc # 0
<1>1. /\ Free /\ ready /\ ~stall_be /\ ~spec_wrong /\ ~stale_ic_miss
      /\ K(dec.inst) = "branch"
  BY DEF spec_enter, Free, branch_in_dec
<1>2. dec.inst # 0
  BY <1>1, KindOfNothing
<1>3. dec.pc = dec.inst
  BY <1>1, <1>2, FreeFacts, DecOwn DEF Own
<1> QED
  BY <1>1, <1>2, <1>3

\* What a cycle does to the branches in flight: a misprediction drops them, the older
\* one leaves when it is resolved, and one that is predicted is the youngest.
LEMMA EntryCases ==
  ASSUME LabelInv, NEW f, NEW pred, Cycle(f, pred)
  PROVE  /\ Shape'
         /\ \/ spec_wrong /\ Older' = 0 /\ Younger' = 0
            \/ /\ ~spec_wrong /\ spec_enter /\ spec_resolve /\ Younger # 0
               /\ Older' = Younger /\ Younger' = dec.pc
            \/ /\ ~spec_wrong /\ spec_enter /\ spec_resolve /\ Younger = 0
               /\ Older' = dec.pc /\ Younger' = 0
            \/ /\ ~spec_wrong /\ spec_enter /\ ~spec_resolve /\ Older = 0
               /\ Older' = dec.pc /\ Younger' = 0
            \/ /\ ~spec_wrong /\ spec_enter /\ ~spec_resolve /\ Older # 0 /\ Younger = 0
               /\ Older' = Older /\ Younger' = dec.pc
            \/ /\ ~spec_wrong /\ ~spec_enter /\ spec_resolve
               /\ Older' = Younger /\ Younger' = 0
            \/ /\ ~spec_wrong /\ ~spec_enter /\ ~spec_resolve
               /\ Older' = Older /\ Younger' = Younger
<1> DEFINE t == se_ptr_t
           h == se_ptr_h
           clear == state_e = "SPEC_E" /\ spec_resolve
           cleared == IF clear THEN [spec_entry EXCEPT ![se_ptr_t] = NoEntry]
                      ELSE spec_entry
           entry == [pc |-> dec.pc, taken |-> pred]
<1>1. /\ spec_entry \in [0..1 -> [pc : Address, taken : BOOLEAN]]
      /\ h \in 0..1 /\ t \in 0..1 /\ 1 - t \in 0..1 /\ 1 - h \in 0..1
      /\ 1 - (1 - t) = t /\ 1 - t # t
  BY DEF LabelInv, CoreInv, TypeOK
<1>2. SpecEdge(pred)
  BY Edges
<1>3. Shape
  BY DEF LabelInv, Entries, Shape
<1>4. spec_enter => ~spec_wrong /\ dec.pc # 0
  BY EnteredIsBranch
<1>5. spec_resolve => Older # 0 /\ state_e = "SPEC_E" /\ Older = mem.pc
  BY <1>3 DEF spec_resolve, Shape, Older
<1>6. spec_wrong => spec_resolve
  BY DEF spec_wrong
<1>7. clear <=> spec_resolve
  BY <1>5
<1>8. branch_queued <=> spec_entry[h].pc # 0
  BY DEF branch_queued
<1>9. Older = spec_entry[t].pc /\ Younger = spec_entry[1 - t].pc
  BY DEF Older, Younger
<1>10. Older' = spec_entry'[t'].pc /\ Younger' = spec_entry'[1 - t'].pc
  BY DEF Older, Younger
<1>11. NoEntry.pc = 0 /\ entry.pc = dec.pc
  BY DEF NoEntry
<1>12. state_e' = CASE spec_enter -> "SPEC_E"
                    [] clear /\ (spec_wrong \/ ~branch_queued) /\ ~spec_enter -> "NS_E"
                    [] OTHER -> state_e
  BY <1>2 DEF SpecEdge
<1>13. CASE spec_wrong
  <2>1. spec_entry' = [i \in 0..1 |-> NoEntry] /\ h' = 0 /\ t' = 0
    BY <1>2, <1>13 DEF SpecEdge
  <2>2. state_e' = "NS_E"
    BY <1>4, <1>6, <1>7, <1>12, <1>13
  <2>3. Older' = 0 /\ Younger' = 0
    BY <1>10, <1>11, <2>1
  <2> QED
    BY <1>13, <2>1, <2>2, <2>3 DEF Shape
<1>14. ~spec_wrong =>
         /\ spec_entry' = IF spec_enter THEN [cleared EXCEPT ![h] = entry] ELSE cleared
         /\ h' = IF spec_enter THEN 1 - h ELSE h
         /\ t' = IF clear THEN 1 - t ELSE t
  BY <1>2 DEF SpecEdge
<1>15. CASE ~spec_wrong /\ spec_enter /\ spec_resolve
  <2>1. /\ spec_entry' = [[spec_entry EXCEPT ![t] = NoEntry] EXCEPT ![h] = entry]
        /\ h' = 1 - h /\ t' = 1 - t /\ state_e' = "SPEC_E"
    BY <1>7, <1>12, <1>14, <1>15
  <2>2. CASE Younger # 0
    <3>1. h = t
      BY <1>3, <2>2 DEF Shape
    <3>2. spec_entry'[t] = entry /\ spec_entry'[1 - t] = spec_entry[1 - t]
      BY <1>1, <2>1, <3>1
    <3>3. Older' = Younger /\ Younger' = dec.pc
      BY <1>1, <1>9, <1>10, <1>11, <2>1, <3>2
    <3> QED
      BY <1>4, <1>15, <2>1, <2>2, <3>1, <3>3 DEF Shape
  <2>3. CASE Younger = 0
    <3>1. h = 1 - t
      BY <1>3, <1>5, <1>15, <2>3 DEF Shape
    <3>2. spec_entry'[t] = NoEntry /\ spec_entry'[1 - t] = entry
      BY <1>1, <2>1, <3>1
    <3>3. Older' = dec.pc /\ Younger' = 0 /\ h' = 1 - t'
      BY <1>1, <1>10, <1>11, <2>1, <3>1, <3>2
    <3> QED
      BY <1>4, <1>15, <2>1, <2>3, <3>3 DEF Shape
  <2> QED
    BY <2>2, <2>3
<1>16. CASE ~spec_wrong /\ spec_enter /\ ~spec_resolve
  <2>1. /\ spec_entry' = [spec_entry EXCEPT ![h] = entry]
        /\ h' = 1 - h /\ t' = t /\ state_e' = "SPEC_E"
    BY <1>7, <1>12, <1>14, <1>16
  <2>2. CASE Older = 0
    <3>1. h = t /\ Younger = 0
      BY <1>3, <2>2 DEF Shape
    <3>2. spec_entry'[t] = entry /\ spec_entry'[1 - t] = spec_entry[1 - t]
      BY <1>1, <2>1, <3>1
    <3>3. Older' = dec.pc /\ Younger' = 0 /\ h' = 1 - t'
      BY <1>1, <1>9, <1>10, <1>11, <2>1, <3>1, <3>2
    <3> QED
      BY <1>4, <1>16, <2>1, <2>2, <3>3 DEF Shape
  <2>3. CASE Older # 0
    <3>1. Younger = 0
      BY <1>9, <1>16, <2>3 DEF LabelInv, InFlight, spec_resolve
    <3>2. h = 1 - t
      BY <1>3, <2>3, <3>1 DEF Shape
    <3>3. spec_entry'[t] = spec_entry[t] /\ spec_entry'[1 - t] = entry
      BY <1>1, <2>1, <3>2
    <3>4. Older' = Older /\ Younger' = dec.pc /\ h' = t'
      BY <1>1, <1>9, <1>10, <1>11, <2>1, <3>2, <3>3
    <3> QED
      BY <1>4, <1>16, <2>1, <2>3, <3>1, <3>4 DEF Shape
  <2> QED
    BY <2>2, <2>3
<1>17. CASE ~spec_wrong /\ ~spec_enter /\ spec_resolve
  <2>1. /\ spec_entry' = [spec_entry EXCEPT ![t] = NoEntry]
        /\ h' = h /\ t' = 1 - t
    BY <1>7, <1>14, <1>17
  <2>2. spec_entry'[t] = NoEntry /\ spec_entry'[1 - t] = spec_entry[1 - t]
    BY <1>1, <2>1
  <2>3. Older' = Younger /\ Younger' = 0
    BY <1>1, <1>9, <1>10, <1>11, <2>1, <2>2
  <2>4. CASE Younger # 0
    <3>1. h = t /\ branch_queued
      BY <1>3, <1>5, <1>8, <1>9, <1>17, <2>4 DEF Shape
    <3>2. state_e' = "SPEC_E" /\ h' = 1 - t'
      BY <1>1, <1>5, <1>12, <1>17, <2>1, <3>1
    <3> QED
      BY <1>17, <2>3, <2>4, <3>2 DEF Shape
  <2>5. CASE Younger = 0
    <3>1. h = 1 - t
      BY <1>3, <1>5, <1>17, <2>5 DEF Shape
    <3>2. spec_entry[h].pc = 0
      BY <1>9, <2>5, <3>1
    <3>3. state_e' = "NS_E" /\ h' = t'
      BY <1>7, <1>8, <1>12, <1>17, <2>1, <3>1, <3>2
    <3> QED
      BY <1>17, <2>3, <2>5, <3>3 DEF Shape
  <2> QED
    BY <2>4, <2>5
<1>18. CASE ~spec_wrong /\ ~spec_enter /\ ~spec_resolve
  <2>1. spec_entry' = spec_entry /\ h' = h /\ t' = t /\ state_e' = state_e
    BY <1>7, <1>12, <1>14, <1>18
  <2>2. Older' = Older /\ Younger' = Younger
    BY <1>9, <1>10, <2>1
  <2> QED
    BY <1>3, <1>18, <2>1, <2>2 DEF Shape
<1> QED
  BY <1>13, <1>15, <1>16, <1>17, <1>18

\* After a redirect, also one that waits, no branch is in flight.
LEMMA RedirectEndsSpeculation ==
  ASSUME LabelInv, NEW f, NEW pred, Cycle(f, pred), stale_ic_miss \/ redirect_req
  PROVE  state_e' = "NS_E" /\ ~spec_enter
<1>1. ~spec_enter /\ SpecEdge(pred)
  BY Edges DEF spec_enter
<1>2. CASE state_e = "NS_E"
  BY <1>1, <1>2, NoneInFlight
<1>3. CASE spec_wrong
  <2>1. Older' = 0 /\ Shape'
    BY <1>3, EntryCases
  <2> QED
    BY <1>1, <2>1 DEF Shape
<1>4. CASE trap \in {"TRAP_WRITE", "RESTORE_WRITE"} /\ state_e # "NS_E" /\ ~spec_wrong
  <2>1. exe.pc = 0 /\ Quiet
    BY <1>4 DEF LabelInv, Tags, Quiet
  <2>2. Older # 0
    BY <1>4 DEF LabelInv, Entries, Shape
  <2>3. Older = mem.pc /\ Younger = 0
    BY <2>1, <2>2 DEF LabelInv, InFlight
  <2>4. spec_resolve
    BY <2>2, <2>3 DEF spec_resolve, Older
  <2>5. Older' = 0 /\ Shape'
    BY <1>1, <1>4, <2>3, <2>4, EntryCases
  <2> QED
    BY <1>1, <2>5 DEF Shape
<1>5. stale_ic_miss \/ wfi_resume => state_e = "NS_E"
  BY DEF LabelInv, Stale, wfi_resume, CoreInv, TypeOK
<1> QED
  BY <1>1, <1>2, <1>3, <1>4, <1>5 DEF redirect_req

-----------------------------------------------------------------------------
(* The parts of the invariant, each taken through a cycle.                  *)

\* The label in DEC is the instruction's own when it is sent on.
LEMMA SentIsOwn ==
  ASSUME LabelInv, NEW f, NEW pred, Cycle(f, pred), ~f.bubble, ~stall_be
  PROVE  Own(dec)
<1>1. Sending(f)
  BY Edges
<1>2. ~stale_ic_miss
  BY <1>1 DEF Sending
<1>3. CASE wfi_launch
  BY <1>2, <1>3, DecOwn DEF wfi_launch
<1>4. CASE ~wfi_launch
  <2>1. Free /\ ready
    BY <1>1, <1>4 DEF Sending
  <2> QED
    BY <2>1, FreeFacts, DecOwn
<1> QED
  BY <1>3, <1>4

\* What is sent to EXE is labelled with its own address, and goes on under it.
LEMMA LabelsStep ==
  ASSUME LabelInv, NEW f, NEW pred, Cycle(f, pred)
  PROVE  Labels'
<1>1. Own(exe) /\ Own(mem)
  BY DEF LabelInv, Labels
<1>2. ~f.bubble /\ ~stall_be => Own(dec)
  BY SentIsOwn
<1>3. Own(exe)'
  BY <1>1, <1>2, ExeCases DEF Own
<1>4. Own(mem)'
  BY <1>1, MemCases DEF Own
<1> QED
  BY <1>3, <1>4 DEF Labels

\* The slots keep their form.
LEMMA FormsStep ==
  ASSUME LabelInv, NEW f, NEW pred, Cycle(f, pred)
  PROVE  Forms'
<1>1. prog' = prog /\ HoldEdge
  BY Edges
<1>2. Form(exe) /\ Form(mem)
  BY DEF LabelInv, Forms
<1>3. dec_d'.inst = 0 <=> dec_d'.pc = 0
  BY <1>1, DecForm DEF HoldEdge
<1>4. Form(exe)'
  <2>1. CASE exe'.pc = 0 /\ exe'.inst = 0 /\ ~exe'.live /\ exe'.tag = "none"
    BY <2>1 DEF Form
  <2>2. CASE exe' = exe
    BY <1>1, <1>2, <2>2 DEF Form, K
  <2>3. CASE /\ exe'.pc = dec.pc /\ exe'.inst = dec.inst /\ exe'.tag = tag_dec(f.bubble)
             /\ exe'.live <=> dec.inst # 0 /\ tag_dec(f.bubble) # "trapped"
    <3>1. exe'.tag = "mret" => K(dec.inst) = "mret"
      BY <2>3 DEF tag_dec, mret_catch
    <3>2. exe'.tag = "mret" => KindAt(prog', exe'.inst) = "mret"
      BY <1>1, <2>3, <3>1 DEF K
    <3> QED
      BY <2>3, <3>2, DecForm DEF Form, K
  <2> QED
    BY <2>1, <2>2, <2>3, ExeCases
<1>5. Form(mem)'
  <2>1. CASE mem' = mem
    BY <1>1, <1>2, <2>1 DEF Form, K
  <2>2. CASE /\ mem'.pc = exe.pc /\ mem'.inst = exe.inst /\ mem'.live = exe.live
             /\ mem'.tag = exe.tag
    BY <1>1, <1>2, <2>2 DEF Form, K
  <2>3. CASE mem'.pc = 0 /\ mem'.inst = 0 /\ ~mem'.live /\ mem'.tag = "none"
    BY <2>3 DEF Form
  <2> QED
    BY <2>1, <2>2, <2>3, MemCases
<1> QED
  BY <1>3, <1>4, <1>5 DEF Forms

\* Nothing happens before the first request.
LEMMA ResetStep ==
  ASSUME LabelInv, NEW f, NEW pred, Cycle(f, pred)
  PROVE  Reset'
<1> SUFFICES ASSUME fe' = "RST"
             PROVE  /\ trap' = "IDLE" /\ ~stale_ic_miss' /\ state_e' = "NS_E"
                    /\ exe'.pc = 0 /\ dec_d' = Empty /\ ic'.addr = 0
  BY DEF Reset
<1>1. FrontEdge(f) /\ HoldEdge /\ SpecEdge(pred)
  BY Edges
<1>2. fe = "RST" /\ ~ready
  BY <1>1 DEF FrontEdge, NextFe, Onward, AfterJump, LabelInv, CoreInv, TypeOK
<1>3. /\ trap = "IDLE" /\ ~stale_ic_miss /\ state_e = "NS_E"
      /\ exe.pc = 0 /\ dec_d = Empty /\ ic.addr = 0
  BY <1>2 DEF LabelInv, Reset
<1>4. dec = Empty /\ dec.inst = 0 /\ dec.pc = 0
  BY <1>2, <1>3 DEF dec, rsp_valid, Empty
<1>5. ~spec_wrong /\ ~redirect_req
  BY <1>3, NoneInFlight DEF redirect_req, wfi_resume
<1>6. ~spec_enter
  BY <1>4, KindOfNothing DEF spec_enter, branch_in_dec
<1>7. trap' = "IDLE"
  <2>1. ~catch(f.bubble) /\ ~wfi_catch(f.bubble) /\ ~mret_catch(f.bubble)
    BY <1>3, <1>4 DEF catch, wfi_catch, mret_catch
  <2> QED
    BY <1>3, <2>1, TrapMoves DEF Quiet
<1>8. ~stale_ic_miss'
  BY <1>1, <1>3, <1>5 DEF FrontEdge
<1>9. state_e' = "NS_E"
  BY <1>1, <1>3, <1>6, NoneInFlight
<1>10. exe'.pc = 0
  BY <1>3, <1>4, ExeCases
<1>11. dec_d' = Empty
  BY <1>1, <1>4 DEF HoldEdge
<1>12. ic'.addr = 0
  BY <1>2, <1>3, IcCases DEF LabelInv
<1> QED
  BY <1>7, <1>8, <1>9, <1>10, <1>11, <1>12

\* What the front end waits for was asked for.
LEMMA AskedStep ==
  ASSUME LabelInv, NEW f, NEW pred, Cycle(f, pred)
  PROVE  Asked'
<1>1. FrontEdge(f) /\ Asking(f)
  BY Edges
<1>2. CASE f.req /\ ready /\ ic'.addr = f.pc
  BY <1>1, <1>2 DEF Asking, Asked
<1>3. CASE ~ready /\ ic'.addr = ic.addr
  <2>1. fe = "RST" => fe' = "RST"
    BY <1>1, <1>3 DEF FrontEdge, NextFe
  <2>2. fe # "RST" => ic.addr # 0
    BY <1>3 DEF LabelInv, Asked
  <2> QED
    BY <1>3, <2>1, <2>2 DEF Asked
<1>4. CASE ready /\ ~f.req /\ ic'.addr = 0 /\ ready'
  <2>1. ~stale_ic_miss /\ ~redirect_req
    BY <1>1, <1>4 DEF Asking
  <2>2. Free => fe' \in {"STALL_BE", "STALL_FLOW"}
    BY <1>1, <1>4 DEF Asking, FrontEdge
  <2>3. pending => Quiet'
    <3>1. pending => Quiet
      BY DEF pending, Quiet
    <3> QED
      BY <2>1, <3>1, TrapMoves
  <2> QED
    BY <1>4, <2>1, <2>2, <2>3 DEF Asked, Free
<1> QED
  BY <1>2, <1>3, <1>4, IcCases DEF LabelInv

\* The PC moves with the requests, but behind an illegal instruction, which traps.
LEMMA AnswerStep ==
  ASSUME LabelInv, NEW f, NEW pred, Cycle(f, pred)
  PROVE  Answer'
<1> SUFFICES ASSUME ic'.addr # 0, ~stale_ic_miss',
                    trap' \notin {"TRAP_PENDING", "TRAP_WRITE"}
             PROVE  ic'.addr = pc_fet_last'
  BY DEF Answer
<1>1. FrontEdge(f) /\ Asking(f)
  BY Edges
<1>2. pc_fet_last' = IF f.we THEN f.pc ELSE pc_fet_last
  BY <1>1 DEF FrontEdge
<1>3. CASE f.req /\ ready /\ ic'.addr = f.pc
  <2>1. ~catch(f.bubble)
    BY CaughtMoves
  <2>2. ~f.we => f.pc = pc_fet_last
    BY <1>1, <1>3, <2>1 DEF Asking
  <2> QED
    BY <1>2, <1>3, <2>2
<1>4. CASE ~ready /\ ic'.addr = ic.addr
  <2>1. ~stale_ic_miss /\ ~redirect_req
    BY <1>1, <1>4 DEF FrontEdge
  <2>2. ~f.we
    BY <1>1, <1>4, <2>1 DEF Asking
  <2>3. trap \notin {"TRAP_PENDING", "TRAP_WRITE"}
    <3>1. trap # "TRAP_WRITE"
      BY <2>1 DEF redirect_req
    <3>2. CASE trap = "TRAP_PENDING"
      <4>1. ~spec_wrong
        BY <2>1 DEF redirect_req
      <4>2. trap' = NextTrap(f.bubble)
        BY Edges DEF TrapEdge
      <4> QED
        BY <3>2, <4>1, <4>2 DEF NextTrap
    <3> QED
      BY <3>1, <3>2
  <2> QED
    BY <1>2, <1>4, <2>1, <2>2, <2>3 DEF LabelInv, Answer
<1>5. CASE ready /\ ~f.req /\ ic'.addr = 0 /\ ready'
  BY <1>5
<1> QED
  BY <1>3, <1>4, <1>5, IcCases DEF LabelInv

\* What comes to be held was decoded under its own address.
LEMMA HeldOwnStep ==
  ASSUME LabelInv, NEW f, NEW pred, Cycle(f, pred)
  PROVE  HeldOwn'
<1> SUFFICES ASSUME be_stalled_d'
             PROVE  /\ ready' /\ ic'.addr = 0 /\ ~stale_ic_miss' /\ ~Quiet' => Own(dec_d)'
                    /\ trap' = "WFI" => Own(dec_d)'
  BY DEF HeldOwn
<1>1. FrontEdge(f) /\ Asking(f) /\ HoldEdge
  BY Edges
<1>2. dec_d' = dec /\ stall_be
  BY <1>1 DEF HoldEdge
<1>3. Own(dec) => Own(dec_d)'
  BY <1>2 DEF Own
<1>4. ASSUME trap' = "WFI" PROVE Own(dec)
  <2>1. ~wfi_catch(f.bubble)
    BY <1>2, NoneCaught
  <2>2. trap = "WFI"
    BY <1>4, <2>1, TrapMoves
  <2>3. ~stale_ic_miss
    BY <2>2 DEF LabelInv, Stale
  <2> QED
    BY <2>2, <2>3, DecOwn
<1>5. ASSUME ic'.addr = 0, ~Quiet' PROVE Own(dec)
  <2>1. CASE f.req /\ ready /\ ic'.addr = f.pc
    BY <1>1, <1>5, <2>1 DEF Asking
  <2>2. CASE ~ready /\ ic'.addr = ic.addr
    <3>1. fe = "RST"
      BY <1>5, <2>2 DEF LabelInv, Asked
    <3>2. dec_d.inst = 0
      BY <3>1 DEF LabelInv, Reset, Empty
    <3> QED
      BY <2>2, <3>2, DecIs DEF Own
  <2>3. CASE ready /\ ~f.req /\ ic'.addr = 0 /\ ready'
    <3>1. ~stale_ic_miss /\ ~redirect_req
      BY <1>1, <2>3 DEF Asking
    <3>2. ~Quiet
      BY <1>5, <3>1, TrapMoves
    <3> QED
      BY <2>3, <3>1, <3>2, DecOwn
  <2> QED
    BY <2>1, <2>2, <2>3, IcCases DEF LabelInv
<1> QED
  BY <1>3, <1>4, <1>5

\* While the back end stalls and the cache is ready, the front end does not run on.
LEMMA StallIsSeen ==
  ASSUME LabelInv, stall_be, ~spec_wrong
  PROVE  NextFe # "STEADY"
  BY DEF NextFe, Onward, AfterJump, LabelInv, CoreInv, TypeOK

\* A wfi in EXE, under its own address, is not the jump in DEC.
LEMMA SleeperIsNoJump ==
  ASSUME LabelInv, K(exe.inst) = "wfi", Own(dec), K(dec.inst) = "jalr"
  PROVE  exe.pc # dec.pc
<1>1. exe.inst # 0 /\ dec.inst # 0
  BY KindOfNothing
<1>2. exe.pc = exe.inst /\ dec.pc = dec.inst
  BY <1>1 DEF LabelInv, Labels, Own
<1> QED
  BY <1>2

\* What is held while the cache serves a redirect's request comes too late to be followed.
LEMMA HeldLateStep ==
  ASSUME LabelInv, NEW f, NEW pred, Cycle(f, pred)
  PROVE  HeldLate'
<1>1. FrontEdge(f) /\ Asking(f) /\ HoldEdge /\ SpecEdge(pred) /\ prog' = prog
  BY Edges
<1>2. dec_d' = dec /\ be_stalled_d' = stall_be /\ fe' = NextFe
  BY <1>1 DEF HoldEdge, FrontEdge
<1> SUFFICES ASSUME stall_be, ~ready', ~stale_ic_miss', ~Quiet', dec.inst # 0
             PROVE  /\ state_e' = "NS_E"
                    /\ K(dec.inst) = "jalr" => exe'.pc # dec.pc
                    /\ NextFe = "STEADY" => dc' > 0
  BY <1>1, <1>2 DEF HeldLate, K
<1>3. dec.pc # 0
  BY DecForm
<1>4. CASE spec_wrong
  <2>1. state_e' = "NS_E"
    BY <1>4, RedirectEndsSpeculation DEF redirect_req
  <2>2. exe'.pc = 0
    BY <1>4, WrongFacts, ExeCases
  <2>3. dc > 0 /\ dc # 1
    BY <1>4, WrongFacts
  <2>4. dc' > 0
    BY <2>3, DcCases DEF LabelInv
  <2> QED
    BY <1>3, <2>1, <2>2, <2>4
<1>5. ASSUME ~spec_wrong PROVE exe' = exe /\ NextFe # "STEADY"
  <2>1. ~bubble_exe
    BY <1>5 DEF bubble_exe
  <2> QED
    BY <1>5, <2>1, ExeCases, StallIsSeen
<1>6. CASE stale_ic_miss /\ ~spec_wrong
  <2>1. state_e' = "NS_E"
    BY <1>6, RedirectEndsSpeculation
  <2>2. ready
    BY <1>1, <1>6 DEF FrontEdge
  <2>3. CASE exe.pc = 0
    BY <1>3, <1>5, <1>6, <2>1, <2>3
  <2>4. CASE K(exe.inst) = "wfi" /\ ic.addr = pc_fet_last /\ (be_stalled_d => Own(dec_d))
    <3>1. Own(dec)
      BY <2>4, DecIs DEF Own
    <3> QED
      BY <1>5, <1>6, <2>1, <2>4, <3>1, SleeperIsNoJump
  <2> QED
    BY <1>6, <2>3, <2>4 DEF LabelInv, Stale
<1>7. CASE trap \in {"TRAP_WRITE", "RESTORE_WRITE"} /\ ~spec_wrong
  <2>1. state_e' = "NS_E"
    BY <1>7, RedirectEndsSpeculation DEF redirect_req
  <2>2. exe.pc = 0
    BY <1>7 DEF LabelInv, Tags
  <2> QED
    BY <1>3, <1>5, <1>7, <2>1, <2>2
<1>8. CASE wfi_resume /\ ~spec_wrong /\ ~stale_ic_miss
  <2>1. state_e' = "NS_E"
    BY <1>8, RedirectEndsSpeculation DEF redirect_req
  <2>2. trap = "WFI"
    BY <1>8 DEF wfi_resume
  <2>3. Own(dec)
    BY <1>8, <2>2, DecOwn
  <2>4. exe.pc = 0 \/ K(exe.inst) = "wfi"
    BY <2>2 DEF LabelInv, Asleep
  <2> QED
    BY <1>3, <1>5, <1>8, <2>1, <2>3, <2>4, SleeperIsNoJump
<1>9. CASE ~stale_ic_miss /\ ~redirect_req
  <2>1. ~spec_wrong
    BY <1>9 DEF redirect_req
  <2>2. ~Quiet
    BY <1>9, TrapMoves
  <2>3. ~pending
    BY <2>2 DEF Quiet, pending
  <2>4. ~ready
    BY <1>1, <1>9, <2>3, IcCases DEF LabelInv, Asking, Free
  <2>5. be_stalled_d /\ dec = dec_d
    BY <2>4, DecIs
  <2>6. /\ state_e = "NS_E"
        /\ K(dec.inst) = "jalr" => exe.pc # dec.pc
    BY <1>9, <2>2, <2>4, <2>5 DEF LabelInv, HeldLate
  <2>7. state_e' = "NS_E"
    BY <1>1, <2>4, <2>6, NoneInFlight DEF spec_enter
  <2> QED
    BY <1>5, <2>1, <2>6, <2>7
<1> QED
  BY <1>4, <1>6, <1>7, <1>8, <1>9 DEF redirect_req

\* An answer becomes stale by a redirect only, which empties EXE or wakes a wfi.
LEMMA StaleStep ==
  ASSUME LabelInv, NEW f, NEW pred, Cycle(f, pred)
  PROVE  Stale'
<1>1. FrontEdge(f) /\ Asking(f) /\ Sending(f) /\ HoldEdge /\ prog' = prog
  BY Edges
<1>2. /\ dec_d' = dec
      /\ pc_fet_last' = IF f.we THEN f.pc ELSE pc_fet_last
      /\ stale_ic_miss' = (~ready /\ (stale_ic_miss \/ redirect_req))
  BY <1>1 DEF HoldEdge, FrontEdge
<1> SUFFICES ASSUME ~ready, stale_ic_miss \/ redirect_req
             PROVE  /\ state_e' = "NS_E"
                    /\ trap' \notin {"WFI", "TRAP_PENDING", "TRAP_WRITE"}
                    /\ \/ exe'.pc = 0
                       \/ /\ K(exe'.inst) = "wfi" /\ ic'.addr = pc_fet_last'
                          /\ Own(dec)
  BY <1>1, <1>2 DEF Stale, K, Own
<1>3. state_e' = "NS_E"
  BY RedirectEndsSpeculation
<1>4. f.bubble /\ ic'.addr = ic.addr
  BY <1>1, IcCases DEF Sending, LabelInv
<1>5. ~catch(f.bubble) /\ ~wfi_catch(f.bubble)
  BY <1>4, NoneCaught
<1>6. exe' = exe \/ exe'.pc = 0
  BY <1>4, ExeCases
<1>7. CASE stale_ic_miss
  <2>1. trap \notin {"WFI", "TRAP_PENDING", "TRAP_WRITE"}
    BY <1>7 DEF LabelInv, Stale
  <2>2. trap' \notin {"WFI", "TRAP_PENDING", "TRAP_WRITE"}
    BY <1>5, <2>1, TrapMoves
  <2>3. ~f.we
    BY <1>1, <1>7 DEF Asking
  <2>4. (be_stalled_d => Own(dec_d)) => Own(dec)
    BY DecIs DEF Own
  <2>5. \/ exe.pc = 0
        \/ K(exe.inst) = "wfi" /\ ic.addr = pc_fet_last /\ (be_stalled_d => Own(dec_d))
    BY <1>7 DEF LabelInv, Stale
  <2> QED
    BY <1>2, <1>3, <1>4, <1>6, <2>2, <2>3, <2>4, <2>5
<1>8. CASE spec_wrong
  <2>1. trap' \notin {"WFI", "TRAP_PENDING", "TRAP_WRITE"}
    BY <1>5, <1>8, TrapMoves DEF wfi_launch
  <2>2. exe'.pc = 0
    BY <1>8, WrongFacts, ExeCases
  <2> QED
    BY <1>3, <2>1, <2>2
<1>9. CASE trap \in {"TRAP_WRITE", "RESTORE_WRITE"}
  <2>1. trap' \notin {"WFI", "TRAP_PENDING", "TRAP_WRITE"}
    BY <1>9, TrapMoves
  <2>2. exe.pc = 0
    BY <1>9 DEF LabelInv, Tags
  <2> QED
    BY <1>3, <1>6, <2>1, <2>2
<1>10. CASE wfi_resume /\ ~stale_ic_miss
  <2>1. trap = "WFI" /\ ~wfi_launch
    BY <1>10 DEF wfi_resume, wfi_launch
  <2>2. trap' \notin {"WFI", "TRAP_PENDING", "TRAP_WRITE"}
    BY <1>10, <2>1, TrapMoves
  <2>3. pc_fet_last' = pc_fet_last
    BY <1>1, <1>2, <1>10 DEF Asking
  <2>4. fe # "RST" /\ (exe.pc = 0 \/ K(exe.inst) = "wfi")
    BY <2>1 DEF LabelInv, Asleep
  <2>5. ic.addr = pc_fet_last
    BY <1>10, <2>1, <2>4 DEF LabelInv, Asked, Answer
  <2>6. Own(dec)
    BY <1>10, <2>1, DecOwn
  <2> QED
    BY <1>3, <1>4, <1>6, <2>2, <2>3, <2>4, <2>5, <2>6
<1> QED
  BY <1>7, <1>8, <1>9, <1>10 DEF redirect_req

\* A wfi goes to sleep with nothing older that can trap or jump.
LEMMA AsleepStep ==
  ASSUME LabelInv, NEW f, NEW pred, Cycle(f, pred)
  PROVE  Asleep'
<1>1. fe' = NextFe /\ Sending(f) /\ prog' = prog
  BY Edges DEF FrontEdge
<1> SUFFICES ASSUME trap' = "WFI"
             PROVE  /\ NextFe \notin {"STALL_FLOW", "RST"} /\ mem'.tag = "none"
                    /\ exe'.tag = "none" /\ (exe'.pc = 0 \/ K(exe'.inst) = "wfi")
  BY <1>1 DEF Asleep, K
<1>2. CASE trap = "WFI" /\ ~spec_wrong /\ ~wfi_resume /\ ~wfi_launch
  <2>1. /\ fe \notin {"STALL_FLOW", "RST"} /\ mem.tag = "none" /\ exe.tag = "none"
        /\ exe.pc = 0 \/ K(exe.inst) = "wfi"
    BY <1>2 DEF LabelInv, Asleep
  <2>2. pending
    BY <1>2 DEF pending
  <2>3. f.bubble
    BY <1>1, <1>2, <2>2 DEF Sending
  <2>4. ~stall_flow
    BY <2>1, <2>2 DEF stall_flow, LabelInv, Jump
  <2>5. NextFe \notin {"STALL_FLOW", "RST"}
    BY <1>2, <2>1, <2>4 DEF NextFe, Onward
  <2>6. mem'.tag = "none"
    BY <2>1, MemCases
  <2>7. exe'.tag = "none" /\ (exe'.pc = 0 \/ K(exe'.inst) = "wfi")
    BY <2>1, <2>3, ExeCases
  <2> QED
    BY <2>5, <2>6, <2>7
<1>3. CASE trap = "IDLE" /\ wfi_catch(f.bubble)
  <2>1. ~stall_be /\ ~f.bubble /\ K(dec.inst) = "wfi"
    BY <1>3 DEF wfi_catch, dec_en
  <2>2. ~wfi_launch /\ ~catch(f.bubble) /\ ~mret_catch(f.bubble)
    BY <1>3, <2>1 DEF wfi_launch, catch, mret_catch
  <2>3. Free /\ Moving
    BY <1>1, <2>1, <2>2 DEF Sending
  <2>4. ~spec_wrong /\ ~bubble_exe
    BY <2>3, FreeFacts DEF bubble_exe
  <2>5. NextFe # "STALL_FLOW"
    BY <2>1, <2>3, WaitsForDec DEF jalr_in_dec
  <2>6. NextFe # "RST"
    BY <2>3, <2>4 DEF NextFe, Onward, Moving
  <2>7. exe'.tag = "none" /\ K(exe'.inst) = "wfi"
    BY <2>1, <2>2, <2>4, ExeCases DEF tag_dec
  <2>8. exe.tag = "none"
    BY <1>3 DEF LabelInv, Tags, Catching
  <2>9. mem'.tag = "none"
    <3>1. ~dc_stalled
      BY <2>1 DEF stall_be
    <3> QED
      BY <2>8, <3>1, MemCases
  <2> QED
    BY <2>5, <2>6, <2>7, <2>9
<1> QED
  BY <1>2, <1>3, TrapMoves

\* Only branches are entered, and the pointers follow the entries.
LEMMA EntriesStep ==
  ASSUME LabelInv, NEW f, NEW pred, Cycle(f, pred)
  PROVE  Entries'
<1>1. Shape' /\ prog' = prog
  BY Edges, EntryCases
<1>2. /\ Older # 0 => K(Older) = "branch"
      /\ Younger # 0 => K(Younger) = "branch"
  BY DEF LabelInv, Entries
<1>3. spec_enter => K(dec.pc) = "branch"
  BY EnteredIsBranch
<1>4. Older' \in {0, Older, Younger} \/ (spec_enter /\ Older' = dec.pc)
  BY EntryCases
<1>5. Younger' \in {0, Younger} \/ (spec_enter /\ Younger' = dec.pc)
  BY EntryCases
<1>6. Older' # 0 => KindAt(prog', Older') = "branch"
  BY <1>1, <1>2, <1>3, <1>4 DEF K
<1>7. Younger' # 0 => KindAt(prog', Younger') = "branch"
  BY <1>1, <1>2, <1>3, <1>5 DEF K
<1> QED
  BY <1>1, <1>6, <1>7 DEF Entries, Shape, K

\* A jump that is lost from the pipeline, on a path that is left, stays lost.
LEMMA LostStays ==
  ASSUME LabelInv, NEW f, NEW pred, Cycle(f, pred),
         fe = "STALL_FLOW", LostJump, f.bubble, ~spec_wrong
  PROVE  fe' = "STALL_FLOW" /\ LostJump'
<1>1. FrontEdge(f)
  BY Edges
<1>2. ~stall_res_flow
  BY DEF LostJump, stall_res_flow
<1>3. fe' = "STALL_FLOW"
  BY <1>1, <1>2 DEF FrontEdge, NextFe
<1>4. stalled_pc' = stalled_pc
  BY <1>1 DEF FrontEdge, save_stall_entry
<1>5. exe'.pc \in {0, exe.pc}
  BY ExeCases
<1>6. mem'.pc \in {0, exe.pc, mem.pc}
  BY MemCases
<1> QED
  BY <1>3, <1>4, <1>5, <1>6 DEF LostJump

\* When the cache has answered and nothing is asked for, nothing comes into DEC.
LEMMA QuietedNext ==
  ASSUME LabelInv, NEW f, NEW pred, Cycle(f, pred), ready, ~f.req, ~stall_be \/ dec.inst = 0
  PROVE  Quieted'
<1>1. FrontEdge(f) /\ HoldEdge
  BY Edges
<1>2. ~stale_ic_miss'
  BY <1>1 DEF FrontEdge
<1>3. ic'.addr = 0
  BY IcCases DEF LabelInv
<1>4. be_stalled_d' => dec_d'.inst = 0
  BY <1>1 DEF HoldEdge
<1> QED
  BY <1>2, <1>3, <1>4 DEF Quieted

\* While a jump is waited for, and nothing steers the front end, it goes on waiting.
LEMMA FlowWaits ==
  ASSUME LabelInv, NEW f, NEW pred, Cycle(f, pred),
         Free, fe = "STALL_FLOW", ~stall_res_flow
  PROVE  /\ f.bubble /\ ~f.req /\ ~Quiet' /\ fe' = "STALL_FLOW" /\ stalled_pc' = stalled_pc
         /\ Quieted => Quieted'
         /\ spec_enter => Quieted' /\ LostJump
<1>1. FrontEdge(f) /\ Sending(f)
  BY Edges
<1>2. f.bubble /\ ~f.req
  BY <1>1 DEF Sending
<1>3. ~Quiet /\ ~spec_wrong
  BY FreeFacts
<1>4. ~Quiet'
  <2>1. trap' = trap
    BY <1>2, <1>3, NoneCaught, TrapMoves
  <2> QED
    BY <1>3, <2>1 DEF Quiet
<1>5. fe' = "STALL_FLOW"
  BY <1>1, <1>3 DEF FrontEdge, NextFe
<1>6. stalled_pc' = stalled_pc
  BY <1>1 DEF FrontEdge, save_stall_entry
<1>7. ASSUME Quieted PROVE Quieted'
  <2>1. ready
    BY <1>7 DEF LabelInv, Asked, Quieted
  <2>2. dec.inst = 0
    BY <1>7, DecIs DEF Quieted
  <2> QED
    BY <1>2, <2>1, <2>2, QuietedNext
<1>8. ASSUME spec_enter PROVE Quieted' /\ LostJump
  <2>1. ready /\ ~stall_be
    BY <1>8, EnteredIsBranch
  <2>2. LostJump
    BY <1>1, <1>2, <1>8 DEF Sending
  <2> QED
    BY <1>2, <2>1, <2>2, QuietedNext
<1> QED
  BY <1>2, <1>4, <1>5, <1>6, <1>7, <1>8

\* A branch is in EXE or MEM until it is resolved.
LEMMA InFlightStep ==
  ASSUME LabelInv, NEW f, NEW pred, Cycle(f, pred)
  PROVE  InFlight'
<1> DEFINE Held(p) == p = exe'.pc \/ p = mem'.pc
           Wait == fe = "STALL_FLOW" /\ ~Quiet /\ Quieted /\ LostJump
<1>1. Sending(f)
  BY Edges
<1>2. /\ Older # 0 => Older = exe.pc \/ Older = mem.pc \/ Wait
      /\ Younger # 0 => Older = mem.pc /\ Younger = exe.pc
  BY DEF LabelInv, InFlight
<1>3. spec_resolve <=> Older # 0 /\ Older = mem.pc
  BY DEF spec_resolve, Older
<1>4. ~spec_wrong => ~bubble_exe
  BY DEF bubble_exe
\* What is in EXE stays there or goes on to MEM.
<1>5. ~bubble_exe => Held(exe.pc)
  <2>1. CASE stall_be /\ ~bubble_exe
    BY <2>1, ExeCases
  <2>2. CASE ~stall_be /\ ~bubble_exe
    <3>1. leaves_exe /\ ~dc_stalled
      BY <2>2 DEF leaves_exe, stall_be
    <3> QED
      BY <3>1, MemCases
  <2> QED
    BY <2>1, <2>2
<1>6. CASE spec_wrong
  BY <1>6, EntryCases DEF InFlight
<1>7. CASE ~spec_wrong /\ spec_enter
  <2>1. Free /\ ready /\ ~stall_be
    BY <1>7, EnteredIsBranch
  <2>2. mem'.pc = exe.pc
    <3>1. leaves_exe /\ ~dc_stalled
      BY <1>4, <1>7, <2>1 DEF leaves_exe, stall_be
    <3> QED
      BY <3>1, MemCases
  <2>3. CASE ~f.bubble /\ Moving
    <3>1. exe'.pc = dec.pc
      BY <1>4, <1>7, <2>1, <2>3, ExeCases
    <3>2. ~Wait
      BY <2>3 DEF Moving
    <3>3. Older # 0 /\ ~spec_resolve => Older = exe.pc
      BY <1>2, <1>3, <3>2
    <3>4. Younger # 0 => Younger = exe.pc
      BY <1>2
    <3>5. /\ Older' # 0 => Older' = exe'.pc \/ Older' = mem'.pc
          /\ Younger' # 0 => Older' = mem'.pc /\ Younger' = exe'.pc
      BY <1>7, <2>2, <3>1, <3>3, <3>4, EntryCases
    <3> QED
      BY <3>5 DEF InFlight
  <2>4. CASE fe = "STALL_FLOW" /\ LostJump
    <3>1. ~stall_res_flow
      BY <2>4 DEF LostJump, stall_res_flow
    <3>2. f.bubble /\ ~Quiet' /\ fe' = "STALL_FLOW" /\ Quieted'
      BY <1>7, <2>1, <2>4, <3>1, FlowWaits
    <3>3. LostJump'
      BY <1>7, <2>4, <3>2, LostStays
    <3>4. ~Quieted
      <4>1. dec.inst # 0
        BY <1>7, EnteredIsBranch
      <4> QED
        BY <4>1, DecIs DEF Quieted
    <3>5. state_e = "NS_E"
      BY <2>1, <2>4, <3>4, FreeFacts DEF LabelInv, Flow
    <3>6. Older = 0 /\ ~spec_resolve
      BY <3>5, NoneInFlight
    <3>7. Younger' = 0
      BY <1>7, <3>6, EntryCases
    <3> QED
      BY <3>2, <3>3, <3>7 DEF InFlight
  <2> QED
    BY <1>1, <1>7, <2>3, <2>4 DEF Sending
<1>8. CASE ~spec_wrong /\ ~spec_enter /\ spec_resolve
  <2>1. Older' = Younger /\ Younger' = 0
    BY <1>8, EntryCases
  <2>2. Younger # 0 => Held(Younger)
    BY <1>2, <1>4, <1>5, <1>8
  <2> QED
    BY <2>1, <2>2 DEF InFlight
<1>9. CASE ~spec_wrong /\ ~spec_enter /\ ~spec_resolve
  <2>1. Older' = Older /\ Younger' = Younger
    BY <1>9, EntryCases
  <2>2. Younger = 0
    BY <1>2, <1>3, <1>9, <2>1 DEF LabelInv, Entries, Shape
  <2>3. CASE Older = 0
    BY <2>1, <2>2, <2>3 DEF InFlight
  <2>4. CASE Older # 0 /\ Older = exe.pc
    BY <1>4, <1>5, <1>9, <2>1, <2>2, <2>4 DEF InFlight
  <2>5. CASE Older # 0 /\ Wait
    <3>1. Free
      <4>1. ~stale_ic_miss /\ ~Quiet
        BY <2>5 DEF Quieted
      <4> QED
        BY <1>9, <4>1 DEF Free, redirect_req, pending, Quiet, wfi_resume
    <3>2. ~stall_res_flow
      BY <2>5 DEF LostJump, stall_res_flow
    <3>3. f.bubble /\ ~Quiet' /\ fe' = "STALL_FLOW" /\ Quieted'
      BY <2>5, <3>1, <3>2, FlowWaits
    <3>4. LostJump'
      BY <1>9, <2>5, <3>3, LostStays
    <3> QED
      BY <2>1, <2>2, <3>3, <3>4 DEF InFlight
  <2> QED
    BY <1>2, <1>3, <1>9, <2>3, <2>4, <2>5
<1> QED
  BY <1>6, <1>7, <1>8, <1>9

\* Once a jump is waited for, nothing more is asked for.
LEMMA FlowStep ==
  ASSUME LabelInv, NEW f, NEW pred, Cycle(f, pred)
  PROVE  Flow'
<1>1. FrontEdge(f) /\ Sending(f) /\ SpecEdge(pred)
  BY Edges
<1> SUFFICES ASSUME NextFe = "STALL_FLOW", ~Quiet'
             PROVE  Quieted' \/ (LostJump' /\ state_e' = "NS_E")
  BY <1>1 DEF Flow, FrontEdge
<1>2. ~spec_wrong
  BY DEF NextFe, LabelInv, Reset, Entries, spec_wrong, spec_resolve, Older
<1>3. stale_ic_miss \/ redirect_req => f.bubble /\ state_e' = "NS_E"
  BY <1>1, RedirectEndsSpeculation DEF Sending
<1>4. CASE fe = "STALL_FLOW"
  <2>1. ~stall_res_flow
    BY <1>2, <1>4 DEF NextFe, AfterJump
  <2>2. CASE redirect_req /\ Quiet
    <3>1. trap \in {"TRAP_WRITE", "RESTORE_WRITE"}
      BY <1>2, <1>4, <2>2 DEF redirect_req, wfi_resume, LabelInv, Asleep
    <3>2. exe.pc = 0
      BY <3>1 DEF LabelInv, Tags
    <3>3. LostJump
      BY <2>1, <3>2 DEF stall_res_flow, LostJump
    <3> QED
      BY <1>2, <1>3, <1>4, <2>2, <3>3, LostStays
  <2>3. CASE ~Quiet /\ stale_ic_miss
    <3>1. LostJump
      BY <1>4, <2>3 DEF LabelInv, Flow, Quieted
    <3> QED
      BY <1>2, <1>3, <1>4, <2>3, <3>1, LostStays
  <2>4. CASE ~Quiet /\ ~stale_ic_miss
    <3>1. Free
      BY <1>2, <2>4 DEF Free, redirect_req, pending, Quiet, wfi_resume
    <3>2. /\ f.bubble /\ (Quieted => Quieted')
          /\ spec_enter => Quieted'
      BY <1>4, <2>1, <3>1, FlowWaits
    <3>3. CASE LostJump /\ state_e = "NS_E" /\ ~spec_enter
      BY <1>1, <1>2, <1>4, <3>2, <3>3, LostStays, NoneInFlight
    <3> QED
      BY <1>4, <2>4, <3>2, <3>3 DEF LabelInv, Flow
  <2> QED
    BY <2>2, <2>3, <2>4, TrapMoves
<1>5. CASE fe # "STALL_FLOW"
  <2>1. ~stall_be /\ stall_flow /\ Moving /\ save_stall_entry
    <3>1. fe # "RST" /\ (fe = "STALL_FE_IC" => ready) /\ Onward = "STALL_FLOW"
      BY <1>2, <1>5 DEF NextFe
    <3>2. ~stall_be /\ stall_flow
      BY <3>1 DEF Onward
    <3> QED
      BY <1>5, <3>1, <3>2 DEF Moving, save_stall_entry, LabelInv, CoreInv, TypeOK
  <2>2. ~In(exe, {"jalr"})
    BY <1>5 DEF LabelInv, Jump
  <2>3. jalr_in_dec /\ ~pending /\ ~stale_ic_miss
    BY <2>1, <2>2 DEF stall_flow
  <2>4. dec.inst # 0
    BY <2>3, KindOfNothing DEF jalr_in_dec
  <2>5. dec.pc # 0
    BY <2>4, DecForm
  <2>6. stalled_pc' = dec.pc
    BY <1>1, <2>1 DEF FrontEdge
  <2>7. mem'.pc = exe.pc
    <3>1. leaves_exe /\ ~dc_stalled
      BY <1>2, <2>1 DEF leaves_exe, stall_be, bubble_exe
    <3> QED
      BY <3>1, MemCases
  <2>8. f.bubble => exe'.pc = 0
    BY <1>2, <2>1, ExeCases DEF bubble_exe
  <2>9. CASE redirect_req
    <3>1. trap \in {"TRAP_WRITE", "RESTORE_WRITE"}
      BY <1>2, <2>3, <2>9 DEF redirect_req, wfi_resume, pending
    <3>2. exe.pc = 0
      BY <3>1 DEF LabelInv, Tags
    <3> QED
      BY <1>3, <2>5, <2>6, <2>7, <2>8, <2>9, <3>2 DEF LostJump
  <2>10. CASE ~redirect_req
    <3>1. Free
      BY <2>3, <2>10 DEF Free
    <3>2. ~f.req /\ (ready \/ (f.bubble /\ be_stalled_d))
      BY <1>1, <1>5, <3>1 DEF Sending
    <3>3. CASE ready
      BY <2>1, <3>2, <3>3, QuietedNext
    <3>4. CASE ~ready
      <4>1. dec = dec_d /\ be_stalled_d /\ f.bubble
        BY <3>2, <3>4, DecIs
      <4>2. state_e = "NS_E" /\ exe.pc # dec.pc
        BY <2>3, <2>4, <3>1, <3>4, <4>1, FreeFacts DEF LabelInv, HeldLate, jalr_in_dec
      <4>3. state_e' = "NS_E"
        BY <1>1, <3>4, <4>2, NoneInFlight DEF spec_enter
      <4> QED
        BY <2>5, <2>6, <2>7, <2>8, <4>1, <4>2, <4>3 DEF LostJump
    <3> QED
      BY <3>3, <3>4
  <2> QED
    BY <2>9, <2>10
<1> QED
  BY <1>4, <1>5

\* A jump is sent on only in the cycle the front end begins to wait for it.
LEMMA JumpStep ==
  ASSUME LabelInv, NEW f, NEW pred, Cycle(f, pred)
  PROVE  Jump'
<1>1. FrontEdge(f) /\ Sending(f) /\ prog' = prog
  BY Edges
<1> SUFFICES ASSUME exe'.live, K(exe'.inst) = "jalr"
             PROVE  /\ fe' = "STALL_FLOW" /\ stalled_pc' = exe'.pc /\ mem'.pc # exe'.pc
                    /\ Quieted' /\ ~Quiet'
  BY <1>1 DEF Jump, In, K
<1>2. CASE stall_be /\ ~bubble_exe /\ exe' = exe
  <2>1. In(exe, {"jalr"}) /\ exe.pc # 0
    BY <1>2 DEF In, LabelInv, Forms, Form
  <2>2. /\ fe = "STALL_FLOW" /\ stalled_pc = exe.pc /\ mem.pc # exe.pc
        /\ Quieted /\ ~Quiet
    BY <2>1 DEF LabelInv, Jump
  <2>3. ~stale_ic_miss /\ ~spec_wrong
    BY <1>2, <2>2 DEF Quieted, bubble_exe
  <2>4. Free
    BY <2>2, <2>3 DEF Free, redirect_req, pending, Quiet, wfi_resume
  <2>5. ~stall_res_flow
    BY <2>2 DEF stall_res_flow
  <2>6. ~Quiet' /\ fe' = "STALL_FLOW" /\ stalled_pc' = stalled_pc /\ Quieted'
    BY <2>2, <2>4, <2>5, FlowWaits
  <2>7. mem'.pc # exe.pc
    BY <1>2, <2>1, <2>2, MemCases DEF leaves_exe
  <2> QED
    BY <1>2, <2>2, <2>6, <2>7
<1>3. CASE /\ ~stall_be /\ ~f.bubble /\ ~bubble_exe
           /\ exe'.pc = dec.pc /\ exe'.inst = dec.inst
           /\ exe'.live <=> dec.inst # 0 /\ tag_dec(f.bubble) # "trapped"
  <2>1. tag_dec(f.bubble) # "trapped" /\ K(dec.inst) = "jalr" /\ dec.inst # 0
    BY <1>3
  <2>2. ~catch(f.bubble) /\ ~wfi_launch
    BY <2>1 DEF tag_dec, catch, mret_catch, wfi_launch
  <2>3. ~wfi_catch(f.bubble) /\ ~mret_catch(f.bubble)
    BY <2>1 DEF wfi_catch, mret_catch
  <2>4. Free /\ ready /\ Moving /\ ~f.req /\ NextFe = "STALL_FLOW" /\ save_stall_entry
    BY <1>1, <1>3, <2>1, <2>2 DEF Sending, jalr_in_dec
  <2>5. fe' = "STALL_FLOW" /\ stalled_pc' = exe'.pc
    BY <1>1, <1>3, <2>4 DEF FrontEdge
  <2>6. Quieted'
    BY <1>3, <2>4, QuietedNext
  <2>7. ~Quiet /\ trap \in {"IDLE", "TRAPPED"} /\ ~stale_ic_miss
    BY <2>4, FreeFacts
  <2>8. ~Quiet'
    <3>1. trap' = trap
      BY <2>2, <2>3, <2>7, TrapMoves
    <3> QED
      BY <2>7, <3>1 DEF Quiet
  <2>9. mem'.pc = exe.pc
    <3>1. leaves_exe /\ ~dc_stalled
      BY <1>3 DEF leaves_exe, stall_be
    <3> QED
      BY <3>1, MemCases
  <2>10. exe.pc # dec.pc
    <3> SUFFICES ASSUME exe.pc = dec.pc PROVE FALSE
      OBVIOUS
    <3>1. dec.pc = dec.inst /\ dec.pc # 0
      BY <2>1, <2>4, <2>7, DecOwn, DecForm DEF Own
    <3>2. exe.inst # 0 /\ exe.pc = exe.inst
      BY <3>1 DEF LabelInv, Forms, Form, Labels, Own
    <3>3. exe.tag = "none"
      BY <2>7 DEF LabelInv, Tags, Catching
    <3>4. In(exe, {"jalr"})
      BY <2>1, <3>1, <3>2, <3>3 DEF In, LabelInv, Forms, Form
    <3> QED
      BY <2>4, <3>4 DEF LabelInv, Jump, Moving
  <2> QED
    BY <1>3, <2>5, <2>6, <2>8, <2>9, <2>10
<1> QED
  BY <1>2, <1>3, ExeCases

\* A miss takes more cycles than there are branches resolved in it.
LEMMA DelaysStep ==
  ASSUME LabelInv, NEW f, NEW pred, Cycle(f, pred)
  PROVE  Delays'
<1>1. spec_resolve' <=> Older' # 0 /\ Older' = mem'.pc
  BY DEF spec_resolve, Older
<1>2. spec_resolve <=> Older # 0 /\ Older = mem.pc
  BY DEF spec_resolve, Older
<1>3. CASE dc > 0 /\ dc_stalled /\ dc' = dc - 1
  <2>1. mem' = mem
    BY <1>3, MemCases
  <2>2. ~spec_enter
    BY <1>3 DEF spec_enter, stall_be
  <2>3. dc' = 1 => dc = 2
    BY <1>3, DcCases DEF LabelInv
  <2>4. dc = 2 /\ spec_resolve => Younger = 0
    BY DEF LabelInv, Delays
  <2>5. \/ Older' = 0 /\ Younger' = 0
        \/ spec_resolve /\ Older' = Younger /\ Younger' = 0
        \/ ~spec_resolve /\ Older' = Older
    BY <2>2, EntryCases
  <2>6. ~spec_resolve /\ Older' = Older => ~spec_resolve'
    BY <1>1, <1>2, <2>1
  <2>7. dc' = 1 => ~spec_resolve'
    BY <1>1, <2>3, <2>4, <2>5, <2>6
  <2>8. spec_resolve' => Younger' = 0
    BY <2>5, <2>6
  <2> QED
    BY <2>7, <2>8 DEF Delays
<1>4. CASE dc' = 0 \/ dc' > 2
  <2>1. dc' # 1 /\ dc' # 2
    BY <1>4, DcCases DEF LabelInv
  <2> QED
    BY <2>1 DEF Delays
<1> QED
  BY <1>3, <1>4, DcCases DEF LabelInv

\* A tag is sent on once, and bubbles follow it.
LEMMA TagsStep ==
  ASSUME LabelInv, NEW f, NEW pred, Cycle(f, pred)
  PROVE  Tags'
<1>1. Sending(f)
  BY Edges
<1>2. Tags
  BY DEF LabelInv
<1>3. Catching /\ ~wfi_launch => f.bubble
  BY <1>1 DEF Sending, pending, Catching
<1>4. Catching => ~wfi_launch
  BY DEF Catching, wfi_launch
<1>5. spec_wrong => bubble_exe
  BY WrongFacts
<1>6. dc' > 0 => wbk'.tag = "none"
  <2>1. CASE dc > 0
    <3>1. dc_stalled
      BY <2>1 DEF dc_stalled
    <3> QED
      BY <1>2, <2>1, <3>1, WbkCases DEF Tags
  <2>2. CASE dc = 0 /\ ~dc_stalled /\ dc' > 2 /\ In(mem, {"load"})
    <3>1. mem.live /\ K(mem.inst) = "load"
      BY <2>2 DEF In
    <3>2. mem.tag = "none"
      BY <3>1 DEF LabelInv, Forms, Form, CoreInv, TypeOK
    <3> QED
      BY <2>2, <3>2, WbkCases
  <2>3. CASE dc' = 0
    BY <2>3
  <2> QED
    BY <2>1, <2>2, <2>3, DcCases DEF LabelInv
<1>7. wbk'.tag # "none" => mem'.pc = 0 /\ mem'.tag = "none"
  <2>1. CASE dc_stalled
    BY <1>2, <2>1, WbkCases, MemCases DEF Tags, leaves_exe
  <2>2. CASE ~dc_stalled
    BY <1>2, <2>2, WbkCases, MemCases DEF Tags
  <2> QED
    BY <2>1, <2>2
<1>8. mem'.tag # "none" => exe'.pc = 0 /\ exe'.tag = "none"
  <2> SUFFICES ASSUME mem'.tag # "none" PROVE exe'.pc = 0 /\ exe'.tag = "none"
    OBVIOUS
  <2>1. CASE dc_stalled /\ mem' = mem
    <3>1. exe.pc = 0 /\ exe.tag = "none"
      BY <1>2, <2>1 DEF Tags
    <3>2. stall_be
      BY <2>1 DEF stall_be
    <3> QED
      BY <3>1, <3>2, ExeCases
  <2>2. CASE leaves_exe /\ mem'.tag = exe.tag
    <3>1. f.bubble
      BY <1>2, <1>3, <1>4, <2>2 DEF Tags
    <3> QED
      BY <2>2, <3>1, ExeCases DEF leaves_exe
  <2> QED
    BY <2>1, <2>2, MemCases
<1>9. exe'.tag # "none" => Catching'
  <2> SUFFICES ASSUME exe'.tag # "none" PROVE Catching'
    OBVIOUS
  <2>1. CASE stall_be /\ ~bubble_exe /\ exe' = exe
    <3>1. Catching /\ ~spec_wrong
      BY <1>2, <1>5, <2>1 DEF Tags
    <3>2. wbk.tag = "none"
      BY <2>1, <3>1, NothingHoldsExe
    <3>3. trap' = NextTrap(f.bubble)
      BY Edges DEF TrapEdge
    <3>4. trap' = trap
      BY <3>1, <3>2, <3>3 DEF NextTrap, Catching
    <3> QED
      BY <3>1, <3>4 DEF Catching
  <2>2. CASE exe'.tag = tag_dec(f.bubble)
    <3>1. catch(f.bubble) \/ wfi_launch \/ mret_catch(f.bubble)
      BY <2>2 DEF tag_dec
    <3> QED
      BY <3>1, CaughtMoves DEF Catching
  <2> QED
    BY <2>1, <2>2, ExeCases
<1>10. Catching' => \/ exe'.pc = 0 \/ exe'.tag # "none"
                    \/ exe'.tag = "none" /\ mem'.tag = "none" /\ wbk'.tag = "none"
  <2> SUFFICES ASSUME Catching', exe'.pc # 0, exe'.tag = "none"
               PROVE  mem'.tag = "none" /\ wbk'.tag = "none"
    OBVIOUS
  <2>1. CASE Catching
    <3>1. f.bubble
      BY <1>3, <1>4, <2>1
    <3>2. stall_be /\ ~bubble_exe /\ exe' = exe
      BY <3>1, ExeCases
    <3>3. exe.tag = "none" /\ mem.tag = "none" /\ wbk.tag = "none"
      BY <1>2, <2>1, <3>2 DEF Tags
    <3> QED
      BY <3>3, MemCases, WbkCases
  <2>2. CASE ~Catching
    <3>1. catch(f.bubble) \/ mret_catch(f.bubble) \/ (trap = "WFI" /\ wfi_launch)
      BY <2>2, TrapMoves DEF Catching
    <3>2. CASE catch(f.bubble) \/ mret_catch(f.bubble)
      <4>1. ~stall_be /\ ~f.bubble /\ ~wfi_launch
        BY <3>2 DEF catch, mret_catch, dec_en, wfi_launch
      <4>2. ~bubble_exe
        BY <1>1, <4>1 DEF Sending, redirect_req, bubble_exe
      <4>3. exe'.tag = tag_dec(f.bubble)
        BY <4>1, <4>2, ExeCases
      <4> QED
        BY <3>2, <4>1, <4>3 DEF tag_dec
    <3>3. CASE trap = "WFI" /\ wfi_launch
      <4>1. exe.tag = "none" /\ mem.tag = "none"
        BY <3>3 DEF LabelInv, Asleep
      <4>2. mem'.tag = "none"
        BY <4>1, MemCases
      <4>3. wbk'.tag = "none"
        <5>1. CASE dc_stalled
          <6>1. dc > 0
            BY <5>1 DEF dc_stalled
          <6> QED
            BY <1>2, <5>1, <6>1, WbkCases DEF Tags
        <5>2. CASE ~dc_stalled
          BY <4>1, <5>2, WbkCases
        <5> QED
          BY <5>1, <5>2
      <4> QED
        BY <4>2, <4>3
    <3> QED
      BY <3>1, <3>2, <3>3
  <2> QED
    BY <2>1, <2>2
<1>11. trap' \in {"TRAP_WRITE", "RESTORE_WRITE"} => exe'.pc = 0 /\ exe'.tag = "none"
  <2> SUFFICES ASSUME trap' \in {"TRAP_WRITE", "RESTORE_WRITE"}
               PROVE  exe'.pc = 0 /\ exe'.tag = "none"
    OBVIOUS
  <2>1. Catching /\ wbk.tag # "none"
    BY TrapMoves DEF Catching
  <2>2. ~stall_be
    BY <2>1, NothingHoldsExe
  <2>3. f.bubble
    BY <1>3, <1>4, <2>1
  <2> QED
    BY <2>2, <2>3, ExeCases
<1> QED
  BY <1>6, <1>7, <1>8, <1>9, <1>10, <1>11 DEF Tags

\* A division holds EXE while the divider works, and a flush of EXE stops the divider.
LEMMA UnitStep ==
  ASSUME LabelInv, NEW f, NEW pred, Cycle(f, pred)
  PROVE  Unit'
<1>1. prog' = prog
  BY Edges
<1>2. PICK w : DivEdge(w)
  BY DEF Cycle, Clock
<1> SUFFICES ASSUME div'.busy > 0 PROVE In(exe, {"div"}) /\ exe' = exe
  BY <1>1 DEF Unit, In, K
<1>3. div.busy \in Nat
  BY CoreAssumption DEF LabelInv, CoreInv, TypeOK
<1>4. ~spec_wrong
  BY <1>2 DEF DivEdge
<1>5. div_start \/ div.busy > 0
  BY <1>2, <1>3, <1>4 DEF DivEdge
<1>6. In(exe, {"div"})
  BY <1>5 DEF div_start, LabelInv, Unit
<1>7. stall_be /\ ~bubble_exe
  BY <1>4, <1>5 DEF stall_be, div_stalled, bubble_exe
<1>8. exe' = exe
  BY <1>7, ExeCases
<1> QED
  BY <1>6, <1>8

-----------------------------------------------------------------------------
(* The labels.                                                              *)

\* The invariant holds after reset.
LEMMA LabelInit == ASSUME Init PROVE LabelInv
<1>1. CoreInv
  BY CoreInit
<1>2. /\ exe.inst = 0 /\ exe.pc = 0 /\ exe.tag = "none" /\ ~exe.live
      /\ mem.inst = 0 /\ mem.pc = 0 /\ mem.tag = "none" /\ ~mem.live
      /\ wbk.tag = "none" /\ dec_d.inst = 0 /\ dec_d.pc = 0 /\ dec_d = Empty
      /\ ic.addr = 0 /\ ic.busy = 1 /\ dc = 1 /\ div.busy = 0 /\ ~be_stalled_d
      /\ trap = "IDLE" /\ fe = "RST" /\ ~stale_ic_miss /\ state_e = "NS_E"
      /\ se_ptr_h = 0 /\ se_ptr_t = 0
  BY DEF Init, EmptyExe, EmptyMem, EmptyWbk, Empty
<1>3. Older = 0 /\ Younger = 0
  BY DEF Init, Older, Younger, NoEntry
<1>4. ~Quiet /\ ~Catching /\ ~ready /\ ~spec_resolve
  BY <1>2, <1>3 DEF Quiet, Catching, ready, spec_resolve, Older
<1>5. Labels /\ Forms /\ Reset /\ Asked /\ Answer
  BY <1>2, <1>4 DEF Labels, Own, Forms, Form, Reset, Asked, Answer
<1>6. HeldOwn /\ HeldLate /\ Stale /\ Asleep
  BY <1>2, <1>4 DEF HeldOwn, HeldLate, Stale, Asleep
<1>7. Entries /\ InFlight /\ Flow /\ Jump
  BY <1>2, <1>3 DEF Entries, Shape, InFlight, Flow, Jump, In
<1>8. Delays /\ Tags /\ Unit
  BY <1>2, <1>4 DEF Delays, Tags, Unit
<1> QED
  BY <1>1, <1>5, <1>6, <1>7, <1>8 DEF LabelInv

\* The invariant is about the variables only.
LEMMA LabelStutters == ASSUME LabelInv, UNCHANGED vars PROVE LabelInv'
<1>1. UNCHANGED <<prog, irq, fe, stalled_pc, stall_res_flow_d, stale_ic_miss,
                 pc_fet_last, spec_entry, se_ptr_h, se_ptr_t, state_e,
                 be_stalled_d, dec_d, exe, mem, wbk, ret, inst_retired_d, div,
                 ic, dc, trap, trap_info_mepc, wfi_mepc, csr, arch>>
  BY DEF vars, front, spec, back, traps
<1>2. CoreInv'
  BY CoreStep DEF LabelInv
<1>3. Labels' /\ Forms' /\ Reset' /\ Asked' /\ Answer'
  BY <1>1 DEF LabelInv, Labels, Own, Forms, Form, K, Reset, Asked, ready, Quiet, Answer
<1>4. HeldOwn' /\ HeldLate' /\ Stale' /\ Asleep'
  BY <1>1 DEF LabelInv, HeldOwn, HeldLate, Stale, Asleep, Own, K, ready, Quiet
<1>5. Entries' /\ InFlight' /\ Flow' /\ Jump'
  BY <1>1 DEF LabelInv, Entries, Shape, InFlight, Flow, Jump, Quieted, LostJump, Older,
     Younger, In, K, Quiet
<1>6. Delays' /\ Tags' /\ Unit'
  BY <1>1 DEF LabelInv, Delays, Tags, Unit, Younger, spec_resolve, Catching, In, K
<1> QED
  BY <1>2, <1>3, <1>4, <1>5, <1>6 DEF LabelInv

\* Every step of the core keeps the invariant.
LEMMA LabelStep ==
  ASSUME LabelInv, HandlerDecodes, [Next]_vars
  PROVE  LabelInv'
<1>1. CASE Next
  <2>1. CoreInv'
    BY CoreStep DEF LabelInv
  <2>2. PICK f : FrontOK(f) /\ Asking(f) /\ Sending(f) /\ \E pred \in BOOLEAN : Clock(f, pred)
    BY <1>1, NextSteers
  <2>3. PICK pred \in BOOLEAN : Clock(f, pred)
    BY <2>2
  <2>4. Cycle(f, pred)
    BY <2>2, <2>3 DEF Cycle
  <2>5. Labels' /\ Forms' /\ Reset' /\ Asked' /\ Answer'
    BY <2>4, LabelsStep, FormsStep, ResetStep, AskedStep, AnswerStep
  <2>6. HeldOwn' /\ HeldLate' /\ Stale' /\ Asleep'
    BY <2>4, HeldOwnStep, HeldLateStep, StaleStep, AsleepStep
  <2>7. Entries' /\ InFlight' /\ Flow' /\ Jump'
    BY <2>4, EntriesStep, InFlightStep, FlowStep, JumpStep
  <2>8. Delays' /\ Tags' /\ Unit'
    BY <2>4, DelaysStep, TagsStep, UnitStep
  <2> QED
    BY <2>1, <2>5, <2>6, <2>7, <2>8 DEF LabelInv
<1>2. CASE UNCHANGED vars
  BY <1>2, LabelStutters
<1> QED
  BY <1>1, <1>2

\* Nothing illegal can be decoded where no program has it.
LEMMA LegalDecodes ==
  ASSUME \A pr \in Programs, p \in Pc : pr.code[p].kind # "fault", CoreInv
  PROVE  HandlerDecodes
<1> SUFFICES K(dec.inst) # "fault"
  BY DEF HandlerDecodes
<1>1. dec.inst \in Address /\ prog \in Programs
  BY DecType DEF CoreInv, TypeOK
<1>2. dec.inst = 0 \/ dec.inst \in Pc
  BY <1>1, AddressFacts
<1> QED
  BY <1>1, <1>2 DEF K, KindAt

\* LabelledByOwnPc: what the instruction cache answers goes through the pipeline under
\* the address it was asked for, whatever ama_riscv_fe_ctrl.sv redirects, defers and
\* drops, for every set of programs; as long as no illegal instruction is decoded in a
\* handler, which would ask for the next word without moving the PC.
THEOREM WordsKeepLabels == Spec /\ []HandlerDecodes => []LabelledByOwnPc
<1>1. Init => LabelInv
  BY LabelInit
<1>2. LabelInv /\ HandlerDecodes /\ [Next]_vars => LabelInv'
  BY LabelStep
<1>3. LabelInv => LabelledByOwnPc
  BY DEF LabelInv, Forms, Form, Labels, Own, LabelledByOwnPc
<1> QED
  BY <1>1, <1>2, <1>3, PTL DEF Spec

\* The same without a condition on the behaviour, where no program has an illegal
\* instruction.
COROLLARY LegalWordsKeepLabels ==
  ASSUME \A pr \in Programs, p \in Pc : pr.code[p].kind # "fault"
  PROVE  Spec => []LabelledByOwnPc
<1>1. CoreInv => HandlerDecodes
  BY LegalDecodes
<1>2. CoreInv /\ [Next]_vars => CoreInv'
  BY CoreStep
<1> QED
  BY <1>1, <1>2, CoreInit, WordsKeepLabels, PTL DEF Spec

-----------------------------------------------------------------------------
(* The write of the trap CSRs.                                              *)

\* The tag of a return is in the pipeline only while the trap controller waits for it,
\* and is the last thing in it; when the CSRs are written nothing there takes effect.
Drained ==
  /\ "mret" \in {exe.tag, mem.tag, wbk.tag} => trap = "RESTORE_PENDING"
  /\ wbk.tag = "mret" => exe.pc = 0 /\ exe.tag = "none"
  /\ trap \in {"TRAP_WRITE", "RESTORE_WRITE"} => ~mem.live /\ wbk.pc = 0

\* The tag of a return is waited for until it is in WBK.
LEMMA ReturnIsAwaited ==
  ASSUME LabelInv, Drained, NEW f, NEW pred, Cycle(f, pred),
         "mret" \in {exe'.tag, mem'.tag, wbk'.tag}
  PROVE  trap' = "RESTORE_PENDING"
<1>1. trap' = NextTrap(f.bubble)
  BY Edges DEF TrapEdge
<1>2. trap = "RESTORE_PENDING" /\ wbk.tag # "mret" => trap' = "RESTORE_PENDING"
  BY <1>1 DEF NextTrap
<1>3. dc_stalled => wbk.tag = "none"
  BY CoreAssumption DEF LabelInv, Tags, dc_stalled
<1>4. wbk.tag # "none" => mem.tag = "none"
  BY DEF LabelInv, Tags
<1>5. CASE exe'.tag = "mret"
  <2>1. CASE exe.tag = "mret"
    BY <1>2, <2>1 DEF Drained
  <2>2. CASE exe.tag # "mret"
    <3>1. tag_dec(f.bubble) = "mret"
      BY <1>5, <2>2, ExeCases
    <3>2. mret_catch(f.bubble)
      BY <3>1 DEF tag_dec
    <3> QED
      BY <3>2, CaughtMoves
  <2> QED
    BY <2>1, <2>2
<1>6. CASE mem'.tag = "mret"
  <2>1. (dc_stalled /\ mem.tag = "mret") \/ exe.tag = "mret"
    BY <1>6, MemCases
  <2> QED
    BY <1>2, <1>3, <2>1 DEF Drained
<1>7. CASE wbk'.tag = "mret"
  <2>1. mem.tag = "mret"
    BY <1>3, <1>7, WbkCases
  <2> QED
    BY <1>2, <1>4, <2>1 DEF Drained
<1> QED
  BY <1>5, <1>6, <1>7

\* A tag that the trap controller takes, its own or one left of an interrupt that was
\* cancelled, finds MEM empty and in EXE at most what is trapped.
LEMMA WrittenDrained ==
  ASSUME LabelInv, Drained, NEW f, NEW pred, Cycle(f, pred),
         trap' \in {"TRAP_WRITE", "RESTORE_WRITE"}
  PROVE  ~mem'.live /\ wbk'.pc = 0
<1>1. Catching /\ wbk.tag # "none"
      /\ (trap = "TRAP_PENDING" \/ wbk.tag = "mret")
  BY TrapMoves DEF Catching
<1>2. ~dc_stalled /\ mem.pc = 0
  BY <1>1, CoreAssumption DEF LabelInv, Tags, CoreInv, TypeOK, dc_stalled
<1>3. wbk'.pc = 0
  BY <1>2, WbkCases
<1>4. exe.pc = 0 \/ exe.tag = "trapped"
  <2>1. exe.pc = 0 \/ exe.tag # "none"
    BY <1>1 DEF LabelInv, Tags
  <2>2. exe.tag = "mret" => exe.pc = 0
    BY <1>1 DEF Drained
  <2> QED
    BY <2>1, <2>2 DEF LabelInv, CoreInv, TypeOK
<1>5. ~exe.live
  BY <1>4 DEF LabelInv, Forms, Form
<1> QED
  BY <1>2, <1>3, <1>5, MemCases

LEMMA DrainedStep ==
  ASSUME LabelInv, Drained, NEW f, NEW pred, Cycle(f, pred)
  PROVE  Drained'
<1>1. ASSUME wbk'.tag = "mret" PROVE exe'.pc = 0 /\ exe'.tag = "none"
  <2>1. mem.tag = "mret"
    <3>1. dc_stalled => wbk.tag = "none"
      BY CoreAssumption DEF LabelInv, Tags, dc_stalled
    <3> QED
      BY <1>1, <3>1, WbkCases
  <2>2. exe.pc = 0 /\ exe.tag = "none" /\ trap = "RESTORE_PENDING"
    BY <2>1 DEF LabelInv, Tags, Drained
  <2>3. f.bubble
    <3>1. Sending(f)
      BY Edges
    <3> QED
      BY <2>2, <3>1 DEF Sending, pending, wfi_launch
  <2> QED
    BY <2>2, <2>3, ExeCases
<1> QED
  BY <1>1, ReturnIsAwaited, WrittenDrained DEF Drained

LEMMA DrainedInvariant == Spec /\ []HandlerDecodes => [](LabelInv /\ Drained)
<1>1. Init => LabelInv /\ Drained
  <2> SUFFICES ASSUME Init PROVE LabelInv /\ Drained
    OBVIOUS
  <2>1. exe.tag = "none" /\ mem.tag = "none" /\ wbk.tag = "none" /\ trap = "IDLE"
    BY DEF Init, EmptyExe, EmptyMem, EmptyWbk
  <2> QED
    BY <2>1, LabelInit DEF Drained
<1>2. LabelInv /\ Drained /\ HandlerDecodes /\ [Next]_vars => (LabelInv /\ Drained)'
  <2> SUFFICES ASSUME LabelInv, Drained, HandlerDecodes, [Next]_vars
               PROVE  (LabelInv /\ Drained)'
    OBVIOUS
  <2>1. LabelInv'
    BY LabelStep
  <2>2. CASE UNCHANGED vars
    BY <2>1, <2>2 DEF vars, back, traps, Drained
  <2>3. CASE Next
    <3>1. PICK f : FrontOK(f) /\ Asking(f) /\ Sending(f) /\ \E pred \in BOOLEAN : Clock(f, pred)
      BY <2>3, NextSteers
    <3>2. PICK pred \in BOOLEAN : Clock(f, pred)
      BY <3>1
    <3>3. Cycle(f, pred)
      BY <3>1, <3>2 DEF Cycle
    <3> QED
      BY <2>1, <3>3, DrainedStep
  <2> QED
    BY <2>2, <2>3
<1> QED
  BY <1>1, <1>2, PTL DEF Spec

\* TrapWriteDrained: when ama_riscv_trap_ctrl.sv has the trap CSRs written, no
\* instruction that takes effect is in EXE, MEM or WBK, for every set of programs,
\* interrupts on branches that turn out mispredicted included; as long as no illegal
\* instruction is decoded in a handler.
THEOREM CsrsWrittenDrained == Spec /\ []HandlerDecodes => []TrapWriteDrained
<1>1. LabelInv /\ Drained => TrapWriteDrained
  BY DEF LabelInv, Drained, Tags, Forms, Form, TrapWriteDrained
<1> QED
  BY <1>1, DrainedInvariant, PTL

\* The same without a condition on the behaviour, where no program has an illegal
\* instruction.
COROLLARY LegalCsrsWrittenDrained ==
  ASSUME \A pr \in Programs, p \in Pc : pr.code[p].kind # "fault"
  PROVE  Spec => []TrapWriteDrained
<1>1. CoreInv => HandlerDecodes
  BY LegalDecodes
<1>2. CoreInv /\ [Next]_vars => CoreInv'
  BY CoreStep
<1> QED
  BY <1>1, <1>2, CoreInit, CsrsWrittenDrained, PTL DEF Spec

=============================================================================

-------------------------------- MODULE Core --------------------------------
(***************************************************************************)
(* Control of the five-stage core: fetch (ama_riscv_fe_ctrl.sv), traps     *)
(* (ama_riscv_trap_ctrl.sv) and the stage registers, stalls and bubbles of *)
(* ama_riscv_core.sv.  A step is a clock edge; an operator without a prime *)
(* is the wire of that name in the cycle before it.                        *)
(*                                                                         *)
(* Of data only what steers control is kept: a register is a dependence, a *)
(* branch condition and a computed jump target are choices made when the   *)
(* instruction leaves EXE, a prediction is any direction, and an access to *)
(* a cache hits or misses.  That covers every predictor the core can be    *)
(* built with and every content of the caches.                             *)
(***************************************************************************)
EXTENDS Program

CONSTANTS IcMiss,    \* cycles the instruction cache is not ready after a miss
          DcMisses,  \* the same for the data cache: clean and dirty victim
          DivWaits   \* cycles the divider is busy after its start

ASSUME CoreAssumption ==
  /\ IcMiss \in Nat \ {0}
  /\ DcMisses \subseteq Nat /\ \A d \in DcMisses : d > 2   \* a line is several words
  /\ DivWaits \subseteq Nat /\ DivWaits # {}

VARIABLES
  prog, irq,                \* memory; mip & mie, one interrupt source
  \* front end
  fe, stalled_pc, stall_res_flow_d, stale_ic_miss, pc_fet_last,
  spec_entry, se_ptr_h, se_ptr_t, state_e,
  \* stages
  be_stalled_d, dec_d, exe, mem, wbk, ret, inst_retired_d, div,
  \* caches: ic.busy, dc count the cycles until ready, ic.addr is the request
  ic, dc,
  \* traps
  trap, trap_info_mepc, wfi_mepc, csr,
  \* history: what the instructions that left EXE add up to
  arch

front == <<fe, stalled_pc, stall_res_flow_d, stale_ic_miss, pc_fet_last>>
spec == <<spec_entry, se_ptr_h, se_ptr_t, state_e>>
back == <<be_stalled_d, dec_d, exe, mem, wbk, ret, inst_retired_d, div>>
traps == <<trap, trap_info_mepc, wfi_mepc, csr>>
vars == <<prog, irq, front, spec, back, ic, dc, traps, arch>>

Empty == [pc |-> 0, inst |-> 0]
EmptyExe == [pc |-> 0, inst |-> 0, live |-> FALSE, tag |-> "none"]
EmptyMem == [pc |-> 0, inst |-> 0, live |-> FALSE, tag |-> "none",
             taken |-> FALSE, npc |-> 0]
EmptyWbk == [pc |-> 0, load |-> FALSE, tag |-> "none"]
NoEntry  == [pc |-> 0, taken |-> FALSE]

-----------------------------------------------------------------------------
(* Wires of the stages.                                                     *)

K(p) == KindAt(prog, p)

\* The stage's instruction is of that kind, and its decode has not been
\* cleared: a trapped instruction keeps its pc and its word, nothing else.
In(stage, kinds) == stage.live /\ K(stage.inst) \in kinds

ready     == ic.busy = 0
rsp_valid == ready /\ ic.addr # 0

\* An answer is taken even while the back end stalls; otherwise the
\* instruction stays in DEC by way of the hold registers.
dec == IF be_stalled_d /\ ~rsp_valid THEN dec_d
       ELSE IF rsp_valid THEN [pc |-> pc_fet_last, inst |-> ic.addr]
       ELSE Empty
branch_in_dec == K(dec.inst) = "branch"
jalr_in_dec   == K(dec.inst) = "jalr"

dc_stalled == dc > 0
hazard_to_exe ==
  /\ exe.inst # 0 /\ prog.code[exe.inst].dep
  /\ In(mem, {"load"}) \/ (wbk.load /\ dc_stalled)

spec_resolve ==
  spec_entry[se_ptr_t].pc # 0 /\ spec_entry[se_ptr_t].pc = mem.pc
spec_wrong == spec_resolve /\ spec_entry[se_ptr_t].taken # mem.taken
branch_taken == In(mem, {"branch"}) /\ mem.taken
flow_update  == In(mem, {"jalr"})

div_start ==
  In(exe, {"div"}) /\ ~div.issued /\ div.busy = 0 /\ ~hazard_to_exe
div_stalled == (div_start \/ div.busy > 0) /\ ~spec_wrong
csr_drain_done == mem.pc = 0 /\ wbk.pc = 0 /\ ~ret /\ ~inst_retired_d
csr_stalled == exe.live /\ IsCsr(K(exe.inst)) /\ ~spec_wrong /\ ~csr_drain_done

stall_be == dc_stalled \/ hazard_to_exe \/ div_stalled \/ csr_stalled

-----------------------------------------------------------------------------
(* Wires of the trap controller.                                            *)

\* Fault: the front end goes on behind an instruction that is tagged.
pending_returns_only == trap \in {"RESTORE_PENDING", "WFI"}
pending == trap \in {"TRAP_PENDING", "RESTORE_PENDING", "WFI"}
irq_pend == csr.mie /\ irq /\ state_e # "SPEC_E"
wfi_launch == trap = "WFI" /\ ~spec_wrong /\ irq_pend
wfi_resume ==
  trap = "WFI" /\ ~spec_wrong /\ ~irq_pend /\ irq /\ state_e # "SPEC_E"

\* In the cycles below, bubble is fe_ctrl.bubble_dec.
dec_en(bubble) == ~stall_be /\ ~bubble
catch(bubble) ==
  /\ dec.inst # 0 /\ dec_en(bubble) /\ K(dec.inst) # "wfi" /\ trap = "IDLE"
  /\ Raises(K(dec.inst)) \/ irq_pend
wfi_catch(bubble) ==
  dec.inst # 0 /\ dec_en(bubble) /\ trap = "IDLE" /\ K(dec.inst) = "wfi"
mret_catch(bubble) ==
  trap = "TRAPPED" /\ K(dec.inst) = "mret" /\ dec_en(bubble)

-----------------------------------------------------------------------------
(* Wires of the fetch controller.                                           *)

redirect_req ==
  spec_wrong \/ trap \in {"TRAP_WRITE", "RESTORE_WRITE"} \/ wfi_resume
stall_flow ==
  (jalr_in_dec /\ ~pending /\ ~stale_ic_miss) \/ In(exe, {"jalr"})
stall_res_flow == stalled_pc # 0 /\ stalled_pc = mem.pc
spec_enter ==
  branch_in_dec /\ ~(\/ stall_be \/ ~ready \/ stall_flow \/ spec_wrong
                     \/ pending \/ redirect_req \/ stale_ic_miss)
bubble_exe == spec_wrong /\ ~stale_ic_miss

\* Source of PC_SEL_PC.
pc_sel_pc == CASE trap = "TRAP_WRITE" -> Handler
               [] trap = "RESTORE_WRITE" -> csr.mepc
               [] OTHER -> pc_fet_last

\* The decoder lets the PC move past every instruction it understands except
\* those whose successor is not known in DEC.
decoder_pc_we == K(dec.inst) \notin {"none", "branch", "jalr", "fault"}
decoder_pc == IF K(dec.inst) = "jal"
                THEN CHOOSE t \in prog.code[dec.inst].to : TRUE
                ELSE Inc4(pc_fet_last)

-----------------------------------------------------------------------------
(* The clock edge.  f is what the front end does in the cycle: f.pc is     *)
(* pc.fet, f.we fe_ctrl.pc_we, f.req imem_req.valid, f.bubble bubble_dec.  *)

\* The state for what DEC and the caches say now.
Onward == CASE stall_be -> "STALL_BE"
            [] ~stall_be /\ stall_flow -> "STALL_FLOW"
            [] ~stall_be /\ ~stall_flow /\ ~ready -> "STALL_FE_IC"
            [] OTHER -> "STEADY"
AfterJump == CASE ~ready -> "STALL_FE_IC"
               [] ready /\ stall_be -> "STALL_BE"
               [] OTHER -> "STEADY"
NextFe ==
  CASE fe = "RST" -> IF ready THEN "STALL_FE_IC" ELSE fe
    [] fe # "RST" /\ spec_wrong -> "STEADY"
    [] fe = "STALL_FLOW" /\ ~spec_wrong ->
         IF stall_res_flow THEN AfterJump ELSE fe
    [] fe = "STALL_FE_IC" /\ ~spec_wrong -> IF ready THEN Onward ELSE fe
    [] OTHER -> Onward

\* Fault: the address is saved in STEADY only.
save_stall_entry_steady_only ==
  /\ ~stall_be /\ stall_flow
  /\ fe = "STEADY" \/ (fe = "STALL_FE_IC" /\ ready)

save_stall_entry ==
  /\ ~stall_be /\ stall_flow
  /\ fe \in {"STEADY", "STALL_BE"} \/ (fe = "STALL_FE_IC" /\ ready)

\* Fault: a redirect that meets a miss in flight is not remembered as deferred.
FrontEdgeNotDeferred(f) ==
  /\ fe' = NextFe
  /\ stalled_pc' = CASE save_stall_entry -> dec.pc
                     [] ~save_stall_entry /\ fe = "STEADY" -> 0
                     [] OTHER -> stalled_pc
  /\ stall_res_flow_d' = stall_res_flow
  /\ pc_fet_last' = IF f.we THEN f.pc ELSE pc_fet_last
  /\ stale_ic_miss' = FALSE

FrontEdge(f) ==
  /\ fe' = NextFe
  /\ stalled_pc' = CASE save_stall_entry -> dec.pc
                     [] ~save_stall_entry /\ fe = "STEADY" -> 0
                     [] OTHER -> stalled_pc
  /\ stall_res_flow_d' = stall_res_flow
  /\ pc_fet_last' = IF f.we THEN f.pc ELSE pc_fet_last
  /\ stale_ic_miss' = (~ready /\ (stale_ic_miss \/ redirect_req))

branch_queued == spec_entry[se_ptr_h].pc # 0

\* Fault: a misprediction leaves the younger branch's entry in place.
SpecEdgeNotFlushed(pred) ==
  LET clear == state_e = "SPEC_E" /\ spec_resolve
      cleared == IF clear THEN [spec_entry EXCEPT ![se_ptr_t] = NoEntry]
                 ELSE spec_entry
  IN  /\ state_e' = CASE spec_enter -> "SPEC_E"
                      [] clear /\ (spec_wrong \/ ~branch_queued)
                           /\ ~spec_enter -> "NS_E"
                      [] OTHER -> state_e
      /\ spec_entry' = IF spec_enter
                         THEN [cleared EXCEPT
                                ![se_ptr_h] = [pc |-> dec.pc, taken |-> pred]]
                         ELSE cleared
      /\ se_ptr_h' = IF spec_enter THEN 1 - se_ptr_h ELSE se_ptr_h
      /\ se_ptr_t' = IF clear THEN 1 - se_ptr_t ELSE se_ptr_t

\* At most two branches are in flight: entries are used in turn, and a third
\* branch is entered in the cycle the first one resolves.
SpecEdge(pred) ==
  LET clear == state_e = "SPEC_E" /\ spec_resolve
      cleared == IF clear THEN [spec_entry EXCEPT ![se_ptr_t] = NoEntry]
                 ELSE spec_entry
  IN  /\ state_e' = CASE spec_enter -> "SPEC_E"
                      [] clear /\ (spec_wrong \/ ~branch_queued)
                           /\ ~spec_enter -> "NS_E"
                      [] OTHER -> state_e
      /\ IF spec_wrong
           THEN /\ spec_entry' = [i \in 0..1 |-> NoEntry]
                /\ se_ptr_h' = 0 /\ se_ptr_t' = 0
           ELSE /\ spec_entry' =
                     IF spec_enter
                       THEN [cleared EXCEPT
                              ![se_ptr_h] = [pc |-> dec.pc, taken |-> pred]]
                       ELSE cleared
                /\ se_ptr_h' = IF spec_enter THEN 1 - se_ptr_h ELSE se_ptr_h
                /\ se_ptr_t' = IF clear THEN 1 - se_ptr_t ELSE se_ptr_t

tag_dec(bubble) ==
  CASE catch(bubble) \/ wfi_launch -> "trapped"
    [] mret_catch(bubble) /\ ~wfi_launch -> "mret"
    [] OTHER -> "none"

ExeEdge(f) ==
  exe' = CASE bubble_exe -> EmptyExe
           [] stall_be /\ ~bubble_exe -> exe
           [] ~stall_be /\ f.bubble /\ ~bubble_exe -> EmptyExe
           [] OTHER ->
                [pc |-> dec.pc, inst |-> dec.inst, tag |-> tag_dec(f.bubble),
                 live |-> dec.inst # 0 /\ tag_dec(f.bubble) # "trapped"]

\* The instruction in EXE moves on to MEM.
leaves_exe == ~dc_stalled /\ ~stall_be /\ ~bubble_exe

\* npc: where it leads.  A trapped branch is not decoded any more but the
\* comparator still resolves it one way or the other.
MemEdge(taken, npc) ==
  mem' = CASE dc_stalled -> mem
           [] leaves_exe -> [pc |-> exe.pc, inst |-> exe.inst,
                             live |-> exe.live, tag |-> exe.tag,
                             taken |-> taken, npc |-> npc]
           [] OTHER -> EmptyMem

RetireEdge ==
  /\ wbk' = CASE dc_stalled -> wbk
              [] ~dc_stalled /\ mem.pc = 0 /\ mem.tag # "trapped" -> EmptyWbk
              [] OTHER -> [pc |-> mem.pc, load |-> In(mem, {"load"}),
                           tag |-> mem.tag]
  /\ ret' = (~dc_stalled /\ wbk.pc # 0 /\ wbk.tag # "trapped")
  /\ inst_retired_d' = ret

HoldEdge ==
  /\ be_stalled_d' = stall_be
  /\ dec_d' = dec

\* Fault: a flush in EXE does not take back that the division was issued.
DivEdgeIssuedKept(wait) ==
  div' = [issued |-> CASE leaves_exe /\ In(exe, {"div"}) -> FALSE
                       [] div_start /\ ~leaves_exe -> TRUE
                       [] OTHER -> div.issued,
          busy |-> CASE spec_wrong -> 0
                     [] div_start /\ ~spec_wrong -> wait
                     [] OTHER -> IF div.busy > 0 THEN div.busy - 1 ELSE 0,
          for |-> CASE spec_wrong -> 0
                    [] div_start /\ ~spec_wrong -> exe.pc
                    [] OTHER -> div.for]

\* div.for is history: the instruction whose operands the divider was given.
DivEdge(wait) ==
  div' = [issued |-> CASE leaves_exe -> FALSE
                       [] div_start /\ ~leaves_exe -> TRUE
                       [] OTHER -> div.issued,
          busy |-> CASE spec_wrong -> 0
                     [] div_start /\ ~spec_wrong -> wait
                     [] OTHER -> IF div.busy > 0 THEN div.busy - 1 ELSE 0,
          for |-> CASE spec_wrong -> 0
                    [] div_start /\ ~spec_wrong -> exe.pc
                    [] OTHER -> div.for]

-----------------------------------------------------------------------------
\* The caches: a request is accepted when the cache is ready, a hit is
\* answered in the next cycle, and the instruction cache gives its answer in
\* the first cycle it is ready again after a miss.
CacheEdge(f, icwait, dcwait) ==
  /\ ic' = CASE f.req /\ ready -> [addr |-> f.pc, busy |-> icwait]
             [] ~ready -> [ic EXCEPT !.busy = @ - 1]
             [] OTHER -> [ic EXCEPT !.addr = 0]
  /\ dc' = CASE dc_stalled -> dc - 1
             [] ~dc_stalled /\ In(mem, {"load"}) -> dcwait
             [] OTHER -> 0

-----------------------------------------------------------------------------
(* Traps.                                                                   *)

NextTrap(bubble) ==
  CASE trap = "IDLE" /\ wfi_catch(bubble) -> "WFI"
    [] trap = "IDLE" /\ catch(bubble) -> "TRAP_PENDING"
    [] trap = "WFI" /\ (spec_wrong \/ wfi_resume) -> "IDLE"
    [] trap = "WFI" /\ wfi_launch -> "TRAP_PENDING"
    [] trap = "TRAP_PENDING" /\ spec_wrong -> "IDLE"
    [] trap = "TRAP_PENDING" /\ ~spec_wrong /\ wbk.tag = "trapped" -> "TRAP_WRITE"
    [] trap = "TRAP_WRITE" -> "TRAPPED"
    [] trap = "TRAPPED" /\ mret_catch(bubble) -> "RESTORE_PENDING"
    [] trap = "RESTORE_PENDING" /\ wbk.tag = "mret" -> "RESTORE_WRITE"
    [] trap = "RESTORE_WRITE" -> "IDLE"
    [] OTHER -> trap

\* Fault: mepc is taken from EXE instead of DEC.
TrapEdgeMepcOfExe(f) ==
  /\ trap' = NextTrap(f.bubble)
  /\ wfi_mepc' = IF wfi_catch(f.bubble) THEN Inc4(pc_fet_last) ELSE wfi_mepc
  /\ trap_info_mepc' = CASE wfi_launch -> wfi_mepc
                         [] catch(f.bubble) /\ ~wfi_launch -> exe.pc
                         [] OTHER -> trap_info_mepc

TrapEdge(f) ==
  /\ trap' = NextTrap(f.bubble)
  /\ wfi_mepc' = IF wfi_catch(f.bubble) THEN Inc4(pc_fet_last) ELSE wfi_mepc
  /\ trap_info_mepc' = CASE wfi_launch -> wfi_mepc
                         [] catch(f.bubble) /\ ~wfi_launch -> dec.pc
                         [] OTHER -> trap_info_mepc

\* A CSR instruction writes in the cycle it leaves EXE.
CsrEdge ==
  csr' = CASE trap = "TRAP_WRITE" ->
                [mie |-> FALSE, mpie |-> csr.mie, mepc |-> trap_info_mepc]
           [] trap = "RESTORE_WRITE" ->
                [csr EXCEPT !.mie = csr.mpie, !.mpie = TRUE]
           [] OTHER ->
                IF leaves_exe /\ exe.live /\ IsCsr(K(exe.inst))
                  THEN Written(K(exe.inst), csr) ELSE csr

\* The device raises its interrupt when it likes and holds it until the
\* program's store withdraws it; the store acts while it is in MEM.
IrqEdge ==
  irq' \in IF In(mem, {"ack"}) THEN {FALSE}
           ELSE {irq} \cup (IF prog.irqs THEN {TRUE} ELSE {})

\* History: an instruction takes effect when it leaves EXE, because nothing
\* older can undo it any more; a trap and its return when the CSRs are written.
commits == leaves_exe /\ exe.live /\ K(exe.inst) # "mret"
ArchEdge(npc) ==
  arch' = CASE trap = "TRAP_WRITE" -> [pc |-> Handler, last |-> 0]
            [] trap = "RESTORE_WRITE" -> [pc |-> csr.mepc, last |-> 0]
            [] OTHER -> IF commits THEN [pc |-> npc, last |-> exe.inst]
                        ELSE arch

-----------------------------------------------------------------------------
\* Choices of the data path, one value where nothing depends on them.
Choices(set, matters) ==
  IF matters THEN set ELSE {CHOOSE x \in set : TRUE}

Clock(f, pred) ==
  /\ FrontEdge(f) /\ SpecEdge(pred)
  /\ ExeEdge(f) /\ RetireEdge /\ HoldEdge
  /\ TrapEdge(f) /\ CsrEdge /\ IrqEdge
  /\ \E w \in Choices(DivWaits, div_start) : DivEdge(w)
  /\ \E i \in IF fe = "RST" THEN {IcMiss} ELSE Choices({0, IcMiss}, f.req /\ ready),
        d \in Choices({0} \cup DcMisses, In(mem, {"load"})) :
       CacheEdge(f, i, d)
  /\ \E npc \in IF leaves_exe /\ exe.inst # 0
                  THEN Successors(prog, exe.inst) ELSE {0},
        t \in Choices(BOOLEAN, K(exe.inst) = "branch") :
       /\ In(exe, {"branch"}) => (t <=> npc # Inc4(exe.inst))
       /\ MemEdge(t, npc) /\ ArchEdge(npc)
  /\ UNCHANGED prog

-----------------------------------------------------------------------------
(* What the front end does in a cycle: the overlay of redirects and traps  *)
(* first, then the cases of its own state.                                 *)

Fetch(p)  == [pc |-> p, we |-> TRUE, req |-> TRUE, bubble |-> FALSE]
\* No request, the PC and the instruction in DEC as they are.
Hold(b)   == [pc |-> 0, we |-> FALSE, req |-> FALSE, bubble |-> b]

\* An answer nobody wants is on its way: it is waited for and dropped in the
\* cycle the target, in pc_fet_last since the redirect, is asked for.
SinkStale == stale_ic_miss /\ ~ready /\ Clock(Hold(TRUE), FALSE)
Relaunch ==
  /\ stale_ic_miss /\ ready
  /\ Clock([Fetch(pc_sel_pc) EXCEPT !.bubble = TRUE], FALSE)

\* Asked for at once, or only remembered when a miss is being served.
Redirect ==
  /\ redirect_req /\ ~stale_ic_miss
  /\ Clock([pc |-> IF ~spec_wrong THEN pc_sel_pc
                   ELSE IF branch_taken THEN mem.npc
                   ELSE Inc4(spec_entry[se_ptr_t].pc),
            we |-> TRUE, req |-> ready, bubble |-> TRUE], FALSE)

\* Traps and wfi stop the front end; a wake-up sends its tag through DEC.
Park ==
  /\ pending /\ ~redirect_req /\ ~stale_ic_miss
  /\ Clock(Hold(~wfi_launch), FALSE)

Free == ~stale_ic_miss /\ ~redirect_req /\ ~pending

Boot ==
  /\ Free /\ fe = "RST"
  /\ Clock([pc |-> pc_sel_pc, we |-> FALSE, req |-> TRUE, bubble |-> TRUE], FALSE)

\* DEC has an instruction, or may have one, that is not waiting for an answer.
Waiting ==
  \/ fe = "STALL_FE_IC" /\ ~rsp_valid
  \/ fe = "STEADY" /\ ~stall_be /\ ~stall_flow /\ ~ready
  \/ fe = "STALL_BE" /\ ~stall_be /\ ~ready
WaitForAnswer == Free /\ Waiting /\ Clock(Hold(TRUE), FALSE)

\* A jump that resolves in STALL_BE would be neither followed nor asked for;
\* it never does, so no action stands for it.
LateJump ==
  /\ fe = "STALL_BE" /\ ~stall_be /\ ~stall_flow
  /\ stall_res_flow /\ ~stall_res_flow_d
Running ==
  /\ Free /\ fe \in {"STEADY", "STALL_FE_IC", "STALL_BE"}
  /\ ~Waiting /\ ~LateJump
WaitForBackEnd == Running /\ stall_be /\ Clock(Hold(fe = "STALL_FE_IC"), FALSE)
MeetJump == Running /\ ~stall_be /\ stall_flow /\ Clock(Hold(FALSE), FALSE)

Predict ==
  /\ Running /\ spec_enter
  /\ \E pred \in BOOLEAN :
       Clock(Fetch(IF pred THEN CHOOSE t \in prog.code[dec.inst].to : TRUE
                   ELSE Inc4(pc_fet_last)), pred)

\* In STEADY the decoder's pc_we counts, in the two other states it is forced.
FollowDecoder ==
  /\ Running /\ ~stall_be /\ ~stall_flow /\ ~spec_enter
  /\ Clock([Fetch(decoder_pc) EXCEPT !.we = (fe = "STEADY" => decoder_pc_we)],
           FALSE)

AwaitJump == Free /\ fe = "STALL_FLOW" /\ ~stall_res_flow /\ Clock(Hold(TRUE), FALSE)
FollowJump ==
  /\ Free /\ fe = "STALL_FLOW" /\ stall_res_flow
  /\ Clock([Fetch(IF flow_update THEN mem.npc ELSE Inc4(pc_fet_last))
              EXCEPT !.bubble = TRUE], FALSE)

Init ==
  /\ prog \in Programs /\ irq = FALSE
  /\ fe = "RST" /\ stalled_pc = 0 /\ stall_res_flow_d = FALSE
  /\ stale_ic_miss = FALSE /\ pc_fet_last = 1
  /\ spec_entry = [i \in 0..1 |-> NoEntry] /\ se_ptr_h = 0 /\ se_ptr_t = 0
  /\ state_e = "NS_E"
  /\ be_stalled_d = FALSE /\ dec_d = Empty
  /\ exe = EmptyExe /\ mem = EmptyMem /\ wbk = EmptyWbk
  /\ ret = FALSE /\ inst_retired_d = FALSE
  /\ div = [issued |-> FALSE, busy |-> 0, for |-> 0]
  /\ ic = [addr |-> 0, busy |-> 1] /\ dc = 1
  /\ trap = "IDLE" /\ trap_info_mepc = 0 /\ wfi_mepc = 0
  /\ csr = [mie |-> FALSE, mpie |-> FALSE, mepc |-> 0]
  /\ arch = [pc |-> 1, last |-> 0]

Next ==
  \/ SinkStale \/ Relaunch \/ Redirect \/ Park
  \/ Boot \/ WaitForAnswer \/ WaitForBackEnd \/ MeetJump
  \/ Predict \/ FollowDecoder \/ AwaitJump \/ FollowJump

\* The clock never stops.
Spec == Init /\ [][Next]_vars /\ WF_vars(Next)

-----------------------------------------------------------------------------
(* Properties.                                                              *)

Address == 0..Last

\* Every register holds a value of its type; the counters of busy cycles stay
\* within what the caches and the divider were given.
TypeOK ==
  /\ prog \in Programs /\ irq \in BOOLEAN
  /\ fe \in {"RST", "STEADY", "STALL_FLOW", "STALL_FE_IC", "STALL_BE"}
  /\ stalled_pc \in Address /\ stall_res_flow_d \in BOOLEAN
  /\ stale_ic_miss \in BOOLEAN /\ pc_fet_last \in Pc
  /\ spec_entry \in [0..1 -> [pc : Address, taken : BOOLEAN]]
  /\ se_ptr_h \in 0..1 /\ se_ptr_t \in 0..1 /\ state_e \in {"NS_E", "SPEC_E"}
  /\ be_stalled_d \in BOOLEAN
  /\ dec_d \in [pc : Address, inst : Address]
  /\ exe \in [pc : Address, inst : Address, live : BOOLEAN,
              tag : {"none", "trapped", "mret"}]
  /\ mem \in [pc : Address, inst : Address, live : BOOLEAN,
              tag : {"none", "trapped", "mret"}, taken : BOOLEAN, npc : Address]
  /\ wbk \in [pc : Address, load : BOOLEAN, tag : {"none", "trapped", "mret"}]
  /\ ret \in BOOLEAN /\ inst_retired_d \in BOOLEAN
  /\ div.issued \in BOOLEAN /\ div.for \in Address
  /\ \E w \in {0} \cup DivWaits : div.busy \in 0..w
  /\ ic \in [addr : Address, busy : 0..IcMiss]
  /\ \E w \in {1} \cup DcMisses : dc \in 0..w
  /\ trap \in {"IDLE", "WFI", "TRAP_PENDING", "TRAP_WRITE", "TRAPPED",
               "RESTORE_PENDING", "RESTORE_WRITE"}
  /\ trap_info_mepc \in Address /\ wfi_mepc \in Address
  /\ csr \in [mie : BOOLEAN, mpie : BOOLEAN, mepc : Address]
  /\ arch \in [pc : Pc, last : Address]

Abstract == INSTANCE Machine WITH pc <- arch.pc, last <- arch.last

\* Whatever is fetched, predicted, stalled, redirected or dropped, the
\* instructions that leave EXE are the program's, in its order, each once, and
\* a trap is precise: mepc is the first instruction without effect, every
\* earlier one has had its own.
ImplementsMachine == Abstract!Spec

\* A fetched word goes through the pipeline under its own address: the PC that
\* labels an answer is the one the request was made with, however late it is.
LabelledByOwnPc == mem.live => mem.pc = mem.inst

\* In the cycle the trap CSRs are written no instruction that takes effect is in EXE,
\* MEM or WBK: "everything older drained, so there is no concurrent csr* write to
\* arbitrate" (csr.sv:167).  What may still be on its way is the trapped instruction
\* itself, when the tag of an interrupt that a misprediction cancelled was taken for
\* its own.
TrapWriteDrained ==
  trap \in {"TRAP_WRITE", "RESTORE_WRITE"} =>
    exe.inst = 0 /\ ~mem.live /\ wbk.pc = 0

\* No illegal instruction is met while a handler runs, when it would be passed over
\* without a trap: not the handler's, and not one of the program's whose answer comes
\* late.
HandlerDecodes ==
  trap = "TRAPPED" /\ Free /\ ~stall_be => K(dec.inst) # "fault"

\* A division leaves EXE with the result of its own operands, though the unit
\* may be busy with one that was flushed and the stage be held for a cache.
OwnQuotient ==
  [][leaves_exe /\ In(exe, {"div"}) =>
       div.issued /\ div.busy = 0 /\ div.for = exe.pc]_vars

\* The core never hangs: instructions keep retiring, but for a wfi that no
\* interrupt ends.
KeepsRetiring == []<>ret \/ <>[](trap = "WFI" /\ ~irq)

-----------------------------------------------------------------------------
(* What comments of the sources say of situations the programs above avoid. *)

\* An answer to a request that a redirect overtook is discarded when it lands:
\* the front end never waits for the jump in it, only for the program's.
DoomedDiscarded == fe = "STALL_FLOW" => K(stalled_pc) = "jalr"

\* A trap that is already on its way is cancelled only if it is an exception,
\* met on the wrong path of a branch; an interrupt is not cancelled.
OnlyExceptionsCancelled ==
  [][trap = "TRAP_PENDING" /\ trap' = "IDLE" => Raises(K(trap_info_mepc))]_vars

\* In the cycle an interrupt ends a wfi, the trap's tag rides from DEC to EXE.
WakeTagRides == [][wfi_launch => exe'.tag = "trapped"]_vars

\* The mret that is to restore the machine is in the pipeline until it has.
MretOnItsWay ==
  trap = "RESTORE_PENDING" => "mret" \in {exe.tag, mem.tag, wbk.tag}
==============================================================================

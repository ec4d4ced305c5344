------------------------------- MODULE ICache -------------------------------
(***************************************************************************)
(* The L1 instruction cache of ama-riscv (ama_riscv_icache.sv, associative *)
(* lookup) and the instruction port of the main memory.  It is read-only:  *)
(* the steps of this module leave mem' open, Spec keeps the memory         *)
(* constant, and MemorySystem lets the data cache write it.                *)
(*                                                                         *)
(* A request accepted is always served: nothing cancels a refill (the      *)
(* front end discards the answer of a fetch it no longer wants).           *)
(***************************************************************************)
EXTENDS MemoryTypes

CONSTANTS
  WAYS,       \* associativity
  Fetches,    \* the addresses the front end may drive on req_core
  InitMem,    \* content of main memory at reset
  InitBank    \* content of the instruction banks at reset

\* A fetch names a word of a bus word by its byte lanes.
Fetch == [tag : Tag, set : Set, beat : Beat, be : SUBSET Lane]

ASSUME ICacheAssumption ==
  /\ WAYS \in Nat \ {0}
  /\ Fetches \subseteq Fetch
  /\ Fetches # {}
  /\ InitMem \in MainMemory
  /\ InitBank \in [0 .. WAYS - 1 -> [Set -> Line]]

VARIABLES
  state,              \* icache_state_t
  a_valid, a_tag, a_lru,   \* line metadata, [way][set]
  bank, bank_data,    \* instruction banks and their registered read ports
  cr_pend,            \* the saved request of the outstanding miss
  cr_d_addr,          \* the request accepted last
  new_core_req_d, hit_d, way_victim_idx_d,
  update_lru_d, lca_d,     \* the LRU update, one cycle late
  mem_miss_cnt, mem_miss_cnt_d, mem_transfer_done_d,
  way_idx_d, word_in_bank_line_addr,   \* selection of the answer
  mem,                     \* main memory
  rsp_mem_valid, rsp_mem_data

lines == <<a_valid, a_tag, bank, bank_data>>
lru   == <<a_lru, update_lru_d, lca_d>>
reqs  == <<cr_pend, cr_d_addr, new_core_req_d, hit_d, way_victim_idx_d>>
cnts  == <<mem_miss_cnt, mem_miss_cnt_d, mem_transfer_done_d>>
outs  == <<way_idx_d, word_in_bank_line_addr>>
port  == <<rsp_mem_valid, rsp_mem_data>>
cache == <<state, lines, lru, reqs, cnts, outs, port>>
vars  == <<cache, mem>>

Way       == 0 .. WAYS - 1
LastBeat  == MEM_TRANSFERS_PER_CL - 1    \* MEM_TRANSFER_MATCH_DONE
LruMaxCnt == WAYS - 1
NextBeat(n) == IF n = LastBeat THEN 0 ELSE n + 1
ZeroWord  == [l \in Lane |-> 0]
NoFetch   == [tag |-> 0, set |-> 0, beat |-> 0, be |-> {}]
ClearPending == [active |-> FALSE, cr |-> NoFetch, way |-> 0]   \* IC_CR_PEND_CLEAR

-----------------------------------------------------------------------------
(* Lookup of r, the address on req_core, whether or not it is valid.        *)

Holds(w, r)  == a_valid[w][r.set] /\ a_tag[w][r.set] = r.tag
TagMatch(r)  == \E w \in Way : Holds(w, r)

\* cr.way_idx, 0 when no way matches.
WayOf(r) == IF TagMatch(r) THEN CHOOSE w \in Way : Holds(w, r) ELSE 0

\* way_victim_idx: a way that matches is not considered.
WayVictim(r) ==
  LET oldest == {w \in Way : ~Holds(w, r) /\ a_lru[w][r.set] = LruMaxCnt}
  IN  IF oldest = {} THEN 0 ELSE CHOOSE w \in oldest : TRUE

-----------------------------------------------------------------------------
(* Signals that depend on the registers only.                               *)

miss_d == new_core_req_d /\ ~hit_d
mem_transfer_done == rsp_mem_valid /\ mem_miss_cnt_d = LastBeat
load_req_pend == mem_transfer_done_d /\ cr_pend.active
mem_to_cache_wr == rsp_mem_valid /\ state = "IC_MISS"

\* The answer of a miss is given in DC_READY, where the request is cleared.
clear_pending == state = "IC_READY" /\ cr_pend.active

\* A miss has just been taken: it is saved and its first bus word asked for.
save_pending == state = "IC_READY" /\ ~cr_pend.active /\ miss_d

req_mem_valid == save_pending \/ (state = "IC_MISS" /\ mem_miss_cnt > 0)

ready == state = "IC_READY" /\ (cr_pend.active \/ ~miss_d)

\* Line and bus word asked for: mem_start_addr_d, then counting up from the
\* saved address.
RefillOf == IF save_pending THEN cr_d_addr ELSE cr_pend.cr
RefillBeat == IF save_pending THEN 0 ELSE mem_miss_cnt

-----------------------------------------------------------------------------
(* The clock edge.  new is new_core_req.                                    *)

hit(new, r) == new /\ TagMatch(r)

\* Set, way and word the banks are read at: the saved request until its answer.
FromPendingKept == cr_pend.active   \* fault: also in the cycle of its answer
FromPending == cr_pend.active /\ ~clear_pending
Reading(r) == IF FromPending THEN cr_pend.cr ELSE r
ReadingWay(r) == IF FromPending THEN cr_pend.way ELSE WayOf(r)

BankEdgeUndelayed(r) ==    \* fault: the request's counter places the response
  LET s == IF mem_to_cache_wr THEN cr_pend.cr.set ELSE Reading(r).set
      b == IF mem_to_cache_wr THEN mem_miss_cnt ELSE Reading(r).beat
  IN  /\ bank' = IF mem_to_cache_wr
                   THEN [bank EXCEPT ![cr_pend.way][s][b] = rsp_mem_data]
                   ELSE bank
      /\ bank_data' = [w \in Way |-> bank[w][s][b]]

BankEdge(r) ==
  LET s == IF mem_to_cache_wr THEN cr_pend.cr.set ELSE Reading(r).set
      b == IF mem_to_cache_wr THEN mem_miss_cnt_d ELSE Reading(r).beat
  IN  /\ bank' = IF mem_to_cache_wr
                   THEN [bank EXCEPT ![cr_pend.way][s][b] = rsp_mem_data]
                   ELSE bank
      /\ bank_data' = [w \in Way |-> bank[w][s][b]]

\* Fault: the tag written is the one on the bus, not the saved one.
MetadataEdgeBusTag(r) ==
  IF mem_to_cache_wr /\ mem_transfer_done
    THEN /\ a_valid' = [a_valid EXCEPT ![cr_pend.way][cr_pend.cr.set] = TRUE]
         /\ a_tag' = [a_tag EXCEPT ![cr_pend.way][cr_pend.cr.set] = r.tag]
    ELSE /\ a_valid' = IF miss_d
                         THEN [a_valid EXCEPT ![WayVictim(r)][r.set] = FALSE]
                         ELSE a_valid
         /\ UNCHANGED a_tag

\* The line becomes valid with its last word.  At a miss a line is invalidated
\* "right away": the one the lookup of this cycle's bus address points at.
MetadataEdge(r) ==
  IF mem_to_cache_wr /\ mem_transfer_done
    THEN /\ a_valid' = [a_valid EXCEPT ![cr_pend.way][cr_pend.cr.set] = TRUE]
         /\ a_tag' = [a_tag EXCEPT ![cr_pend.way][cr_pend.cr.set] = cr_pend.cr.tag]
    ELSE /\ a_valid' = IF miss_d
                         THEN [a_valid EXCEPT ![WayVictim(r)][r.set] = FALSE]
                         ELSE a_valid
         /\ UNCHANGED a_tag

\* Counters after an access to way w.
Touched(counter, w) ==
  [v \in Way |->
     IF WAYS = 2 THEN (IF v = w THEN 0 ELSE 1)
     ELSE IF v = w THEN 0
     ELSE IF counter[v] < counter[w] THEN counter[v] + 1
     ELSE counter[v]]

LruEdge(new, r) ==
  /\ update_lru_d' = (hit(new, r) \/ load_req_pend)
  /\ lca_d' = IF load_req_pend THEN [way |-> cr_pend.way, set |-> cr_pend.cr.set]
              ELSE IF hit(new, r) THEN [way |-> WayOf(r), set |-> r.set]
              ELSE [way |-> 0, set |-> 0]
  /\ a_lru' = LET s == lca_d.set
                  now == Touched([v \in Way |-> a_lru[v][s]], lca_d.way)
              IN  IF update_lru_d
                    THEN [v \in Way |-> [a_lru[v] EXCEPT ![s] = now[v]]]
                    ELSE a_lru

PendEdge ==
  cr_pend' = IF save_pending
               THEN [active |-> TRUE, cr |-> cr_d_addr, way |-> way_victim_idx_d]
             ELSE IF clear_pending THEN ClearPending
             ELSE cr_pend

RequestEdge(new, r) ==
  /\ new_core_req_d' = new
  /\ cr_d_addr' = IF new THEN r ELSE cr_d_addr
  /\ hit_d' = IF new THEN hit(new, r) ELSE hit_d
  /\ way_victim_idx_d' = WayVictim(r)
  /\ way_idx_d' = ReadingWay(r)
  /\ word_in_bank_line_addr' = Reading(r).be

CounterEdge ==
  /\ mem_miss_cnt' = IF req_mem_valid THEN NextBeat(mem_miss_cnt) ELSE mem_miss_cnt
  /\ mem_miss_cnt_d' = mem_miss_cnt
  /\ mem_transfer_done_d' = mem_transfer_done

StateEdge ==
  state' = CASE state = "IC_RESET" -> "IC_READY"
             [] state = "IC_READY" /\ miss_d -> "IC_MISS"
             [] state = "IC_MISS" /\ mem_transfer_done_d -> "IC_READY"
             [] OTHER -> state

\* Instruction port of ama_riscv_mem: it answers in the next cycle, with the
\* content before a write of the data port at the same edge.
PortEdge ==
  /\ rsp_mem_valid' = req_mem_valid
  /\ rsp_mem_data' = IF req_mem_valid
                       THEN mem[RefillOf.tag][RefillOf.set][RefillBeat]
                       ELSE rsp_mem_data

Clock(new, r) ==
  /\ StateEdge
  /\ BankEdge(r)
  /\ MetadataEdge(r)
  /\ LruEdge(new, r)
  /\ PendEdge
  /\ RequestEdge(new, r)
  /\ CounterEdge
  /\ PortEdge

-----------------------------------------------------------------------------
(* The cycles the cache goes through.                                       *)

LeaveReset(r) == state = "IC_RESET" /\ Clock(FALSE, r)

Idle(r)      == ready /\ Clock(FALSE, r)
FetchHit(r)  == ready /\ TagMatch(r) /\ Clock(TRUE, r)
FetchMiss(r) == ready /\ ~TagMatch(r) /\ Clock(TRUE, r)

StartRefill(r) == save_pending /\ Clock(FALSE, r)
RefillWord(r) ==
  state = "IC_MISS" /\ rsp_mem_valid /\ ~mem_transfer_done /\ Clock(FALSE, r)
RefillDone(r) == state = "IC_MISS" /\ mem_transfer_done /\ Clock(FALSE, r)
Serve(r) == state = "IC_MISS" /\ mem_transfer_done_d /\ Clock(FALSE, r)

Service(r) == StartRefill(r) \/ RefillWord(r) \/ RefillDone(r) \/ Serve(r)

Init ==
  /\ state = "IC_RESET"
  /\ a_valid = [w \in Way |-> [s \in Set |-> FALSE]]
  /\ a_tag = [w \in Way |-> [s \in Set |-> 0]]
  /\ a_lru = [w \in Way |-> [s \in Set |-> w]]
  /\ bank = InitBank
  /\ bank_data = [w \in Way |-> ZeroWord]
  /\ cr_pend = ClearPending
  /\ cr_d_addr = NoFetch
  /\ new_core_req_d = FALSE
  /\ hit_d = FALSE
  /\ way_victim_idx_d = 0
  /\ update_lru_d = FALSE
  /\ lca_d = [way |-> 0, set |-> 0]
  /\ mem_miss_cnt = 0
  /\ mem_miss_cnt_d = 0
  /\ mem_transfer_done_d = FALSE
  /\ way_idx_d = 0
  /\ word_in_bank_line_addr = {}
  /\ mem = InitMem
  /\ rsp_mem_valid = FALSE
  /\ rsp_mem_data = ZeroWord

Step ==
  \E r \in Fetches :
    \/ LeaveReset(r)
    \/ Idle(r) \/ FetchHit(r) \/ FetchMiss(r)
    \/ Service(r)

Next == Step /\ UNCHANGED mem

\* The clock never stops once the cache has work; nothing forces the front end
\* to fetch.
Fairness ==
  WF_vars(UNCHANGED mem /\ \E r \in Fetches : LeaveReset(r) \/ Service(r))

Spec == Init /\ [][Next]_vars /\ Fairness

-----------------------------------------------------------------------------
(* Outputs to the front end.                                                *)

rsp_core_valid ==
  state = "IC_READY" /\ (cr_pend.active \/ (new_core_req_d /\ hit_d))

rsp_core_data == Select(bank_data[way_idx_d], word_in_bank_line_addr)

-----------------------------------------------------------------------------
(* Properties.                                                              *)

\* Every register and array holds a value of its type; the counters stay
\* within the words of a line (mem_miss_cnt_t).
TypeOK ==
  /\ state \in {"IC_RESET", "IC_READY", "IC_MISS"}
  /\ a_valid \in [Way -> [Set -> BOOLEAN]]
  /\ a_tag \in [Way -> [Set -> Tag]]
  /\ a_lru \in [Way -> [Set -> Way]]
  /\ bank \in [Way -> [Set -> Line]]
  /\ bank_data \in [Way -> Word]
  /\ cr_pend \in [active : BOOLEAN, cr : Fetch, way : Way]
  /\ cr_d_addr \in Fetch
  /\ new_core_req_d \in BOOLEAN /\ hit_d \in BOOLEAN
  /\ way_victim_idx_d \in Way
  /\ update_lru_d \in BOOLEAN
  /\ lca_d \in [way : Way, set : Set]
  /\ mem_miss_cnt \in Beat /\ mem_miss_cnt_d \in Beat
  /\ mem_transfer_done_d \in BOOLEAN
  /\ way_idx_d \in Way /\ word_in_bank_line_addr \in SUBSET Lane
  /\ mem \in MainMemory
  /\ rsp_mem_valid \in BOOLEAN /\ rsp_mem_data \in Word

\* A line is in at most one way (the "ICACHE TAG DUPLICATE" assertion), although
\* the lookup that missed is many cycles old when the tag is written and the
\* victim's line may still be valid meanwhile.
NoTagDuplicate ==
  \A s \in Set : \A v, w \in Way :
    a_valid[v][s] /\ a_valid[w][s] /\ a_tag[v][s] = a_tag[w][s] => v = w

Refilling(w, s) ==
  /\ state = "IC_MISS" /\ ~mem_transfer_done_d
  /\ cr_pend.way = w /\ cr_pend.cr.set = s

\* What a lookup would return: a line held and not being refilled, else main
\* memory.
FetchView ==
  [t \in Tag |-> [s \in Set |->
     LET own == {w \in Way : /\ a_valid[w][s] /\ a_tag[w][s] = t
                             /\ ~Refilling(w, s)}
     IN  IF own = {} THEN mem[t][s] ELSE bank[CHOOSE w \in own : TRUE][s]]]

AsLoad(r) == [rtype |-> "DMEM_READ", tag |-> r.tag, set |-> r.set,
              beat |-> r.beat, be |-> r.be, wdata |-> 0]

Outstanding ==
  IF state = "IC_MISS" THEN {AsLoad(cr_pend.cr)}
  ELSE IF save_pending THEN {AsLoad(cr_d_addr)}
  ELSE {}
Answer == IF rsp_core_valid THEN {rsp_core_data} ELSE {}

=============================================================================

------------------------------- MODULE DCache -------------------------------
(***************************************************************************)
(* The L1 data cache of ama-riscv (ama_riscv_dcache.sv, the associative    *)
(* lookup, of which WAYS = 1 is the direct-mapped case) and the data port  *)
(* of the main memory behind it (ama_riscv_mem.sv).  One step is one clock *)
(* edge: the variables are the registers and the arrays, under the names   *)
(* the source gives them, and every combinational signal a property or an  *)
(* update needs is an operator.  The cache is write-back, write-allocate,  *)
(* with one outstanding miss and a data bank per way that serves one       *)
(* address per cycle.                                                      *)
(***************************************************************************)
EXTENDS MemoryTypes

CONSTANTS
  WAYS,       \* associativity
  Requests,   \* the requests the core may drive on req_core
  InitMem,    \* content of main memory at reset (the loaded program image)
  InitBank    \* content of the data banks at reset (nothing initialises them)

ASSUME DCacheAssumption ==
  /\ WAYS \in Nat \ {0}
  /\ Requests \subseteq Request
  /\ Requests # {}
  /\ InitMem \in MainMemory
  /\ InitBank \in [0 .. WAYS - 1 -> [Set -> Line]]

VARIABLES
  state,              \* dcache_state_t
  a_valid, a_dirty, a_tag, a_lru,   \* line metadata, [way][set]
  bank,               \* data banks, [way][set][beat]
  bank_data,          \* registered read port of each bank
  cr_pend,            \* the saved request of the outstanding miss
  new_core_req_d, hit_d, cr_victim_dirty_d,
  mem_cnt, mem_cnt_d, \* bus word counter and its delayed copy
  mem_r_transfer_done_d,
  clear_pending_on_read,
  bank_evict_cnt,     \* next bus word of the victim to read from its bank
  lfc_d,              \* load_from_cache_t, delayed
  mem,                \* main memory
  rsp_mem_valid, rsp_mem_data   \* its data read port

meta  == <<a_valid, a_dirty, a_tag>>
banks == <<bank, bank_data>>
ctrl  == <<new_core_req_d, hit_d, cr_victim_dirty_d, mem_r_transfer_done_d,
           clear_pending_on_read>>
cnts  == <<mem_cnt, mem_cnt_d, bank_evict_cnt>>
port  == <<mem, rsp_mem_valid, rsp_mem_data>>
vars  == <<state, meta, a_lru, banks, cr_pend, ctrl, cnts, lfc_d, port>>

Way        == 0 .. WAYS - 1
LastBeat   == MEM_TRANSFERS_PER_CL - 1     \* MEM_TRANSFER_MATCH
LruMaxCnt  == WAYS - 1                     \* LRU_MAX_CNT
NextBeat(n) == IF n = LastBeat THEN 0 ELSE n + 1   \* counters wrap (mem_cnt_t)
ZeroWord   == [l \in Lane |-> 0]

ClearRequest == [rtype |-> "DMEM_READ", tag |-> 0, set |-> 0, beat |-> 0,
                 be |-> {}, wdata |-> 0]                 \* DC_CR_CLEAR
Pending(on, r, w) == [active |-> on, cr |-> r, way |-> w]
ClearPending == Pending(FALSE, ClearRequest, 0)          \* DC_CR_PEND_CLEAR

-----------------------------------------------------------------------------
(* Lookup.  r is what the core drives on req_core in this cycle.            *)

Holders(t, s) == {w \in Way : a_valid[w][s] /\ a_tag[w][s] = t}
TagMatch(r)   == Holders(r.tag, r.set) # {}

\* cr.way_idx: the way that matches, 0 when none does.
WayOf(r) == IF TagMatch(r) THEN CHOOSE w \in Holders(r.tag, r.set) : TRUE ELSE 0

\* way_victim_idx: the way whose LRU counter is at its maximum.
WayVictim(s) ==
  IF \E w \in Way : a_lru[w][s] = LruMaxCnt
    THEN CHOOSE w \in Way : a_lru[w][s] = LruMaxCnt
    ELSE 0

-----------------------------------------------------------------------------
(* Signals that depend on the registers only.                               *)

miss_d       == new_core_req_d /\ ~hit_d
mem_cnt_done == mem_cnt_d = LastBeat
mem_r_transfer_done == rsp_mem_valid /\ mem_cnt_done
req_pending  == mem_r_transfer_done_d /\ cr_pend.active
load_req_pending  == req_pending /\ cr_pend.cr.rtype = "DMEM_READ"
store_req_pending == req_pending /\ cr_pend.cr.rtype = "DMEM_WRITE"

ready == state = "DC_READY" /\ (clear_pending_on_read \/ ~miss_d)

\* A miss has just been taken: the first bus word goes out from DC_READY.
Launch == state = "DC_READY" /\ ~clear_pending_on_read /\ miss_d

req_mem_w_valid ==
  \/ Launch /\ cr_victim_dirty_d
  \/ state = "DC_EVICT" /\ ~mem_cnt_done

req_mem_r_valid ==
  \/ Launch /\ ~cr_victim_dirty_d
  \/ state = "DC_MISS" /\ mem_cnt > 0
  \/ state = "DC_EVICT" /\ mem_cnt_done

\* Bus word asked of main memory (the refill starts at the first word when it
\* is launched from DC_READY or at the end of DC_EVICT).
RefillBeat == IF state = "DC_MISS" THEN mem_cnt ELSE 0

\* Bus word of the victim written back (its first word from DC_READY).
WritebackBeatDelayed == IF state = "DC_EVICT" THEN mem_cnt_d ELSE 0   \* fault
WritebackBeat == IF state = "DC_EVICT" THEN mem_cnt ELSE 0

-----------------------------------------------------------------------------
(* Signals that depend on the request too.  new is new_core_req: the        *)
(* request is valid and the cache ready.                                    *)

hit(new, r)  == new /\ TagMatch(r)
miss(new, r) == new /\ ~TagMatch(r)
load_req_hit(new, r)  == hit(new, r) /\ r.rtype = "DMEM_READ"
store_req_hit(new, r) == hit(new, r) /\ r.rtype = "DMEM_WRITE"

cache_store(new, r) ==
  rsp_mem_valid \/ store_req_pending \/ store_req_hit(new, r)

\* store_to_cache_t: the line written, from the saved request or the new one.
stc(new, r) ==
  IF store_req_pending \/ rsp_mem_valid
    THEN Pending(TRUE, cr_pend.cr, cr_pend.way)
    ELSE Pending(TRUE, r, WayOf(r))

\* Fault: also in the cycle of the answer, in which the next one is accepted.
lfcKept(r) ==
  IF cr_pend.active
    THEN [way |-> cr_pend.way, set |-> cr_pend.cr.set, beat |-> cr_pend.cr.beat,
          be |-> cr_pend.cr.be, rtype |-> cr_pend.cr.rtype]
    ELSE [way |-> WayOf(r), set |-> r.set, beat |-> r.beat,
          be |-> r.be, rtype |-> r.rtype]

\* load_from_cache_t: the line read; the saved request until it is answered.
lfc(r) ==
  IF cr_pend.active /\ ~clear_pending_on_read
    THEN [way |-> cr_pend.way, set |-> cr_pend.cr.set, beat |-> cr_pend.cr.beat,
          be |-> cr_pend.cr.be, rtype |-> cr_pend.cr.rtype]
    ELSE [way |-> WayOf(r), set |-> r.set, beat |-> r.beat,
          be |-> r.be, rtype |-> r.rtype]

LoadBeat(new, r) ==
  IF miss(new, r) \/ req_mem_w_valid THEN bank_evict_cnt ELSE lfc(r).beat
StoreBeatUndelayed(new, r) ==      \* fault: the counter of the request, not of
  IF rsp_mem_valid THEN mem_cnt ELSE stc(new, r).cr.beat   \* the response
StoreBeat(new, r) ==
  IF rsp_mem_valid THEN mem_cnt_d ELSE stc(new, r).cr.beat

\* The one address all banks see (bank_addr).
BankSet(new, r) ==
  IF cache_store(new, r) THEN stc(new, r).cr.set ELSE lfc(r).set
BankBeat(new, r) ==
  IF cache_store(new, r) THEN StoreBeat(new, r) ELSE LoadBeat(new, r)

-----------------------------------------------------------------------------
(* One operator per register or array: what its always_ff block loads at    *)
(* the clock edge.                                                          *)

BankEdge(new, r) ==
  LET c == stc(new, r)
      s == BankSet(new, r)
      b == BankBeat(new, r)
  IN  /\ bank' = IF cache_store(new, r)
                   THEN [bank EXCEPT ![c.way][s][b] =
                           IF rsp_mem_valid THEN rsp_mem_data
                                            ELSE Merge(@, c.cr.be, c.cr.wdata)]
                   ELSE bank
      /\ bank_data' = [w \in Way |-> bank[w][s][b]]

\* Faults: the tag is taken from the bus, the dirty bit survives a refill.
MetadataEdgeBusTag(new, r) ==
  LET c == stc(new, r)
      fill == mem_r_transfer_done
      store == store_req_pending \/ store_req_hit(new, r)
  IN  /\ a_valid' = IF fill THEN [a_valid EXCEPT ![c.way][c.cr.set] = TRUE]
                            ELSE a_valid
      /\ a_tag' = IF fill THEN [a_tag EXCEPT ![c.way][c.cr.set] = r.tag]
                          ELSE a_tag
      /\ a_dirty' = IF store \/ fill
                      THEN [a_dirty EXCEPT ![c.way][c.cr.set] = store]
                      ELSE a_dirty

MetadataEdge(new, r) ==
  LET c == stc(new, r)
      fill == mem_r_transfer_done
      store == store_req_pending \/ store_req_hit(new, r)
  IN  /\ a_valid' = IF fill THEN [a_valid EXCEPT ![c.way][c.cr.set] = TRUE]
                            ELSE a_valid
      /\ a_tag' = IF fill THEN [a_tag EXCEPT ![c.way][c.cr.set] = cr_pend.cr.tag]
                          ELSE a_tag
      /\ a_dirty' = IF store \/ fill
                      THEN [a_dirty EXCEPT ![c.way][c.cr.set] = store]
                      ELSE a_dirty

TouchedAll(counter, w) ==      \* fault: older ways are counted up as well
  [v \in Way |-> IF v = w THEN 0
                 ELSE IF counter[v] < LruMaxCnt THEN counter[v] + 1
                 ELSE counter[v]]

\* Counters after an access to way w: w becomes the most recent.
Touched(counter, w) ==
  [v \in Way |->
     IF WAYS = 2 THEN (IF v = w THEN 0 ELSE 1)
     ELSE IF v = w THEN 0
     ELSE IF counter[v] < counter[w] THEN counter[v] + 1
     ELSE counter[v]]

LruAccess(s, w) ==
  LET now == Touched([v \in Way |-> a_lru[v][s]], w)
  IN  [v \in Way |-> [a_lru[v] EXCEPT ![s] = now[v]]]

LruEdgeHitsOnly(new, r) ==     \* fault: a refilled line is not counted as used
  a_lru' = IF hit(new, r) THEN LruAccess(r.set, WayOf(r)) ELSE a_lru

\* lca_hit takes precedence over lca_pend.
LruEdge(new, r) ==
  a_lru' = IF hit(new, r) THEN LruAccess(r.set, WayOf(r))
           ELSE IF req_pending THEN LruAccess(cr_pend.cr.set, cr_pend.way)
           ELSE a_lru

PendEdge(new, r) ==
  cr_pend' = IF miss(new, r) THEN Pending(TRUE, r, WayVictim(r.set))
             ELSE IF clear_pending_on_read \/ store_req_pending THEN ClearPending
             ELSE cr_pend

RequestEdge(new, r) ==
  /\ new_core_req_d' = new
  /\ hit_d' = IF new THEN hit(new, r) ELSE hit_d
  /\ cr_victim_dirty_d' = IF new THEN a_dirty[WayVictim(r.set)][r.set]
                                 ELSE cr_victim_dirty_d
  /\ mem_r_transfer_done_d' = mem_r_transfer_done
  /\ clear_pending_on_read' = load_req_pending
  /\ lfc_d' = lfc(r)

CounterEdge(new, r) ==
  /\ mem_cnt' = IF req_mem_r_valid \/ req_mem_w_valid THEN NextBeat(mem_cnt)
                                                      ELSE mem_cnt
  /\ mem_cnt_d' = mem_cnt
  /\ bank_evict_cnt' =
       IF state = "DC_MISS" /\ state' = "DC_READY" THEN 0
       ELSE IF miss(new, r) \/ req_mem_w_valid THEN NextBeat(bank_evict_cnt)
       ELSE bank_evict_cnt

\* Fault: DC_MISS is left with the last word, before the request is served.
StateEdgeEarly ==
  state' = CASE state = "DC_RESET" -> "DC_READY"
             [] state = "DC_READY" /\ miss_d ->
                  IF cr_victim_dirty_d THEN "DC_EVICT" ELSE "DC_MISS"
             [] state = "DC_MISS" /\ mem_r_transfer_done -> "DC_READY"
             [] state = "DC_EVICT" /\ mem_cnt_done -> "DC_MISS"
             [] OTHER -> state

StateEdge ==
  state' = CASE state = "DC_RESET" -> "DC_READY"
             [] state = "DC_READY" /\ miss_d ->
                  IF cr_victim_dirty_d THEN "DC_EVICT" ELSE "DC_MISS"
             [] state = "DC_MISS" /\ req_pending -> "DC_READY"
             [] state = "DC_EVICT" /\ mem_cnt_done -> "DC_MISS"
             [] OTHER -> state

MemEdgeNewTag(r) ==      \* fault: the victim is written back over its successor
  LET v == lfc(r)
      c == cr_pend.cr
  IN  /\ mem' = IF req_mem_w_valid
                  THEN [mem EXCEPT ![c.tag][v.set][WritebackBeat] = bank_data[v.way]]
                  ELSE mem
      /\ rsp_mem_valid' = req_mem_r_valid
      /\ rsp_mem_data' = IF req_mem_r_valid /\ ~req_mem_w_valid
                           THEN mem[c.tag][c.set][RefillBeat]
                           ELSE rsp_mem_data

\* Data port of ama_riscv_mem: always ready, one address, the write first; a
\* read answers in the next cycle.
MemEdge(r) ==
  LET v == lfc(r)
      c == cr_pend.cr
  IN  /\ mem' = IF req_mem_w_valid
                  THEN [mem EXCEPT ![a_tag[v.way][v.set]][v.set][WritebackBeat]
                          = bank_data[v.way]]
                  ELSE mem
      /\ rsp_mem_valid' = req_mem_r_valid
      /\ rsp_mem_data' = IF req_mem_r_valid /\ ~req_mem_w_valid
                           THEN mem[c.tag][c.set][RefillBeat]
                           ELSE rsp_mem_data

\* The clock edge.  r is on the bus whether or not it is valid.
Clock(new, r) ==
  /\ StateEdge
  /\ BankEdge(new, r)
  /\ MetadataEdge(new, r)
  /\ LruEdge(new, r)
  /\ PendEdge(new, r)
  /\ RequestEdge(new, r)
  /\ CounterEdge(new, r)
  /\ MemEdge(r)

-----------------------------------------------------------------------------
(* The cycles the cache goes through, by what the edge does.                *)

LeaveReset(r) == state = "DC_RESET" /\ Clock(FALSE, r)

\* Ready, and the core presents nothing.
Idle(r) == ready /\ Clock(FALSE, r)

\* Ready, and the core presents a request: it hits or misses.
LoadHit(r)  == ready /\ TagMatch(r) /\ r.rtype = "DMEM_READ" /\ Clock(TRUE, r)
StoreHit(r) == ready /\ TagMatch(r) /\ r.rtype = "DMEM_WRITE" /\ Clock(TRUE, r)
Miss(r)     == ready /\ ~TagMatch(r) /\ Clock(TRUE, r)

\* The cycle after a miss: first word of the refill or of the write-back.
StartRefill(r) == Launch /\ ~cr_victim_dirty_d /\ Clock(FALSE, r)
StartEvict(r)  == Launch /\ cr_victim_dirty_d /\ Clock(FALSE, r)

\* Write-back of the other words, then the first word of the refill.
EvictWord(r) == state = "DC_EVICT" /\ ~mem_cnt_done /\ Clock(FALSE, r)
EvictDone(r) == state = "DC_EVICT" /\ mem_cnt_done /\ Clock(FALSE, r)

\* A word of the line arrives; the last one validates the line.
RefillWord(r) ==
  state = "DC_MISS" /\ rsp_mem_valid /\ ~mem_cnt_done /\ Clock(FALSE, r)
RefillDone(r) ==
  state = "DC_MISS" /\ mem_r_transfer_done /\ Clock(FALSE, r)

\* The saved request is performed on the refilled line.
ServeLoad(r)  == state = "DC_MISS" /\ load_req_pending /\ Clock(FALSE, r)
ServeStore(r) == state = "DC_MISS" /\ store_req_pending /\ Clock(FALSE, r)

Service(r) ==
  \/ StartRefill(r) \/ StartEvict(r)
  \/ EvictWord(r) \/ EvictDone(r)
  \/ RefillWord(r) \/ RefillDone(r)
  \/ ServeLoad(r) \/ ServeStore(r)

Init ==
  /\ state = "DC_RESET"
  /\ a_valid = [w \in Way |-> [s \in Set |-> FALSE]]
  /\ a_dirty = [w \in Way |-> [s \in Set |-> FALSE]]
  /\ a_tag = [w \in Way |-> [s \in Set |-> 0]]
  /\ a_lru = [w \in Way |-> [s \in Set |-> w]]
  /\ bank = InitBank
  /\ bank_data = [w \in Way |-> ZeroWord]
  /\ cr_pend = ClearPending
  /\ new_core_req_d = FALSE
  /\ hit_d = FALSE
  /\ cr_victim_dirty_d = FALSE
  /\ mem_cnt = 0
  /\ mem_cnt_d = 0
  /\ mem_r_transfer_done_d = FALSE
  /\ clear_pending_on_read = FALSE
  /\ bank_evict_cnt = 0
  /\ lfc_d = [way |-> 0, set |-> 0, beat |-> 0, be |-> {}, rtype |-> "DMEM_READ"]
  /\ mem = InitMem
  /\ rsp_mem_valid = FALSE
  /\ rsp_mem_data = ZeroWord

Next ==
  \E r \in Requests :
    \/ LeaveReset(r)
    \/ Idle(r) \/ LoadHit(r) \/ StoreHit(r) \/ Miss(r)
    \/ Service(r)

\* The clock never stops once the cache has work; nothing forces the core to
\* present a request.
Fairness == WF_vars(\E r \in Requests : LeaveReset(r) \/ Service(r))

Spec == Init /\ [][Next]_vars /\ Fairness

-----------------------------------------------------------------------------
(* Outputs to the core.                                                     *)

rsp_core_valid ==
  /\ state = "DC_READY"
  /\ \/ clear_pending_on_read
     \/ new_core_req_d /\ hit_d /\ lfc_d.rtype = "DMEM_READ"

rsp_core_data == Select(bank_data[lfc_d.way], lfc_d.be)

-----------------------------------------------------------------------------
(* Properties.                                                              *)

\* Every register and array holds a value of its type; counters stay within
\* the words of a line (mem_cnt_t), way indices within the ways.
TypeOK ==
  /\ state \in {"DC_RESET", "DC_READY", "DC_MISS", "DC_EVICT"}
  /\ a_valid \in [Way -> [Set -> BOOLEAN]]
  /\ a_dirty \in [Way -> [Set -> BOOLEAN]]
  /\ a_tag \in [Way -> [Set -> Tag]]
  /\ a_lru \in [Way -> [Set -> Way]]
  /\ bank \in [Way -> [Set -> Line]]
  /\ bank_data \in [Way -> Word]
  /\ cr_pend \in [active : BOOLEAN, cr : Request, way : Way]
  /\ new_core_req_d \in BOOLEAN /\ hit_d \in BOOLEAN
  /\ cr_victim_dirty_d \in BOOLEAN
  /\ mem_r_transfer_done_d \in BOOLEAN
  /\ clear_pending_on_read \in BOOLEAN
  /\ mem_cnt \in Beat /\ mem_cnt_d \in Beat /\ bank_evict_cnt \in Beat
  /\ lfc_d \in [way : Way, set : Set, beat : Beat, be : SUBSET Lane,
                rtype : {"DMEM_READ", "DMEM_WRITE"}]
  /\ mem \in MainMemory
  /\ rsp_mem_valid \in BOOLEAN
  /\ rsp_mem_data \in Word

\* A line is in at most one way: two valid ways of a set never hold the same
\* tag (the "DCACHE TAG DUPLICATE" assertion), although the tag of a missing
\* line is written cycles after the lookup that found it absent.
NoTagDuplicate ==
  \A s \in Set : \A v, w \in Way :
    a_valid[v][s] /\ a_valid[w][s] /\ a_tag[v][s] = a_tag[w][s] => v = w

\* The LRU counters of a set always rank its ways, with no two equal (the
\* "DCACHE LRU DUPLICATE" assertion, here for the invalid ways too): so there
\* is always exactly one victim.
LruIsRanking ==
  \A s \in Set : \A v, w \in Way : a_lru[v][s] = a_lru[w][s] => v = w

\* The FIXME at the lca mux asks whether a hit and the pending request can
\* update the LRU counters in the same cycle: no request can be accepted in
\* the cycle that performs the pending one.
HitExcludesPending == ready => ~req_pending

\* Words of the outstanding miss are being written over the victim: until the
\* last one has arrived the line still shows the victim's tag.
Refilling(w, s) ==
  /\ state = "DC_MISS" /\ ~mem_r_transfer_done_d
  /\ cr_pend.way = w /\ cr_pend.cr.set = s

\* A clean line is a copy of main memory, in every cycle in which it can be
\* read.
CleanLineIsCopy ==
  \A w \in Way, s \in Set :
    a_valid[w][s] /\ ~a_dirty[w][s] /\ ~Refilling(w, s)
      => bank[w][s] = mem[a_tag[w][s]][s]

\* A refill writes over a valid line only once main memory holds every word
\* of it: no store is lost between the write-back and the refill.
VictimSavedFirst ==
  [][\A w \in Way, s \in Set :
       /\ a_valid[w][s]
       /\ rsp_mem_valid /\ mem_cnt_d = 0
       /\ bank[w][s] # bank'[w][s]
       => mem[a_tag[w][s]][s] = bank[w][s]]_vars

\* The memory the core sees: a line the cache holds, unless it is being
\* refilled, and main memory for the rest.
CoreView ==
  [t \in Tag |-> [s \in Set |->
     LET own == {w \in Holders(t, s) : ~Refilling(w, s)}
     IN  IF own = {} THEN mem[t][s] ELSE bank[CHOOSE w \in own : TRUE][s]]]

Outstanding == IF cr_pend.active /\ ~clear_pending_on_read
                 THEN {cr_pend.cr} ELSE {}
Answer == IF rsp_core_valid THEN {rsp_core_data} ELSE {}

-----------------------------------------------------------------------------
(* The inductive invariant behind the safety properties.                    *)

PendingWay == cr_pend.way
PendingSet == cr_pend.cr.set
PendingTag == cr_pend.cr.tag

\* Where the counters and the one-cycle flags stand in each phase of a miss.
PhaseInv ==
  /\ state = "DC_RESET" => /\ ~cr_pend.active /\ ~new_core_req_d
                           /\ ~clear_pending_on_read /\ bank_evict_cnt = 0
  /\ state \in {"DC_RESET", "DC_READY"} =>
       /\ ~rsp_mem_valid /\ ~mem_r_transfer_done_d
       /\ mem_cnt = 0 /\ mem_cnt_d = 0
  /\ state = "DC_READY" =>
       /\ miss_d <=> cr_pend.active /\ ~clear_pending_on_read
       /\ bank_evict_cnt = IF miss_d THEN 1 ELSE 0
  /\ clear_pending_on_read => state = "DC_READY" /\ ~new_core_req_d
  /\ state = "DC_EVICT" =>
       /\ cr_pend.active /\ ~rsp_mem_valid /\ ~mem_r_transfer_done_d
       /\ mem_cnt = NextBeat(mem_cnt_d) /\ bank_evict_cnt = NextBeat(mem_cnt)
  /\ state = "DC_MISS" =>
       /\ cr_pend.active
       /\ IF mem_r_transfer_done_d
            THEN ~rsp_mem_valid /\ mem_cnt = 0 /\ mem_cnt_d = 0
            ELSE rsp_mem_valid /\ mem_cnt = NextBeat(mem_cnt_d)

\* What the metadata says of the line being replaced and of its successor; a
\* dirty line is a valid one, so nothing else is ever written back.
VictimInv ==
  /\ \A w \in Way, s \in Set : a_dirty[w][s] => a_valid[w][s]
  /\ Launch => cr_victim_dirty_d = a_dirty[PendingWay][PendingSet]
  /\ state = "DC_EVICT" => a_dirty[PendingWay][PendingSet]
  /\ cr_pend.active /\ ~clear_pending_on_read /\ ~mem_r_transfer_done_d =>
       Holders(PendingTag, PendingSet) = {}
  /\ mem_r_transfer_done_d =>
       /\ a_valid[PendingWay][PendingSet] /\ ~a_dirty[PendingWay][PendingSet]
       /\ a_tag[PendingWay][PendingSet] = PendingTag

\* Which words of the victim main memory has, and which words of the new line
\* its bank has.
TransferInv ==
  LET old == mem[a_tag[PendingWay][PendingSet]][PendingSet]
      new == mem[PendingTag][PendingSet]
      here == bank[PendingWay][PendingSet]
  IN  /\ Launch => bank_data[PendingWay] = here[0]
      /\ state = "DC_EVICT" =>
           /\ ~mem_cnt_done => bank_data[PendingWay] = here[mem_cnt]
           /\ \A b \in Beat : b <= mem_cnt_d => old[b] = here[b]
      /\ state = "DC_MISS" /\ ~mem_r_transfer_done_d =>
           /\ rsp_mem_data = new[mem_cnt_d]
           /\ \A b \in Beat : b < mem_cnt_d => here[b] = new[b]
           /\ mem_cnt_d = 0 /\ a_valid[PendingWay][PendingSet] => old = here

Inductive ==
  /\ TypeOK
  /\ NoTagDuplicate
  /\ PhaseInv
  /\ VictimInv
  /\ TransferInv
  /\ CleanLineIsCopy

=============================================================================

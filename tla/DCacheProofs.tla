---------------------------- MODULE DCacheProofs ----------------------------
(***************************************************************************)
(* Theorems about DCache, for every geometry, data set, memory image and   *)
(* set of requests: the types, the LRU counters, then the inductive        *)
(* invariant and the safety properties that follow from it.  For the       *)
(* invariant, one part says what each step does to the registers once the  *)
(* phase is known; the next takes the conjuncts through each step.         *)
(***************************************************************************)
EXTENDS DCache, TLAPS

-----------------------------------------------------------------------------
(* Facts about the operators.                                               *)

\* A way index is what lookup and victim selection return, whatever the
\* metadata holds.
LEMMA WayOfType == ASSUME NEW r PROVE WayOf(r) \in Way
<1>1. 0 \in Way
  BY DCacheAssumption DEF Way
<1>2. CASE TagMatch(r)
  BY <1>2 DEF WayOf, TagMatch, Holders
<1>3. CASE ~TagMatch(r)
  BY <1>1, <1>3 DEF WayOf
<1> QED
  BY <1>2, <1>3

LEMMA WayVictimType == ASSUME NEW s PROVE WayVictim(s) \in Way
<1>1. 0 \in Way
  BY DCacheAssumption DEF Way
<1> QED
  BY <1>1 DEF WayVictim

\* A hit selects a way that holds the line.
LEMMA WayOfHolds ==
  ASSUME NEW r, TagMatch(r)
  PROVE  WayOf(r) \in Holders(r.tag, r.set)
  BY DEF WayOf, TagMatch

\* The word counter stays within the line.
LEMMA NextBeatType == ASSUME NEW n \in Beat PROVE NextBeat(n) \in Beat
  BY TypesAssumption DEF NextBeat, Beat, LastBeat

LEMMA MergeType ==
  ASSUME NEW word \in Word, NEW be, NEW d \in Data
  PROVE  Merge(word, be, d) \in Word
  BY DEF Merge, Word

\* What the clock edge works on: the saved request, or the one on the bus.
LEMMA StcType ==
  ASSUME TypeOK, NEW new \in BOOLEAN, NEW r \in Request
  PROVE  stc(new, r) \in [active : BOOLEAN, cr : Request, way : Way]
  BY WayOfType DEF TypeOK, stc, Pending

LEMMA LfcType ==
  ASSUME TypeOK, NEW r \in Request
  PROVE  lfc(r) \in [way : Way, set : Set, beat : Beat, be : SUBSET Lane,
                     rtype : {"DMEM_READ", "DMEM_WRITE"}]
  BY WayOfType DEF TypeOK, lfc, Request

LEMMA BankAddressType ==
  ASSUME TypeOK, NEW new \in BOOLEAN, NEW r \in Request
  PROVE  BankSet(new, r) \in Set /\ BankBeat(new, r) \in Beat
  BY StcType, LfcType
  DEF TypeOK, BankSet, BankBeat, StoreBeat, LoadBeat, Request

-----------------------------------------------------------------------------
(* Type correctness, register by register.                                  *)

LEMMA BankEdgeType ==
  ASSUME TypeOK, NEW new \in BOOLEAN, NEW r \in Request, BankEdge(new, r)
  PROVE  bank' \in [Way -> [Set -> Line]] /\ bank_data' \in [Way -> Word]
<1> DEFINE c == stc(new, r)
           s == BankSet(new, r)
           b == BankBeat(new, r)
           w == IF rsp_mem_valid THEN rsp_mem_data
                                 ELSE Merge(bank[c.way][s][b], c.cr.be, c.cr.wdata)
<1>1. c \in [active : BOOLEAN, cr : Request, way : Way] /\ s \in Set /\ b \in Beat
  BY StcType, BankAddressType
<1>2. bank \in [Way -> [Set -> [Beat -> Word]]]
  BY DEF TypeOK, Line
<1>3. bank[c.way][s][b] \in Word
  BY <1>1, <1>2
<1>4. w \in Word
  BY <1>1, <1>3, MergeType DEF TypeOK, Request
<1>5. bank_data' \in [Way -> Word]
  BY <1>1, <1>2 DEF BankEdge
<1>6. bank' = IF cache_store(new, r) THEN [bank EXCEPT ![c.way][s][b] = w] ELSE bank
  BY DEF BankEdge
<1> HIDE DEF c, s, b, w
<1>7. bank' \in [Way -> [Set -> [Beat -> Word]]]
  BY <1>1, <1>2, <1>4, <1>6
<1> QED
  BY <1>5, <1>7 DEF Line

LEMMA MetadataEdgeType ==
  ASSUME TypeOK, NEW new \in BOOLEAN, NEW r \in Request, MetadataEdge(new, r)
  PROVE  /\ a_valid' \in [Way -> [Set -> BOOLEAN]]
         /\ a_dirty' \in [Way -> [Set -> BOOLEAN]]
         /\ a_tag' \in [Way -> [Set -> Tag]]
<1> DEFINE c == stc(new, r)
           fill == mem_r_transfer_done
           store == store_req_pending \/ store_req_hit(new, r)
<1>1. c.way \in Way /\ c.cr.set \in Set /\ cr_pend.cr.tag \in Tag
  BY StcType DEF Request, TypeOK
<1>2. store \in BOOLEAN
  BY DEF store_req_pending, store_req_hit, req_pending, hit
<1>3. /\ a_valid' = IF fill THEN [a_valid EXCEPT ![c.way][c.cr.set] = TRUE]
                            ELSE a_valid
      /\ a_tag' = IF fill THEN [a_tag EXCEPT ![c.way][c.cr.set] = cr_pend.cr.tag]
                          ELSE a_tag
      /\ a_dirty' = IF store \/ fill
                      THEN [a_dirty EXCEPT ![c.way][c.cr.set] = store]
                      ELSE a_dirty
  BY DEF MetadataEdge
<1> HIDE DEF c, fill, store
<1> QED
  BY <1>1, <1>2, <1>3 DEF TypeOK

\* A rank below another one can be counted up.
LEMMA RankBelow ==
  ASSUME NEW i \in Way, NEW j \in Way, i < j
  PROVE  i + 1 \in Way
BY DCacheAssumption DEF Way

\* The counters after an access are ranks of ways again.
LEMMA TouchedType ==
  ASSUME NEW counter \in [Way -> Way], NEW w \in Way
  PROVE  Touched(counter, w) \in [Way -> Way]
<1> DEFINE rank(v) == IF WAYS = 2 THEN (IF v = w THEN 0 ELSE 1)
                      ELSE IF v = w THEN 0
                      ELSE IF counter[v] < counter[w] THEN counter[v] + 1
                      ELSE counter[v]
<1>1. ASSUME NEW v \in Way PROVE rank(v) \in Way
  <2>1. WAYS \in Nat \ {0}
    BY DCacheAssumption
  <2>2. counter[v] \in Way /\ counter[w] \in Way
    BY <1>1
  <2>3. 0 \in Way
    BY <2>1 DEF Way
  <2>4. WAYS = 2 => 1 \in Way
    BY DEF Way
  <2>5. counter[v] < counter[w] => counter[v] + 1 \in Way
    BY <2>2, RankBelow
  <2> QED
    BY <2>2, <2>3, <2>4, <2>5
<1>2. Touched(counter, w) = [v \in Way |-> rank(v)]
  BY DEF Touched
<1> HIDE DEF rank
<1> QED
  BY <1>1, <1>2

LEMMA LruAccessType ==
  ASSUME TypeOK, NEW s \in Set, NEW w \in Way
  PROVE  LruAccess(s, w) \in [Way -> [Set -> Way]]
<1> DEFINE before == [v \in Way |-> a_lru[v][s]]
           now == Touched(before, w)
<1>1. before \in [Way -> Way]
  BY DEF TypeOK
<1>2. now \in [Way -> Way]
  BY <1>1, TouchedType
<1>3. LruAccess(s, w) = [v \in Way |-> [a_lru[v] EXCEPT ![s] = now[v]]]
  BY DEF LruAccess
<1> HIDE DEF now, before
<1> QED
  BY <1>2, <1>3 DEF TypeOK

LEMMA LruEdgeType ==
  ASSUME TypeOK, NEW new \in BOOLEAN, NEW r \in Request, LruEdge(new, r)
  PROVE  a_lru' \in [Way -> [Set -> Way]]
<1>1. r.set \in Set /\ cr_pend.cr.set \in Set /\ cr_pend.way \in Way
  BY DEF Request, TypeOK
<1>2. /\ LruAccess(r.set, WayOf(r)) \in [Way -> [Set -> Way]]
      /\ LruAccess(cr_pend.cr.set, cr_pend.way) \in [Way -> [Set -> Way]]
  BY <1>1, WayOfType, LruAccessType
<1> QED
  BY <1>2 DEF LruEdge, TypeOK

LEMMA ClearPendingType == ClearPending \in [active : BOOLEAN, cr : Request, way : Way]
  BY TypesAssumption, DCacheAssumption
  DEF ClearPending, Pending, ClearRequest, Request, Tag, Set, Beat, Way

LEMMA PendEdgeType ==
  ASSUME TypeOK, NEW new \in BOOLEAN, NEW r \in Request, PendEdge(new, r)
  PROVE  cr_pend' \in [active : BOOLEAN, cr : Request, way : Way]
  BY WayVictimType, ClearPendingType DEF PendEdge, Pending, TypeOK

LEMMA RequestEdgeType ==
  ASSUME TypeOK, NEW new \in BOOLEAN, NEW r \in Request, RequestEdge(new, r)
  PROVE  /\ new_core_req_d' \in BOOLEAN /\ hit_d' \in BOOLEAN
         /\ cr_victim_dirty_d' \in BOOLEAN
         /\ mem_r_transfer_done_d' \in BOOLEAN
         /\ clear_pending_on_read' \in BOOLEAN
         /\ lfc_d' \in [way : Way, set : Set, beat : Beat, be : SUBSET Lane,
                        rtype : {"DMEM_READ", "DMEM_WRITE"}]
<1>1. r.set \in Set
  BY DEF Request
<1>2. a_dirty[WayVictim(r.set)][r.set] \in BOOLEAN
  BY <1>1, WayVictimType DEF TypeOK
<1>3. hit(new, r) \in BOOLEAN
  BY DEF hit, TagMatch
<1>4. mem_r_transfer_done \in BOOLEAN /\ load_req_pending \in BOOLEAN
  BY DEF mem_r_transfer_done, load_req_pending, req_pending
<1> QED
  BY <1>2, <1>3, <1>4, LfcType DEF RequestEdge, TypeOK

LEMMA CounterEdgeType ==
  ASSUME TypeOK, NEW new \in BOOLEAN, NEW r \in Request, CounterEdge(new, r)
  PROVE  mem_cnt' \in Beat /\ mem_cnt_d' \in Beat /\ bank_evict_cnt' \in Beat
<1>1. 0 \in Beat
  BY TypesAssumption DEF Beat
<1> QED
  BY <1>1, NextBeatType DEF CounterEdge, TypeOK

LEMMA MemEdgeType ==
  ASSUME TypeOK, NEW r \in Request, MemEdge(r)
  PROVE  /\ mem' \in MainMemory
         /\ rsp_mem_valid' \in BOOLEAN
         /\ rsp_mem_data' \in Word
<1> DEFINE v == lfc(r)
           t == a_tag[v.way][v.set]
           b == WritebackBeat
           d == bank_data[v.way]
<1>1. 0 \in Beat
  BY TypesAssumption DEF Beat
<1>2. v.set \in Set /\ t \in Tag /\ b \in Beat /\ d \in Word
  <2>1. v.set \in Set /\ v.way \in Way
    BY LfcType
  <2>2. t \in Tag /\ d \in Word
    BY <2>1 DEF TypeOK
  <2>3. b \in Beat
    BY <1>1 DEF TypeOK, WritebackBeat
  <2> QED
    BY <2>1, <2>2, <2>3
<1>3. mem \in [Tag -> [Set -> [Beat -> Word]]]
  BY DEF TypeOK, MainMemory, Line
<1>4. mem' = IF req_mem_w_valid THEN [mem EXCEPT ![t][v.set][b] = d] ELSE mem
  BY DEF MemEdge
<1>5. rsp_mem_valid' \in BOOLEAN
  BY DEF MemEdge, req_mem_r_valid, Launch, miss_d, mem_cnt_done
<1>6. rsp_mem_data' \in Word
  <2>1. /\ cr_pend.cr.tag \in Tag /\ cr_pend.cr.set \in Set
        /\ RefillBeat \in Beat /\ rsp_mem_data \in Word
    BY <1>1 DEF TypeOK, RefillBeat, Request
  <2>2. mem[cr_pend.cr.tag][cr_pend.cr.set][RefillBeat] \in Word
    BY <1>3, <2>1
  <2>3. rsp_mem_data' = IF req_mem_r_valid /\ ~req_mem_w_valid
                          THEN mem[cr_pend.cr.tag][cr_pend.cr.set][RefillBeat]
                          ELSE rsp_mem_data
    BY DEF MemEdge
  <2> QED
    BY <2>1, <2>2, <2>3
<1> HIDE DEF v, t, b, d
<1>7. mem' \in [Tag -> [Set -> [Beat -> Word]]]
  BY <1>2, <1>3, <1>4
<1> QED
  BY <1>5, <1>6, <1>7 DEF MainMemory, Line

LEMMA ClockType ==
  ASSUME TypeOK, NEW new \in BOOLEAN, NEW r \in Request, Clock(new, r)
  PROVE  TypeOK'
<1>1. state' \in {"DC_RESET", "DC_READY", "DC_MISS", "DC_EVICT"}
  BY DEF Clock, StateEdge, TypeOK
<1> QED
  BY <1>1, BankEdgeType, MetadataEdgeType, LruEdgeType, PendEdgeType,
     RequestEdgeType, CounterEdgeType, MemEdgeType
  DEF Clock, TypeOK

\* Every step of the cache is a clock edge; a request is accepted only in a
\* cycle in which the cache is ready.
LEMMA EveryStepIsAnEdge ==
  ASSUME Next
  PROVE  \E r \in Request, new \in BOOLEAN : Clock(new, r) /\ (new => ready)
  BY DCacheAssumption
  DEF Next, LeaveReset, Idle, LoadHit, StoreHit, Miss, Service, StartRefill,
      StartEvict, EvictWord, EvictDone, RefillWord, RefillDone, ServeLoad,
      ServeStore

LEMMA InitType == Init => TypeOK
<1> SUFFICES ASSUME Init PROVE TypeOK
  OBVIOUS
<1>1. 0 \in Way /\ 0 \in Set /\ 0 \in Tag /\ 0 \in Beat
  BY TypesAssumption, DCacheAssumption DEF Way, Set, Tag, Beat
<1>2. ZeroWord \in Word
  BY TypesAssumption DEF ZeroWord, Word
<1>3. mem \in MainMemory /\ bank \in [Way -> [Set -> Line]]
  BY DCacheAssumption DEF Init, Way
<1> QED
  BY <1>1, <1>2, <1>3, ClearPendingType DEF Init, TypeOK

\* The registers, the arrays, the banks and main memory keep their types, for
\* every geometry of the cache.
THEOREM TypeCorrect == Spec => []TypeOK
<1>1. TypeOK /\ [Next]_vars => TypeOK'
  <2> SUFFICES ASSUME TypeOK, [Next]_vars PROVE TypeOK'
    OBVIOUS
  <2>1. CASE Next
    BY <2>1, EveryStepIsAnEdge, ClockType
  <2>2. CASE UNCHANGED vars
    BY <2>2 DEF vars, meta, banks, ctrl, cnts, port, TypeOK
  <2> QED
    BY <2>1, <2>2
<1> QED
  BY <1>1, InitType, PTL DEF Spec

-----------------------------------------------------------------------------
(* The LRU counters.                                                        *)

Distinct(counter) == \A v, w \in Way : counter[v] = counter[w] => v = w

\* An access keeps the counters of a set distinct: those below the accessed
\* way's move up by one, into the place it leaves.
LEMMA TouchedDistinct ==
  ASSUME NEW counter \in [Way -> Way], NEW w \in Way, Distinct(counter)
  PROVE  Distinct(Touched(counter, w))
<1> SUFFICES ASSUME NEW u \in Way, NEW v \in Way,
                    Touched(counter, w)[u] = Touched(counter, w)[v]
             PROVE  u = v
  BY DEF Distinct
<1>1. WAYS \in Nat /\ Way = 0 .. WAYS - 1
  BY DCacheAssumption DEF Way
<1>2. counter[u] \in Nat /\ counter[v] \in Nat /\ counter[w] \in Nat
  BY <1>1
<1>3. CASE WAYS = 2
  BY <1>1, <1>3 DEF Touched
<1>4. CASE WAYS # 2
  <2>1. ASSUME NEW x \in Way
        PROVE  Touched(counter, w)[x] =
                 IF x = w THEN 0
                 ELSE IF counter[x] < counter[w] THEN counter[x] + 1
                 ELSE counter[x]
    BY <1>4 DEF Touched
  <2>2. /\ counter[u] = counter[v] => u = v
        /\ counter[u] = counter[w] => u = w
        /\ counter[v] = counter[w] => v = w
    BY DEF Distinct
  <2> QED
    BY <1>2, <2>1, <2>2
<1> QED
  BY <1>3, <1>4

LEMMA LruAccessRanking ==
  ASSUME TypeOK, LruIsRanking, NEW t \in Set, NEW w \in Way,
         a_lru' = LruAccess(t, w)
  PROVE  LruIsRanking'
<1> DEFINE before == [v \in Way |-> a_lru[v][t]]
           now == Touched(before, w)
<1>1. before \in [Way -> Way] /\ Distinct(before)
  <2>1. \A v \in Way : before[v] = a_lru[v][t] /\ a_lru[v][t] \in Way
    BY DEF TypeOK
  <2>2. before \in [Way -> Way]
    BY <2>1
  <2> HIDE DEF before
  <2>3. Distinct(before)
    BY <2>1 DEF Distinct, LruIsRanking
  <2> QED
    BY <2>2, <2>3
<1>2. Distinct(now)
  BY <1>1, TouchedDistinct
<1>3. a_lru' = [v \in Way |-> [a_lru[v] EXCEPT ![t] = now[v]]]
  BY DEF LruAccess
<1> SUFFICES ASSUME NEW s \in Set, NEW v \in Way, NEW u \in Way,
                    a_lru'[v][s] = a_lru'[u][s]
             PROVE  v = u
  BY DEF LruIsRanking
<1> HIDE DEF now
<1>4. a_lru \in [Way -> [Set -> Way]]
  BY DEF TypeOK
<1>5. CASE s = t
  <2>1. a_lru'[v][s] = now[v] /\ a_lru'[u][s] = now[u]
    BY <1>3, <1>4, <1>5
  <2> QED
    BY <1>2, <2>1 DEF Distinct
<1>6. CASE s # t
  <2>1. a_lru'[v][s] = a_lru[v][s] /\ a_lru'[u][s] = a_lru[u][s]
    BY <1>3, <1>4, <1>6
  <2> QED
    BY <2>1 DEF LruIsRanking
<1> QED
  BY <1>5, <1>6

LEMMA LruEdgeRanking ==
  ASSUME TypeOK, LruIsRanking, NEW new \in BOOLEAN, NEW r \in Request,
         LruEdge(new, r)
  PROVE  LruIsRanking'
<1>1. r.set \in Set /\ cr_pend.cr.set \in Set /\ cr_pend.way \in Way
  BY DEF Request, TypeOK
<1>2. CASE hit(new, r)
  BY <1>1, <1>2, WayOfType, LruAccessRanking DEF LruEdge
<1>3. CASE ~hit(new, r) /\ req_pending
  BY <1>1, <1>3, LruAccessRanking DEF LruEdge
<1>4. CASE ~hit(new, r) /\ ~req_pending
  BY <1>4 DEF LruEdge, LruIsRanking
<1> QED
  BY <1>2, <1>3, <1>4

\* The LRU counters of every set rank its ways at all times, for every
\* associativity: the two-way toggle and the general rule both keep them
\* distinct, whatever hits, misses and pending requests touch them.
THEOREM LruAlwaysRanks == Spec => []LruIsRanking
<1>1. Init => LruIsRanking
  BY DEF Init, LruIsRanking
<1>2. TypeOK /\ LruIsRanking /\ [Next]_vars => LruIsRanking'
  <2> SUFFICES ASSUME TypeOK, LruIsRanking, [Next]_vars PROVE LruIsRanking'
    OBVIOUS
  <2>1. CASE Next
    BY <2>1, EveryStepIsAnEdge, LruEdgeRanking DEF Clock
  <2>2. CASE UNCHANGED vars
    BY <2>2 DEF vars, LruIsRanking
  <2> QED
    BY <2>1, <2>2
<1> QED
  BY <1>1, <1>2, TypeCorrect, PTL DEF Spec

-----------------------------------------------------------------------------
(* The effect of each step.                                                 *)

\* While a miss is outstanding the banks are read for the saved request.
LEMMA LfcPending ==
  ASSUME NEW r, cr_pend.active, ~clear_pending_on_read
  PROVE  /\ lfc(r).way = cr_pend.way /\ lfc(r).set = cr_pend.cr.set
         /\ lfc(r).beat = cr_pend.cr.beat /\ lfc(r).be = cr_pend.cr.be
         /\ lfc(r).rtype = cr_pend.cr.rtype
  BY DEF lfc

\* Nothing of a miss is in progress in a cycle that can accept a request.
LEMMA ReadyMeans ==
  ASSUME PhaseInv, ready
  PROVE  /\ state = "DC_READY" /\ ~miss_d /\ ~Launch
         /\ ~rsp_mem_valid /\ ~mem_r_transfer_done_d
         /\ mem_cnt = 0 /\ mem_cnt_d = 0 /\ bank_evict_cnt = 0
         /\ ~req_pending /\ ~req_mem_r_valid /\ ~req_mem_w_valid
         /\ ~mem_r_transfer_done
         /\ cr_pend.active => clear_pending_on_read
  BY DEF PhaseInv, ready, miss_d, Launch, req_pending, req_mem_r_valid,
         req_mem_w_valid, mem_r_transfer_done

\* What all steps out of a ready cycle have in common.
AcceptCommon(new, r) ==
  /\ state' = "DC_READY"
  /\ rsp_mem_valid' = FALSE /\ mem_r_transfer_done_d' = FALSE
  /\ mem_cnt' = 0 /\ mem_cnt_d' = 0
  /\ clear_pending_on_read' = FALSE
  /\ new_core_req_d' = new
  /\ mem' = mem
  /\ UNCHANGED <<a_valid, a_tag>>

LEMMA AcceptEffect ==
  ASSUME Inductive, NEW new \in BOOLEAN, NEW r \in Request, ready, Clock(new, r)
  PROVE  AcceptCommon(new, r)
<1>1. /\ state = "DC_READY" /\ ~miss_d /\ ~rsp_mem_valid
      /\ mem_cnt = 0 /\ mem_cnt_d = 0 /\ ~req_pending
      /\ ~req_mem_r_valid /\ ~req_mem_w_valid /\ ~mem_r_transfer_done
  BY ReadyMeans DEF Inductive
<1>2. state' = "DC_READY"
  BY <1>1 DEF Clock, StateEdge
<1>3. /\ mem_r_transfer_done_d' = FALSE /\ clear_pending_on_read' = FALSE
      /\ new_core_req_d' = new
  BY <1>1 DEF Clock, RequestEdge, load_req_pending, mem_r_transfer_done
<1>4. mem_cnt' = 0 /\ mem_cnt_d' = 0
  BY <1>1 DEF Clock, CounterEdge
<1>5. mem' = mem /\ rsp_mem_valid' = FALSE
  BY <1>1 DEF Clock, MemEdge, Inductive, TypeOK, req_mem_r_valid, Launch
<1>6. a_valid' = a_valid /\ a_tag' = a_tag
  BY <1>1 DEF Clock, MetadataEdge
<1> QED
  BY <1>2, <1>3, <1>4, <1>5, <1>6 DEF AcceptCommon

\* No request, or a load that hits: nothing is written.
LEMMA QuietEffect ==
  ASSUME Inductive, NEW new \in BOOLEAN, NEW r \in Request, ready,
         Clock(new, r), new => TagMatch(r) /\ r.rtype = "DMEM_READ"
  PROVE  /\ bank' = bank /\ a_dirty' = a_dirty
         /\ bank_evict_cnt' = 0
         /\ cr_pend'.active = FALSE
         /\ new => hit_d' = TRUE
<1>1. /\ state = "DC_READY" /\ ~miss_d /\ ~rsp_mem_valid
      /\ bank_evict_cnt = 0 /\ ~req_pending
      /\ ~req_mem_w_valid /\ ~mem_r_transfer_done
      /\ cr_pend.active => clear_pending_on_read
  BY ReadyMeans DEF Inductive
<1>2. ~miss(new, r) /\ ~store_req_hit(new, r) /\ ~store_req_pending
  BY <1>1 DEF miss, store_req_hit, hit, store_req_pending
<1>3. bank' = bank
  BY <1>1, <1>2 DEF Clock, BankEdge, cache_store
<1>4. a_dirty' = a_dirty
  BY <1>1, <1>2 DEF Clock, MetadataEdge
<1>5. bank_evict_cnt' = 0
  BY <1>1, <1>2 DEF Clock, CounterEdge
<1>6. cr_pend'.active = FALSE
  <2>1. cr_pend.active \in BOOLEAN
    BY DEF Inductive, TypeOK
  <2> QED
    BY <1>1, <1>2, <2>1 DEF Clock, PendEdge, ClearPending, Pending
<1>7. new => hit_d' = TRUE
  BY DEF Clock, RequestEdge, hit
<1> QED
  BY <1>3, <1>4, <1>5, <1>6, <1>7

LEMMA StoreHitEffect ==
  ASSUME Inductive, NEW r \in Request, StoreHit(r)
  PROVE  /\ bank' = [bank EXCEPT ![WayOf(r)][r.set][r.beat] =
                       Merge(@, r.be, r.wdata)]
         /\ a_dirty' = [a_dirty EXCEPT ![WayOf(r)][r.set] = TRUE]
         /\ bank_evict_cnt' = 0
         /\ cr_pend'.active = FALSE
         /\ hit_d' = TRUE
<1>1. /\ ready /\ TagMatch(r) /\ r.rtype = "DMEM_WRITE" /\ Clock(TRUE, r)
  BY DEF StoreHit
<1>2. /\ state = "DC_READY" /\ ~miss_d /\ ~rsp_mem_valid
      /\ bank_evict_cnt = 0 /\ ~req_pending
      /\ ~req_mem_w_valid /\ ~mem_r_transfer_done
      /\ cr_pend.active => clear_pending_on_read
  BY <1>1, ReadyMeans DEF Inductive
<1>3. ~miss(TRUE, r) /\ store_req_hit(TRUE, r) /\ ~store_req_pending
  BY <1>1, <1>2 DEF miss, store_req_hit, hit, store_req_pending
<1>4. /\ stc(TRUE, r).cr = r /\ stc(TRUE, r).way = WayOf(r)
      /\ cache_store(TRUE, r)
  BY <1>2, <1>3 DEF stc, cache_store, Pending
<1>5. BankSet(TRUE, r) = r.set /\ BankBeat(TRUE, r) = r.beat
  BY <1>2, <1>4 DEF BankSet, BankBeat, StoreBeat
<1>6. bank' = [bank EXCEPT ![WayOf(r)][r.set][r.beat] = Merge(@, r.be, r.wdata)]
  BY <1>1, <1>2, <1>4, <1>5 DEF Clock, BankEdge
<1>7. a_dirty' = [a_dirty EXCEPT ![WayOf(r)][r.set] = TRUE]
  BY <1>1, <1>2, <1>3, <1>4 DEF Clock, MetadataEdge
<1>8. bank_evict_cnt' = 0
  BY <1>1, <1>2, <1>3 DEF Clock, CounterEdge
<1>9. cr_pend'.active = FALSE
  <2>1. cr_pend.active \in BOOLEAN
    BY DEF Inductive, TypeOK
  <2> QED
    BY <1>1, <1>2, <1>3, <2>1 DEF Clock, PendEdge, ClearPending, Pending
<1>10. hit_d' = TRUE
  BY <1>1 DEF Clock, RequestEdge, hit
<1> QED
  BY <1>6, <1>7, <1>8, <1>9, <1>10

LEMMA MissEffect ==
  ASSUME Inductive, NEW r \in Request, Miss(r)
  PROVE  /\ bank' = bank /\ a_dirty' = a_dirty
         /\ cr_pend' = Pending(TRUE, r, WayVictim(r.set))
         /\ hit_d' = FALSE
         /\ cr_victim_dirty_d' = a_dirty[WayVictim(r.set)][r.set]
         /\ bank_evict_cnt' = 1
         /\ bank_data' = [w \in Way |-> bank[w][r.set][0]]
<1>1. ready /\ ~TagMatch(r) /\ Clock(TRUE, r)
  BY DEF Miss
<1>2. /\ state = "DC_READY" /\ ~miss_d /\ ~rsp_mem_valid
      /\ bank_evict_cnt = 0 /\ ~req_pending
      /\ ~req_mem_w_valid /\ ~mem_r_transfer_done
      /\ cr_pend.active => clear_pending_on_read
  BY <1>1, ReadyMeans DEF Inductive
<1>3. /\ miss(TRUE, r) /\ ~store_req_hit(TRUE, r) /\ ~store_req_pending
      /\ ~hit(TRUE, r)
  BY <1>1, <1>2 DEF miss, store_req_hit, hit, store_req_pending
<1>4. ~cache_store(TRUE, r)
  BY <1>2, <1>3 DEF cache_store
<1>5. bank' = bank /\ a_dirty' = a_dirty
  BY <1>1, <1>2, <1>3, <1>4 DEF Clock, BankEdge, MetadataEdge
<1>6. cr_pend' = Pending(TRUE, r, WayVictim(r.set))
  BY <1>1, <1>3 DEF Clock, PendEdge
<1>7. hit_d' = FALSE /\ cr_victim_dirty_d' = a_dirty[WayVictim(r.set)][r.set]
  BY <1>1, <1>3 DEF Clock, RequestEdge, hit
<1>8. bank_evict_cnt' = 1
  <2>1. NextBeat(0) = 1
    BY TypesAssumption DEF NextBeat, LastBeat
  <2> QED
    BY <1>1, <1>2, <1>3, <2>1 DEF Clock, CounterEdge
<1>9. BankSet(TRUE, r) = r.set /\ BankBeat(TRUE, r) = 0
  BY <1>2, <1>3, <1>4 DEF BankSet, BankBeat, LoadBeat, lfc
<1>10. bank_data' = [w \in Way |-> bank[w][r.set][0]]
  BY <1>1, <1>9 DEF Clock, BankEdge
<1> QED
  BY <1>5, <1>6, <1>7, <1>8, <1>10


\* What all steps of a miss in progress have in common: no request enters.
ServiceCommon ==
  /\ new_core_req_d' = FALSE
  /\ mem_cnt_d' = mem_cnt
  /\ a_lru' = IF req_pending THEN LruAccess(cr_pend.cr.set, cr_pend.way) ELSE a_lru

LEMMA ServiceEffect ==
  ASSUME NEW r, Clock(FALSE, r)
  PROVE  ServiceCommon
  BY DEF Clock, RequestEdge, CounterEdge, LruEdge, hit, ServiceCommon

\* Signals that need a new request are low while none can enter.
LEMMA NoRequestSignals ==
  ASSUME NEW r
  PROVE  /\ ~miss(FALSE, r) /\ ~store_req_hit(FALSE, r) /\ ~hit(FALSE, r)
  BY DEF miss, store_req_hit, hit

\* No word arrives and no request is performed: lines keep their content.
LEMMA LinesKept ==
  ASSUME NEW r, Clock(FALSE, r), ~rsp_mem_valid, ~req_pending
  PROVE  UNCHANGED <<bank, a_valid, a_dirty, a_tag>>
<1>1. ~cache_store(FALSE, r) /\ ~mem_r_transfer_done /\ ~store_req_pending
  BY NoRequestSignals DEF cache_store, mem_r_transfer_done, store_req_pending
<1> QED
  BY <1>1, NoRequestSignals DEF Clock, BankEdge, MetadataEdge

LEMMA StartRefillEffect ==
  ASSUME Inductive, NEW r \in Request, StartRefill(r)
  PROVE  /\ state' = "DC_MISS"
         /\ UNCHANGED <<bank, a_valid, a_dirty, a_tag, cr_pend, mem>>
         /\ mem_cnt = 0 /\ mem_cnt' = 1 /\ mem_cnt_d' = 0
         /\ rsp_mem_valid' = TRUE
         /\ rsp_mem_data' = mem[PendingTag][PendingSet][0]
         /\ mem_r_transfer_done_d' = FALSE /\ clear_pending_on_read' = FALSE
<1>1. /\ Launch /\ ~cr_victim_dirty_d /\ Clock(FALSE, r)
      /\ state = "DC_READY" /\ miss_d /\ ~clear_pending_on_read
      /\ ~rsp_mem_valid /\ ~mem_r_transfer_done_d /\ mem_cnt = 0
  BY DEF StartRefill, Launch, Inductive, PhaseInv
<1>2. /\ ~req_pending /\ ~load_req_pending /\ ~store_req_pending
      /\ ~mem_r_transfer_done /\ req_mem_r_valid /\ ~req_mem_w_valid
  BY <1>1 DEF req_pending, load_req_pending, store_req_pending,
              mem_r_transfer_done, req_mem_r_valid, req_mem_w_valid
<1>3. state' = "DC_MISS"
  BY <1>1 DEF Clock, StateEdge
<1>4. UNCHANGED <<bank, a_valid, a_dirty, a_tag>>
  BY <1>1, <1>2, LinesKept
<1>5. cr_pend' = cr_pend
  BY <1>1, <1>2, NoRequestSignals DEF Clock, PendEdge
<1>6. mem_cnt' = 1 /\ mem_cnt_d' = 0
  BY <1>1, <1>2, TypesAssumption DEF Clock, CounterEdge, NextBeat, LastBeat
<1>7. /\ mem' = mem /\ rsp_mem_valid' = TRUE
      /\ rsp_mem_data' = mem[PendingTag][PendingSet][0]
  BY <1>1, <1>2
  DEF Clock, MemEdge, RefillBeat, PendingTag, PendingSet, req_mem_r_valid, Launch,
      miss_d
<1>8. mem_r_transfer_done_d' = FALSE /\ clear_pending_on_read' = FALSE
  BY <1>1, <1>2 DEF Clock, RequestEdge, mem_r_transfer_done, load_req_pending
<1> QED
  BY <1>1, <1>3, <1>4, <1>5, <1>6, <1>7, <1>8

\* A word of the victim goes to main memory and the next one is read.
WritebackCommon ==
  /\ state' = "DC_EVICT"
  /\ UNCHANGED <<bank, a_valid, a_dirty, a_tag, cr_pend>>
  /\ mem' = [mem EXCEPT ![a_tag[PendingWay][PendingSet]][PendingSet][mem_cnt]
               = bank_data[PendingWay]]
  /\ bank_data' = [w \in Way |-> bank[w][PendingSet][bank_evict_cnt]]
  /\ mem_cnt' = NextBeat(mem_cnt) /\ mem_cnt_d' = mem_cnt
  /\ bank_evict_cnt' = NextBeat(bank_evict_cnt)
  /\ rsp_mem_valid' = FALSE
  /\ mem_r_transfer_done_d' = FALSE /\ clear_pending_on_read' = FALSE

LEMMA WritebackEffect ==
  ASSUME Inductive, NEW r \in Request, StartEvict(r) \/ EvictWord(r)
  PROVE  WritebackCommon
<1>1. /\ Clock(FALSE, r)
      /\ \/ state = "DC_READY" /\ Launch /\ cr_victim_dirty_d /\ miss_d
         \/ state = "DC_EVICT" /\ ~mem_cnt_done
  BY DEF StartEvict, EvictWord, Launch
<1>2. /\ cr_pend.active /\ ~clear_pending_on_read
      /\ ~rsp_mem_valid /\ ~mem_r_transfer_done_d
      /\ state = "DC_READY" => mem_cnt = 0
  BY <1>1 DEF Launch, Inductive, PhaseInv
<1>3. /\ ~req_pending /\ ~load_req_pending /\ ~store_req_pending
      /\ ~mem_r_transfer_done /\ ~req_mem_r_valid /\ req_mem_w_valid
  BY <1>1, <1>2 DEF req_pending, load_req_pending, store_req_pending, Launch,
              mem_r_transfer_done, req_mem_r_valid, req_mem_w_valid
<1>4. state' = "DC_EVICT"
  BY <1>1 DEF Clock, StateEdge
<1>5. UNCHANGED <<bank, a_valid, a_dirty, a_tag>>
  BY <1>1, <1>2, <1>3, LinesKept
<1>6. cr_pend' = cr_pend
  BY <1>1, <1>2, <1>3, NoRequestSignals DEF Clock, PendEdge
<1>7. /\ mem_cnt' = NextBeat(mem_cnt) /\ mem_cnt_d' = mem_cnt
      /\ bank_evict_cnt' = NextBeat(bank_evict_cnt)
  BY <1>1, <1>3, <1>4 DEF Clock, CounterEdge
<1>8. WritebackBeat = mem_cnt
  BY <1>1, <1>2 DEF WritebackBeat
<1>9. mem' = [mem EXCEPT ![a_tag[PendingWay][PendingSet]][PendingSet][mem_cnt]
                = bank_data[PendingWay]]
  BY <1>1, <1>2, <1>3, <1>8, LfcPending DEF Clock, MemEdge, PendingWay, PendingSet
<1>10. rsp_mem_valid' = FALSE
  BY <1>1, <1>3 DEF Clock, MemEdge, req_mem_r_valid, Launch, miss_d, mem_cnt_done
<1>11. ~cache_store(FALSE, r)
  BY <1>2, <1>3, NoRequestSignals DEF cache_store
<1>12. BankSet(FALSE, r) = PendingSet /\ BankBeat(FALSE, r) = bank_evict_cnt
  BY <1>2, <1>3, <1>11, LfcPending DEF BankSet, BankBeat, LoadBeat, PendingSet
<1>13. bank_data' = [w \in Way |-> bank[w][PendingSet][bank_evict_cnt]]
  BY <1>1, <1>12 DEF Clock, BankEdge
<1>14. mem_r_transfer_done_d' = FALSE /\ clear_pending_on_read' = FALSE
  BY <1>1, <1>2, <1>3
  DEF Clock, RequestEdge, mem_r_transfer_done, load_req_pending, req_pending
<1> QED
  BY <1>4, <1>5, <1>6, <1>7, <1>9, <1>10, <1>13, <1>14 DEF WritebackCommon

LEMMA EvictDoneEffect ==
  ASSUME Inductive, NEW r \in Request, EvictDone(r)
  PROVE  /\ state' = "DC_MISS"
         /\ mem_cnt_d = LastBeat /\ mem_cnt = 0
         /\ UNCHANGED <<bank, a_valid, a_dirty, a_tag, cr_pend, mem>>
         /\ mem_cnt' = 1 /\ mem_cnt_d' = 0
         /\ rsp_mem_valid' = TRUE
         /\ rsp_mem_data' = mem[PendingTag][PendingSet][0]
         /\ mem_r_transfer_done_d' = FALSE /\ clear_pending_on_read' = FALSE
<1>1. /\ Clock(FALSE, r) /\ state = "DC_EVICT" /\ mem_cnt_done
      /\ mem_cnt_d = LastBeat
  BY DEF EvictDone, mem_cnt_done
<1>2. /\ cr_pend.active /\ ~clear_pending_on_read
      /\ ~rsp_mem_valid /\ ~mem_r_transfer_done_d /\ mem_cnt = 0
  BY <1>1 DEF Inductive, PhaseInv, NextBeat
<1>3. /\ ~req_pending /\ ~load_req_pending /\ ~store_req_pending
      /\ ~mem_r_transfer_done /\ req_mem_r_valid /\ ~req_mem_w_valid
  BY <1>1, <1>2 DEF req_pending, load_req_pending, store_req_pending, Launch,
              mem_r_transfer_done, req_mem_r_valid, req_mem_w_valid
<1>4. state' = "DC_MISS"
  BY <1>1 DEF Clock, StateEdge
<1>5. UNCHANGED <<bank, a_valid, a_dirty, a_tag>>
  BY <1>1, <1>2, <1>3, LinesKept
<1>6. cr_pend' = cr_pend
  BY <1>1, <1>2, <1>3, NoRequestSignals DEF Clock, PendEdge
<1>7. mem_cnt' = 1 /\ mem_cnt_d' = 0
  BY <1>1, <1>2, <1>3, TypesAssumption DEF Clock, CounterEdge, NextBeat, LastBeat
<1>8. /\ mem' = mem /\ rsp_mem_valid' = TRUE
      /\ rsp_mem_data' = mem[PendingTag][PendingSet][0]
  BY <1>1, <1>3
  DEF Clock, MemEdge, RefillBeat, PendingTag, PendingSet, req_mem_r_valid, Launch,
      miss_d, mem_cnt_done
<1>9. mem_r_transfer_done_d' = FALSE /\ clear_pending_on_read' = FALSE
  BY <1>1, <1>2, <1>3
  DEF Clock, RequestEdge, mem_r_transfer_done, load_req_pending, req_pending
<1> QED
  BY <1>1, <1>2, <1>4, <1>5, <1>6, <1>7, <1>8, <1>9


\* A word of the new line is written over the victim's.
WordArrives ==
  bank' = [bank EXCEPT ![PendingWay][PendingSet][mem_cnt_d] = rsp_mem_data]

LEMMA ArrivalEffect ==
  ASSUME Inductive, NEW r \in Request, RefillWord(r) \/ RefillDone(r)
  PROVE  /\ WordArrives
         /\ Clock(FALSE, r) /\ state = "DC_MISS" /\ state' = "DC_MISS"
         /\ cr_pend.active /\ ~clear_pending_on_read
         /\ rsp_mem_valid /\ ~mem_r_transfer_done_d
         /\ ~req_pending /\ ~store_req_pending /\ ~req_mem_w_valid
         /\ mem_cnt = NextBeat(mem_cnt_d)
         /\ cr_pend' = cr_pend /\ mem' = mem
         /\ clear_pending_on_read' = FALSE
<1>1. Clock(FALSE, r) /\ state = "DC_MISS" /\ rsp_mem_valid
  BY DEF RefillWord, RefillDone, mem_r_transfer_done
<1>2. /\ cr_pend.active /\ ~clear_pending_on_read /\ ~mem_r_transfer_done_d
      /\ mem_cnt = NextBeat(mem_cnt_d)
  BY <1>1 DEF Inductive, PhaseInv
<1>3. /\ ~req_pending /\ ~load_req_pending /\ ~store_req_pending
      /\ ~req_mem_w_valid
  BY <1>1, <1>2 DEF req_pending, load_req_pending, store_req_pending, Launch,
              req_mem_w_valid
<1>4. /\ cache_store(FALSE, r)
      /\ stc(FALSE, r).cr = cr_pend.cr /\ stc(FALSE, r).way = cr_pend.way
  BY <1>1 DEF cache_store, stc, Pending
<1>5. BankSet(FALSE, r) = PendingSet /\ BankBeat(FALSE, r) = mem_cnt_d
  BY <1>1, <1>4 DEF BankSet, BankBeat, StoreBeat, PendingSet
<1>6. WordArrives
  BY <1>1, <1>4, <1>5 DEF Clock, BankEdge, WordArrives, PendingWay
<1>7. state' = "DC_MISS" /\ cr_pend' = cr_pend
  BY <1>1, <1>2, <1>3, NoRequestSignals DEF Clock, StateEdge, PendEdge
<1>8. mem' = mem
  BY <1>1, <1>3 DEF Clock, MemEdge
<1>9. clear_pending_on_read' = FALSE
  BY <1>1, <1>3 DEF Clock, RequestEdge, load_req_pending, req_pending
<1> QED
  BY <1>1, <1>2, <1>3, <1>6, <1>7, <1>8, <1>9

LEMMA RefillWordEffect ==
  ASSUME Inductive, NEW r \in Request, RefillWord(r)
  PROVE  /\ UNCHANGED <<a_valid, a_dirty, a_tag>>
         /\ mem_cnt = mem_cnt_d + 1 /\ mem_cnt_d' = mem_cnt
         /\ mem_cnt' = NextBeat(mem_cnt)
         /\ rsp_mem_valid' = TRUE /\ mem_r_transfer_done_d' = FALSE
         /\ rsp_mem_data' = mem[PendingTag][PendingSet][mem_cnt]
<1>1. /\ Clock(FALSE, r) /\ state = "DC_MISS" /\ ~req_mem_w_valid
      /\ ~store_req_pending /\ mem_cnt = NextBeat(mem_cnt_d)
  BY ArrivalEffect
<1>2. ~mem_cnt_done /\ ~mem_r_transfer_done
  BY DEF RefillWord, mem_r_transfer_done
<1>3. mem_cnt_d \in Beat /\ mem_cnt = mem_cnt_d + 1
  BY <1>1, <1>2 DEF Inductive, TypeOK, mem_cnt_done, NextBeat
<1>4. req_mem_r_valid /\ mem_cnt > 0
  BY <1>1, <1>3 DEF req_mem_r_valid, Beat
<1>5. UNCHANGED <<a_valid, a_dirty, a_tag>>
  BY <1>1, <1>2, NoRequestSignals DEF Clock, MetadataEdge
<1>6. mem_cnt' = NextBeat(mem_cnt) /\ mem_cnt_d' = mem_cnt
  BY <1>1, <1>4 DEF Clock, CounterEdge
<1>7. /\ rsp_mem_valid' = TRUE
      /\ rsp_mem_data' = mem[PendingTag][PendingSet][mem_cnt]
  BY <1>1, <1>4 DEF Clock, MemEdge, RefillBeat, PendingTag, PendingSet,
                    req_mem_r_valid, Launch, miss_d, mem_cnt_done
<1>8. mem_r_transfer_done_d' = FALSE
  BY <1>1, <1>2 DEF Clock, RequestEdge, mem_r_transfer_done
<1> QED
  BY <1>3, <1>5, <1>6, <1>7, <1>8

LEMMA RefillDoneEffect ==
  ASSUME Inductive, NEW r \in Request, RefillDone(r)
  PROVE  /\ a_valid' = [a_valid EXCEPT ![PendingWay][PendingSet] = TRUE]
         /\ a_tag' = [a_tag EXCEPT ![PendingWay][PendingSet] = PendingTag]
         /\ a_dirty' = [a_dirty EXCEPT ![PendingWay][PendingSet] = FALSE]
         /\ mem_cnt_d = LastBeat
         /\ mem_cnt' = 0 /\ mem_cnt_d' = 0
         /\ rsp_mem_valid' = FALSE /\ mem_r_transfer_done_d' = TRUE
<1>1. /\ Clock(FALSE, r) /\ state = "DC_MISS" /\ ~req_mem_w_valid
      /\ ~store_req_pending /\ mem_cnt = NextBeat(mem_cnt_d) /\ rsp_mem_valid
  BY ArrivalEffect
<1>2. mem_r_transfer_done /\ mem_cnt_d = LastBeat
  BY DEF RefillDone, mem_r_transfer_done, mem_cnt_done
<1>3. mem_cnt = 0 /\ ~req_mem_r_valid
  BY <1>1, <1>2 DEF NextBeat, req_mem_r_valid, Launch
<1>4. stc(FALSE, r).cr = cr_pend.cr /\ stc(FALSE, r).way = cr_pend.way
  BY <1>1 DEF stc, Pending
<1>5. (store_req_pending \/ store_req_hit(FALSE, r)) = FALSE
  BY <1>1, NoRequestSignals
<1>6. /\ a_valid' = [a_valid EXCEPT ![PendingWay][PendingSet] = TRUE]
      /\ a_tag' = [a_tag EXCEPT ![PendingWay][PendingSet] = PendingTag]
      /\ a_dirty' = [a_dirty EXCEPT ![PendingWay][PendingSet] = FALSE]
  BY <1>1, <1>2, <1>4, <1>5
  DEF Clock, MetadataEdge, PendingWay, PendingSet, PendingTag
<1>7. mem_cnt' = 0 /\ mem_cnt_d' = 0
  BY <1>1, <1>3 DEF Clock, CounterEdge
<1>8. rsp_mem_valid' = FALSE
  BY <1>1, <1>3 DEF Clock, MemEdge, req_mem_r_valid, Launch
<1>9. mem_r_transfer_done_d' = TRUE
  BY <1>1, <1>2 DEF Clock, RequestEdge, mem_r_transfer_done, Inductive, TypeOK,
                    mem_cnt_done
<1> QED
  BY <1>2, <1>6, <1>7, <1>8, <1>9

\* The saved request is performed; the cache is ready in the next cycle.
LEMMA ServeEffect ==
  ASSUME Inductive, NEW r \in Request, ServeLoad(r) \/ ServeStore(r)
  PROVE  /\ Clock(FALSE, r) /\ state = "DC_MISS" /\ state' = "DC_READY"
         /\ cr_pend.active /\ ~clear_pending_on_read /\ mem_r_transfer_done_d
         /\ ~rsp_mem_valid /\ req_pending /\ ~req_mem_w_valid
         /\ UNCHANGED <<a_valid, a_tag, mem>>
         /\ mem_cnt' = 0 /\ mem_cnt_d' = 0 /\ bank_evict_cnt' = 0
         /\ rsp_mem_valid' = FALSE /\ mem_r_transfer_done_d' = FALSE
<1>1. Clock(FALSE, r) /\ state = "DC_MISS" /\ req_pending
  BY DEF ServeLoad, ServeStore, load_req_pending, store_req_pending
<1>2. /\ cr_pend.active /\ ~clear_pending_on_read /\ mem_r_transfer_done_d
      /\ ~rsp_mem_valid /\ mem_cnt = 0 /\ mem_cnt_d = 0
  BY <1>1 DEF Inductive, PhaseInv, req_pending
<1>3. ~req_mem_w_valid /\ ~req_mem_r_valid /\ ~mem_r_transfer_done
  BY <1>1, <1>2 DEF req_mem_w_valid, req_mem_r_valid, Launch, mem_r_transfer_done
<1>4. state' = "DC_READY"
  BY <1>1 DEF Clock, StateEdge
<1>5. a_valid' = a_valid /\ a_tag' = a_tag
  BY <1>1, <1>3 DEF Clock, MetadataEdge
<1>6. mem' = mem /\ rsp_mem_valid' = FALSE
  BY <1>1, <1>3 DEF Clock, MemEdge, req_mem_r_valid, Launch
<1>7. mem_cnt' = 0 /\ mem_cnt_d' = 0 /\ bank_evict_cnt' = 0
  BY <1>1, <1>2, <1>3, <1>4 DEF Clock, CounterEdge
<1>8. mem_r_transfer_done_d' = FALSE
  BY <1>1, <1>3 DEF Clock, RequestEdge, mem_r_transfer_done
<1> QED
  BY <1>1, <1>2, <1>3, <1>4, <1>5, <1>6, <1>7, <1>8

LEMMA ServeLoadEffect ==
  ASSUME Inductive, NEW r \in Request, ServeLoad(r)
  PROVE  /\ UNCHANGED <<bank, a_dirty, cr_pend>>
         /\ clear_pending_on_read' = TRUE
         /\ bank_data' = [w \in Way |-> bank[w][PendingSet][cr_pend.cr.beat]]
         /\ lfc_d'.way = PendingWay /\ lfc_d'.be = cr_pend.cr.be
<1>1. /\ Clock(FALSE, r) /\ cr_pend.active /\ ~clear_pending_on_read
      /\ ~rsp_mem_valid /\ req_pending /\ ~req_mem_w_valid
  BY ServeEffect
<1>2. load_req_pending /\ ~store_req_pending
  BY DEF ServeLoad, load_req_pending, store_req_pending
<1>3. ~cache_store(FALSE, r) /\ ~mem_r_transfer_done
  BY <1>1, <1>2, NoRequestSignals DEF cache_store, mem_r_transfer_done
<1>4. BankSet(FALSE, r) = PendingSet /\ BankBeat(FALSE, r) = cr_pend.cr.beat
  BY <1>1, <1>3, LfcPending, NoRequestSignals
  DEF BankSet, BankBeat, LoadBeat, PendingSet
<1>5. bank' = bank /\ bank_data' = [w \in Way |-> bank[w][PendingSet][cr_pend.cr.beat]]
  BY <1>1, <1>3, <1>4 DEF Clock, BankEdge
<1>6. a_dirty' = a_dirty /\ cr_pend' = cr_pend
  BY <1>1, <1>2, <1>3, NoRequestSignals DEF Clock, MetadataEdge, PendEdge
<1>7. /\ clear_pending_on_read' = TRUE
      /\ lfc_d'.way = PendingWay /\ lfc_d'.be = cr_pend.cr.be
  BY <1>1, <1>2, LfcPending
  DEF Clock, RequestEdge, PendingWay, load_req_pending, req_pending, Inductive, TypeOK
<1> QED
  BY <1>5, <1>6, <1>7

LEMMA ServeStoreEffect ==
  ASSUME Inductive, NEW r \in Request, ServeStore(r)
  PROVE  /\ bank' = [bank EXCEPT ![PendingWay][PendingSet][cr_pend.cr.beat] =
                       Merge(@, cr_pend.cr.be, cr_pend.cr.wdata)]
         /\ a_dirty' = [a_dirty EXCEPT ![PendingWay][PendingSet] = TRUE]
         /\ cr_pend'.active = FALSE
         /\ clear_pending_on_read' = FALSE
<1>1. /\ Clock(FALSE, r) /\ ~rsp_mem_valid
  BY ServeEffect
<1>2. store_req_pending /\ ~load_req_pending
  BY DEF ServeStore, load_req_pending, store_req_pending
<1>3. /\ cache_store(FALSE, r)
      /\ stc(FALSE, r).cr = cr_pend.cr /\ stc(FALSE, r).way = cr_pend.way
  BY <1>2 DEF cache_store, stc, Pending
<1>4. BankSet(FALSE, r) = PendingSet /\ BankBeat(FALSE, r) = cr_pend.cr.beat
  BY <1>1, <1>3 DEF BankSet, BankBeat, StoreBeat, PendingSet
<1>5. bank' = [bank EXCEPT ![PendingWay][PendingSet][cr_pend.cr.beat] =
                 Merge(@, cr_pend.cr.be, cr_pend.cr.wdata)]
  BY <1>1, <1>3, <1>4 DEF Clock, BankEdge, PendingWay
<1>6. a_dirty' = [a_dirty EXCEPT ![PendingWay][PendingSet] = TRUE]
  BY <1>1, <1>2, <1>3 DEF Clock, MetadataEdge, PendingWay, PendingSet
<1>7. cr_pend'.active = FALSE
  BY <1>1, <1>2, NoRequestSignals DEF Clock, PendEdge, ClearPending, Pending
<1>8. clear_pending_on_read' = FALSE
  BY <1>1, <1>2 DEF Clock, RequestEdge, load_req_pending, req_pending
<1> QED
  BY <1>5, <1>6, <1>7, <1>8

LEMMA LeaveResetEffect ==
  ASSUME Inductive, NEW r \in Request, LeaveReset(r)
  PROVE  /\ state' = "DC_READY"
         /\ UNCHANGED <<bank, a_valid, a_dirty, a_tag, mem>>
         /\ cr_pend'.active = FALSE
         /\ mem_cnt' = 0 /\ mem_cnt_d' = 0 /\ bank_evict_cnt' = 0
         /\ rsp_mem_valid' = FALSE
         /\ mem_r_transfer_done_d' = FALSE /\ clear_pending_on_read' = FALSE
<1>1. Clock(FALSE, r) /\ state = "DC_RESET"
  BY DEF LeaveReset
<1>2. /\ ~cr_pend.active /\ ~clear_pending_on_read /\ bank_evict_cnt = 0
      /\ ~rsp_mem_valid /\ ~mem_r_transfer_done_d /\ mem_cnt = 0 /\ mem_cnt_d = 0
  BY <1>1 DEF Inductive, PhaseInv
<1>3. /\ ~req_pending /\ ~load_req_pending /\ ~store_req_pending
      /\ ~mem_r_transfer_done /\ ~req_mem_r_valid /\ ~req_mem_w_valid
  BY <1>1, <1>2 DEF req_pending, load_req_pending, store_req_pending, Launch,
              mem_r_transfer_done, req_mem_r_valid, req_mem_w_valid
<1>4. UNCHANGED <<bank, a_valid, a_dirty, a_tag>>
  BY <1>1, <1>2, <1>3, LinesKept
<1>5. state' = "DC_READY" /\ cr_pend' = cr_pend
  BY <1>1, <1>2, <1>3, NoRequestSignals DEF Clock, StateEdge, PendEdge
<1>6. mem_cnt' = 0 /\ mem_cnt_d' = 0 /\ bank_evict_cnt' = 0
  BY <1>1, <1>2, <1>3, NoRequestSignals DEF Clock, CounterEdge
<1>7. mem' = mem /\ rsp_mem_valid' = FALSE
  BY <1>1, <1>3 DEF Clock, MemEdge, req_mem_r_valid, Launch
<1>8. mem_r_transfer_done_d' = FALSE /\ clear_pending_on_read' = FALSE
  BY <1>1, <1>2, <1>3
  DEF Clock, RequestEdge, mem_r_transfer_done, load_req_pending, req_pending
<1>9. cr_pend.active \in BOOLEAN
  BY DEF Inductive, TypeOK
<1> QED
  BY <1>2, <1>4, <1>5, <1>6, <1>7, <1>8, <1>9


-----------------------------------------------------------------------------
(* The invariant.                                                           *)

\* The invariant without the types, which EveryStepIsAnEdge and ClockType give.
Strengthening ==
  NoTagDuplicate /\ PhaseInv /\ VictimInv /\ TransferInv /\ CleanLineIsCopy

LEMMA PendingType ==
  ASSUME TypeOK
  PROVE  PendingWay \in Way /\ PendingSet \in Set /\ PendingTag \in Tag
  BY DEF TypeOK, Request, PendingWay, PendingSet, PendingTag

\* The bank content and the main memory content of a line are words at every
\* beat, so two lines that agree at every beat are equal.
LEMMA LineEquality ==
  ASSUME NEW x \in Line, NEW y \in Line, \A b \in Beat : x[b] = y[b]
  PROVE  x = y
  BY DEF Line

LEMMA InitStrengthening == Init => Strengthening
<1> SUFFICES ASSUME Init PROVE Strengthening
  OBVIOUS
<1>1. NoTagDuplicate /\ CleanLineIsCopy
  BY DEF Init, NoTagDuplicate, CleanLineIsCopy
<1>2. PhaseInv
  BY DEF Init, PhaseInv, ClearPending, Pending
<1>3. VictimInv /\ TransferInv
  BY DEF Init, VictimInv, TransferInv, ClearPending, Pending, Launch
<1> QED
  BY <1>1, <1>2, <1>3 DEF Strengthening

\* Steps after which no miss is outstanding and no line has changed but by a
\* store into a line that is held.
LEMMA SettledStrengthening ==
  ASSUME Inductive,
         state' = "DC_READY", cr_pend'.active = FALSE,
         ~miss_d', clear_pending_on_read' = FALSE,
         rsp_mem_valid' = FALSE, mem_r_transfer_done_d' = FALSE,
         mem_cnt' = 0, mem_cnt_d' = 0, bank_evict_cnt' = 0,
         UNCHANGED <<a_valid, a_tag, mem>>,
         \A w \in Way, s \in Set :
           \/ /\ bank'[w][s] = bank[w][s] /\ a_dirty'[w][s] = a_dirty[w][s]
              /\ ~Refilling(w, s)
           \/ a_valid[w][s] /\ a_dirty'[w][s]
  PROVE  Strengthening'
<1>1. NoTagDuplicate'
  BY DEF Inductive, NoTagDuplicate
<1>2. PhaseInv'
  BY DEF PhaseInv
<1>3. VictimInv'
  BY DEF Inductive, VictimInv, Launch
<1>4. TransferInv'
  BY DEF TransferInv, Launch
<1>5. CleanLineIsCopy'
  BY DEF Inductive, CleanLineIsCopy
<1> QED
  BY <1>1, <1>2, <1>3, <1>4, <1>5 DEF Strengthening

LEMMA LeaveResetStep ==
  ASSUME Inductive, NEW r \in Request, LeaveReset(r)
  PROVE  Strengthening'
<1>1. new_core_req_d' = FALSE /\ state = "DC_RESET"
  BY ServiceEffect DEF LeaveReset, ServiceCommon
<1>2. ~miss_d' /\ \A w \in Way, s \in Set : ~Refilling(w, s)
  BY <1>1 DEF miss_d, Refilling
<1> QED
  BY <1>2, LeaveResetEffect, SettledStrengthening

LEMMA QuietStep ==
  ASSUME Inductive, NEW r \in Request, Idle(r) \/ LoadHit(r)
  PROVE  Strengthening'
<1>1. PICK new \in BOOLEAN : /\ ready /\ Clock(new, r)
                             /\ new => TagMatch(r) /\ r.rtype = "DMEM_READ"
  BY DEF Idle, LoadHit
<1>2. AcceptCommon(new, r)
  BY <1>1, AcceptEffect
<1>3. /\ bank' = bank /\ a_dirty' = a_dirty /\ bank_evict_cnt' = 0
      /\ cr_pend'.active = FALSE /\ (new => hit_d' = TRUE)
  BY <1>1, QuietEffect
<1>4. ~miss_d' /\ \A w \in Way, s \in Set : ~Refilling(w, s)
  BY <1>1, <1>2, <1>3 DEF miss_d, Refilling, ready, AcceptCommon
<1> QED
  BY <1>2, <1>3, <1>4, SettledStrengthening DEF AcceptCommon

LEMMA StoreHitStep ==
  ASSUME Inductive, NEW r \in Request, StoreHit(r)
  PROVE  Strengthening'
<1>1. AcceptCommon(TRUE, r) /\ ready /\ TagMatch(r)
  BY AcceptEffect DEF StoreHit
<1>2. /\ bank' = [bank EXCEPT ![WayOf(r)][r.set][r.beat] =
                       Merge(@, r.be, r.wdata)]
      /\ a_dirty' = [a_dirty EXCEPT ![WayOf(r)][r.set] = TRUE]
      /\ bank_evict_cnt' = 0 /\ cr_pend'.active = FALSE /\ hit_d' = TRUE
  BY StoreHitEffect
<1>3. a_valid[WayOf(r)][r.set]
  BY <1>1, WayOfHolds DEF Holders
<1>4. ASSUME NEW w \in Way, NEW s \in Set
      PROVE  \/ /\ bank'[w][s] = bank[w][s] /\ a_dirty'[w][s] = a_dirty[w][s]
                /\ ~Refilling(w, s)
             \/ a_valid[w][s] /\ a_dirty'[w][s]
  <2>1. ~Refilling(w, s)
    BY <1>1 DEF Refilling, ready
  <2>2. CASE w = WayOf(r) /\ s = r.set
    BY <1>2, <1>3, <2>2 DEF Inductive, TypeOK
  <2>3. CASE ~(w = WayOf(r) /\ s = r.set)
    BY ZenonT(40), <1>2, <2>1, <2>3 DEF Inductive, TypeOK
  <2> QED
    BY <2>2, <2>3
<1>5. ~miss_d'
  BY <1>2 DEF miss_d
<1> QED
  BY <1>1, <1>2, <1>4, <1>5, SettledStrengthening DEF AcceptCommon

LEMMA ServeStoreStep ==
  ASSUME Inductive, NEW r \in Request, ServeStore(r)
  PROVE  Strengthening'
<1>1. /\ new_core_req_d' = FALSE /\ ~miss_d' /\ mem_r_transfer_done_d
      /\ state' = "DC_READY" /\ UNCHANGED <<a_valid, a_tag, mem>>
      /\ mem_cnt' = 0 /\ mem_cnt_d' = 0 /\ bank_evict_cnt' = 0
      /\ rsp_mem_valid' = FALSE /\ mem_r_transfer_done_d' = FALSE
  BY ServeEffect, ServiceEffect DEF ServiceCommon, miss_d
<1>2. /\ bank' = [bank EXCEPT ![PendingWay][PendingSet][cr_pend.cr.beat] =
                       Merge(@, cr_pend.cr.be, cr_pend.cr.wdata)]
      /\ a_dirty' = [a_dirty EXCEPT ![PendingWay][PendingSet] = TRUE]
      /\ cr_pend'.active = FALSE /\ clear_pending_on_read' = FALSE
  BY ServeStoreEffect
<1>3. a_valid[PendingWay][PendingSet]
  BY <1>1 DEF Inductive, VictimInv
<1>4. ASSUME NEW w \in Way, NEW s \in Set
      PROVE  \/ /\ bank'[w][s] = bank[w][s] /\ a_dirty'[w][s] = a_dirty[w][s]
                /\ ~Refilling(w, s)
             \/ a_valid[w][s] /\ a_dirty'[w][s]
  <2>1. ~Refilling(w, s)
    BY <1>1 DEF Refilling
  <2>2. CASE w = PendingWay /\ s = PendingSet
    BY <1>2, <1>3, <2>2 DEF Inductive, TypeOK
  <2>3. CASE ~(w = PendingWay /\ s = PendingSet)
    BY ZenonT(40), <1>2, <2>1, <2>3 DEF Inductive, TypeOK
  <2> QED
    BY <2>2, <2>3
<1> QED
  BY <1>1, <1>2, <1>4, SettledStrengthening

LEMMA ServeLoadStep ==
  ASSUME Inductive, NEW r \in Request, ServeLoad(r)
  PROVE  Strengthening'
<1>1. /\ new_core_req_d' = FALSE /\ ~miss_d' /\ mem_r_transfer_done_d
      /\ state' = "DC_READY" /\ UNCHANGED <<a_valid, a_tag, mem>>
      /\ mem_cnt' = 0 /\ mem_cnt_d' = 0 /\ bank_evict_cnt' = 0
      /\ rsp_mem_valid' = FALSE /\ mem_r_transfer_done_d' = FALSE
  BY ServeEffect, ServiceEffect DEF ServiceCommon, miss_d
<1>2. UNCHANGED <<bank, a_dirty, cr_pend>> /\ clear_pending_on_read' = TRUE
  BY ServeLoadEffect
<1>3. NoTagDuplicate'
  BY <1>1 DEF Inductive, NoTagDuplicate
<1>4. PhaseInv'
  BY <1>1, <1>2 DEF PhaseInv
<1>5. VictimInv'
  BY <1>1, <1>2 DEF Inductive, VictimInv, Launch
<1>6. TransferInv'
  BY <1>1, <1>2 DEF TransferInv, Launch
<1>7. CleanLineIsCopy'
  BY <1>1, <1>2 DEF Inductive, CleanLineIsCopy, Refilling
<1> QED
  BY <1>3, <1>4, <1>5, <1>6, <1>7 DEF Strengthening

LEMMA MissStep ==
  ASSUME Inductive, NEW r \in Request, Miss(r)
  PROVE  Strengthening'
<1>1. AcceptCommon(TRUE, r) /\ ready /\ ~TagMatch(r)
  BY AcceptEffect DEF Miss
<1>2. /\ bank' = bank /\ a_dirty' = a_dirty
      /\ cr_pend' = Pending(TRUE, r, WayVictim(r.set))
      /\ hit_d' = FALSE
      /\ cr_victim_dirty_d' = a_dirty[WayVictim(r.set)][r.set]
      /\ bank_evict_cnt' = 1
      /\ bank_data' = [w \in Way |-> bank[w][r.set][0]]
  BY MissEffect
<1>3. /\ PendingWay' = WayVictim(r.set) /\ PendingSet' = r.set
      /\ PendingTag' = r.tag /\ cr_pend'.active
  BY <1>2 DEF Pending, PendingWay, PendingSet, PendingTag
<1>4. miss_d' /\ WayVictim(r.set) \in Way
  BY <1>1, <1>2, WayVictimType DEF AcceptCommon, miss_d
<1>5. NoTagDuplicate'
  BY <1>1 DEF AcceptCommon, Inductive, NoTagDuplicate
<1>6. PhaseInv'
  BY <1>1, <1>2, <1>3, <1>4 DEF AcceptCommon, PhaseInv
<1>7. VictimInv'
  <2>1. Holders(r.tag, r.set)' = {}
    BY <1>1 DEF AcceptCommon, TagMatch, Holders
  <2> QED
    BY <1>1, <1>2, <1>3, <2>1 DEF AcceptCommon, Inductive, VictimInv
<1>8. TransferInv'
  BY <1>1, <1>2, <1>3, <1>4 DEF AcceptCommon, TransferInv
<1>9. CleanLineIsCopy'
  BY <1>1, <1>2 DEF AcceptCommon, Inductive, CleanLineIsCopy, Refilling, ready
<1> QED
  BY <1>5, <1>6, <1>7, <1>8, <1>9 DEF Strengthening


LEMMA StartRefillStep ==
  ASSUME Inductive, NEW r \in Request, StartRefill(r)
  PROVE  Strengthening'
<1>1. /\ state' = "DC_MISS"
      /\ UNCHANGED <<bank, a_valid, a_dirty, a_tag, cr_pend, mem>>
      /\ mem_cnt' = 1 /\ mem_cnt_d' = 0
      /\ rsp_mem_valid' = TRUE
      /\ rsp_mem_data' = mem[PendingTag][PendingSet][0]
      /\ mem_r_transfer_done_d' = FALSE /\ clear_pending_on_read' = FALSE
  BY StartRefillEffect
<1>2. /\ state = "DC_READY" /\ Launch /\ ~cr_victim_dirty_d
      /\ cr_pend.active /\ ~clear_pending_on_read /\ ~mem_r_transfer_done_d
  BY DEF StartRefill, Launch, Inductive, PhaseInv
<1>3. PendingWay \in Way /\ PendingSet \in Set
  BY PendingType DEF Inductive
<1>4. a_valid[PendingWay][PendingSet] =>
        mem[a_tag[PendingWay][PendingSet]][PendingSet] = bank[PendingWay][PendingSet]
  BY <1>2, <1>3 DEF Inductive, VictimInv, CleanLineIsCopy, Refilling
<1>5. NoTagDuplicate'
  BY <1>1 DEF Inductive, NoTagDuplicate
<1>6. PhaseInv'
  <2>1. NextBeat(0) = 1
    BY TypesAssumption DEF NextBeat, LastBeat
  <2> QED
    BY <1>1, <1>2, <2>1 DEF PhaseInv, NextBeat, LastBeat
<1>7. VictimInv'
  BY <1>1, <1>2 DEF Inductive, VictimInv, Launch, Holders, PendingTag, PendingSet
<1>8. TransferInv'
  BY <1>1, <1>2, <1>4 DEF TransferInv, Launch, PendingWay, PendingTag, PendingSet,
                          Beat
<1>9. CleanLineIsCopy'
  BY <1>1, <1>2 DEF Inductive, CleanLineIsCopy, Refilling
<1> QED
  BY <1>5, <1>6, <1>7, <1>8, <1>9 DEF Strengthening

LEMMA WritebackStep ==
  ASSUME Inductive, NEW r \in Request, StartEvict(r) \/ EvictWord(r)
  PROVE  Strengthening'
<1> DEFINE t == a_tag[PendingWay][PendingSet]
<1>1. WritebackCommon
  BY WritebackEffect
<1>2. /\ \/ state = "DC_READY" /\ Launch /\ cr_victim_dirty_d /\ miss_d
         \/ state = "DC_EVICT" /\ ~mem_cnt_done
      /\ cr_pend.active /\ ~clear_pending_on_read /\ ~mem_r_transfer_done_d
  BY DEF StartEvict, EvictWord, Launch, Inductive, PhaseInv
<1>3. PendingWay \in Way /\ PendingSet \in Set /\ PendingTag \in Tag /\ t \in Tag
  BY PendingType DEF Inductive, TypeOK
<1>4. a_dirty[PendingWay][PendingSet] /\ a_valid[PendingWay][PendingSet]
  BY <1>2, <1>3 DEF Inductive, VictimInv
<1>5. /\ PendingWay' = PendingWay /\ PendingSet' = PendingSet
      /\ PendingTag' = PendingTag /\ t' = t
  BY <1>1 DEF WritebackCommon, PendingWay, PendingSet, PendingTag
<1>6. NoTagDuplicate'
  BY <1>1 DEF WritebackCommon, Inductive, NoTagDuplicate
<1>7. PhaseInv'
  <2>1. bank_evict_cnt = NextBeat(mem_cnt)
    <3>1. CASE state = "DC_READY"
      <4>1. NextBeat(0) = 1
        BY TypesAssumption DEF NextBeat, LastBeat
      <4> QED
        BY <1>2, <3>1, <4>1 DEF Inductive, PhaseInv
    <3>2. CASE state = "DC_EVICT"
      BY <3>2 DEF Inductive, PhaseInv
    <3> QED
      BY <1>2, <3>1, <3>2
  <2> QED
    BY <1>1, <1>2, <2>1 DEF WritebackCommon, PhaseInv, NextBeat, LastBeat
<1>8. VictimInv'
  BY <1>1, <1>2, <1>4 DEF WritebackCommon, Inductive, VictimInv, Launch, Holders,
                          PendingTag, PendingSet, PendingWay
<1>9. TransferInv'
  <2>1. /\ mem_cnt \in Beat /\ mem_cnt_d \in Beat
        /\ bank_data[PendingWay] = bank[PendingWay][PendingSet][mem_cnt]
        /\ \A b \in Beat : b < mem_cnt => mem[t][PendingSet][b] = bank[PendingWay][PendingSet][b]
    <3>1. CASE state = "DC_READY"
      BY <1>2, <3>1 DEF Inductive, TypeOK, TransferInv, PhaseInv, Beat
    <3>2. CASE state = "DC_EVICT"
      <4>1. mem_cnt_d \in Beat /\ mem_cnt = mem_cnt_d + 1
        BY <1>2, <3>2 DEF Inductive, TypeOK, PhaseInv, NextBeat, mem_cnt_done
      <4>2. mem_cnt \in Beat
        BY DEF Inductive, TypeOK
      <4>3. /\ bank_data[PendingWay] = bank[PendingWay][PendingSet][mem_cnt]
            /\ \A b \in Beat : b <= mem_cnt_d =>
                 mem[t][PendingSet][b] = bank[PendingWay][PendingSet][b]
        BY <1>2, <3>2 DEF Inductive, TransferInv
      <4>4. \A b \in Beat : b < mem_cnt => b <= mem_cnt_d
        BY <4>1, TypesAssumption DEF Beat
      <4> HIDE DEF t
      <4> QED
        BY <4>1, <4>2, <4>3, <4>4
    <3> QED
      BY <1>2, <3>1, <3>2
  <2>2. mem \in [Tag -> [Set -> [Beat -> Word]]]
    BY DEF Inductive, TypeOK, MainMemory, Line
  <2>3. mem' = [mem EXCEPT ![t][PendingSet][mem_cnt] = bank_data[PendingWay]]
    BY <1>1 DEF WritebackCommon
  <2> HIDE DEF t
  <2>4. ASSUME NEW b \in Beat, b <= mem_cnt
        PROVE  mem'[t][PendingSet][b] = bank[PendingWay][PendingSet][b]
    <3>1. CASE b = mem_cnt
      BY <1>3, <2>1, <2>2, <2>3, <3>1
    <3>2. CASE b # mem_cnt
      <4>1. b < mem_cnt
        BY <2>1, <2>4, <3>2 DEF Beat
      <4> QED
        BY <1>3, <2>1, <2>2, <2>3, <3>2, <4>1
    <3> QED
      BY <3>1, <3>2
  <2>5. ~mem_cnt_done' =>
          bank_data'[PendingWay] = bank[PendingWay][PendingSet][mem_cnt']
    <3>1. bank_evict_cnt = mem_cnt'
      <4>1. CASE state = "DC_READY"
        <5>1. NextBeat(0) = 1
          BY TypesAssumption DEF NextBeat, LastBeat
        <5> QED
          BY <1>1, <1>2, <4>1, <5>1 DEF Inductive, PhaseInv, WritebackCommon
      <4>2. CASE state = "DC_EVICT"
        BY <1>1, <4>2 DEF Inductive, PhaseInv, WritebackCommon
      <4> QED
        BY <1>2, <4>1, <4>2
    <3> QED
      BY <1>1, <1>3, <3>1 DEF WritebackCommon
  <2>6. /\ state' = "DC_EVICT" /\ mem_cnt_d' = mem_cnt /\ bank' = bank
        /\ t = a_tag[PendingWay][PendingSet] /\ a_tag' = a_tag
    BY <1>1 DEF WritebackCommon, t
  <2> QED
    BY <1>5, <2>4, <2>5, <2>6 DEF TransferInv, Launch
<1>10. CleanLineIsCopy'
  <2>1. mem \in [Tag -> [Set -> [Beat -> Word]]]
    BY DEF Inductive, TypeOK, MainMemory, Line
  <2> SUFFICES ASSUME NEW w \in Way, NEW s \in Set,
                      a_valid'[w][s], ~a_dirty'[w][s], ~Refilling(w, s)'
               PROVE  bank'[w][s] = mem'[a_tag'[w][s]][s]
    BY DEF CleanLineIsCopy
  <2>2. a_valid[w][s] /\ ~a_dirty[w][s] /\ bank'[w][s] = bank[w][s] /\ a_tag' = a_tag
    BY <1>1 DEF WritebackCommon
  <2>3. ~Refilling(w, s)
    BY <1>2 DEF Refilling
  <2>4. bank[w][s] = mem[a_tag[w][s]][s]
    BY <2>2, <2>3 DEF Inductive, CleanLineIsCopy
  <2>5. a_tag[w][s] \in Tag /\ ~(a_tag[w][s] = t /\ s = PendingSet)
    <3>1. a_tag[w][s] \in Tag
      BY DEF Inductive, TypeOK
    <3>2. ASSUME a_tag[w][s] = t, s = PendingSet PROVE FALSE
      <4>1. w = PendingWay
        BY <1>3, <1>4, <2>2, <3>2 DEF Inductive, NoTagDuplicate
      <4> QED
        BY <1>4, <2>2, <3>2, <4>1
    <3> QED
      BY <3>1, <3>2
  <2>6. mem' = [mem EXCEPT ![t][PendingSet][mem_cnt] = bank_data[PendingWay]]
    BY <1>1 DEF WritebackCommon
  <2> HIDE DEF t
  <2>7. mem'[a_tag[w][s]][s] = mem[a_tag[w][s]][s]
    BY <1>3, <2>1, <2>5, <2>6
  <2> QED
    BY <2>2, <2>4, <2>7
<1> QED
  BY <1>6, <1>7, <1>8, <1>9, <1>10 DEF Strengthening

LEMMA EvictDoneStep ==
  ASSUME Inductive, NEW r \in Request, EvictDone(r)
  PROVE  Strengthening'
<1> DEFINE old == mem[a_tag[PendingWay][PendingSet]][PendingSet]
           here == bank[PendingWay][PendingSet]
<1>1. /\ state' = "DC_MISS"
      /\ mem_cnt_d = LastBeat /\ mem_cnt = 0
      /\ UNCHANGED <<bank, a_valid, a_dirty, a_tag, cr_pend, mem>>
      /\ mem_cnt' = 1 /\ mem_cnt_d' = 0
      /\ rsp_mem_valid' = TRUE
      /\ rsp_mem_data' = mem[PendingTag][PendingSet][0]
      /\ mem_r_transfer_done_d' = FALSE /\ clear_pending_on_read' = FALSE
  BY EvictDoneEffect
<1>2. /\ state = "DC_EVICT" /\ cr_pend.active /\ ~clear_pending_on_read
      /\ ~mem_r_transfer_done_d
  BY DEF EvictDone, Inductive, PhaseInv
<1>3. PendingWay \in Way /\ PendingSet \in Set
  BY PendingType DEF Inductive
<1>4. old = here
  <2>1. \A b \in Beat : old[b] = here[b]
    BY <1>1, <1>2, TypesAssumption DEF Inductive, TransferInv, Beat, LastBeat
  <2>2. old \in Line /\ here \in Line
    BY <1>3 DEF Inductive, TypeOK, MainMemory
  <2> HIDE DEF old, here
  <2> QED
    BY <2>1, <2>2, LineEquality
<1>5. NoTagDuplicate'
  BY <1>1 DEF Inductive, NoTagDuplicate
<1>6. PhaseInv'
  <2>1. NextBeat(0) = 1
    BY TypesAssumption DEF NextBeat, LastBeat
  <2> QED
    BY <1>1, <1>2, <2>1 DEF PhaseInv, NextBeat, LastBeat
<1>7. VictimInv'
  BY <1>1, <1>2 DEF Inductive, VictimInv, Launch, Holders, PendingTag, PendingSet
<1>8. TransferInv'
  <2>1. PendingWay' = PendingWay /\ PendingSet' = PendingSet /\ PendingTag' = PendingTag
    BY <1>1, <1>2 DEF PendingWay, PendingSet, PendingTag
  <2>2. state' = "DC_MISS" /\ ~Launch' /\ mem_cnt_d' = 0
    BY <1>1 DEF Launch
  <2>3. rsp_mem_data' = mem'[PendingTag'][PendingSet'][mem_cnt_d']
    BY <1>1, <2>1, <2>2
  <2>4. mem'[a_tag'[PendingWay'][PendingSet']][PendingSet'] = bank'[PendingWay'][PendingSet']
    BY <1>1, <1>4, <2>1
  <2>5. \A b \in Beat : ~(b < 0)
    BY DEF Beat
  <2> QED
    BY <2>2, <2>3, <2>4, <2>5 DEF TransferInv
<1>9. CleanLineIsCopy'
  BY <1>1, <1>2 DEF Inductive, CleanLineIsCopy, Refilling
<1> QED
  BY <1>5, <1>6, <1>7, <1>8, <1>9 DEF Strengthening

\* A word arrives and is not the last: the bank has one word more of the line.
LEMMA RefillWordStep ==
  ASSUME Inductive, NEW r \in Request, RefillWord(r)
  PROVE  Strengthening'
<1> DEFINE new  == mem[PendingTag][PendingSet]
           here == bank[PendingWay][PendingSet]
<1>1. /\ WordArrives
      /\ state = "DC_MISS" /\ state' = "DC_MISS"
      /\ cr_pend.active /\ ~clear_pending_on_read /\ ~mem_r_transfer_done_d
      /\ cr_pend' = cr_pend /\ mem' = mem
      /\ clear_pending_on_read' = FALSE
  BY ArrivalEffect
<1>2. /\ UNCHANGED <<a_valid, a_dirty, a_tag>>
      /\ mem_cnt = mem_cnt_d + 1 /\ mem_cnt_d' = mem_cnt
      /\ mem_cnt' = NextBeat(mem_cnt)
      /\ rsp_mem_valid' = TRUE /\ mem_r_transfer_done_d' = FALSE
      /\ rsp_mem_data' = new[mem_cnt]
  BY RefillWordEffect
<1>3. /\ PendingWay \in Way /\ PendingSet \in Set
      /\ mem_cnt \in Beat /\ mem_cnt_d \in Beat
      /\ bank \in [Way -> [Set -> [Beat -> Word]]]
  BY PendingType DEF Inductive, TypeOK, Line
<1>4. /\ PendingWay' = PendingWay /\ PendingSet' = PendingSet
      /\ PendingTag' = PendingTag
  BY <1>1 DEF PendingWay, PendingSet, PendingTag
<1>5. NoTagDuplicate'
  BY <1>2 DEF Inductive, NoTagDuplicate
<1>6. PhaseInv'
  BY <1>1, <1>2 DEF PhaseInv, NextBeat, LastBeat
<1>7. VictimInv'
  BY <1>1, <1>2, <1>4 DEF Inductive, VictimInv, Launch, Holders
<1>8. TransferInv'
  <2>1. rsp_mem_data = new[mem_cnt_d] /\ \A b \in Beat : b < mem_cnt_d => here[b] = new[b]
    BY <1>1 DEF Inductive, TransferInv
  <2>2. ASSUME NEW b \in Beat, b < mem_cnt
        PROVE  bank'[PendingWay][PendingSet][b] = new[b]
    <3> HIDE DEF new
    <3>1. CASE b = mem_cnt_d
      BY <1>1, <1>3, <2>1, <3>1 DEF WordArrives
    <3>2. CASE b # mem_cnt_d
      <4>1. b < mem_cnt_d
        BY <1>2, <1>3, <2>2, <3>2, TypesAssumption DEF Beat
      <4>2. bank'[PendingWay][PendingSet][b] = here[b]
        BY <1>1, <1>3, <3>2 DEF WordArrives
      <4> QED
        BY <2>1, <4>1, <4>2
    <3> QED
      BY <3>1, <3>2
  <2>3. mem_cnt_d' # 0 /\ new' = new
    BY <1>1, <1>2, <1>3, <1>4, TypesAssumption DEF Beat
  <2>4. ~Launch' /\ state' # "DC_EVICT"
    BY <1>1 DEF Launch
  <2> QED
    BY <1>1, <1>2, <1>4, <2>2, <2>3, <2>4 DEF TransferInv
<1>9. CleanLineIsCopy'
  <2> SUFFICES ASSUME NEW w \in Way, NEW s \in Set,
                      a_valid'[w][s], ~a_dirty'[w][s], ~Refilling(w, s)'
               PROVE  bank'[w][s] = mem'[a_tag'[w][s]][s]
    BY DEF CleanLineIsCopy
  <2>1. ~(w = PendingWay /\ s = PendingSet)
    BY <1>1, <1>2, <1>4 DEF Refilling, PendingWay, PendingSet
  <2>2. ~Refilling(w, s)
    BY <2>1 DEF Refilling, PendingWay, PendingSet
  <2>3. bank'[w][s] = bank[w][s]
    BY <1>1, <1>3, <2>1 DEF WordArrives
  <2> QED
    BY <1>1, <1>2, <2>2, <2>3 DEF Inductive, CleanLineIsCopy
<1> QED
  BY <1>5, <1>6, <1>7, <1>8, <1>9 DEF Strengthening

\* The last word arrives: the line is complete, and becomes valid and clean.
LEMMA RefillDoneStep ==
  ASSUME Inductive, NEW r \in Request, RefillDone(r)
  PROVE  Strengthening'
<1> DEFINE new == mem[PendingTag][PendingSet]
<1>1. /\ WordArrives
      /\ state = "DC_MISS" /\ state' = "DC_MISS"
      /\ cr_pend.active /\ ~clear_pending_on_read /\ ~mem_r_transfer_done_d
      /\ cr_pend' = cr_pend /\ mem' = mem
      /\ clear_pending_on_read' = FALSE
  BY ArrivalEffect
<1>2. /\ a_valid' = [a_valid EXCEPT ![PendingWay][PendingSet] = TRUE]
      /\ a_tag' = [a_tag EXCEPT ![PendingWay][PendingSet] = PendingTag]
      /\ a_dirty' = [a_dirty EXCEPT ![PendingWay][PendingSet] = FALSE]
      /\ mem_cnt_d = LastBeat
      /\ mem_cnt' = 0 /\ mem_cnt_d' = 0
      /\ rsp_mem_valid' = FALSE /\ mem_r_transfer_done_d' = TRUE
  BY RefillDoneEffect
<1>3. /\ PendingWay \in Way /\ PendingSet \in Set /\ PendingTag \in Tag
      /\ mem_cnt_d \in Beat
      /\ bank \in [Way -> [Set -> [Beat -> Word]]]
      /\ mem \in [Tag -> [Set -> Line]]
      /\ a_valid \in [Way -> [Set -> BOOLEAN]]
      /\ a_dirty \in [Way -> [Set -> BOOLEAN]]
      /\ a_tag \in [Way -> [Set -> Tag]]
  BY PendingType DEF Inductive, TypeOK, Line, MainMemory
<1>4. /\ PendingWay' = PendingWay /\ PendingSet' = PendingSet
      /\ PendingTag' = PendingTag
  BY <1>1 DEF PendingWay, PendingSet, PendingTag
<1>5. ASSUME NEW w \in Way, NEW s \in Set, w # PendingWay \/ s # PendingSet
      PROVE  /\ a_valid'[w][s] = a_valid[w][s] /\ a_dirty'[w][s] = a_dirty[w][s]
             /\ a_tag'[w][s] = a_tag[w][s] /\ bank'[w][s] = bank[w][s]
             /\ ~Refilling(w, s)
             /\ s = PendingSet /\ a_valid[w][s] => a_tag[w][s] # PendingTag
  <2>1. /\ a_valid'[w][s] = a_valid[w][s] /\ a_dirty'[w][s] = a_dirty[w][s]
        /\ a_tag'[w][s] = a_tag[w][s] /\ bank'[w][s] = bank[w][s]
    BY <1>1, <1>2, <1>3, <1>5 DEF WordArrives
  <2>2. ~Refilling(w, s)
    BY <1>5 DEF Refilling, PendingWay, PendingSet
  <2>3. (s = PendingSet /\ a_valid[w][s]) => a_tag[w][s] # PendingTag
    BY <1>1 DEF Inductive, VictimInv, Holders
  <2> QED
    BY <2>1, <2>2, <2>3
<1>6. /\ a_valid'[PendingWay][PendingSet] /\ ~a_dirty'[PendingWay][PendingSet]
      /\ a_tag'[PendingWay][PendingSet] = PendingTag
  BY <1>2, <1>3
<1>7. NoTagDuplicate'
  <2> SUFFICES ASSUME NEW s \in Set, NEW v \in Way, NEW w \in Way,
                      a_valid'[v][s], a_valid'[w][s], a_tag'[v][s] = a_tag'[w][s]
               PROVE  v = w
    BY DEF NoTagDuplicate
  <2>1. CASE s # PendingSet \/ (v # PendingWay /\ w # PendingWay)
    BY <1>5, <2>1 DEF Inductive, NoTagDuplicate
  <2>2. CASE s = PendingSet /\ (v = PendingWay \/ w = PendingWay)
    BY <1>5, <1>6, <2>2
  <2> QED
    BY <2>1, <2>2
<1>8. PhaseInv'
  BY <1>1, <1>2 DEF PhaseInv
<1>9. VictimInv'
  BY <1>1, <1>2, <1>4, <1>5, <1>6 DEF Inductive, VictimInv, Launch
<1>10. TransferInv'
  BY <1>1, <1>2 DEF TransferInv, Launch
<1>11. bank'[PendingWay][PendingSet] = new
  <2>1. rsp_mem_data = new[mem_cnt_d] /\ \A b \in Beat : b < mem_cnt_d => bank[PendingWay][PendingSet][b] = new[b]
    BY <1>1 DEF Inductive, TransferInv
  <2>2. bank'[PendingWay][PendingSet] \in Line /\ new \in Line
    <3>1. Clock(FALSE, r) /\ TypeOK
      BY DEF RefillDone, Inductive
    <3>2. TypeOK'
      BY <3>1, ClockType
    <3> QED
      BY <1>3, <3>2 DEF TypeOK
  <2> HIDE DEF new
  <2>3. ASSUME NEW b \in Beat
        PROVE  bank'[PendingWay][PendingSet][b] = new[b]
    <3>1. CASE b = mem_cnt_d
      BY <1>1, <1>3, <2>1, <3>1 DEF WordArrives
    <3>2. CASE b # mem_cnt_d
      <4>1. b < mem_cnt_d
        BY <1>2, <3>2, TypesAssumption DEF Beat, LastBeat
      <4>2. bank'[PendingWay][PendingSet][b] = bank[PendingWay][PendingSet][b]
        BY <1>1, <1>3, <3>2 DEF WordArrives
      <4> QED
        BY <2>1, <4>1, <4>2
    <3> QED
      BY <3>1, <3>2
  <2> QED
    BY <2>2, <2>3, LineEquality
<1>12. CleanLineIsCopy'
  <2> SUFFICES ASSUME NEW w \in Way, NEW s \in Set,
                      a_valid'[w][s], ~a_dirty'[w][s]
               PROVE  bank'[w][s] = mem'[a_tag'[w][s]][s]
    BY DEF CleanLineIsCopy
  <2>1. CASE w = PendingWay /\ s = PendingSet
    BY <1>1, <1>6, <1>11, <2>1
  <2>2. CASE w # PendingWay \/ s # PendingSet
    BY <1>1, <1>5, <2>2 DEF Inductive, CleanLineIsCopy
  <2> QED
    BY <2>1, <2>2
<1> QED
  BY <1>7, <1>8, <1>9, <1>10, <1>12 DEF Strengthening

-----------------------------------------------------------------------------
(* The safety theorems.                                                     *)

\* One clock, or none.
LEMMA InductiveKept ==
  ASSUME Inductive, [Next]_vars PROVE Inductive'
<1>1. CASE Next
  <2>1. TypeOK'
    BY <1>1, EveryStepIsAnEdge, ClockType DEF Inductive
  <2>2. PICK r \in Requests : \/ LeaveReset(r)
                              \/ Idle(r) \/ LoadHit(r) \/ StoreHit(r) \/ Miss(r)
                              \/ Service(r)
    BY <1>1 DEF Next
  <2>3. r \in Request
    BY DCacheAssumption
  <2>4. Strengthening'
    <3>1. CASE LeaveReset(r)
      BY <2>3, <3>1, LeaveResetStep
    <3>2. CASE Idle(r) \/ LoadHit(r)
      BY <2>3, <3>2, QuietStep
    <3>3. CASE StoreHit(r)
      BY <2>3, <3>3, StoreHitStep
    <3>4. CASE Miss(r)
      BY <2>3, <3>4, MissStep
    <3>5. CASE StartRefill(r)
      BY <2>3, <3>5, StartRefillStep
    <3>6. CASE StartEvict(r) \/ EvictWord(r)
      BY <2>3, <3>6, WritebackStep
    <3>7. CASE EvictDone(r)
      BY <2>3, <3>7, EvictDoneStep
    <3>8. CASE RefillWord(r)
      BY <2>3, <3>8, RefillWordStep
    <3>9. CASE RefillDone(r)
      BY <2>3, <3>9, RefillDoneStep
    <3>10. CASE ServeLoad(r)
      BY <2>3, <3>10, ServeLoadStep
    <3>11. CASE ServeStore(r)
      BY <2>3, <3>11, ServeStoreStep
    <3> QED
      BY <2>2, <3>1, <3>2, <3>3, <3>4, <3>5,
         <3>6, <3>7, <3>8, <3>9, <3>10, <3>11 DEF Service
  <2> QED
    BY <2>1, <2>4 DEF Inductive, Strengthening
<1>2. CASE UNCHANGED vars
  <2>1. UNCHANGED <<state, a_valid, a_dirty, a_tag, a_lru, bank, bank_data,
                   cr_pend, new_core_req_d, hit_d, cr_victim_dirty_d,
                   mem_cnt, mem_cnt_d, mem_r_transfer_done_d,
                   clear_pending_on_read, bank_evict_cnt, lfc_d, mem,
                   rsp_mem_valid, rsp_mem_data>>
    BY <1>2 DEF vars, meta, banks, ctrl, cnts, port
  <2>2. TypeOK'
    BY <2>1 DEF Inductive, TypeOK
  <2>3. NoTagDuplicate'
    BY <2>1 DEF Inductive, NoTagDuplicate
  <2>4. PhaseInv'
    BY <2>1 DEF Inductive, PhaseInv, miss_d
  <2>5. VictimInv'
    BY <2>1 DEF Inductive, VictimInv, Launch, miss_d, Holders,
                PendingWay, PendingSet, PendingTag
  <2>6. TransferInv'
    BY <2>1 DEF Inductive, TransferInv, Launch, miss_d, mem_cnt_done,
                PendingWay, PendingSet, PendingTag
  <2>7. CleanLineIsCopy'
    BY <2>1 DEF Inductive, CleanLineIsCopy, Refilling
  <2> QED
    BY <2>2, <2>3, <2>4, <2>5, <2>6, <2>7 DEF Inductive
<1> QED
  BY <1>1, <1>2


\* The invariant holds of every state the cache reaches, for every geometry
\* and every sequence of requests.
THEOREM InductiveInvariant == Spec => []Inductive
<1>1. Init => Inductive
  BY InitType, InitStrengthening DEF Inductive, Strengthening
<1>2. Inductive /\ [Next]_vars => Inductive'
  BY InductiveKept
<1> QED
  BY <1>1, <1>2, PTL DEF Spec

\* A line is never in two ways: the tag-duplicate assertion of the source never
\* fires.
THEOREM NoLineInTwoWays == Spec => []NoTagDuplicate
<1>1. Inductive => NoTagDuplicate
  BY DEF Inductive
<1> QED
  BY <1>1, InductiveInvariant, PTL

\* Every clean line the core can read agrees with main memory.
THEOREM CleanLinesAgree == Spec => []CleanLineIsCopy
<1>1. Inductive => CleanLineIsCopy
  BY DEF Inductive
<1> QED
  BY <1>1, InductiveInvariant, PTL

\* The two writers of the LRU counters never meet (the FIXME at the lca mux).
THEOREM LruWritersExclude == Spec => []HitExcludesPending
<1>1. Inductive => HitExcludesPending
  BY DEF Inductive, PhaseInv, HitExcludesPending, ready, req_pending
<1> QED
  BY <1>1, InductiveInvariant, PTL

\* No store is lost between the write-back of a victim and the refill over it.
THEOREM VictimIsSaved == Spec => VictimSavedFirst
<1> DEFINE Saved(w, s) ==
      /\ a_valid[w][s]
      /\ rsp_mem_valid /\ mem_cnt_d = 0
      /\ bank[w][s] # bank'[w][s]
      => mem[a_tag[w][s]][s] = bank[w][s]
<1>1. Inductive /\ [Next]_vars => [\A w \in Way, s \in Set : Saved(w, s)]_vars
  <2> SUFFICES ASSUME Inductive, Next, NEW w \in Way, NEW s \in Set,
                      a_valid[w][s], rsp_mem_valid, mem_cnt_d = 0,
                      bank[w][s] # bank'[w][s]
               PROVE  mem[a_tag[w][s]][s] = bank[w][s]
    BY DEF vars, banks
  <2>1. state = "DC_MISS" /\ ~mem_r_transfer_done_d
    BY DEF Inductive, PhaseInv, TypeOK
  <2>2. PICK r \in Requests : RefillWord(r) \/ RefillDone(r)
    BY <2>1 DEF Next, LeaveReset, Idle, LoadHit, StoreHit, Miss, ready, Service,
                StartRefill, StartEvict, Launch, EvictWord, EvictDone, ServeLoad,
                ServeStore, load_req_pending, store_req_pending, req_pending
  <2>3. WordArrives
    BY <2>2, DCacheAssumption, ArrivalEffect
  <2>4. w = PendingWay /\ s = PendingSet
    BY <2>3 DEF WordArrives, Inductive, TypeOK
  <2> QED
    BY <2>1, <2>4 DEF Inductive, TransferInv
<1> QED
  BY <1>1, InductiveInvariant, PTL DEF Spec, VictimSavedFirst

=============================================================================

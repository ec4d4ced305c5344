---------------------------- MODULE ICacheProofs ----------------------------
(***************************************************************************)
(* Theorems about ICache, for every geometry, memory image and set of      *)
(* fetches.                                                                *)
(***************************************************************************)
EXTENDS ICacheHistory, TLAPS

PendType == [active : BOOLEAN, cr : Fetch, way : Way]

-----------------------------------------------------------------------------
(* Facts about the operators.                                               *)

LEMMA ZeroIsIndex == 0 \in Way /\ 0 \in Set /\ 0 \in Tag /\ 0 \in Beat
  BY TypesAssumption, ICacheAssumption DEF Way, Set, Tag, Beat

LEMMA WayOfType == ASSUME NEW r PROVE WayOf(r) \in Way
  BY ZeroIsIndex DEF WayOf, TagMatch

LEMMA WayVictimType == ASSUME NEW r PROVE WayVictim(r) \in Way
  BY ZeroIsIndex DEF WayVictim

LEMMA NextBeatType == ASSUME NEW n \in Beat PROVE NextBeat(n) \in Beat
  BY TypesAssumption DEF NextBeat, Beat, LastBeat

LEMMA NoFetchType == NoFetch \in Fetch /\ ClearPending \in PendType
  BY ZeroIsIndex DEF NoFetch, ClearPending, Fetch, PendType

\* What the banks are read at.
LEMMA ReadingType ==
  ASSUME TypeOK, NEW r \in Fetch
  PROVE  Reading(r) \in Fetch /\ ReadingWay(r) \in Way
  BY WayOfType DEF TypeOK, Reading, ReadingWay

-----------------------------------------------------------------------------
(* Type correctness, register by register.                                  *)

LEMMA BankEdgeType ==
  ASSUME TypeOK, NEW r \in Fetch, BankEdge(r)
  PROVE  bank' \in [Way -> [Set -> Line]] /\ bank_data' \in [Way -> Word]
<1> DEFINE s == IF mem_to_cache_wr THEN cr_pend.cr.set ELSE Reading(r).set
           b == IF mem_to_cache_wr THEN mem_miss_cnt_d ELSE Reading(r).beat
<1>1. s \in Set /\ b \in Beat /\ cr_pend.way \in Way /\ rsp_mem_data \in Word
  BY ReadingType DEF TypeOK, Fetch
<1>2. bank \in [Way -> [Set -> [Beat -> Word]]]
  BY DEF TypeOK, Line
<1>3. /\ bank' = IF mem_to_cache_wr
                   THEN [bank EXCEPT ![cr_pend.way][s][b] = rsp_mem_data] ELSE bank
      /\ bank_data' = [w \in Way |-> bank[w][s][b]]
  BY DEF BankEdge
<1> HIDE DEF s, b
<1>4. bank' \in [Way -> [Set -> [Beat -> Word]]] /\ bank_data' \in [Way -> Word]
  BY <1>1, <1>2, <1>3
<1> QED
  BY <1>4 DEF Line

LEMMA MetadataEdgeType ==
  ASSUME TypeOK, NEW r \in Fetch, MetadataEdge(r)
  PROVE  a_valid' \in [Way -> [Set -> BOOLEAN]] /\ a_tag' \in [Way -> [Set -> Tag]]
<1>1. /\ cr_pend.way \in Way /\ cr_pend.cr.set \in Set /\ cr_pend.cr.tag \in Tag
      /\ WayVictim(r) \in Way /\ r.set \in Set
  BY WayVictimType DEF TypeOK, Fetch
<1>2. CASE mem_to_cache_wr /\ mem_transfer_done
  <2> DEFINE w == cr_pend.way
             c == cr_pend.cr
  <2>1. w \in Way /\ c.set \in Set /\ c.tag \in Tag
    BY <1>1
  <2>2. /\ a_valid' = [a_valid EXCEPT ![w][c.set] = TRUE]
        /\ a_tag' = [a_tag EXCEPT ![w][c.set] = c.tag]
    BY <1>2 DEF MetadataEdge
  <2>3. /\ a_valid \in [Way -> [Set -> BOOLEAN]]
        /\ a_tag \in [Way -> [Set -> Tag]]
    BY DEF TypeOK
  <2> HIDE DEF w, c
  <2> QED
    BY <2>1, <2>2, <2>3
<1>3. CASE ~(mem_to_cache_wr /\ mem_transfer_done)
  <2> DEFINE v == WayVictim(r)
  <2>1. v \in Way /\ r.set \in Set
    BY <1>1
  <2>2. /\ a_valid' = IF miss_d THEN [a_valid EXCEPT ![v][r.set] = FALSE] ELSE a_valid
        /\ a_tag' = a_tag
    BY <1>3 DEF MetadataEdge
  <2> HIDE DEF v
  <2> QED
    BY <2>1, <2>2 DEF TypeOK
<1> QED
  BY <1>2, <1>3

\* A rank below another one can be counted up.
LEMMA RankBelow ==
  ASSUME NEW i \in Way, NEW j \in Way, i < j
  PROVE  i + 1 \in Way
  BY ICacheAssumption DEF Way

LEMMA TouchedType ==
  ASSUME NEW counter \in [Way -> Way], NEW w \in Way
  PROVE  Touched(counter, w) \in [Way -> Way]
<1> SUFFICES ASSUME NEW v \in Way PROVE Touched(counter, w)[v] \in Way
  BY DEF Touched
<1>1. WAYS = 2 => 1 \in Way
  BY DEF Way
<1>2. counter[v] \in Way /\ counter[w] \in Way
  OBVIOUS
<1>3. counter[v] < counter[w] => counter[v] + 1 \in Way
  BY <1>2, RankBelow
<1> QED
  BY <1>1, <1>2, <1>3, ZeroIsIndex DEF Touched

LEMMA LruEdgeType ==
  ASSUME TypeOK, NEW new \in BOOLEAN, NEW r \in Fetch, LruEdge(new, r)
  PROVE  /\ a_lru' \in [Way -> [Set -> Way]]
         /\ update_lru_d' \in BOOLEAN
         /\ lca_d' \in [way : Way, set : Set]
<1> DEFINE s == lca_d.set
           before == [v \in Way |-> a_lru[v][s]]
           now == Touched(before, lca_d.way)
<1>1. s \in Set /\ lca_d.way \in Way /\ before \in [Way -> Way]
  BY DEF TypeOK
<1>2. now \in [Way -> Way]
  BY <1>1, TouchedType
<1>3. a_lru' = IF update_lru_d THEN [v \in Way |-> [a_lru[v] EXCEPT ![s] = now[v]]]
                               ELSE a_lru
  BY DEF LruEdge
<1>4. a_lru' \in [Way -> [Set -> Way]]
  <2> HIDE DEF now, before, s
  <2> QED
    BY <1>1, <1>2, <1>3 DEF TypeOK
<1>5. update_lru_d' \in BOOLEAN
  BY DEF LruEdge, hit, TagMatch, load_req_pend
<1>6. lca_d' \in [way : Way, set : Set]
  BY WayOfType, ZeroIsIndex DEF LruEdge, TypeOK, Fetch
<1> QED
  BY <1>4, <1>5, <1>6

LEMMA PendEdgeType ==
  ASSUME TypeOK, PendEdge
  PROVE  cr_pend' \in PendType
  BY NoFetchType DEF TypeOK, PendEdge, PendType

LEMMA RequestEdgeType ==
  ASSUME TypeOK, NEW new \in BOOLEAN, NEW r \in Fetch, RequestEdge(new, r)
  PROVE  /\ new_core_req_d' \in BOOLEAN /\ hit_d' \in BOOLEAN
         /\ cr_d_addr' \in Fetch
         /\ way_victim_idx_d' \in Way /\ way_idx_d' \in Way
         /\ word_in_bank_line_addr' \in SUBSET Lane
<1>1. hit(new, r) \in BOOLEAN
  BY DEF hit, TagMatch
<1>2. Reading(r).be \in SUBSET Lane
  BY ReadingType DEF Fetch
<1> QED
  BY <1>1, <1>2, WayVictimType, ReadingType DEF RequestEdge, TypeOK

LEMMA CounterEdgeType ==
  ASSUME TypeOK, CounterEdge
  PROVE  /\ mem_miss_cnt' \in Beat /\ mem_miss_cnt_d' \in Beat
         /\ mem_transfer_done_d' \in BOOLEAN
  BY NextBeatType DEF CounterEdge, TypeOK, mem_transfer_done

LEMMA PortEdgeType ==
  ASSUME TypeOK, PortEdge
  PROVE  rsp_mem_valid' \in BOOLEAN /\ rsp_mem_data' \in Word
<1>1. RefillOf \in Fetch /\ RefillBeat \in Beat
  BY ZeroIsIndex DEF RefillOf, RefillBeat, TypeOK
<1>2. mem[RefillOf.tag][RefillOf.set][RefillBeat] \in Word
  BY <1>1 DEF TypeOK, MainMemory, Line, Fetch
<1>3. req_mem_valid \in BOOLEAN
  BY DEF req_mem_valid, save_pending, miss_d
<1> QED
  BY <1>2, <1>3 DEF PortEdge, TypeOK

LEMMA ClockType ==
  ASSUME TypeOK, NEW new \in BOOLEAN, NEW r \in Fetch, Clock(new, r),
         mem' \in MainMemory
  PROVE  TypeOK'
<1>1. state' \in {"IC_RESET", "IC_READY", "IC_MISS"}
  BY DEF Clock, StateEdge, TypeOK
<1> QED
  BY <1>1, BankEdgeType, MetadataEdgeType, LruEdgeType, PendEdgeType,
     RequestEdgeType, CounterEdgeType, PortEdgeType
  DEF Clock, TypeOK, PendType

\* Every step is a clock edge; a fetch is accepted only in a cycle in which the
\* cache is ready, and it is a miss only if no way holds its line.
LEMMA EveryStepIsAnEdge ==
  ASSUME Step
  PROVE  \E r \in Fetch, new \in BOOLEAN : Clock(new, r) /\ (new => ready)
<1>1. PICK r \in Fetches : LeaveReset(r) \/ Idle(r) \/ FetchHit(r) \/ FetchMiss(r)
                           \/ Service(r)
  BY DEF Step
<1>2. r \in Fetch
  BY ICacheAssumption
<1>3. \E new \in BOOLEAN : Clock(new, r) /\ (new => ready)
  BY <1>1 DEF LeaveReset, Idle, FetchHit, FetchMiss, Service, StartRefill,
              RefillWord, RefillDone, Serve
<1> QED
  BY <1>2, <1>3

LEMMA InitType == Init => TypeOK
<1> SUFFICES ASSUME Init PROVE TypeOK
  OBVIOUS
<1>1. ZeroWord \in Word
  BY TypesAssumption DEF ZeroWord, Word
<1>2. mem \in MainMemory /\ bank \in [Way -> [Set -> Line]]
  BY ICacheAssumption DEF Init, Way
<1> QED
  BY <1>1, <1>2, ZeroIsIndex, NoFetchType DEF Init, TypeOK, PendType

\* The registers, the arrays and the banks keep their types, and the word
\* counters stay inside the line, for every geometry of the cache.
THEOREM TypeCorrect == Spec => []TypeOK
<1>1. TypeOK /\ [Next]_vars => TypeOK'
  <2> SUFFICES ASSUME TypeOK, [Next]_vars PROVE TypeOK'
    OBVIOUS
  <2>1. CASE Next
    BY <2>1, EveryStepIsAnEdge, ClockType DEF Next, TypeOK
  <2>2. CASE UNCHANGED vars
    BY <2>2 DEF vars, cache, lines, lru, reqs, cnts, outs, port, TypeOK
  <2> QED
    BY <2>1, <2>2
<1> QED
  BY <1>1, InitType, PTL DEF Spec

-----------------------------------------------------------------------------
(* One way per line.  The lookup that missed is many cycles older than the  *)
(* tag it leads to, so the invariant carries its result along: first to the *)
(* register that holds the request, then to the saved request.              *)

\* A request is fresh only where the state machine can take it.
FreshOnlyWhenFree ==
  state # "IC_READY" \/ cr_pend.active => ~new_core_req_d

\* No way holds what was just looked up and missed.
MissedIsNowhere ==
  miss_d => \A w \in Way : ~Holds(w, cr_d_addr)

\* While a line is refilled no other way holds it.
RefilledElsewhereNever ==
  state = "IC_MISS" => \A w \in Way : Holds(w, cr_pend.cr) => w = cr_pend.way

NoDuplicateInv ==
  FreshOnlyWhenFree /\ MissedIsNowhere /\ RefilledElsewhereNever /\ NoTagDuplicate

\* A line that appears in a way is the one being refilled into it.
LEMMA LinesOnlyByRefill ==
  ASSUME TypeOK, NEW r \in Fetch, MetadataEdge(r),
         NEW w \in Way, NEW s \in Set, a_valid'[w][s]
  PROVE  \/ a_valid[w][s] /\ a_tag'[w][s] = a_tag[w][s]
         \/ /\ state = "IC_MISS" /\ w = cr_pend.way /\ s = cr_pend.cr.set
            /\ a_tag'[w][s] = cr_pend.cr.tag
<1>1. /\ cr_pend.way \in Way /\ cr_pend.cr.set \in Set /\ cr_pend.cr.tag \in Tag
      /\ WayVictim(r) \in Way /\ r.set \in Set
      /\ a_valid \in [Way -> [Set -> BOOLEAN]] /\ a_tag \in [Way -> [Set -> Tag]]
  BY WayVictimType DEF TypeOK, Fetch
<1>2. CASE mem_to_cache_wr /\ mem_transfer_done
  BY <1>1, <1>2 DEF MetadataEdge, mem_to_cache_wr
<1>3. CASE ~(mem_to_cache_wr /\ mem_transfer_done)
  BY <1>1, <1>3 DEF MetadataEdge
<1> QED
  BY <1>2, <1>3

\* One edge keeps the invariant; a fetch is accepted when the cache is ready.
LEMMA EdgeKeepsOneWay ==
  ASSUME TypeOK, NoDuplicateInv, NEW new \in BOOLEAN, NEW r \in Fetch,
         Clock(new, r), new => ready
  PROVE  NoDuplicateInv'
<1> USE DEF NoDuplicateInv
<1>0. /\ StateEdge /\ MetadataEdge(r) /\ PendEdge /\ RequestEdge(new, r)
      /\ new_core_req_d' = new
  BY DEF Clock, RequestEdge
<1>1. FreshOnlyWhenFree'
  <2> SUFFICES ASSUME new PROVE state' = "IC_READY" /\ ~cr_pend'.active
    BY <1>0 DEF FreshOnlyWhenFree
  <2>1. state = "IC_READY" /\ ~miss_d
    BY DEF ready, FreshOnlyWhenFree, miss_d
  <2>2. state' = "IC_READY"
    BY <1>0, <2>1 DEF StateEdge
  <2>3. ~cr_pend'.active
    BY <1>0, <2>1 DEF PendEdge, save_pending, clear_pending, ClearPending
  <2> QED
    BY <2>2, <2>3
<1>2. MissedIsNowhere'
  <2> SUFFICES ASSUME new, ~TagMatch(r), NEW w \in Way, Holds(w, r)'
               PROVE  FALSE
    <3>1. new => cr_d_addr' = r /\ (hit_d' <=> TagMatch(r))
      BY <1>0 DEF RequestEdge, hit, TagMatch
    <3> QED
      BY <1>0, <3>1 DEF MissedIsNowhere, miss_d, Holds
  <2>1. state = "IC_READY"
    BY DEF ready
  <2>2. a_valid'[w][r.set] /\ a_tag'[w][r.set] = r.tag /\ r.set \in Set
    BY DEF Holds, Fetch
  <2>3. a_valid[w][r.set] /\ a_tag'[w][r.set] = a_tag[w][r.set]
    BY <1>0, <2>1, <2>2, LinesOnlyByRefill
  <2> QED
    BY <2>2, <2>3 DEF TagMatch, Holds
<1>3. RefilledElsewhereNever'
  <2> SUFFICES ASSUME state' = "IC_MISS", NEW w \in Way, Holds(w, cr_pend.cr)'
               PROVE  w = cr_pend'.way
    BY DEF RefilledElsewhereNever
  <2>1. CASE state = "IC_MISS"
    <3>1. cr_pend' = cr_pend /\ cr_pend.cr.set \in Set
      BY <1>0, <2>1 DEF PendEdge, save_pending, clear_pending, TypeOK, Fetch
    <3>2. a_valid'[w][cr_pend.cr.set] /\ a_tag'[w][cr_pend.cr.set] = cr_pend.cr.tag
      BY <3>1 DEF Holds
    <3>3. \/ Holds(w, cr_pend.cr)
          \/ w = cr_pend.way
      BY <1>0, <3>1, <3>2, LinesOnlyByRefill DEF Holds
    <3> QED
      BY <2>1, <3>1, <3>3 DEF RefilledElsewhereNever
  <2>2. CASE state # "IC_MISS"
    <3>1. state = "IC_READY" /\ miss_d
      BY <1>0, <2>2 DEF StateEdge, TypeOK
    <3>2. save_pending
      BY <3>1 DEF save_pending, miss_d, FreshOnlyWhenFree
    <3>3. cr_pend'.cr = cr_d_addr /\ cr_d_addr.set \in Set
      BY <1>0, <3>2 DEF PendEdge, TypeOK, Fetch
    <3>4. a_valid'[w][cr_d_addr.set] /\ a_tag'[w][cr_d_addr.set] = cr_d_addr.tag
      BY <3>3 DEF Holds
    <3>5. Holds(w, cr_d_addr)
      BY <1>0, <2>2, <3>3, <3>4, LinesOnlyByRefill DEF Holds
    <3> QED
      BY <3>1, <3>5 DEF MissedIsNowhere
  <2> QED
    BY <2>1, <2>2
<1>4. NoTagDuplicate'
  <2> SUFFICES ASSUME NEW s \in Set, NEW v \in Way, NEW w \in Way,
                      a_valid'[v][s], a_valid'[w][s], a_tag'[v][s] = a_tag'[w][s]
               PROVE  v = w
    BY DEF NoTagDuplicate
  <2> DEFINE Kept(u) == a_valid[u][s] /\ a_tag'[u][s] = a_tag[u][s]
             Filled(u) == /\ state = "IC_MISS" /\ u = cr_pend.way
                          /\ s = cr_pend.cr.set /\ a_tag'[u][s] = cr_pend.cr.tag
  <2>1. (Kept(v) \/ Filled(v)) /\ (Kept(w) \/ Filled(w))
    BY <1>0, LinesOnlyByRefill
  <2>2. ASSUME NEW x \in Way, NEW y \in Way, Filled(x), Kept(y),
               a_tag'[x][s] = a_tag'[y][s]
        PROVE  x = y
    BY <2>2 DEF RefilledElsewhereNever, Holds
  <2>3. CASE Kept(v) /\ Kept(w)
    BY <2>3 DEF NoTagDuplicate
  <2> QED
    BY <2>1, <2>2, <2>3
<1> QED
  BY <1>1, <1>2, <1>3, <1>4

\* A line is never in two ways (the "ICACHE TAG DUPLICATE" assertion of
\* ama_riscv_icache.sv), for every number of ways, sets and words per line,
\* whatever the bus carries while a miss is served.
THEOREM OneWayPerLine == Spec => []NoTagDuplicate
<1>1. Init => NoDuplicateInv
  BY DEF Init, NoDuplicateInv, FreshOnlyWhenFree, MissedIsNowhere, miss_d,
         RefilledElsewhereNever, NoTagDuplicate
<1>2. TypeOK /\ NoDuplicateInv /\ [Next]_vars => NoDuplicateInv'
  <2> SUFFICES ASSUME TypeOK, NoDuplicateInv, [Next]_vars PROVE NoDuplicateInv'
    OBVIOUS
  <2>1. CASE Next
    BY <2>1, EveryStepIsAnEdge, EdgeKeepsOneWay DEF Next
  <2>2. CASE UNCHANGED vars
    BY <2>2 DEF vars, cache, lines, lru, reqs, cnts, outs, port, NoDuplicateInv,
                FreshOnlyWhenFree, MissedIsNowhere, miss_d, Holds,
                RefilledElsewhereNever, NoTagDuplicate
  <2> QED
    BY <2>1, <2>2
<1>3. NoDuplicateInv => NoTagDuplicate
  BY DEF NoDuplicateInv
<1> QED
  BY <1>1, <1>2, <1>3, TypeCorrect, PTL DEF Spec

-----------------------------------------------------------------------------
(* The cache is an atomic read-only memory: its safety part.  The lines of  *)
(* a set K are followed, those that nobody writes: here they are all lines, *)
(* and in the system of both caches those the core has not stored to.       *)

AllLines == Tag \X Set

\* Main memory keeps the lines of K in this step.
MemoryKept(K) ==
  /\ mem' \in MainMemory
  /\ \A t \in Tag, s \in Set : <<t, s>> \in K => mem'[t][s] = mem[t][s]

\* Where the saved request, the counters and the one-cycle flags stand in each
\* phase of a miss.
PhaseInv ==
  /\ state = "IC_RESET" => ~cr_pend.active
  /\ cr_pend.active => cr_pend.cr = cr_d_addr
  /\ state \in {"IC_RESET", "IC_READY"} =>
       ~rsp_mem_valid /\ ~mem_transfer_done_d /\ mem_miss_cnt = 0 /\ mem_miss_cnt_d = 0
  /\ state = "IC_MISS" =>
       /\ cr_pend.active
       /\ IF mem_transfer_done_d
            THEN ~rsp_mem_valid /\ mem_miss_cnt = 0 /\ mem_miss_cnt_d = 0
            ELSE rsp_mem_valid /\ mem_miss_cnt = NextBeat(mem_miss_cnt_d)

\* The words before the one on the memory's port are in the bank already; when
\* all of them are, the line is valid.
RefillInv(K) ==
  LET new == mem[cr_pend.cr.tag][cr_pend.cr.set]
      here == bank[cr_pend.way][cr_pend.cr.set]
  IN  state = "IC_MISS" =>
        IF mem_transfer_done_d
          THEN Holds(cr_pend.way, cr_pend.cr)
          ELSE <<cr_pend.cr.tag, cr_pend.cr.set>> \in K =>
                 /\ rsp_mem_data = new[mem_miss_cnt_d]
                 /\ \A b \in Beat : b < mem_miss_cnt_d => here[b] = new[b]

\* A line that is valid and not being refilled is main memory's.
LinesAreCopies(K) ==
  \A w \in Way, s \in Set :
    a_valid[w][s] /\ ~Refilling(w, s) /\ <<a_tag[w][s], s>> \in K => bank[w][s] = mem[a_tag[w][s]][s]

\* The request an answer belongs to.
Answered == IF cr_pend.active THEN cr_pend.cr ELSE cr_d_addr

AnswerIsMemory(K) ==
  rsp_core_valid =>
    /\ <<Answered.tag, Answered.set>> \in K =>
         bank_data[way_idx_d] = mem[Answered.tag][Answered.set][Answered.beat]
    /\ word_in_bank_line_addr = Answered.be

Inductive(K) ==
  /\ TypeOK
  /\ NoDuplicateInv
  /\ PhaseInv
  /\ RefillInv(K)
  /\ LinesAreCopies(K)
  /\ AnswerIsMemory(K)

\* What remains to be kept by each step.
MemoryInv(K) == PhaseInv /\ RefillInv(K) /\ LinesAreCopies(K) /\ AnswerIsMemory(K)

LEMMA LinesType ==
  ASSUME TypeOK
  PROVE  /\ bank \in [Way -> [Set -> [Beat -> Word]]]
         /\ mem \in [Tag -> [Set -> [Beat -> Word]]]
         /\ a_valid \in [Way -> [Set -> BOOLEAN]] /\ a_tag \in [Way -> [Set -> Tag]]
         /\ cr_pend.way \in Way /\ cr_pend.cr.set \in Set
         /\ cr_pend.cr.tag \in Tag /\ cr_pend.cr.beat \in Beat
         /\ cr_d_addr.set \in Set /\ cr_d_addr.tag \in Tag /\ cr_d_addr.beat \in Beat
  BY DEF TypeOK, MainMemory, Line, Fetch

\* Two lines that agree word by word are equal.
LEMMA LineEquality ==
  ASSUME NEW f \in [Beat -> Word], NEW g \in [Beat -> Word],
         \A b \in Beat : f[b] = g[b]
  PROVE  f = g
  OBVIOUS

\* A cycle that can accept a fetch: nothing is written, the banks are read at
\* the address on the bus.
ReadyEffect(new, r) ==
  /\ state' = "IC_READY" /\ ~cr_pend'.active
  /\ ~rsp_mem_valid' /\ ~mem_transfer_done_d'
  /\ mem_miss_cnt' = 0 /\ mem_miss_cnt_d' = 0
  /\ UNCHANGED <<a_valid, a_tag, bank>>
  /\ bank_data' = [w \in Way |-> bank[w][r.set][r.beat]]
  /\ way_idx_d' = WayOf(r) /\ word_in_bank_line_addr' = r.be
  /\ new_core_req_d' = new
  /\ new => cr_d_addr' = r /\ (hit_d' <=> TagMatch(r))

LEMMA ReadyEdge ==
  ASSUME NEW K, Inductive(K), NEW new \in BOOLEAN, NEW r \in Fetch, ready, Clock(new, r)
  PROVE  ReadyEffect(new, r)
<1>1. /\ state = "IC_READY" /\ ~miss_d /\ ~save_pending /\ ~mem_to_cache_wr
      /\ ~rsp_mem_valid /\ ~mem_transfer_done_d
      /\ mem_miss_cnt = 0 /\ mem_miss_cnt_d = 0
  BY DEF ready, Inductive, PhaseInv, NoDuplicateInv, FreshOnlyWhenFree, miss_d,
         save_pending, mem_to_cache_wr
<1>2. ~req_mem_valid /\ ~mem_transfer_done
  BY <1>1 DEF req_mem_valid, mem_transfer_done
<1>3. state' = "IC_READY"
  BY <1>1 DEF Clock, StateEdge
<1>4. ~cr_pend'.active
  BY <1>1 DEF Clock, PendEdge, clear_pending, ClearPending
<1>5. ~rsp_mem_valid' /\ ~mem_transfer_done_d' /\ mem_miss_cnt' = 0 /\ mem_miss_cnt_d' = 0
  BY <1>1, <1>2 DEF Clock, PortEdge, CounterEdge
<1>6. UNCHANGED <<a_valid, a_tag>>
  BY <1>1 DEF Clock, MetadataEdge
<1>7. Reading(r) = r /\ ReadingWay(r) = WayOf(r)
  BY <1>1 DEF Reading, ReadingWay, FromPending, clear_pending
<1>8. bank' = bank /\ bank_data' = [w \in Way |-> bank[w][r.set][r.beat]]
  BY <1>1, <1>7 DEF Clock, BankEdge
<1>9. /\ way_idx_d' = WayOf(r) /\ word_in_bank_line_addr' = r.be
      /\ new_core_req_d' = new
      /\ new => cr_d_addr' = r /\ (hit_d' <=> TagMatch(r))
  BY <1>7 DEF Clock, RequestEdge, hit, TagMatch
<1> QED
  BY <1>3, <1>4, <1>5, <1>6, <1>8, <1>9 DEF ReadyEffect

LEMMA ReadyStep ==
  ASSUME NEW K, Inductive(K), NEW new \in BOOLEAN, NEW r \in Fetch, ready, Clock(new, r),
         MemoryKept(K)
  PROVE  MemoryInv(K)'
<1>1. ReadyEffect(new, r) /\ state = "IC_READY"
  BY ReadyEdge DEF ready
<1>2. PhaseInv' /\ RefillInv(K)'
  BY <1>1 DEF ReadyEffect, PhaseInv, RefillInv
<1>3. LinesAreCopies(K)'
  <2>1. \A w \in Way, s \in Set :
          a_valid[w][s] /\ <<a_tag[w][s], s>> \in K => bank[w][s] = mem[a_tag[w][s]][s]
    BY <1>1 DEF LinesAreCopies, Refilling, Inductive
  <2> QED
    BY <1>1, <2>1, LinesType DEF ReadyEffect, LinesAreCopies, MemoryKept, Inductive
<1>4. AnswerIsMemory(K)'
  <2> SUFFICES ASSUME rsp_core_valid'
               PROVE  /\ <<r.tag, r.set>> \in K =>
                           bank_data'[way_idx_d'] = mem'[r.tag][r.set][r.beat]
                      /\ Answered' = r
    BY <1>1 DEF AnswerIsMemory, ReadyEffect
  <2>1. new /\ TagMatch(r) /\ Answered' = r
    BY <1>1 DEF rsp_core_valid, ReadyEffect, Answered
  <2>2. WayOf(r) \in Way /\ Holds(WayOf(r), r)
    BY <2>1 DEF WayOf, TagMatch
  <2>3. <<r.tag, r.set>> \in K => bank[WayOf(r)][r.set] = mem'[r.tag][r.set]
    BY <1>1, <2>2 DEF Inductive, LinesAreCopies, Refilling, Holds, Fetch, MemoryKept
  <2>4. bank_data'[way_idx_d'] = bank[WayOf(r)][r.set][r.beat]
    BY <1>1, <2>2 DEF ReadyEffect
  <2> QED
    BY <2>1, <2>3, <2>4
<1> QED
  BY <1>2, <1>3, <1>4 DEF MemoryInv

\* Only a cycle that accepts a fetch changes the register that holds it.
LEMMA LastKept ==
  ASSUME NEW r, Clock(FALSE, r) PROVE cr_d_addr' = cr_d_addr
  BY DEF Clock, RequestEdge

\* The first word of a line is asked for.
LEMMA StartRefillStep ==
  ASSUME NEW K, Inductive(K), NEW r \in Fetch, StartRefill(r), MemoryKept(K)
  PROVE  MemoryInv(K)' /\ state' = "IC_MISS" /\ cr_pend'.cr = cr_d_addr
<1> DEFINE v == way_victim_idx_d
<1>1. /\ Clock(FALSE, r) /\ state = "IC_READY" /\ ~cr_pend.active /\ miss_d
      /\ save_pending /\ ~mem_to_cache_wr /\ req_mem_valid
      /\ ~rsp_mem_valid /\ ~mem_transfer_done_d
      /\ mem_miss_cnt = 0 /\ mem_miss_cnt_d = 0 /\ ~mem_transfer_done
  BY DEF StartRefill, save_pending, mem_to_cache_wr, req_mem_valid, Inductive,
         PhaseInv, mem_transfer_done
<1>2. cr_pend' = [active |-> TRUE, cr |-> cr_d_addr, way |-> v]
  BY <1>1 DEF Clock, PendEdge
<1>3. state' = "IC_MISS"
  BY <1>1 DEF Clock, StateEdge
<1>4. /\ mem_miss_cnt' = NextBeat(0) /\ mem_miss_cnt_d' = 0
      /\ mem_transfer_done_d' = FALSE
  BY <1>1 DEF Clock, CounterEdge
<1>5. rsp_mem_valid' /\ rsp_mem_data' = mem[cr_d_addr.tag][cr_d_addr.set][0]
  BY <1>1 DEF Clock, PortEdge, RefillOf, RefillBeat
<1>6. bank' = bank /\ a_tag' = a_tag
  BY <1>1 DEF Clock, BankEdge, MetadataEdge
<1>7. \A w \in Way, s \in Set : a_valid'[w][s] => a_valid[w][s]
  <2>1. a_valid' = [a_valid EXCEPT ![WayVictim(r)][r.set] = FALSE]
    BY <1>1 DEF Clock, MetadataEdge
  <2>2. WayVictim(r) \in Way /\ r.set \in Set
    BY WayVictimType DEF Fetch
  <2>3. a_valid \in [Way -> [Set -> BOOLEAN]]
    BY DEF Inductive, TypeOK
  <2> QED
    BY <2>1, <2>2, <2>3
<1>8. PhaseInv'
  BY <1>1, <1>2, <1>3, <1>4, <1>5, LastKept DEF PhaseInv
<1>9. RefillInv(K)'
  <2>1. \A b \in Beat : ~(b < 0)
    BY TypesAssumption DEF Beat
  <2> QED
    BY <1>2, <1>3, <1>4, <1>5, <2>1, LinesType DEF RefillInv, MemoryKept, Inductive
<1>10. LinesAreCopies(K)'
  <2>1. \A w \in Way, s \in Set :
          a_valid[w][s] /\ <<a_tag[w][s], s>> \in K => bank[w][s] = mem[a_tag[w][s]][s]
    BY <1>1 DEF LinesAreCopies, Refilling, Inductive
  <2> QED
    BY <1>6, <1>7, <2>1, LinesType DEF LinesAreCopies, MemoryKept, Inductive
<1>11. AnswerIsMemory(K)'
  BY <1>3 DEF AnswerIsMemory, rsp_core_valid
<1> QED
  BY <1>2, <1>3, <1>8, <1>9, <1>10, <1>11 DEF MemoryInv

\* The word on the port goes into its place.
WordArrives ==
  bank' = [bank EXCEPT ![cr_pend.way][cr_pend.cr.set][mem_miss_cnt_d] = rsp_mem_data]

\* A word arrives: what the two steps of a refill have in common.
LEMMA ArrivalEffect ==
  ASSUME NEW K, Inductive(K), NEW r \in Fetch, Clock(FALSE, r), state = "IC_MISS", rsp_mem_valid
  PROVE  /\ state' = "IC_MISS" /\ cr_pend' = cr_pend /\ cr_pend.active
         /\ ~mem_transfer_done_d /\ mem_transfer_done_d' = mem_transfer_done
         /\ mem_miss_cnt = NextBeat(mem_miss_cnt_d)
         /\ mem_miss_cnt_d' = mem_miss_cnt
         /\ WordArrives
<1>1. /\ cr_pend.active /\ ~mem_transfer_done_d /\ mem_to_cache_wr
      /\ mem_miss_cnt = NextBeat(mem_miss_cnt_d)
      /\ ~save_pending /\ ~clear_pending
  BY DEF Inductive, PhaseInv, mem_to_cache_wr, save_pending, clear_pending
<1>2. state' = "IC_MISS"
  BY <1>1 DEF Clock, StateEdge
<1>3. cr_pend' = cr_pend
  BY <1>1 DEF Clock, PendEdge
<1>4. /\ mem_transfer_done_d' = mem_transfer_done
      /\ mem_miss_cnt_d' = mem_miss_cnt
  BY DEF Clock, CounterEdge
<1>5. WordArrives
  BY <1>1 DEF Clock, BankEdge, WordArrives
<1> QED
  BY <1>1, <1>2, <1>3, <1>4, <1>5

\* What writing one word of the banks changes.
LEMMA WordWrite ==
  ASSUME bank \in [Way -> [Set -> [Beat -> Word]]],
         NEW p \in Way, NEW q \in Set, NEW n \in Beat, NEW d \in Word,
         bank' = [bank EXCEPT ![p][q][n] = d]
  PROVE  /\ \A w \in Way, s \in Set : ~(w = p /\ s = q) => bank'[w][s] = bank[w][s]
         /\ \A b \in Beat : bank'[p][q][b] = IF b = n THEN d ELSE bank[p][q][b]
         /\ bank' \in [Way -> [Set -> [Beat -> Word]]]
<1>1. \A w \in Way, s \in Set : ~(w = p /\ s = q) => bank'[w][s] = bank[w][s]
  OBVIOUS
<1>2. \A b \in Beat : bank'[p][q][b] = IF b = n THEN d ELSE bank[p][q][b]
  OBVIOUS
<1>3. bank' \in [Way -> [Set -> [Beat -> Word]]]
  OBVIOUS
<1> QED
  BY <1>1, <1>2, <1>3

\* It touches no other line, and extends the words that are there.
LEMMA ArrivalBanks ==
  ASSUME NEW K, Inductive(K), state = "IC_MISS", ~mem_transfer_done_d, WordArrives
  PROVE  /\ \A w \in Way, s \in Set :
              ~(w = cr_pend.way /\ s = cr_pend.cr.set) => bank'[w][s] = bank[w][s]
         /\ \A b \in Beat :
              <<cr_pend.cr.tag, cr_pend.cr.set>> \in K /\ b <= mem_miss_cnt_d =>
                bank'[cr_pend.way][cr_pend.cr.set][b]
                  = mem[cr_pend.cr.tag][cr_pend.cr.set][b]
         /\ bank' \in [Way -> [Set -> [Beat -> Word]]]
<1> DEFINE p == cr_pend.way
           q == cr_pend.cr.set
           t == cr_pend.cr.tag
           n == mem_miss_cnt_d
           d == rsp_mem_data
<1>1. p \in Way /\ q \in Set /\ n \in Beat /\ d \in Word
  BY LinesType DEF Inductive, TypeOK
<1>2. bank \in [Way -> [Set -> [Beat -> Word]]]
  BY LinesType DEF Inductive
<1>3. <<t, q>> \in K =>
        d = mem[t][q][n] /\ \A b \in Beat : b < n => bank[p][q][b] = mem[t][q][b]
  BY DEF Inductive, RefillInv
<1>4. bank' = [bank EXCEPT ![p][q][n] = d]
  BY DEF WordArrives
<1>5. \A b \in Beat : b <= n => b < n \/ b = n
  BY <1>1, TypesAssumption DEF Beat
<1> HIDE DEF p, q, t, n, d
<1>6. /\ \A w \in Way, s \in Set : ~(w = p /\ s = q) => bank'[w][s] = bank[w][s]
      /\ \A b \in Beat : bank'[p][q][b] = IF b = n THEN d ELSE bank[p][q][b]
      /\ bank' \in [Way -> [Set -> [Beat -> Word]]]
  BY <1>1, <1>2, <1>4, WordWrite
<1>7. \A b \in Beat : <<t, q>> \in K /\ b <= n => bank'[p][q][b] = mem[t][q][b]
  BY <1>3, <1>5, <1>6
<1> QED
  BY <1>6, <1>7 DEF p, q, t, n

LEMMA RefillWordStep ==
  ASSUME NEW K, Inductive(K), NEW r \in Fetch, RefillWord(r), MemoryKept(K)
  PROVE  MemoryInv(K)' /\ state' = "IC_MISS" /\ cr_pend' = cr_pend
<1>1. /\ Clock(FALSE, r) /\ state = "IC_MISS" /\ rsp_mem_valid /\ ~mem_transfer_done
  BY DEF RefillWord
<1>2. /\ state' = "IC_MISS" /\ cr_pend' = cr_pend /\ cr_pend.active
      /\ ~mem_transfer_done_d /\ ~mem_transfer_done_d'
      /\ mem_miss_cnt = NextBeat(mem_miss_cnt_d) /\ mem_miss_cnt_d' = mem_miss_cnt
      /\ WordArrives
  BY <1>1, ArrivalEffect
<1>3. /\ mem_miss_cnt_d \in Beat /\ mem_miss_cnt = mem_miss_cnt_d + 1
      /\ mem_miss_cnt > 0 /\ mem_miss_cnt \in Beat
  <2>1. mem_miss_cnt_d \in Beat /\ mem_miss_cnt \in Beat
    BY DEF Inductive, TypeOK
  <2>2. mem_miss_cnt_d # LastBeat
    BY <1>1 DEF mem_transfer_done
  <2> QED
    BY <1>2, <2>1, <2>2, TypesAssumption DEF NextBeat, Beat
<1>4. req_mem_valid /\ ~save_pending
  BY <1>1, <1>3 DEF req_mem_valid, save_pending
<1>5. mem_miss_cnt' = NextBeat(mem_miss_cnt)
  BY <1>1, <1>4 DEF Clock, CounterEdge
<1>6. /\ rsp_mem_valid'
      /\ rsp_mem_data' = mem[cr_pend.cr.tag][cr_pend.cr.set][mem_miss_cnt]
  BY <1>1, <1>4 DEF Clock, PortEdge, RefillOf, RefillBeat
<1>7. UNCHANGED <<a_valid, a_tag>>
  BY <1>1 DEF Clock, MetadataEdge, miss_d, Inductive, NoDuplicateInv, FreshOnlyWhenFree
<1>8. /\ \A w \in Way, s \in Set :
           ~(w = cr_pend.way /\ s = cr_pend.cr.set) => bank'[w][s] = bank[w][s]
      /\ \A b \in Beat :
           <<cr_pend.cr.tag, cr_pend.cr.set>> \in K /\ b <= mem_miss_cnt_d =>
             bank'[cr_pend.way][cr_pend.cr.set][b]
               = mem[cr_pend.cr.tag][cr_pend.cr.set][b]
  BY <1>1, <1>2, ArrivalBanks
<1>9. PhaseInv'
  BY <1>1, <1>2, <1>5, <1>6, LastKept DEF PhaseInv, Inductive
<1>10. RefillInv(K)'
  <2>1. \A b \in Beat : b < mem_miss_cnt => b <= mem_miss_cnt_d
    BY <1>3 DEF Beat
  <2> QED
    BY <1>2, <1>6, <1>8, <2>1, LinesType DEF RefillInv, MemoryKept, Inductive
<1>11. LinesAreCopies(K)'
  BY <1>1, <1>2, <1>7, <1>8, LinesType
  DEF LinesAreCopies, Refilling, MemoryKept, Inductive
<1>12. AnswerIsMemory(K)'
  BY <1>2 DEF AnswerIsMemory, rsp_core_valid
<1> QED
  BY <1>2, <1>9, <1>10, <1>11, <1>12 DEF MemoryInv

LEMMA RefillDoneStep ==
  ASSUME NEW K, Inductive(K), NEW r \in Fetch, RefillDone(r), MemoryKept(K)
  PROVE  MemoryInv(K)' /\ state' = "IC_MISS" /\ cr_pend' = cr_pend
<1> DEFINE p == cr_pend.way
           c == cr_pend.cr
<1>1. /\ Clock(FALSE, r) /\ state = "IC_MISS" /\ rsp_mem_valid /\ mem_transfer_done
      /\ mem_miss_cnt_d = LastBeat
  BY DEF RefillDone, mem_transfer_done
<1>2. /\ state' = "IC_MISS" /\ cr_pend' = cr_pend /\ cr_pend.active
      /\ ~mem_transfer_done_d /\ mem_transfer_done_d'
      /\ mem_miss_cnt = NextBeat(mem_miss_cnt_d) /\ mem_miss_cnt_d' = mem_miss_cnt
      /\ WordArrives
  BY <1>1, ArrivalEffect
<1>3. mem_miss_cnt = 0
  BY <1>1, <1>2 DEF NextBeat
<1>4. ~req_mem_valid
  BY <1>1, <1>3 DEF req_mem_valid, save_pending
<1>5. mem_miss_cnt' = 0 /\ ~rsp_mem_valid'
  BY <1>1, <1>3, <1>4 DEF Clock, CounterEdge, PortEdge
<1>6. /\ p \in Way /\ c.set \in Set /\ c.tag \in Tag
      /\ a_valid \in [Way -> [Set -> BOOLEAN]] /\ a_tag \in [Way -> [Set -> Tag]]
      /\ mem \in [Tag -> [Set -> [Beat -> Word]]]
  BY LinesType DEF Inductive
<1>7. /\ a_valid' = [a_valid EXCEPT ![p][c.set] = TRUE]
      /\ a_tag' = [a_tag EXCEPT ![p][c.set] = c.tag]
  BY <1>1 DEF Clock, MetadataEdge, mem_to_cache_wr
<1>8. /\ \A w \in Way, s \in Set : ~(w = p /\ s = c.set) => bank'[w][s] = bank[w][s]
      /\ \A b \in Beat : <<c.tag, c.set>> \in K /\ b <= mem_miss_cnt_d =>
                          bank'[p][c.set][b] = mem[c.tag][c.set][b]
      /\ bank' \in [Way -> [Set -> [Beat -> Word]]]
  BY <1>1, <1>2, ArrivalBanks
<1>9. ASSUME <<c.tag, c.set>> \in K PROVE bank'[p][c.set] = mem[c.tag][c.set]
  <2>1. \A b \in Beat : b <= mem_miss_cnt_d
    BY <1>1, TypesAssumption DEF Beat, LastBeat
  <2>2. /\ bank'[p][c.set] \in [Beat -> Word] /\ mem[c.tag][c.set] \in [Beat -> Word]
    BY <1>6, <1>8
  <2>3. \A b \in Beat : bank'[p][c.set][b] = mem[c.tag][c.set][b]
    BY <1>8, <1>9, <2>1
  <2> QED
    BY <2>2, <2>3, LineEquality
<1>10. PhaseInv'
  BY <1>1, <1>2, <1>3, <1>5, LastKept DEF PhaseInv, Inductive
<1> HIDE DEF p, c
<1>11. /\ a_valid'[p][c.set] /\ a_tag'[p][c.set] = c.tag
       /\ \A w \in Way, s \in Set : ~(w = p /\ s = c.set) =>
            a_valid'[w][s] = a_valid[w][s] /\ a_tag'[w][s] = a_tag[w][s]
  BY <1>6, <1>7
<1>12. RefillInv(K)'
  BY <1>2, <1>11 DEF RefillInv, Holds, p, c
<1>13. LinesAreCopies(K)'
  <2> SUFFICES ASSUME NEW w \in Way, NEW s \in Set, a_valid'[w][s],
                      <<a_tag'[w][s], s>> \in K
               PROVE  bank'[w][s] = mem'[a_tag'[w][s]][s]
    BY DEF LinesAreCopies
  <2>1. CASE w = p /\ s = c.set
    <3>1. <<c.tag, c.set>> \in K /\ bank'[w][s] = mem[c.tag][c.set]
      BY <1>9, <1>11, <2>1
    <3> QED
      BY <1>6, <1>11, <2>1, <3>1 DEF MemoryKept
  <2>2. CASE ~(w = p /\ s = c.set)
    <3>1. a_valid[w][s] /\ a_tag'[w][s] = a_tag[w][s] /\ a_tag[w][s] \in Tag
      BY <1>6, <1>11, <2>2
    <3>2. bank[w][s] = mem[a_tag[w][s]][s]
      BY <2>2, <3>1 DEF LinesAreCopies, Refilling, Inductive, p, c
    <3> QED
      BY <1>8, <2>2, <3>1, <3>2 DEF MemoryKept
  <2> QED
    BY <2>1, <2>2
<1>14. AnswerIsMemory(K)'
  BY <1>2 DEF AnswerIsMemory, rsp_core_valid
<1> QED
  BY <1>2, <1>10, <1>12, <1>13, <1>14 DEF MemoryInv

\* The word asked for is read from the line that has just become valid.
LEMMA ServeStep ==
  ASSUME NEW K, Inductive(K), NEW r \in Fetch, Serve(r), MemoryKept(K)
  PROVE  /\ MemoryInv(K)' /\ state' = "IC_READY"
         /\ cr_pend.active /\ cr_pend' = cr_pend
<1> DEFINE p == cr_pend.way
           c == cr_pend.cr
<1>1. /\ Clock(FALSE, r) /\ state = "IC_MISS" /\ mem_transfer_done_d
      /\ cr_pend.active /\ ~rsp_mem_valid /\ ~mem_to_cache_wr /\ ~mem_transfer_done
      /\ mem_miss_cnt = 0 /\ ~save_pending /\ ~clear_pending /\ ~req_mem_valid
  <2>1. Clock(FALSE, r) /\ state = "IC_MISS" /\ mem_transfer_done_d
    BY DEF Serve
  <2>2. cr_pend.active /\ ~rsp_mem_valid /\ mem_miss_cnt = 0
    BY <2>1 DEF Inductive, PhaseInv
  <2>3. ~save_pending /\ ~clear_pending /\ ~mem_to_cache_wr /\ ~mem_transfer_done
    BY <2>1, <2>2 DEF save_pending, clear_pending, mem_to_cache_wr, mem_transfer_done
  <2>4. ~req_mem_valid
    BY <2>2, <2>3 DEF req_mem_valid
  <2> QED
    BY <2>1, <2>2, <2>3, <2>4
<1>2. state' = "IC_READY" /\ ~new_core_req_d'
  BY <1>1 DEF Clock, StateEdge, RequestEdge
<1>3. cr_pend' = cr_pend
  BY <1>1 DEF Clock, PendEdge
<1>4. /\ mem_miss_cnt' = 0 /\ mem_miss_cnt_d' = 0
      /\ ~mem_transfer_done_d' /\ ~rsp_mem_valid'
  BY <1>1 DEF Clock, CounterEdge, PortEdge
<1>5. UNCHANGED <<a_valid, a_tag>>
  BY <1>1 DEF Clock, MetadataEdge, miss_d, Inductive, NoDuplicateInv, FreshOnlyWhenFree
<1>6. Reading(r) = c /\ ReadingWay(r) = p
  BY <1>1 DEF Reading, ReadingWay, FromPending
<1>7. /\ bank' = bank /\ bank_data' = [w \in Way |-> bank[w][c.set][c.beat]]
      /\ way_idx_d' = p /\ word_in_bank_line_addr' = c.be
  BY <1>1, <1>6 DEF Clock, BankEdge, RequestEdge
<1>8. PhaseInv' /\ RefillInv(K)'
  BY <1>1, <1>2, <1>3, <1>4, LastKept DEF PhaseInv, RefillInv, Inductive
<1>9. LinesAreCopies(K)'
  <2>1. \A w \in Way, s \in Set :
          a_valid[w][s] /\ <<a_tag[w][s], s>> \in K => bank[w][s] = mem[a_tag[w][s]][s]
    BY <1>1 DEF LinesAreCopies, Refilling, Inductive
  <2> QED
    BY <1>5, <1>7, <2>1, LinesType DEF LinesAreCopies, MemoryKept, Inductive
<1>10. AnswerIsMemory(K)'
  <2>1. Holds(p, c) /\ p \in Way /\ c.set \in Set
    BY <1>1, LinesType DEF Inductive, RefillInv
  <2>2. <<c.tag, c.set>> \in K => bank[p][c.set] = mem'[c.tag][c.set]
    BY <1>1, <2>1, LinesType
    DEF Inductive, LinesAreCopies, Refilling, Holds, MemoryKept
  <2>3. <<c.tag, c.set>> \in K => bank_data'[way_idx_d'] = mem'[c.tag][c.set][c.beat]
    BY <1>7, <2>1, <2>2
  <2> QED
    BY <1>1, <1>3, <1>7, <2>3 DEF AnswerIsMemory, Answered
<1> QED
  BY <1>1, <1>2, <1>3, <1>8, <1>9, <1>10 DEF MemoryInv

LEMMA LeaveResetStep ==
  ASSUME NEW K, Inductive(K), NEW r \in Fetch, LeaveReset(r), MemoryKept(K)
  PROVE  /\ MemoryInv(K)' /\ state' = "IC_READY"
         /\ ~cr_pend'.active /\ ~new_core_req_d'
<1>1. /\ Clock(FALSE, r) /\ state = "IC_RESET" /\ ~cr_pend.active
      /\ ~rsp_mem_valid /\ ~mem_transfer_done_d /\ ~mem_transfer_done
      /\ mem_miss_cnt = 0 /\ ~save_pending /\ ~clear_pending
      /\ ~req_mem_valid /\ ~mem_to_cache_wr
      /\ ~miss_d
  BY DEF LeaveReset, Inductive, PhaseInv, NoDuplicateInv, FreshOnlyWhenFree, miss_d,
         mem_transfer_done, save_pending, clear_pending, req_mem_valid, mem_to_cache_wr
<1>2. state' = "IC_READY" /\ ~new_core_req_d' /\ cr_pend' = cr_pend
  BY <1>1 DEF Clock, StateEdge, RequestEdge, PendEdge
<1>3. /\ mem_miss_cnt' = 0 /\ mem_miss_cnt_d' = 0
      /\ ~mem_transfer_done_d' /\ ~rsp_mem_valid'
  BY <1>1 DEF Clock, CounterEdge, PortEdge
<1>4. UNCHANGED <<a_valid, a_tag, bank>>
  BY <1>1 DEF Clock, MetadataEdge, BankEdge
<1>5. PhaseInv' /\ RefillInv(K)'
  BY <1>1, <1>2, <1>3 DEF PhaseInv, RefillInv
<1>6. LinesAreCopies(K)'
  BY <1>1, <1>2, <1>4, LinesType DEF LinesAreCopies, Refilling, MemoryKept, Inductive
<1>7. AnswerIsMemory(K)'
  BY <1>1, <1>2 DEF AnswerIsMemory, rsp_core_valid
<1> QED
  BY <1>1, <1>2, <1>5, <1>6, <1>7 DEF MemoryInv

LEMMA InductiveStep ==
  ASSUME NEW K, Inductive(K), Step, MemoryKept(K)
  PROVE  Inductive(K)'
<1>1. PICK r \in Fetches : LeaveReset(r) \/ Idle(r) \/ FetchHit(r) \/ FetchMiss(r)
                           \/ Service(r)
  BY DEF Step
<1>2. r \in Fetch
  BY ICacheAssumption
<1>3. TypeOK' /\ NoDuplicateInv'
  BY EveryStepIsAnEdge, ClockType, EdgeKeepsOneWay DEF Inductive, MemoryKept
<1>4. MemoryInv(K)'
  <2>1. CASE LeaveReset(r)
    BY <1>2, <2>1, LeaveResetStep
  <2>2. CASE Idle(r) \/ FetchHit(r) \/ FetchMiss(r)
    BY <1>2, <2>2, ReadyStep DEF Idle, FetchHit, FetchMiss
  <2>3. CASE Service(r)
    BY <1>2, <2>3, StartRefillStep, RefillWordStep, RefillDoneStep, ServeStep DEF Service
  <2> QED
    BY <1>1, <2>1, <2>2, <2>3
<1> QED
  BY <1>3, <1>4 DEF MemoryInv, Inductive

\* From reset on the invariant holds of every set of lines, and a cycle in which no
\* clock edge comes keeps it.
LEMMA InitInductive ==
  ASSUME NEW K, Init PROVE Inductive(K)
<1>1. TypeOK
  BY InitType
<1>2. NoDuplicateInv
  BY DEF Init, NoDuplicateInv, FreshOnlyWhenFree, MissedIsNowhere, miss_d,
         RefilledElsewhereNever, NoTagDuplicate
<1>3. PhaseInv /\ RefillInv(K)
  BY DEF Init, PhaseInv, RefillInv, ClearPending
<1>4. LinesAreCopies(K)
  BY DEF Init, LinesAreCopies
<1>5. AnswerIsMemory(K)
  BY DEF Init, AnswerIsMemory, rsp_core_valid
<1> QED
  BY <1>1, <1>2, <1>3, <1>4, <1>5 DEF Inductive

LEMMA StutterInductive ==
  ASSUME NEW K, Inductive(K), UNCHANGED vars PROVE Inductive(K)'
<1>1. /\ TypeOK' /\ NoDuplicateInv' /\ PhaseInv' /\ RefillInv(K)'
  BY DEF vars, cache, lines, lru, reqs, cnts, outs, port, Inductive, TypeOK,
    NoDuplicateInv, FreshOnlyWhenFree, MissedIsNowhere, miss_d, Holds,
    RefilledElsewhereNever, NoTagDuplicate, PhaseInv, RefillInv
<1>2. LinesAreCopies(K)' /\ AnswerIsMemory(K)'
  BY DEF vars, cache, lines, lru, reqs, cnts, outs, port, Inductive,
    LinesAreCopies, Refilling, AnswerIsMemory, rsp_core_valid, Answered
<1> QED
  BY <1>1, <1>2 DEF Inductive

\* It holds of fewer lines too.
LEMMA FewerLines ==
  ASSUME NEW K, NEW L, L \subseteq K, Inductive(K) PROVE Inductive(L)
  BY DEF Inductive, RefillInv, LinesAreCopies, AnswerIsMemory

\* What an answer carries: the word of the fetch accepted last.
LEMMA AnswerOfLast ==
  ASSUME NEW K, Inductive(K), rsp_core_valid, <<cr_d_addr.tag, cr_d_addr.set>> \in K
  PROVE  rsp_core_data = Select(mem[cr_d_addr.tag][cr_d_addr.set][cr_d_addr.beat],
                                cr_d_addr.be)
<1>1. Answered = cr_d_addr
  BY DEF Inductive, PhaseInv, Answered
<1> QED
  BY <1>1 DEF Inductive, AnswerIsMemory, rsp_core_data

LEMMA NextKeepsAll == TypeOK /\ Next => Step /\ MemoryKept(AllLines)
  BY DEF Next, MemoryKept, TypeOK

\* A cycle keeps the invariant, and so does one in which nothing changes.
LEMMA InductiveKept ==
  ASSUME Inductive(AllLines), [Next]_vars PROVE Inductive(AllLines)'
<1>1. Next => Inductive(AllLines)'
  BY NextKeepsAll, InductiveStep DEF Inductive
<1>2. UNCHANGED vars => Inductive(AllLines)'
  BY StutterInductive
<1> QED
  BY <1>1, <1>2

\* From reset on, the lines the instruction cache holds are main memory's, and so
\* is every answer it gives; the invariant places the word counters and the
\* registers of the memory's port for every line length.
THEOREM InductiveInvariant == Spec => []Inductive(AllLines)
<1>1. Init => Inductive(AllLines)
  BY InitInductive
<1>2. Inductive(AllLines) /\ [Next]_vars => Inductive(AllLines)'
  BY InductiveKept
<1> QED
  BY <1>1, <1>2, PTL DEF Spec

-----------------------------------------------------------------------------
(* Every step is one of the atomic memory's, or changes nothing it can see. *)

\* A fetch finds main memory, wherever the word comes from.
LEMMA ViewIsMemory == TypeOK /\ LinesAreCopies(AllLines) => FetchView = mem
<1> SUFFICES ASSUME TypeOK, LinesAreCopies(AllLines) PROVE FetchView = mem
  OBVIOUS
<1> DEFINE own(t, s) == {w \in Way : /\ a_valid[w][s] /\ a_tag[w][s] = t
                                     /\ ~Refilling(w, s)}
           seen(t, s) == IF own(t, s) = {} THEN mem[t][s]
                         ELSE bank[CHOOSE w \in own(t, s) : TRUE][s]
<1>1. ASSUME NEW t \in Tag, NEW s \in Set PROVE seen(t, s) = mem[t][s]
  <2>1. \A w \in own(t, s) : bank[w][s] = mem[t][s]
    BY ZenonT(40) DEF LinesAreCopies, AllLines
  <2>2. own(t, s) # {} => (CHOOSE w \in own(t, s) : TRUE) \in own(t, s)
    OBVIOUS
  <2> HIDE DEF own
  <2> QED
    BY <2>1, <2>2
<1>2. FetchView = [t \in Tag |-> [s \in Set |-> seen(t, s)]]
  BY DEF FetchView
<1>3. mem \in [Tag -> [Set -> Line]]
  BY DEF TypeOK, MainMemory
<1> HIDE DEF seen, own
<1> QED
  BY <1>1, <1>2, <1>3

\* The two states are related as the refinement mapping says.
View == FetchView = mem

\* The history variable adds nothing to what the cache does.
LEMMA HistoryIsCache ==
  ASSUME HNext PROVE Next
  BY DEF HNext, HFetch, HIdle, HWork, Next, Step

LEMMA StepRefines ==
  ASSUME Inductive(AllLines), View, View', HNext
  PROVE  Abstract!Next
<1>1. PICK r \in Fetches : HFetch(r) \/ HIdle(r) \/ HWork(r)
  BY DEF HNext
<1>2. r \in Fetch /\ UNCHANGED mem /\ MemoryKept(AllLines) /\ Step
  BY HistoryIsCache, ICacheAssumption, NextKeepsAll DEF Next, Inductive
<1>3. FetchView' = FetchView /\ FetchView = mem
  BY <1>2 DEF View
<1>4. /\ AnswerIsMemory(AllLines)'
      /\ <<Answered'.tag, Answered'.set>> \in AllLines
  <2>1. Inductive(AllLines)'
    BY <1>2, InductiveStep
  <2> QED
    BY <2>1, LinesType DEF Inductive, Answered, AllLines, TypeOK, Fetch
<1>5. ASSUME LeaveReset(r), accepted' = {} PROVE Abstract!Next
  <2>1. /\ state = "IC_RESET" /\ state' = "IC_READY" /\ ~cr_pend'.active
        /\ ~new_core_req_d'
    BY <1>2, <1>5, LeaveResetStep DEF LeaveReset
  <2>2. Outstanding = {} /\ Outstanding' = {} /\ Answer' = {}
    BY <2>1 DEF Outstanding, Answer, save_pending, miss_d, rsp_core_valid
  <2> QED
    BY <1>3, <1>5, <2>2 DEF Abstract!Next, Abstract!Pass
<1>6. ASSUME NEW new \in BOOLEAN, ready, Clock(new, r),
             accepted' = IF new THEN {AsLoad(r)} ELSE {}
      PROVE  Abstract!Next
  <2>1. ready /\ Clock(new, r)
    BY <1>6
  <2>2. ReadyEffect(new, r) /\ state = "IC_READY"
    BY <1>2, <2>1, ReadyEdge DEF ready
  <2>3. Outstanding = {}
    BY <2>1, <2>2 DEF ready, Outstanding, save_pending
  <2>4. CASE ~new
    <3>1. Outstanding' = {} /\ Answer' = {}
      BY <2>2, <2>4 DEF ReadyEffect, Outstanding, Answer, save_pending, miss_d,
                        rsp_core_valid
    <3> QED
      BY <1>3, <1>6, <2>3, <2>4, <3>1 DEF Abstract!Next, Abstract!Pass
  <2>5. CASE new /\ TagMatch(r)
    <3>1. rsp_core_valid' /\ Answered' = r /\ Outstanding' = {}
      BY <2>2, <2>5 DEF ReadyEffect, Outstanding, save_pending, miss_d,
                        rsp_core_valid, Answered
    <3>2. Answer' = {Select(mem[r.tag][r.set][r.beat], r.be)}
      BY <1>2, <1>4, <3>1 DEF Answer, AnswerIsMemory, rsp_core_data
    <3>3. Abstract!PerformAtOnce(AsLoad(r))
      BY <1>3, <1>6, <2>3, <2>5, <3>1, <3>2
      DEF Abstract!PerformAtOnce, Abstract!Perform, Abstract!Select, Select, AsLoad
    <3> QED
      BY <3>3 DEF Abstract!Next
  <2>6. CASE new /\ ~TagMatch(r)
    <3>1. Outstanding' = {AsLoad(r)} /\ Answer' = {}
      BY <2>2, <2>6 DEF ReadyEffect, Outstanding, Answer, save_pending, miss_d,
                        rsp_core_valid
    <3>2. Abstract!Accept(AsLoad(r))
      BY <1>3, <1>6, <2>3, <2>6, <3>1 DEF Abstract!Accept
    <3> QED
      BY <3>2 DEF Abstract!Next
  <2> QED
    BY <2>4, <2>5, <2>6
<1>7. ASSUME StartRefill(r), accepted' = {} PROVE Abstract!Next
  <2>1. /\ state = "IC_READY" /\ save_pending /\ state' = "IC_MISS"
        /\ cr_pend'.cr = cr_d_addr
    BY <1>2, <1>7, StartRefillStep DEF StartRefill, save_pending
  <2>2. Outstanding' = Outstanding /\ Answer' = {}
    BY <2>1 DEF Outstanding, Answer, rsp_core_valid, AsLoad
  <2> QED
    BY <1>3, <1>7, <2>2 DEF Abstract!Next, Abstract!Pass
<1>8. ASSUME RefillWord(r) \/ RefillDone(r), accepted' = {} PROVE Abstract!Next
  <2>1. state = "IC_MISS" /\ state' = "IC_MISS" /\ cr_pend' = cr_pend
    BY <1>2, <1>8, RefillWordStep, RefillDoneStep DEF RefillWord, RefillDone
  <2>2. Outstanding' = Outstanding /\ Answer' = {}
    BY <2>1 DEF Outstanding, Answer, rsp_core_valid, AsLoad
  <2> QED
    BY <1>3, <1>8, <2>2 DEF Abstract!Next, Abstract!Pass
<1>9. ASSUME Serve(r), accepted' = {} PROVE Abstract!Next
  <2> DEFINE c == cr_pend.cr
  <2>1. /\ state = "IC_MISS" /\ state' = "IC_READY"
        /\ cr_pend.active /\ cr_pend' = cr_pend
    BY <1>2, <1>9, ServeStep DEF Serve
  <2>2. Outstanding = {AsLoad(c)} /\ Outstanding' = {}
    BY <2>1 DEF Outstanding, save_pending
  <2>3. Answer' = {Select(mem[c.tag][c.set][c.beat], c.be)}
    BY <1>2, <1>4, <2>1 DEF Answer, AnswerIsMemory, rsp_core_data,
                            rsp_core_valid, Answered
  <2> HIDE DEF c
  <2>4. Abstract!Perform(AsLoad(c))
    BY <1>3, <2>3 DEF Abstract!Perform, Abstract!Select, Select, AsLoad
  <2> QED
    BY <1>9, <2>2, <2>4 DEF Abstract!Next, Abstract!Complete
<1> QED
  BY <1>1, <1>5, <1>6, <1>7, <1>8, <1>9
  DEF HFetch, HIdle, HWork, Idle, FetchHit, FetchMiss, Service

\* The instruction cache with its memory port is an atomic read-only memory, for
\* every geometry and memory image: each fetch accepted, hit or miss, is performed
\* once, in order, in one instant, with the content of memory at its own address,
\* and nothing else is answered.  (That it is performed eventually is checked, not
\* proved.)
THEOREM SafelyAtomic == HSpec => Abstract!Init /\ [][Abstract!Next]_(Abstract!vars)
<1>1. HInit => Abstract!Init
  <2> SUFFICES ASSUME HInit PROVE Abstract!Init
    OBVIOUS
  <2>1. Init /\ accepted = {}
    BY DEF HInit
  <2>2. TypeOK /\ LinesAreCopies(AllLines)
    BY <2>1, InitType DEF Init, LinesAreCopies
  <2>3. FetchView = mem /\ mem \in MainMemory
    BY <2>2, ViewIsMemory DEF TypeOK
  <2>4. Outstanding = {} /\ Answer = {}
    BY <2>1 DEF Init, Outstanding, Answer, save_pending, rsp_core_valid
  <2> QED
    BY <2>1, <2>3, <2>4 DEF Abstract!Init, Abstract!MainMemory, Abstract!Line,
      Abstract!Word, Abstract!Beat, Abstract!Set, Abstract!Tag, MainMemory, Line, Word,
      Beat, Set, Tag
<1>2. HInit => Inductive(AllLines)
  BY InitInductive DEF HInit
<1>3. Inductive(AllLines) /\ [HNext]_hvars => Inductive(AllLines)'
  BY HistoryIsCache, InductiveKept DEF hvars
<1>4. Inductive(AllLines) => View
  BY ViewIsMemory DEF Inductive, View
<1>5. Inductive(AllLines) /\ View /\ View' /\ [HNext]_hvars
        => [Abstract!Next]_(Abstract!vars)
  <2> SUFFICES ASSUME Inductive(AllLines), View, View', [HNext]_hvars
               PROVE  Abstract!Next \/ UNCHANGED Abstract!vars
    OBVIOUS
  <2>1. CASE HNext
    BY <2>1, StepRefines
  <2>2. CASE UNCHANGED hvars
    BY <2>2 DEF View, hvars, vars, cache, lines, lru, reqs, cnts, outs, port,
      Abstract!vars, Outstanding, save_pending, miss_d, AsLoad, Answer, rsp_core_valid,
      rsp_core_data
  <2> QED
    BY <2>1, <2>2
<1> QED
  BY <1>1, <1>2, <1>3, <1>4, <1>5, PTL DEF HSpec

=============================================================================

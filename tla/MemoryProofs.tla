---------------------------- MODULE MemoryProofs ----------------------------
(***************************************************************************)
(* What the two caches do to the program image, for every geometry of      *)
(* either: the data cache in main memory, and what the instruction cache   *)
(* makes of it.                                                            *)
(***************************************************************************)
EXTENDS MemorySystem, DCacheProofs

\* The theorems about the instruction cache, of the one in this system.  Those
\* used here say nothing of the history variable.
IP == INSTANCE ICacheProofs WITH
        WAYS <- I_WAYS, InitBank <- I_InitBank,
        state <- i_state, a_valid <- i_a_valid, a_tag <- i_a_tag,
        a_lru <- i_a_lru, bank <- i_bank, bank_data <- i_bank_data,
        cr_pend <- i_cr_pend, cr_d_addr <- i_cr_d_addr,
        new_core_req_d <- i_new_core_req_d, hit_d <- i_hit_d,
        way_victim_idx_d <- i_way_victim_idx_d,
        update_lru_d <- i_update_lru_d, lca_d <- i_lca_d,
        mem_miss_cnt <- i_mem_miss_cnt, mem_miss_cnt_d <- i_mem_miss_cnt_d,
        mem_transfer_done_d <- i_mem_transfer_done_d,
        way_idx_d <- i_way_idx_d,
        word_in_bank_line_addr <- i_word_in_bank_line_addr,
        rsp_mem_valid <- i_rsp_mem_valid, rsp_mem_data <- i_rsp_mem_data,
        accepted <- {}

-----------------------------------------------------------------------------
(* Main memory keeps the image where nothing is stored.                     *)

\* Whatever may reach main memory was stored: the dirty lines, and the line of a
\* store that waits for its refill.
StoredInv ==
  /\ \A w \in Way, s \in Set : a_dirty[w][s] => <<a_tag[w][s], s>> \in stored
  /\ cr_pend.active /\ cr_pend.cr.rtype = "DMEM_WRITE" =>
       <<PendingTag, PendingSet>> \in stored
  /\ OnlyStoredLinesChange

LEMMA MSInitStored == MSInit => Inductive /\ StoredInv
<1> SUFFICES ASSUME MSInit PROVE Inductive /\ StoredInv
  OBVIOUS
<1>1. Inductive
  BY InitType, InitStrengthening DEF MSInit, Inductive, Strengthening
<1>2. /\ a_dirty = [w \in Way |-> [s \in Set |-> FALSE]]
      /\ cr_pend.active = FALSE /\ mem = InitMem
  BY DEF MSInit, Init, ClearPending, Pending
<1>3. OnlyStoredLinesChange
  BY <1>2 DEF OnlyStoredLinesChange
<1> QED
  BY <1>1, <1>2, <1>3 DEF StoredInv

\* The data cache's part of a clock of the two caches.
DataStep(r) ==
  \/ (LeaveReset(r) \/ Idle(r) \/ Service(r)) /\ stored' = stored
  \/ r.rtype = "DMEM_READ" /\ (LoadHit(r) \/ Miss(r)) /\ stored' = stored
  \/ r.rtype = "DMEM_WRITE" /\ (StoreHit(r) \/ Miss(r))
       /\ stored' = stored \cup {<<r.tag, r.set>>}

LEMMA MSNextIsDataStep == MSNext => \E r \in Requests : DataStep(r)
  BY DEF MSNext, Load, Store, FenceI, DataStep

LEMMA DataStepIsNext == ASSUME NEW r \in Requests, DataStep(r) PROVE Next
  BY DEF DataStep, Next

\* Steps that leave main memory and the dirty bits alone.
LEMMA QuietStored ==
  ASSUME StoredInv, stored \subseteq stored', UNCHANGED <<mem, a_tag, a_dirty>>,
         cr_pend'.active /\ cr_pend'.cr.rtype = "DMEM_WRITE" =>
           \/ cr_pend' = cr_pend
           \/ <<PendingTag', PendingSet'>> \in stored'
  PROVE  StoredInv'
<1>1. OnlyStoredLinesChange'
  BY DEF StoredInv, OnlyStoredLinesChange
<1>2. cr_pend'.active /\ cr_pend'.cr.rtype = "DMEM_WRITE" =>
        <<PendingTag', PendingSet'>> \in stored'
  BY DEF StoredInv, PendingTag, PendingSet
<1> QED
  BY <1>1, <1>2 DEF StoredInv

LEMMA StoreHitStored ==
  ASSUME Inductive, StoredInv, NEW r \in Request, StoreHit(r),
         stored' = stored \cup {<<r.tag, r.set>>}
  PROVE  StoredInv'
<1>1. /\ a_dirty' = [a_dirty EXCEPT ![WayOf(r)][r.set] = TRUE] /\ cr_pend'.active = FALSE
  BY StoreHitEffect
<1>2. mem' = mem /\ a_tag' = a_tag
  BY AcceptEffect DEF StoreHit, AcceptCommon
<1>3. WayOf(r) \in Way /\ a_tag[WayOf(r)][r.set] = r.tag
  BY WayOfHolds DEF StoreHit, Holders
<1>4. \A w \in Way, s \in Set : a_dirty'[w][s] => <<a_tag'[w][s], s>> \in stored'
  BY <1>1, <1>2, <1>3 DEF StoredInv, Inductive, TypeOK
<1>5. OnlyStoredLinesChange'
  BY <1>2 DEF StoredInv, OnlyStoredLinesChange
<1> QED
  BY <1>1, <1>4, <1>5 DEF StoredInv

LEMMA MissStored ==
  ASSUME Inductive, StoredInv, NEW r \in Request, Miss(r),
         stored' = IF r.rtype = "DMEM_WRITE" THEN stored \cup {<<r.tag, r.set>>} ELSE stored
  PROVE  StoredInv'
<1>1. a_dirty' = a_dirty /\ cr_pend' = Pending(TRUE, r, WayVictim(r.set))
  BY MissEffect
<1>2. mem' = mem /\ a_tag' = a_tag
  BY AcceptEffect DEF Miss, AcceptCommon
<1>3. PendingTag' = r.tag /\ PendingSet' = r.set /\ cr_pend'.cr.rtype = r.rtype
  BY <1>1 DEF Pending, PendingTag, PendingSet
<1> QED
  BY <1>1, <1>2, <1>3, QuietStored

\* Only dirty lines are written back.
LEMMA WritebackStored ==
  ASSUME Inductive, StoredInv, NEW r \in Request, StartEvict(r) \/ EvictWord(r),
         stored' = stored
  PROVE  StoredInv'
<1>1. WritebackCommon
  BY WritebackEffect
<1>2. a_dirty[PendingWay][PendingSet]
  BY DEF StartEvict, EvictWord, Inductive, VictimInv
<1>3. <<a_tag[PendingWay][PendingSet], PendingSet>> \in stored
  BY <1>2, PendingType DEF StoredInv, Inductive
<1>4. ASSUME NEW t \in Tag, NEW s \in Set, <<t, s>> \notin stored
      PROVE  mem'[t][s] = mem[t][s]
  <2>1. t # a_tag[PendingWay][PendingSet] \/ s # PendingSet
    BY <1>3, <1>4
  <2> QED
    BY ZenonT(40), <1>1, <2>1 DEF WritebackCommon, Inductive, TypeOK, MainMemory
<1>5. OnlyStoredLinesChange'
  BY <1>4 DEF StoredInv, OnlyStoredLinesChange
<1> QED
  BY <1>1, <1>5 DEF StoredInv, WritebackCommon, PendingTag, PendingSet

LEMMA RefillDoneStored ==
  ASSUME Inductive, StoredInv, NEW r \in Request, RefillDone(r), stored' = stored
  PROVE  StoredInv'
<1>1. /\ a_tag' = [a_tag EXCEPT ![PendingWay][PendingSet] = PendingTag]
      /\ a_dirty' = [a_dirty EXCEPT ![PendingWay][PendingSet] = FALSE]
  BY RefillDoneEffect
<1>2. mem' = mem /\ cr_pend' = cr_pend
  BY ArrivalEffect DEF RefillDone, mem_r_transfer_done
<1>3. \A w \in Way, s \in Set : a_dirty'[w][s] => <<a_tag'[w][s], s>> \in stored'
  BY <1>1, PendingType DEF StoredInv, Inductive, TypeOK
<1>4. OnlyStoredLinesChange'
  BY <1>2 DEF StoredInv, OnlyStoredLinesChange
<1> QED
  BY <1>2, <1>3, <1>4 DEF StoredInv, PendingTag, PendingSet

\* The store that waited is performed on the line it waited for.
LEMMA ServeStoreStored ==
  ASSUME Inductive, StoredInv, NEW r \in Request, ServeStore(r), stored' = stored
  PROVE  StoredInv'
<1>1. /\ a_dirty' = [a_dirty EXCEPT ![PendingWay][PendingSet] = TRUE]
      /\ cr_pend'.active = FALSE
  BY ServeStoreEffect
<1>2. cr_pend.active /\ mem_r_transfer_done_d /\ mem' = mem /\ a_tag' = a_tag
  BY ServeEffect
<1>3. cr_pend.cr.rtype = "DMEM_WRITE"
  BY DEF ServeStore, store_req_pending
<1>4. <<a_tag[PendingWay][PendingSet], PendingSet>> \in stored
  BY <1>2, <1>3 DEF StoredInv, Inductive, VictimInv
<1>5. \A w \in Way, s \in Set : a_dirty'[w][s] => <<a_tag'[w][s], s>> \in stored'
  BY <1>1, <1>2, <1>4, PendingType DEF StoredInv, Inductive, TypeOK
<1>6. OnlyStoredLinesChange'
  BY <1>2 DEF StoredInv, OnlyStoredLinesChange
<1> QED
  BY <1>1, <1>5, <1>6 DEF StoredInv

LEMMA DataStepStored ==
  ASSUME Inductive, StoredInv, NEW r \in Requests, DataStep(r)
  PROVE  StoredInv'
<1>1. r \in Request
  BY DCacheAssumption
<1>2. CASE LeaveReset(r) /\ stored' = stored
  BY <1>1, <1>2, LeaveResetEffect, QuietStored
<1>3. CASE (Idle(r) \/ (LoadHit(r) /\ r.rtype = "DMEM_READ")) /\ stored' = stored
  <2>1. PICK new \in BOOLEAN :
          ready /\ Clock(new, r) /\ (new => TagMatch(r) /\ r.rtype = "DMEM_READ")
    BY <1>3 DEF Idle, LoadHit
  <2> QED
    BY <1>1, <1>3, <2>1, QuietEffect, AcceptEffect, QuietStored DEF AcceptCommon
<1>4. CASE StoreHit(r) /\ stored' = stored \cup {<<r.tag, r.set>>}
  BY <1>1, <1>4, StoreHitStored
<1>5. CASE /\ Miss(r)
           /\ stored' = IF r.rtype = "DMEM_WRITE" THEN stored \cup {<<r.tag, r.set>>}
                        ELSE stored
  BY <1>1, <1>5, MissStored
<1>6. CASE Service(r) /\ stored' = stored
  <2>1. CASE StartRefill(r)
    BY <1>1, <1>6, <2>1, StartRefillEffect, QuietStored
  <2>2. CASE StartEvict(r) \/ EvictWord(r)
    BY <1>1, <1>6, <2>2, WritebackStored
  <2>3. CASE EvictDone(r)
    BY <1>1, <1>6, <2>3, EvictDoneEffect, QuietStored
  <2>4. CASE RefillWord(r)
    <3>1. mem' = mem /\ cr_pend' = cr_pend
      BY <1>1, <2>4, ArrivalEffect
    <3> QED
      BY <1>1, <1>6, <2>4, <3>1, RefillWordEffect, QuietStored
  <2>5. CASE RefillDone(r)
    BY <1>1, <1>6, <2>5, RefillDoneStored
  <2>6. CASE ServeLoad(r)
    BY <1>1, <1>6, <2>6, ServeEffect, ServeLoadEffect, QuietStored
  <2>7. CASE ServeStore(r)
    BY <1>1, <1>6, <2>7, ServeStoreStored
  <2> QED
    BY <1>6, <2>1, <2>2, <2>3, <2>4, <2>5, <2>6, <2>7 DEF Service
<1> QED
  BY <1>2, <1>3, <1>4, <1>5, <1>6 DEF DataStep

LEMMA StoredInvariant == MSSpec => [](Inductive /\ StoredInv)
<1>1. Inductive /\ StoredInv /\ [MSNext]_ms_vars => Inductive' /\ StoredInv'
  <2> SUFFICES ASSUME Inductive, StoredInv, [MSNext]_ms_vars
               PROVE  Inductive' /\ StoredInv'
    OBVIOUS
  <2>1. CASE MSNext
    <3>1. PICK r \in Requests : DataStep(r)
      BY <2>1, MSNextIsDataStep
    <3> QED
      BY <3>1, DataStepIsNext, DataStepStored, InductiveKept
  <2>2. CASE UNCHANGED ms_vars
    <3>1. UNCHANGED vars /\ stored' = stored
      BY <2>2 DEF ms_vars
    <3>2. UNCHANGED <<mem, a_tag, a_dirty, cr_pend>>
      BY <3>1 DEF vars, meta, port
    <3> QED
      BY <3>1, <3>2, InductiveKept, QuietStored
  <2> QED
    BY <2>1, <2>2
<1> QED
  BY <1>1, MSInitStored, PTL DEF MSSpec

\* The write-backs of the data cache land on the lines the program stored to and on
\* no other, whatever it loads and fetches: main memory keeps the program
\* image everywhere else (ama_riscv_dcache.sv, ama_riscv_mem.sv).
THEOREM ImageIsKept == MSSpec => []OnlyStoredLinesChange
<1>1. StoredInv => OnlyStoredLinesChange
  BY DEF StoredInv
<1> QED
  BY <1>1, StoredInvariant, PTL

-----------------------------------------------------------------------------
(* So do the lines of the instruction cache.  The operators of I, which the *)
(* system is built from, and of IP, which the theorems are about, are the  *)
(* same.                                                                   *)

LEMMA IPAssumption ==
  /\ TAGS \in Nat \ {0} /\ SETS \in Nat \ {0}
  /\ MEM_TRANSFERS_PER_CL \in Nat \ {0, 1} /\ 0 \in Data
  /\ I_WAYS \in Nat \ {0}
  /\ Fetches \subseteq IP!Fetch
  /\ Fetches # {}
  /\ InitMem \in IP!MainMemory
  /\ I_InitBank \in [0 .. I_WAYS - 1 -> [IP!Set -> IP!Line]]
  BY TypesAssumption, DCacheAssumption, MemorySystemAssumption
  DEF I!Fetch, IP!Fetch, I!Tag, IP!Tag, I!Set, IP!Set, I!Beat, IP!Beat, MainMemory,
    IP!MainMemory, Line, IP!Line, Word, IP!Word, Tag, Set, Beat

LEMMA SameInit == I!Init => IP!Init
  BY DEF I!Init, IP!Init, I!Way, IP!Way, I!Set, IP!Set, I!ZeroWord, IP!ZeroWord,
    I!ClearPending, IP!ClearPending, I!NoFetch, IP!NoFetch

\* The signals of a cycle.
LEMMA SameSignals ==
  /\ I!Way = IP!Way /\ I!miss_d = IP!miss_d /\ I!ready = IP!ready
  /\ I!mem_transfer_done = IP!mem_transfer_done /\ I!load_req_pend = IP!load_req_pend
  /\ I!mem_to_cache_wr = IP!mem_to_cache_wr /\ I!clear_pending = IP!clear_pending
  /\ I!save_pending = IP!save_pending /\ I!req_mem_valid = IP!req_mem_valid
  /\ I!RefillOf = IP!RefillOf /\ I!RefillBeat = IP!RefillBeat
  /\ I!FromPending = IP!FromPending /\ I!ClearPending = IP!ClearPending
  BY DEF I!Way, IP!Way, I!miss_d, IP!miss_d, I!ready, IP!ready,
    I!mem_transfer_done, IP!mem_transfer_done, I!load_req_pend,
    IP!load_req_pend, I!mem_to_cache_wr, IP!mem_to_cache_wr, I!clear_pending,
    IP!clear_pending, I!save_pending, IP!save_pending, I!req_mem_valid,
    IP!req_mem_valid, I!RefillOf, IP!RefillOf, I!RefillBeat, IP!RefillBeat,
    I!FromPending, IP!FromPending, I!ClearPending, IP!ClearPending, I!NoFetch,
    IP!NoFetch, I!LastBeat, IP!LastBeat

LEMMA SameLookup ==
  ASSUME NEW r
  PROVE  /\ I!TagMatch(r) = IP!TagMatch(r) /\ I!WayOf(r) = IP!WayOf(r)
         /\ I!WayVictim(r) = IP!WayVictim(r)
         /\ I!Reading(r) = IP!Reading(r) /\ I!ReadingWay(r) = IP!ReadingWay(r)
  BY DEF I!TagMatch, IP!TagMatch, I!Way, IP!Way, I!Holds, IP!Holds, I!WayOf,
    IP!WayOf, I!WayVictim, IP!WayVictim, I!Reading, IP!Reading, I!ReadingWay,
    IP!ReadingWay, I!FromPending, IP!FromPending, I!clear_pending,
    IP!clear_pending, I!LruMaxCnt, IP!LruMaxCnt

LEMMA SameClock ==
  ASSUME NEW new, NEW r PROVE I!Clock(new, r) <=> IP!Clock(new, r)
<1>1. I!StateEdge <=> IP!StateEdge
  BY DEF I!StateEdge, IP!StateEdge, I!miss_d, IP!miss_d
<1>2. I!BankEdge(r) <=> IP!BankEdge(r)
  BY SameSignals, SameLookup DEF I!BankEdge, IP!BankEdge
<1>3. I!MetadataEdge(r) <=> IP!MetadataEdge(r)
  BY SameSignals, SameLookup DEF I!MetadataEdge, IP!MetadataEdge
<1>4. I!LruEdge(new, r) <=> IP!LruEdge(new, r)
  BY SameSignals, SameLookup DEF I!LruEdge, IP!LruEdge, I!Touched, IP!Touched, I!hit, IP!hit
<1>5. I!PendEdge <=> IP!PendEdge
  BY SameSignals DEF I!PendEdge, IP!PendEdge
<1>6. I!RequestEdge(new, r) <=> IP!RequestEdge(new, r)
  BY SameLookup DEF I!RequestEdge, IP!RequestEdge, I!hit, IP!hit
<1>7. I!CounterEdge <=> IP!CounterEdge
  BY SameSignals
  DEF I!CounterEdge, IP!CounterEdge, I!NextBeat, IP!NextBeat, I!LastBeat, IP!LastBeat
<1>8. I!PortEdge <=> IP!PortEdge
  BY SameSignals DEF I!PortEdge, IP!PortEdge
<1> QED
  BY <1>1, <1>2, <1>3, <1>4, <1>5, <1>6, <1>7, <1>8 DEF I!Clock, IP!Clock

LEMMA SameStep == I!Step => IP!Step
<1> SUFFICES ASSUME NEW r \in Fetches, I!LeaveReset(r) \/ I!Idle(r) \/ I!FetchHit(r)
                                         \/ I!FetchMiss(r) \/ I!Service(r)
             PROVE  IP!Step
  BY DEF I!Step
<1>1. /\ I!Clock(TRUE, r) <=> IP!Clock(TRUE, r)
      /\ I!Clock(FALSE, r) <=> IP!Clock(FALSE, r)
  BY SameClock
<1> QED
  BY <1>1, SameSignals, SameLookup
  DEF I!LeaveReset, IP!LeaveReset, I!Idle, IP!Idle, I!FetchHit, IP!FetchHit,
    I!FetchMiss, IP!FetchMiss, I!Service, IP!Service, I!StartRefill,
    IP!StartRefill, I!RefillWord, IP!RefillWord, I!RefillDone, IP!RefillDone,
    I!Serve, IP!Serve, IP!Step

-----------------------------------------------------------------------------

\* The lines the program has not stored to.
Unstored == IP!AllLines \ stored

\* The invariant of the instruction cache, of the lines the program has not stored to.
CodeInv == IP!Inductive(Unstored)

LEMMA MSNextIsFetchStep == MSNext => I!Step
  BY DEF MSNext, Load, Store, FenceI, I!Step

\* The data cache writes back nothing else, and what it writes are words.
LEMMA UnstoredKept ==
  ASSUME TypeOK', StoredInv, StoredInv', stored \subseteq stored', NEW K,
         K = Unstored'
  PROVE  IP!MemoryKept(K)
<1>1. mem' \in IP!MainMemory
  BY DEF TypeOK, MainMemory, Line, Word, Beat, Set, Tag, IP!MainMemory, IP!Line,
     IP!Word, IP!Beat, IP!Set, IP!Tag
<1>2. ASSUME NEW t \in Tag, NEW s \in Set, <<t, s>> \in K PROVE mem'[t][s] = mem[t][s]
  <2>1. <<t, s>> \notin stored /\ <<t, s>> \notin stored'
    BY <1>2 DEF Unstored
  <2>2. mem'[t][s] = InitMem[t][s]
    BY <2>1 DEF StoredInv, OnlyStoredLinesChange
  <2>3. mem[t][s] = InitMem[t][s]
    BY <2>1 DEF StoredInv, OnlyStoredLinesChange
  <2> QED
    BY <2>2, <2>3
<1> QED
  BY <1>1, <1>2 DEF IP!MemoryKept, IP!Tag, IP!Set, Tag, Set

LEMMA CodeInvKept ==
  ASSUME StoredInv, StoredInv', TypeOK', CodeInv, MSNext
  PROVE  CodeInv'
<1>1. PICK K : K = Unstored'
  OBVIOUS
<1>2. PICK L : L = Unstored
  OBVIOUS
<1>3. stored \subseteq stored'
  BY DEF MSNext, Load, Store, FenceI
<1>4. IP!Inductive(L) /\ K \subseteq L
  BY <1>1, <1>2, <1>3 DEF CodeInv, Unstored
<1>5. IP!Inductive(K)
  BY <1>4, IPAssumption, IP!FewerLines
<1>6. IP!MemoryKept(K)
  BY <1>1, <1>3, UnstoredKept
<1>7. IP!Step
  BY MSNextIsFetchStep, SameStep
<1>8. IP!Inductive(K)'
  BY <1>5, <1>6, <1>7, IPAssumption, IP!InductiveStep
<1> QED
  BY <1>1, <1>8 DEF CodeInv

LEMMA CodeInvStutters ==
  ASSUME CodeInv, UNCHANGED ms_vars PROVE CodeInv'
<1>1. PICK K : K = Unstored
  OBVIOUS
<1>2. Unstored' = K
  BY <1>1 DEF ms_vars, Unstored, IP!AllLines, IP!Tag, IP!Set
<1>3. UNCHANGED I!cache /\ UNCHANGED mem
  BY DEF ms_vars, vars, port
<1>4. UNCHANGED IP!vars
  BY <1>3 DEF I!cache, I!lines, I!lru, I!reqs, I!cnts, I!outs, I!port, IP!vars, IP!cache,
    IP!lines, IP!lru, IP!reqs, IP!cnts, IP!outs, IP!port
<1>5. IP!Inductive(K)'
  BY <1>1, <1>4, IPAssumption, IP!StutterInductive DEF CodeInv
<1> QED
  BY <1>2, <1>5 DEF CodeInv

LEMMA InvariantMeansIntact == StoredInv /\ CodeInv => CodeIsIntact
<1> SUFFICES ASSUME StoredInv, CodeInv, I!rsp_core_valid,
                    <<Fetched.tag, Fetched.set>> \notin stored
             PROVE  I!rsp_core_data =
                      Select(InitMem[Fetched.tag][Fetched.set][Fetched.beat], Fetched.be)
  BY DEF CodeIsIntact
<1> DEFINE f == i_cr_d_addr
<1>1. PICK K : K = Unstored
  OBVIOUS
<1>2. f.tag \in Tag /\ f.set \in Set
  BY DEF CodeInv, IP!Inductive, IP!TypeOK, IP!Fetch, IP!Tag, IP!Set, Tag, Set
<1>3. <<f.tag, f.set>> \in K
  BY <1>1, <1>2 DEF Unstored, IP!AllLines, IP!Tag, IP!Set, Tag, Set, Fetched
<1>4. IP!rsp_core_valid /\ I!rsp_core_data = IP!rsp_core_data
  BY DEF I!rsp_core_valid, IP!rsp_core_valid, I!rsp_core_data, IP!rsp_core_data,
    I!Select, IP!Select
<1>5. IP!rsp_core_data = IP!Select(mem[f.tag][f.set][f.beat], f.be)
  BY <1>1, <1>3, <1>4, IPAssumption, IP!AnswerOfLast DEF CodeInv
<1>6. mem[f.tag][f.set] = InitMem[f.tag][f.set]
  BY <1>2 DEF StoredInv, OnlyStoredLinesChange, Fetched
<1> QED
  BY <1>4, <1>5, <1>6 DEF IP!Select, Select, Fetched

\* Code the program does not store to is fetched as it was loaded, whatever the
\* data cache evicts and writes back next to it meanwhile (ama_riscv_icache.sv,
\* ama_riscv_dcache.sv, ama_riscv_mem.sv).
THEOREM CodeStaysIntact == MSSpec => []CodeIsIntact
<1>1. MSInit => CodeInv
  BY SameInit, IPAssumption, IP!InitInductive DEF MSInit, CodeInv
<1>2. /\ Inductive /\ StoredInv /\ CodeInv /\ Inductive' /\ StoredInv'
      /\ [MSNext]_ms_vars
      => CodeInv'
  BY CodeInvKept, CodeInvStutters DEF Inductive
<1> QED
  BY <1>1, <1>2, StoredInvariant, InvariantMeansIntact, PTL DEF MSSpec

=============================================================================

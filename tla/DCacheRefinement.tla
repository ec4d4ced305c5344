-------------------------- MODULE DCacheRefinement --------------------------
(***************************************************************************)
(* The data cache and main memory together are one atomic memory: every    *)
(* step of DCacheHistory is a step of AtomicMemory under the refinement    *)
(* mapping, or changes nothing AtomicMemory can see, for every geometry.   *)
(* Then what the other history variables show: how long a miss takes,      *)
(* which way it evicts.                                                    *)
(***************************************************************************)
EXTENDS DCacheProofs, DCacheHistory

-----------------------------------------------------------------------------
(* What the core sees of a line.                                            *)

\* Way w is where a lookup of line (t, s) reads.
Held(w, t, s) == w \in Holders(t, s) /\ ~Refilling(w, s)

\* The bank of the one way that holds a line, or main memory.
ViewOfLines ==
  /\ CoreView \in MainMemory
  /\ \A t \in Tag, s \in Set :
       /\ \A w \in Way : Held(w, t, s) => CoreView[t][s] = bank[w][s]
       /\ (\A w \in Way : ~Held(w, t, s)) => CoreView[t][s] = mem[t][s]

LEMMA ViewIsOfLines == TypeOK /\ NoTagDuplicate => ViewOfLines
<1> SUFFICES ASSUME TypeOK, NoTagDuplicate PROVE ViewOfLines
  OBVIOUS
<1> DEFINE own(t, s) == {w \in Holders(t, s) : ~Refilling(w, s)}
           seen(t, s) == IF own(t, s) = {} THEN mem[t][s]
                         ELSE bank[CHOOSE w \in own(t, s) : TRUE][s]
<1>1. CoreView = [t \in Tag |-> [s \in Set |-> seen(t, s)]]
  BY DEF CoreView
<1>2. ASSUME NEW t \in Tag, NEW s \in Set
      PROVE  /\ \A w \in Way : Held(w, t, s) => seen(t, s) = bank[w][s]
             /\ (\A w \in Way : ~Held(w, t, s)) => seen(t, s) = mem[t][s]
             /\ seen(t, s) \in Line
  <2>1. \A w : w \in own(t, s) <=> w \in Way /\ Held(w, t, s)
    BY DEF Held, Holders
  <2>2. \A v, w \in own(t, s) : v = w
    BY <1>2 DEF NoTagDuplicate, Holders
  <2>3. own(t, s) # {} => (CHOOSE w \in own(t, s) : TRUE) \in own(t, s)
    OBVIOUS
  <2>4. mem[t][s] \in Line /\ \A w \in Way : bank[w][s] \in Line
    BY DEF TypeOK, MainMemory
  <2> HIDE DEF own
  <2> QED
    BY <2>1, <2>2, <2>3, <2>4
<1> HIDE DEF seen, own
<1>3. CoreView \in MainMemory
  BY <1>1, <1>2 DEF MainMemory
<1> QED
  BY <1>1, <1>2, <1>3 DEF ViewOfLines

\* Two memories that agree line by line are equal.
LEMMA MemoryEquality ==
  ASSUME NEW f \in MainMemory, NEW g \in MainMemory,
         \A t \in Tag, s \in Set : f[t][s] = g[t][s]
  PROVE  f = g
  BY DEF MainMemory

\* A step that moves no line, writes none and refills none leaves the view alone.
LEMMA ViewKept ==
  ASSUME ViewOfLines, ViewOfLines', UNCHANGED <<bank, a_valid, a_tag, mem>>,
         \A w \in Way, s \in Set : ~Refilling(w, s) /\ ~Refilling(w, s)'
  PROVE  CoreView' = CoreView
<1>1. ASSUME NEW t \in Tag, NEW s \in Set PROVE CoreView'[t][s] = CoreView[t][s]
  <2>1. \A w \in Way : Held(w, t, s)' <=> Held(w, t, s)
    BY DEF Held, Holders
  <2> QED
    BY <2>1 DEF ViewOfLines
<1> QED
  BY <1>1, MemoryEquality DEF ViewOfLines

\* A line that begins to be written over is in main memory already.
LEMMA ViewKeptByLaunch ==
  ASSUME TypeOK, ViewOfLines, ViewOfLines',
         UNCHANGED <<bank, a_valid, a_tag, mem, cr_pend>>,
         state # "DC_MISS",
         a_valid[PendingWay][PendingSet] =>
           mem[a_tag[PendingWay][PendingSet]][PendingSet] = bank[PendingWay][PendingSet]
  PROVE  CoreView' = CoreView
<1>1. ASSUME NEW t \in Tag, NEW s \in Set PROVE CoreView'[t][s] = CoreView[t][s]
  <2>1. \A w \in Way : Held(w, t, s) <=> w \in Holders(t, s)
    BY DEF Held, Refilling
  <2>2. \A w \in Way : ~(w = PendingWay /\ s = PendingSet) =>
                         (Held(w, t, s)' <=> Held(w, t, s))
    BY <2>1 DEF Held, Refilling, Holders, PendingWay, PendingSet
  <2>3. \A w \in Way : Held(w, t, s)' => Held(w, t, s)
    BY <2>1 DEF Held, Holders
  <2>4. CASE \E w \in Way : Held(w, t, s)'
    BY <2>3, <2>4 DEF ViewOfLines
  <2>5. CASE ~(\E w \in Way : Held(w, t, s)') /\ \E w \in Way : Held(w, t, s)
    <3>1. PICK w \in Way : Held(w, t, s)
      BY <2>5
    <3>2. w = PendingWay /\ s = PendingSet
      BY <2>2, <2>5, <3>1
    <3>3. bank[w][s] = mem[t][s]
      BY <3>1, <3>2 DEF Held, Holders
    <3> QED
      BY <2>5, <3>1, <3>3 DEF ViewOfLines
  <2>6. CASE \A w \in Way : ~Held(w, t, s)' /\ ~Held(w, t, s)
    BY <2>6 DEF ViewOfLines
  <2> QED
    BY <2>4, <2>5, <2>6
<1> QED
  BY <1>1, MemoryEquality DEF ViewOfLines

\* A word of a line that is held goes to main memory: the core does not see it.
LEMMA ViewKeptByWriteback ==
  ASSUME Inductive, ViewOfLines, ViewOfLines', WritebackCommon,
         state # "DC_MISS", a_dirty[PendingWay][PendingSet]
  PROVE  CoreView' = CoreView
<1> DEFINE old == a_tag[PendingWay][PendingSet]
<1>1. /\ PendingWay \in Way /\ PendingSet \in Set /\ old \in Tag
      /\ mem \in [Tag -> [Set -> [Beat -> Word]]] /\ mem_cnt \in Beat
  BY SMTT(30), PendingType DEF Inductive, TypeOK, MainMemory, Line
<1>2. Held(PendingWay, old, PendingSet)
  BY <1>1 DEF Inductive, VictimInv, Held, Holders, Refilling
<1>3. mem' = [mem EXCEPT ![old][PendingSet][mem_cnt] = bank_data[PendingWay]]
  BY DEF WritebackCommon
<1>4. ASSUME NEW t \in Tag, NEW s \in Set PROVE CoreView'[t][s] = CoreView[t][s]
  <2>1. \A w \in Way : Held(w, t, s)' <=> Held(w, t, s)
    BY DEF Held, Holders, Refilling, WritebackCommon
  <2>2. CASE \E w \in Way : Held(w, t, s)
    BY <2>1, <2>2 DEF ViewOfLines, WritebackCommon
  <2>3. CASE \A w \in Way : ~Held(w, t, s)
    <3>1. ~(t = old /\ s = PendingSet)
      BY <1>1, <1>2, <2>3
    <3> HIDE DEF old
    <3>2. mem'[t][s] = mem[t][s]
      BY <1>1, <1>3, <3>1
    <3> QED
      BY <2>1, <2>3, <3>2 DEF ViewOfLines
  <2> QED
    BY <2>2, <2>3
<1> QED
  BY <1>4, MemoryEquality DEF ViewOfLines

\* A word that arrives goes into a line the core does not look at yet.
LEMMA ViewKeptByRefillWord ==
  ASSUME Inductive, ViewOfLines, ViewOfLines', NEW r \in Request, RefillWord(r)
  PROVE  CoreView' = CoreView
<1>1. /\ WordArrives /\ state = "DC_MISS" /\ state' = "DC_MISS"
      /\ ~mem_r_transfer_done_d /\ cr_pend' = cr_pend /\ mem' = mem
  BY ArrivalEffect
<1>2. UNCHANGED <<a_valid, a_tag>> /\ mem_r_transfer_done_d' = FALSE
  BY RefillWordEffect
<1>3. /\ PendingWay \in Way /\ PendingSet \in Set /\ mem_cnt_d \in Beat
      /\ bank \in [Way -> [Set -> [Beat -> Word]]]
  BY PendingType DEF Inductive, TypeOK, Line
<1>4. ASSUME NEW t \in Tag, NEW s \in Set PROVE CoreView'[t][s] = CoreView[t][s]
  <2>1. \A w \in Way : Held(w, t, s)' <=> Held(w, t, s)
    BY <1>1, <1>2 DEF Held, Holders, Refilling
  <2>2. ASSUME NEW w \in Way, Held(w, t, s) PROVE bank'[w][s] = bank[w][s]
    <3>1. ~(w = PendingWay /\ s = PendingSet)
      BY <1>1, <2>2 DEF Held, Refilling, PendingWay, PendingSet
    <3> QED
      BY <1>1, <1>3, <3>1 DEF WordArrives
  <2>3. CASE \E w \in Way : Held(w, t, s)
    BY <2>1, <2>2, <2>3 DEF ViewOfLines
  <2>4. CASE \A w \in Way : ~Held(w, t, s)
    BY <1>1, <2>1, <2>4 DEF ViewOfLines
  <2> QED
    BY <2>3, <2>4
<1> QED
  BY <1>4, MemoryEquality DEF ViewOfLines

\* With the last word the line becomes visible, and it is what main memory showed;
\* the victim's line is seen in main memory before and after.
LEMMA ViewKeptByRefillDone ==
  ASSUME Inductive, Inductive', ViewOfLines, ViewOfLines',
         NEW r \in Request, RefillDone(r)
  PROVE  CoreView' = CoreView
<1>1. /\ WordArrives /\ state = "DC_MISS"
      /\ cr_pend.active /\ ~clear_pending_on_read
      /\ ~mem_r_transfer_done_d /\ cr_pend' = cr_pend /\ mem' = mem
  BY ArrivalEffect
<1>2. /\ a_valid' = [a_valid EXCEPT ![PendingWay][PendingSet] = TRUE]
      /\ a_tag' = [a_tag EXCEPT ![PendingWay][PendingSet] = PendingTag]
      /\ a_dirty' = [a_dirty EXCEPT ![PendingWay][PendingSet] = FALSE]
      /\ mem_r_transfer_done_d' = TRUE
  BY RefillDoneEffect
<1>3. /\ PendingWay \in Way /\ PendingSet \in Set /\ PendingTag \in Tag
      /\ mem_cnt_d \in Beat
      /\ bank \in [Way -> [Set -> [Beat -> Word]]]
      /\ a_valid \in [Way -> [Set -> BOOLEAN]] /\ a_dirty \in [Way -> [Set -> BOOLEAN]]
      /\ a_tag \in [Way -> [Set -> Tag]]
  BY PendingType DEF Inductive, TypeOK, Line
<1>4. ASSUME NEW w \in Way, NEW s \in Set, ~(w = PendingWay /\ s = PendingSet)
      PROVE  /\ a_valid'[w][s] = a_valid[w][s] /\ a_tag'[w][s] = a_tag[w][s]
             /\ bank'[w][s] = bank[w][s]
  BY <1>1, <1>2, <1>3, <1>4 DEF WordArrives
<1>5. /\ a_valid'[PendingWay][PendingSet] /\ ~a_dirty'[PendingWay][PendingSet]
      /\ a_tag'[PendingWay][PendingSet] = PendingTag
  BY <1>2, <1>3
<1>6. \A w \in Way, s \in Set : ~Refilling(w, s)'
  BY <1>2 DEF Refilling
<1>7. bank'[PendingWay][PendingSet] = mem[PendingTag][PendingSet]
  BY <1>1, <1>3, <1>5, <1>6 DEF Inductive, CleanLineIsCopy
<1>8. ASSUME NEW t \in Tag, NEW s \in Set PROVE CoreView'[t][s] = CoreView[t][s]
  <2>1. CASE t = PendingTag /\ s = PendingSet
    <3>1. \A w \in Way : ~Held(w, t, s)
      BY <1>1, <2>1 DEF Inductive, VictimInv, Held
    <3>2. ASSUME NEW w \in Way, w = PendingWay PROVE Held(w, t, s)'
      BY <1>5, <1>6, <2>1, <3>2 DEF Held, Holders
    <3>3. CoreView'[t][s] = bank'[PendingWay][s]
      BY <1>3, <3>2 DEF ViewOfLines
    <3> QED
      BY <1>7, <2>1, <3>1, <3>3 DEF ViewOfLines
  <2>2. CASE ~(t = PendingTag /\ s = PendingSet)
    <3>1. \A w \in Way : Held(w, t, s)' <=> Held(w, t, s)
      <4> SUFFICES ASSUME NEW w \in Way PROVE Held(w, t, s)' <=> Held(w, t, s)
        OBVIOUS
      <4>1. CASE w = PendingWay /\ s = PendingSet
        <5>1. ~Held(w, t, s)
          BY <1>1, <4>1 DEF Held, Refilling, PendingWay, PendingSet
        <5>2. ~Held(w, t, s)'
          BY <1>5, <2>2, <4>1 DEF Held, Holders
        <5> QED
          BY <5>1, <5>2
      <4>2. CASE ~(w = PendingWay /\ s = PendingSet)
        BY <1>4, <1>6, <4>2 DEF Held, Holders, Refilling, PendingWay, PendingSet
      <4> QED
        BY <4>1, <4>2
    <3>2. ASSUME NEW w \in Way, Held(w, t, s) PROVE bank'[w][s] = bank[w][s]
      <4>1. ~(w = PendingWay /\ s = PendingSet)
        BY <1>1, <3>2 DEF Held, Refilling, PendingWay, PendingSet
      <4> QED
        BY <1>4, <4>1
    <3>3. CASE \E w \in Way : Held(w, t, s)
      BY <3>1, <3>2, <3>3 DEF ViewOfLines
    <3>4. CASE \A w \in Way : ~Held(w, t, s)
      BY <1>1, <3>1, <3>4 DEF ViewOfLines
    <3> QED
      BY <3>3, <3>4
  <2> QED
    BY <2>1, <2>2
<1> QED
  BY <1>8, MemoryEquality DEF ViewOfLines

\* What writing one word of the banks changes.
LEMMA WordWrite ==
  ASSUME bank \in [Way -> [Set -> [Beat -> Word]]],
         NEW v \in Way, NEW s \in Set, NEW b \in Beat, NEW d \in Word,
         bank' = [bank EXCEPT ![v][s][b] = d]
  PROVE  /\ \A w \in Way, z \in Set : ~(w = v /\ z = s) => bank'[w][z] = bank[w][z]
         /\ bank'[v][s] = [bank[v][s] EXCEPT ![b] = d]
<1>1. \A w \in Way, z \in Set : ~(w = v /\ z = s) => bank'[w][z] = bank[w][z]
  OBVIOUS
<1>2. bank'[v][s] = [bank[v][s] EXCEPT ![b] = d]
  OBVIOUS
<1> QED
  BY <1>1, <1>2

\* Store q is written into way v.
StoreLands(v, q) ==
  bank' = [bank EXCEPT ![v][q.set][q.beat] = Merge(@, q.be, q.wdata)]

LEMMA StoreLandsEffect ==
  ASSUME TypeOK, NEW v \in Way, NEW q \in Request, StoreLands(v, q)
  PROVE  /\ \A w \in Way, z \in Set : ~(w = v /\ z = q.set) => bank'[w][z] = bank[w][z]
         /\ bank'[v][q.set] =
              [bank[v][q.set] EXCEPT
                 ![q.beat] = Merge(bank[v][q.set][q.beat], q.be, q.wdata)]
<1> DEFINE s == q.set
           b == q.beat
           x == Merge(bank[v][s][b], q.be, q.wdata)
<1>1. /\ s \in Set /\ b \in Beat /\ q.wdata \in Data
      /\ bank \in [Way -> [Set -> [Beat -> Word]]]
  BY DEF Request, TypeOK, Line
<1>2. x \in Word
  BY <1>1, MergeType
<1>3. bank' = [bank EXCEPT ![v][s][b] = x]
  BY <1>1 DEF StoreLands
<1> HIDE DEF s, b, x
<1>4. /\ \A w \in Way, z \in Set : ~(w = v /\ z = s) => bank'[w][z] = bank[w][z]
      /\ bank'[v][s] = [bank[v][s] EXCEPT ![b] = x]
  BY <1>1, <1>2, <1>3, WordWrite
<1> QED
  BY <1>4 DEF s, b, x

\* A store changes the word it names in what the core sees, and no other.
LEMMA StoreSeen ==
  ASSUME Inductive, ViewOfLines, ViewOfLines',
         UNCHANGED <<a_valid, a_tag, mem>>,
         \A w \in Way, s \in Set : ~Refilling(w, s) /\ ~Refilling(w, s)',
         NEW v \in Way, NEW q \in Request, v \in Holders(q.tag, q.set),
         StoreLands(v, q)
  PROVE  CoreView' = [CoreView EXCEPT ![q.tag][q.set][q.beat] = Merge(@, q.be, q.wdata)]
<1> DEFINE x == Merge(bank[v][q.set][q.beat], q.be, q.wdata)
           goal == [CoreView EXCEPT ![q.tag][q.set][q.beat] = x]
<1>1. /\ q.tag \in Tag /\ q.set \in Set /\ q.beat \in Beat /\ q.wdata \in Data
      /\ bank \in [Way -> [Set -> [Beat -> Word]]]
      /\ CoreView \in [Tag -> [Set -> [Beat -> Word]]]
  BY DEF Request, Inductive, TypeOK, Line, ViewOfLines, MainMemory
<1>2. x \in Word
  BY <1>1, MergeType
<1>3. Held(v, q.tag, q.set)
  BY <1>1 DEF Held
<1>4. CoreView[q.tag][q.set] = bank[v][q.set]
  BY <1>1, <1>3 DEF ViewOfLines
<1>5. /\ \A w \in Way, z \in Set : ~(w = v /\ z = q.set) => bank'[w][z] = bank[w][z]
      /\ bank'[v][q.set] = [bank[v][q.set] EXCEPT ![q.beat] = x]
  BY StoreLandsEffect DEF Inductive
<1>6. [CoreView EXCEPT ![q.tag][q.set][q.beat] = Merge(@, q.be, q.wdata)] = goal
  BY <1>1, <1>4
<1>7. goal \in MainMemory
  <2> HIDE DEF x
  <2> QED
    BY <1>1, <1>2 DEF MainMemory, Line
<1>8. ASSUME NEW t \in Tag, NEW s \in Set PROVE CoreView'[t][s] = goal[t][s]
  <2> HIDE DEF x
  <2>1. \A w \in Way : Held(w, t, s)' <=> Held(w, t, s)
    BY DEF Held, Holders
  <2>2. CASE t = q.tag /\ s = q.set
    <3>1. CoreView'[t][s] = bank'[v][s]
      BY <1>3, <2>1, <2>2 DEF ViewOfLines
    <3>2. bank'[v][s] = [bank[v][s] EXCEPT ![q.beat] = x]
      BY <1>5, <2>2
    <3>3. goal[t][s] = [CoreView[t][s] EXCEPT ![q.beat] = x]
      BY <1>1, <2>2
    <3> QED
      BY <1>4, <2>2, <3>1, <3>2, <3>3
  <2>3. CASE ~(t = q.tag /\ s = q.set)
    <3>1. goal[t][s] = CoreView[t][s]
      BY <1>1, <2>3
    <3>2. ASSUME NEW w \in Way, Held(w, t, s) PROVE bank'[w][s] = bank[w][s]
      <4>1. ~(w = v /\ s = q.set)
        BY <1>3, <2>3, <3>2 DEF Held, Holders
      <4> QED
        BY <1>5, <4>1
    <3>3. CASE \E w \in Way : Held(w, t, s)
      BY <2>1, <3>1, <3>2, <3>3 DEF ViewOfLines
    <3>4. CASE \A w \in Way : ~Held(w, t, s)
      BY <2>1, <3>1, <3>4 DEF ViewOfLines
    <3> QED
      BY <3>3, <3>4
  <2> QED
    BY <2>2, <2>3
<1> HIDE DEF goal
<1> QED
  BY <1>6, <1>7, <1>8, MemoryEquality DEF ViewOfLines

-----------------------------------------------------------------------------
(* Every step is one of the atomic memory's.                                *)

\* In a cycle that can accept a request nothing is outstanding, and no line is
\* being refilled.
LEMMA ReadyIsSettled ==
  ASSUME Inductive, ready
  PROVE  Outstanding = {} /\ \A w \in Way, s \in Set : ~Refilling(w, s)
  BY ReadyMeans DEF Inductive, Outstanding, Refilling

\* After a step to DC_READY no line is being refilled.
LEMMA ReadyAfter ==
  ASSUME state' = "DC_READY"
  PROVE  \A w \in Way, s \in Set : ~Refilling(w, s)'
  BY DEF Refilling

LEMMA PassSteps ==
  ASSUME CoreView' = CoreView, Outstanding' = Outstanding, Answer' = {},
         accepted' = {}
  PROVE  Abstract!Next
  BY DEF Abstract!Next, Abstract!Pass

LEMMA LeaveResetRefines ==
  ASSUME Inductive, ViewOfLines, ViewOfLines', NEW r \in Request, LeaveReset(r),
         accepted' = {}
  PROVE  Abstract!Next
<1>1. /\ state = "DC_RESET" /\ state' = "DC_READY"
      /\ UNCHANGED <<bank, a_valid, a_tag, mem>>
      /\ cr_pend'.active = FALSE /\ clear_pending_on_read' = FALSE
      /\ new_core_req_d' = FALSE /\ cr_pend.active = FALSE
  <2>1. Clock(FALSE, r) /\ state = "DC_RESET"
    BY DEF LeaveReset
  <2>2. cr_pend.active \in BOOLEAN /\ ~cr_pend.active
    BY <2>1 DEF Inductive, PhaseInv, TypeOK
  <2> QED
    BY <2>1, <2>2, LeaveResetEffect, ServiceEffect DEF ServiceCommon
<1>2. \A w \in Way, s \in Set : ~Refilling(w, s)
  BY <1>1 DEF Refilling
<1>3. CoreView' = CoreView
  BY <1>1, <1>2, ReadyAfter, ViewKept
<1>4. Outstanding' = Outstanding /\ Answer' = {}
  BY <1>1 DEF Outstanding, Answer, rsp_core_valid
<1> QED
  BY <1>3, <1>4, PassSteps

LEMMA IdleRefines ==
  ASSUME Inductive, ViewOfLines, ViewOfLines', NEW r \in Request, Idle(r),
         accepted' = {}
  PROVE  Abstract!Next
<1>1. ready /\ Clock(FALSE, r)
  BY DEF Idle
<1>2. AcceptCommon(FALSE, r) /\ bank' = bank /\ cr_pend'.active = FALSE
  BY <1>1, AcceptEffect, QuietEffect
<1>3. CoreView' = CoreView
  BY <1>1, <1>2, ReadyIsSettled, ReadyAfter, ViewKept DEF AcceptCommon
<1>4. Outstanding = {} /\ Outstanding' = {} /\ Answer' = {}
  BY <1>1, <1>2, ReadyIsSettled DEF AcceptCommon, Outstanding, Answer, rsp_core_valid
<1> QED
  BY <1>3, <1>4, PassSteps

\* The bank word a load that hits is answered with.
LEMMA LoadHitAnswer ==
  ASSUME Inductive, NEW r \in Request, LoadHit(r)
  PROVE  Answer' = {Select(bank[WayOf(r)][r.set][r.beat], r.be)}
<1>1. ready /\ TagMatch(r) /\ r.rtype = "DMEM_READ" /\ Clock(TRUE, r)
  BY DEF LoadHit
<1>2. /\ state = "DC_READY" /\ ~rsp_mem_valid /\ ~req_pending /\ ~req_mem_w_valid
      /\ cr_pend.active => clear_pending_on_read
  BY <1>1, ReadyMeans DEF Inductive
<1>3. ~cache_store(TRUE, r) /\ ~miss(TRUE, r) /\ hit(TRUE, r)
  BY <1>1, <1>2 DEF cache_store, store_req_pending, store_req_hit, miss, hit
<1>4. /\ lfc(r).way = WayOf(r) /\ lfc(r).set = r.set /\ lfc(r).beat = r.beat
      /\ lfc(r).be = r.be /\ lfc(r).rtype = r.rtype
  BY <1>2 DEF lfc
<1>5. BankSet(TRUE, r) = r.set /\ BankBeat(TRUE, r) = r.beat
  BY <1>2, <1>3, <1>4 DEF BankSet, BankBeat, LoadBeat
<1>6. bank_data' = [w \in Way |-> bank[w][r.set][r.beat]]
  BY <1>1, <1>5 DEF Clock, BankEdge
<1>7. lfc_d' = lfc(r) /\ hit_d' = TRUE /\ new_core_req_d' = TRUE
  BY <1>1, <1>3 DEF Clock, RequestEdge, hit, TagMatch
<1>8. state' = "DC_READY"
  BY <1>1, AcceptEffect DEF AcceptCommon
<1>9. rsp_core_valid'
  BY <1>1, <1>4, <1>7, <1>8 DEF rsp_core_valid
<1>10. rsp_core_data' = Select(bank[WayOf(r)][r.set][r.beat], r.be)
  <2>1. bank_data'[WayOf(r)] = bank[WayOf(r)][r.set][r.beat]
    BY <1>6, WayOfType
  <2> QED
    BY <1>4, <1>7, <2>1 DEF rsp_core_data
<1> QED
  BY <1>9, <1>10 DEF Answer

LEMMA LoadHitRefines ==
  ASSUME Inductive, ViewOfLines, ViewOfLines', NEW r \in Requests, r \in Request,
         LoadHit(r),
         accepted' = {r}
  PROVE  Abstract!Next
<1>1. /\ ready /\ Clock(TRUE, r) /\ TagMatch(r) /\ r.rtype = "DMEM_READ"
      /\ r.tag \in Tag /\ r.set \in Set
  BY DEF LoadHit, Request
<1>2. AcceptCommon(TRUE, r) /\ bank' = bank /\ cr_pend'.active = FALSE
  BY <1>1, AcceptEffect, QuietEffect
<1>3. CoreView' = CoreView
  BY <1>1, <1>2, ReadyIsSettled, ReadyAfter, ViewKept DEF AcceptCommon
<1>4. Outstanding = {} /\ Outstanding' = {}
  BY <1>1, <1>2, ReadyIsSettled DEF AcceptCommon, Outstanding
<1>5. CoreView[r.tag][r.set] = bank[WayOf(r)][r.set]
  <2>1. WayOf(r) \in Way /\ WayOf(r) \in Holders(r.tag, r.set)
    BY <1>1, WayOfHolds, WayOfType
  <2>2. Held(WayOf(r), r.tag, r.set)
    BY <1>1, <2>1, ReadyIsSettled DEF Held
  <2> QED
    BY <1>1, <2>1, <2>2 DEF ViewOfLines
<1>6. Answer' = {Select(CoreView[r.tag][r.set][r.beat], r.be)}
  BY <1>5, LoadHitAnswer
<1>7. Abstract!PerformAtOnce(r)
  BY <1>1, <1>3, <1>4, <1>6
  DEF Abstract!PerformAtOnce, Abstract!Perform, Abstract!Select, Select
<1> QED
  BY <1>7 DEF Abstract!Next

LEMMA StoreHitRefines ==
  ASSUME Inductive, ViewOfLines, ViewOfLines', NEW r \in Requests, r \in Request,
         StoreHit(r),
         accepted' = {r}
  PROVE  Abstract!Next
<1>1. /\ ready /\ Clock(TRUE, r) /\ TagMatch(r) /\ r.rtype = "DMEM_WRITE"
  BY DEF StoreHit
<1>2. /\ AcceptCommon(TRUE, r) /\ StoreLands(WayOf(r), r) /\ cr_pend'.active = FALSE
  BY <1>1, AcceptEffect, StoreHitEffect DEF StoreLands
<1>3. WayOf(r) \in Way /\ WayOf(r) \in Holders(r.tag, r.set)
  BY <1>1, WayOfHolds, WayOfType
<1>4. CoreView' = [CoreView EXCEPT ![r.tag][r.set][r.beat] = Merge(@, r.be, r.wdata)]
  BY <1>1, <1>2, <1>3, ReadyIsSettled, ReadyAfter, StoreSeen DEF AcceptCommon
<1>5. lfc_d'.rtype = "DMEM_WRITE"
  <2>1. cr_pend.active => clear_pending_on_read
    BY <1>1, ReadyMeans DEF Inductive
  <2>2. lfc(r).rtype = r.rtype
    BY <2>1 DEF lfc
  <2> QED
    BY <1>1, <2>2 DEF Clock, RequestEdge
<1>6. Outstanding = {} /\ Outstanding' = {} /\ Answer' = {}
  BY <1>1, <1>2, <1>5, ReadyIsSettled
  DEF AcceptCommon, Outstanding, Answer, rsp_core_valid
<1>7. Abstract!PerformAtOnce(r)
  BY <1>1, <1>4, <1>6
  DEF Abstract!PerformAtOnce, Abstract!Perform, Abstract!Merge, Merge
<1> QED
  BY <1>7 DEF Abstract!Next

LEMMA MissRefines ==
  ASSUME Inductive, ViewOfLines, ViewOfLines', NEW r \in Requests, r \in Request,
         Miss(r),
         accepted' = {r}
  PROVE  Abstract!Next
<1>1. ready /\ Clock(TRUE, r)
  BY DEF Miss
<1>2. /\ AcceptCommon(TRUE, r) /\ bank' = bank /\ hit_d' = FALSE
      /\ cr_pend' = Pending(TRUE, r, WayVictim(r.set))
  BY <1>1, AcceptEffect, MissEffect
<1>3. CoreView' = CoreView
  BY <1>1, <1>2, ReadyIsSettled, ReadyAfter, ViewKept DEF AcceptCommon
<1>4. Outstanding = {} /\ Outstanding' = {r} /\ Answer' = {}
  BY <1>1, <1>2, ReadyIsSettled
  DEF AcceptCommon, Outstanding, Answer, rsp_core_valid, Pending
<1>5. Abstract!Accept(r)
  BY <1>3, <1>4 DEF Abstract!Accept
<1> QED
  BY <1>5 DEF Abstract!Next

\* The steps between a miss and its answer are not seen.
LEMMA TransferRefines ==
  ASSUME CoreView' = CoreView, cr_pend' = cr_pend,
         ~clear_pending_on_read, ~clear_pending_on_read', state' # "DC_READY",
         accepted' = {}
  PROVE  Abstract!Next
<1>1. Outstanding' = Outstanding /\ Answer' = {}
  BY DEF Outstanding, Answer, rsp_core_valid
<1> QED
  BY <1>1, PassSteps

LEMMA StartRefillRefines ==
  ASSUME Inductive, ViewOfLines, ViewOfLines', NEW r \in Request, StartRefill(r),
         accepted' = {}
  PROVE  Abstract!Next
<1>1. /\ state = "DC_READY" /\ Launch /\ ~cr_victim_dirty_d /\ ~clear_pending_on_read
  BY DEF StartRefill, Launch
<1>2. /\ state' = "DC_MISS" /\ ~clear_pending_on_read'
      /\ UNCHANGED <<bank, a_valid, a_tag, cr_pend, mem>>
  BY StartRefillEffect
<1>3. PendingWay \in Way /\ PendingSet \in Set
  BY PendingType DEF Inductive
<1>4. a_valid[PendingWay][PendingSet] =>
        mem[a_tag[PendingWay][PendingSet]][PendingSet] = bank[PendingWay][PendingSet]
  BY <1>1, <1>3 DEF Inductive, VictimInv, CleanLineIsCopy, Refilling
<1>5. CoreView' = CoreView
  BY <1>1, <1>2, <1>4, ViewKeptByLaunch DEF Inductive
<1> QED
  BY <1>1, <1>2, <1>5, TransferRefines

LEMMA WritebackRefines ==
  ASSUME Inductive, ViewOfLines, ViewOfLines', NEW r \in Request,
         StartEvict(r) \/ EvictWord(r),
         accepted' = {}
  PROVE  Abstract!Next
<1>1. WritebackCommon
  BY WritebackEffect
<1>2. /\ state # "DC_MISS" /\ ~clear_pending_on_read
      /\ a_dirty[PendingWay][PendingSet]
  BY DEF StartEvict, EvictWord, Launch, Inductive, PhaseInv, VictimInv
<1>3. CoreView' = CoreView
  BY <1>1, <1>2, ViewKeptByWriteback
<1> QED
  BY <1>1, <1>2, <1>3, TransferRefines DEF WritebackCommon

LEMMA EvictDoneRefines ==
  ASSUME Inductive, ViewOfLines, ViewOfLines', NEW r \in Request, EvictDone(r),
         accepted' = {}
  PROVE  Abstract!Next
<1> DEFINE old == mem[a_tag[PendingWay][PendingSet]][PendingSet]
           here == bank[PendingWay][PendingSet]
<1>1. state = "DC_EVICT" /\ ~clear_pending_on_read
  BY DEF EvictDone, Inductive, PhaseInv
<1>2. /\ state' = "DC_MISS" /\ ~clear_pending_on_read' /\ mem_cnt_d = LastBeat
      /\ UNCHANGED <<bank, a_valid, a_tag, cr_pend, mem>>
  BY EvictDoneEffect
<1>3. old \in Line /\ here \in Line
  BY PendingType DEF Inductive, TypeOK, MainMemory
<1>4. \A b \in Beat : old[b] = here[b]
  <2>1. \A b \in Beat : b <= mem_cnt_d
    BY <1>2, TypesAssumption DEF Beat, LastBeat
  <2> QED
    BY <1>1, <2>1 DEF Inductive, TransferInv
<1>5. old = here
  BY <1>3, <1>4, LineEquality
<1>6. CoreView' = CoreView
  BY <1>1, <1>2, <1>5, ViewKeptByLaunch DEF Inductive
<1> QED
  BY <1>1, <1>2, <1>6, TransferRefines

LEMMA RefillRefines ==
  ASSUME Inductive, Inductive', ViewOfLines, ViewOfLines', NEW r \in Request,
         RefillWord(r) \/ RefillDone(r),
         accepted' = {}
  PROVE  Abstract!Next
<1>1. /\ state' = "DC_MISS" /\ ~clear_pending_on_read /\ ~clear_pending_on_read'
      /\ cr_pend' = cr_pend
  BY ArrivalEffect
<1>2. CoreView' = CoreView
  BY ViewKeptByRefillWord, ViewKeptByRefillDone
<1> QED
  BY <1>1, <1>2, TransferRefines

\* The line the outstanding request is for, in the cycle that performs it.
LEMMA ServedLine ==
  ASSUME Inductive, ViewOfLines, NEW r \in Request, ServeLoad(r) \/ ServeStore(r)
  PROVE  /\ Outstanding = {cr_pend.cr} /\ cr_pend.cr \in Request
         /\ PendingWay \in Way /\ PendingWay \in Holders(PendingTag, PendingSet)
         /\ \A w \in Way, s \in Set : ~Refilling(w, s)
         /\ CoreView[PendingTag][PendingSet] = bank[PendingWay][PendingSet]
<1>1. /\ cr_pend.active /\ ~clear_pending_on_read /\ mem_r_transfer_done_d
  BY ServeEffect
<1>2. /\ PendingWay \in Way /\ PendingSet \in Set /\ PendingTag \in Tag
      /\ cr_pend.cr \in Request
  BY PendingType DEF Inductive, TypeOK
<1>3. PendingWay \in Holders(PendingTag, PendingSet)
  BY <1>1, <1>2 DEF Inductive, VictimInv, Holders
<1>4. \A w \in Way, s \in Set : ~Refilling(w, s)
  BY <1>1 DEF Refilling
<1>5. CoreView[PendingTag][PendingSet] = bank[PendingWay][PendingSet]
  BY <1>2, <1>3, <1>4 DEF ViewOfLines, Held
<1> QED
  BY <1>1, <1>2, <1>3, <1>4, <1>5 DEF Outstanding

LEMMA ServeLoadRefines ==
  ASSUME Inductive, ViewOfLines, ViewOfLines', NEW r \in Request, ServeLoad(r),
         accepted' = {}
  PROVE  Abstract!Next
<1> DEFINE c == cr_pend.cr
<1>1. /\ state' = "DC_READY" /\ UNCHANGED <<a_valid, a_tag, mem>>
  BY ServeEffect
<1>2. /\ UNCHANGED <<bank, cr_pend>> /\ clear_pending_on_read' = TRUE
      /\ bank_data' = [w \in Way |-> bank[w][PendingSet][c.beat]]
      /\ lfc_d'.way = PendingWay /\ lfc_d'.be = c.be
  BY ServeLoadEffect
<1>3. /\ Outstanding = {c} /\ PendingWay \in Way
      /\ CoreView[PendingTag][PendingSet] = bank[PendingWay][PendingSet]
      /\ \A w \in Way, s \in Set : ~Refilling(w, s)
  BY ServedLine
<1>4. CoreView' = CoreView
  BY <1>1, <1>2, <1>3, ReadyAfter, ViewKept
<1>5. Outstanding' = {}
  BY <1>2 DEF Outstanding
<1>6. Answer' = {Select(CoreView[c.tag][c.set][c.beat], c.be)}
  <2>1. rsp_core_valid'
    BY <1>1, <1>2 DEF rsp_core_valid
  <2>2. bank_data'[PendingWay] = CoreView[PendingTag][PendingSet][c.beat]
    BY <1>2, <1>3
  <2> QED
    BY <1>2, <2>1, <2>2 DEF Answer, rsp_core_data, PendingTag, PendingSet
<1>7. c.rtype = "DMEM_READ"
  BY DEF ServeLoad, load_req_pending
<1> HIDE DEF c
<1>8. Abstract!Perform(c)
  BY <1>4, <1>6, <1>7 DEF Abstract!Perform, Abstract!Select, Select
<1> QED
  BY <1>3, <1>5, <1>8 DEF Abstract!Next, Abstract!Complete

LEMMA ServeStoreRefines ==
  ASSUME Inductive, ViewOfLines, ViewOfLines', NEW r \in Request, ServeStore(r),
         accepted' = {}
  PROVE  Abstract!Next
<1> DEFINE c == cr_pend.cr
<1>1. /\ state' = "DC_READY" /\ UNCHANGED <<a_valid, a_tag, mem>>
      /\ new_core_req_d' = FALSE
  BY ServeEffect, ServiceEffect DEF ServiceCommon
<1>2. /\ StoreLands(PendingWay, c) /\ cr_pend'.active = FALSE
      /\ clear_pending_on_read' = FALSE
  BY ServeStoreEffect DEF StoreLands, PendingSet
<1>3. /\ Outstanding = {c} /\ c \in Request /\ PendingWay \in Way
      /\ PendingWay \in Holders(c.tag, c.set)
      /\ \A w \in Way, s \in Set : ~Refilling(w, s)
  BY ServedLine DEF PendingTag, PendingSet
<1>4. Outstanding' = {} /\ Answer' = {}
  BY <1>1, <1>2 DEF Outstanding, Answer, rsp_core_valid
<1>5. c.rtype = "DMEM_WRITE"
  BY DEF ServeStore, store_req_pending
<1>6. \A w \in Way, s \in Set : ~Refilling(w, s)'
  BY <1>1, ReadyAfter
<1> HIDE DEF c
<1>7. CoreView' = [CoreView EXCEPT ![c.tag][c.set][c.beat] = Merge(@, c.be, c.wdata)]
  BY <1>1, <1>2, <1>3, <1>6, StoreSeen
<1>8. Abstract!Perform(c)
  BY <1>4, <1>5, <1>7 DEF Abstract!Perform, Abstract!Merge, Merge
<1> QED
  BY <1>3, <1>4, <1>8 DEF Abstract!Next, Abstract!Complete

LEMMA StepRefines ==
  ASSUME Inductive, Inductive', ViewOfLines, ViewOfLines', HNext
  PROVE  Abstract!Next
<1>1. PICK r \in Requests : HMiss(r) \/ HHit(r) \/ HIdle(r) \/ HService(r)
  BY DEF HNext
<1>2. r \in Request
  BY DCacheAssumption
<1>3. CASE HMiss(r)
  BY <1>2, <1>3, MissRefines DEF HMiss
<1>4. CASE HHit(r)
  BY <1>2, <1>4, LoadHitRefines, StoreHitRefines DEF HHit
<1>5. CASE HIdle(r)
  BY <1>2, <1>5, LeaveResetRefines, IdleRefines DEF HIdle
<1>6. CASE HService(r)
  <2>1. Service(r) /\ accepted' = {}
    BY <1>6 DEF HService
  <2>2. CASE StartRefill(r)
    BY <1>2, <2>1, <2>2, StartRefillRefines
  <2>3. CASE StartEvict(r) \/ EvictWord(r)
    BY <1>2, <2>1, <2>3, WritebackRefines
  <2>4. CASE EvictDone(r)
    BY <1>2, <2>1, <2>4, EvictDoneRefines
  <2>5. CASE RefillWord(r) \/ RefillDone(r)
    BY <1>2, <2>1, <2>5, RefillRefines
  <2>6. CASE ServeLoad(r)
    BY <1>2, <2>1, <2>6, ServeLoadRefines
  <2>7. CASE ServeStore(r)
    BY <1>2, <2>1, <2>7, ServeStoreRefines
  <2> QED
    BY <2>1, <2>2, <2>3, <2>4, <2>5, <2>6, <2>7 DEF Service
<1> QED
  BY <1>1, <1>3, <1>4, <1>5, <1>6

\* The history variables add nothing to what the cache does.
LEMMA HistoryIsCache ==
  ASSUME HNext PROVE Next
  BY DEF HNext, HMiss, HHit, HIdle, HService, Next

\* The data cache and main memory are one atomic memory, for every number of ways,
\* sets, words per line and tags and for every sequence of requests: each request
\* accepted, hit or miss, takes effect in one instant, in order, and nothing else
\* does; a load is answered with what was last stored at its address, whatever was
\* written back or refilled in between; nothing is answered that was not asked for.
\* (That every access is eventually performed is checked, not proved.)
THEOREM SafelyAtomic == HSpec => Abstract!Init /\ [][Abstract!Next]_(Abstract!vars)
<1>1. HInit => Abstract!Init
  <2> SUFFICES ASSUME HInit PROVE Abstract!Init
    OBVIOUS
  <2>1. Init /\ accepted = {}
    BY DEF HInit
  <2>2. CoreView \in MainMemory
    BY <2>1, InitType, InitStrengthening, ViewIsOfLines DEF Strengthening, ViewOfLines
  <2>3. Outstanding = {} /\ Answer = {}
    BY <2>1 DEF Init, Outstanding, Answer, rsp_core_valid, ClearPending, Pending
  <2> QED
    BY <2>1, <2>2, <2>3
    DEF Abstract!Init, Abstract!MainMemory, Abstract!Line, Abstract!Word, Abstract!Beat,
        Abstract!Set, Abstract!Tag, MainMemory, Line, Word, Beat, Set, Tag
<1>2. HInit => Inductive
  BY InitType, InitStrengthening DEF HInit, Inductive, Strengthening
<1>3. Inductive /\ [HNext]_hvars => Inductive'
  BY HistoryIsCache, InductiveKept DEF hvars
<1>4. Inductive => ViewOfLines
  BY ViewIsOfLines DEF Inductive
<1>5. Inductive /\ Inductive' /\ ViewOfLines /\ ViewOfLines' /\ [HNext]_hvars
        => [Abstract!Next]_(Abstract!vars)
  <2> SUFFICES ASSUME Inductive, Inductive', ViewOfLines, ViewOfLines', [HNext]_hvars
               PROVE  Abstract!Next \/ UNCHANGED Abstract!vars
    OBVIOUS
  <2>1. CASE HNext
    BY <2>1, StepRefines
  <2>2. CASE UNCHANGED hvars
    <3>1. UNCHANGED <<vars, accepted>>
      BY <2>2 DEF hvars
    <3>2. CoreView' = CoreView
      BY <3>1 DEF vars, meta, banks, ctrl, cnts, port, CoreView, Holders, Refilling
    <3>3. Outstanding' = Outstanding /\ Answer' = Answer
      BY <3>1 DEF vars, meta, banks, ctrl, cnts, port, Outstanding, Answer,
                  rsp_core_valid, rsp_core_data
    <3> QED
      BY <3>1, <3>2, <3>3 DEF Abstract!vars
  <2> QED
    BY <2>1, <2>2
<1> QED
  BY <1>1, <1>2, <1>3, <1>4, <1>5, PTL DEF HSpec

-----------------------------------------------------------------------------
(* The history variables: the order of use, and the age of an access.       *)

\* The general rule for the counters covers the two-way toggle.
LEMMA TouchedRank ==
  ASSUME NEW order \in [1 .. WAYS -> Way], NEW counter \in [Way -> Way],
         Ranks(order, counter), NEW w \in Way, NEW v \in Way
  PROVE  Touched(counter, w)[v] =
           IF v = w THEN 0
           ELSE IF counter[v] < counter[w] THEN counter[v] + 1 ELSE counter[v]
<1>1. WAYS \in Nat /\ Way = 0 .. WAYS - 1
  BY DCacheAssumption DEF Way
<1>2. CASE WAYS # 2
  BY <1>2 DEF Touched
<1>3. CASE WAYS = 2 /\ v # w
  <2>1. counter[v] # counter[w]
    BY <1>3 DEF Ranks
  <2>2. counter[v] \in 0 .. 1 /\ counter[w] \in 0 .. 1
    BY <1>1, <1>3
  <2>3. Touched(counter, w)[v] = 1
    BY <1>3 DEF Touched
  <2> QED
    BY <1>3, <2>1, <2>2, <2>3
<1>4. CASE WAYS = 2 /\ v = w
  BY <1>4 DEF Touched
<1> QED
  BY <1>2, <1>3, <1>4

\* What MoveToFront does, in terms of the rank k of the way that moves.
IsMoved(moved, order, w, k) ==
  /\ moved \in [1 .. WAYS -> Way]
  /\ \A n \in 1 .. WAYS :
       moved[n] = IF n = 1 THEN w
                  ELSE IF n <= k + 1 THEN order[n - 1] ELSE order[n]

LEMMA MovedOrder ==
  ASSUME NEW order \in [1 .. WAYS -> Way], NEW counter \in [Way -> Way],
         Ranks(order, counter), NEW w \in Way
  PROVE  IsMoved(MoveToFront(order, w), order, w, counter[w])
<1>1. WAYS \in Nat
  BY DCacheAssumption
<1>2. counter[w] \in 0 .. WAYS - 1
  BY DEF Way
<1>3. order[counter[w] + 1] = w
  BY DEF Ranks
<1>4. ASSUME NEW n \in 1 .. WAYS
      PROVE  (\E m \in n .. WAYS : order[m] = w) <=> n <= counter[w] + 1
  <2>1. ASSUME NEW m \in n .. WAYS, order[m] = w PROVE n <= counter[w] + 1
    <3>1. m \in 1 .. WAYS
      BY <1>1
    <3>2. counter[w] = m - 1
      BY <2>1, <3>1 DEF Ranks
    <3> QED
      BY <1>1, <3>1, <3>2
  <2>2. ASSUME n <= counter[w] + 1 PROVE \E m \in n .. WAYS : order[m] = w
    <3>1. counter[w] + 1 \in n .. WAYS
      BY <1>1, <1>2, <2>2
    <3> QED
      BY <1>3, <3>1
  <2> QED
    BY <2>1, <2>2
<1>5. ASSUME NEW n \in 1 .. WAYS
      PROVE  /\ MoveToFront(order, w)[n] = IF n = 1 THEN w
                                           ELSE IF n <= counter[w] + 1 THEN order[n - 1]
                                           ELSE order[n]
             /\ MoveToFront(order, w)[n] \in Way
  <2>1. MoveToFront(order, w)[n] = IF n = 1 THEN w
                                   ELSE IF n <= counter[w] + 1 THEN order[n - 1]
                                   ELSE order[n]
    BY <1>4 DEF MoveToFront
  <2>2. n # 1 => n - 1 \in 1 .. WAYS
    BY <1>1
  <2> QED
    BY <2>1, <2>2
<1>6. MoveToFront(order, w) \in [1 .. WAYS -> Way]
  BY <1>5 DEF MoveToFront
<1> QED
  BY <1>5, <1>6 DEF IsMoved

\* An access moves its way to the front of the order, and the counters follow.
LEMMA TouchMovesToFront ==
  ASSUME NEW order \in [1 .. WAYS -> Way], NEW counter \in [Way -> Way],
         Ranks(order, counter), NEW w \in Way
  PROVE  Ranks(MoveToFront(order, w), Touched(counter, w))
<1> DEFINE k == counter[w]
           moved == MoveToFront(order, w)
           ranks == Touched(counter, w)
<1>1. WAYS \in Nat
  BY DCacheAssumption
<1>2. \A v \in Way : counter[v] \in 0 .. WAYS - 1
  BY DEF Way
<1>3. k \in 0 .. WAYS - 1
  BY <1>2
<1>4. \A n \in 1 .. WAYS : moved[n] = IF n = 1 THEN w
                                      ELSE IF n <= k + 1 THEN order[n - 1] ELSE order[n]
  <2>1. IsMoved(moved, order, w, k)
    BY MovedOrder
  <2> HIDE DEF moved, k
  <2> QED
    BY <2>1 DEF IsMoved
<1>5. \A v \in Way : ranks[v] = IF v = w THEN 0
                                ELSE IF counter[v] < k THEN counter[v] + 1 ELSE counter[v]
  BY TouchedRank
<1>6. \A v \in Way : order[counter[v] + 1] = v
  BY DEF Ranks
<1>7. \A n \in 1 .. WAYS : order[n] \in Way /\ counter[order[n]] = n - 1
  BY DEF Ranks
<1>8. \A v \in Way : counter[v] = k => v = w
  BY <1>6
<1> HIDE DEF moved, ranks, k
<1>9. ASSUME NEW v \in Way PROVE moved[ranks[v] + 1] = v
  <2>1. counter[v] \in 0 .. WAYS - 1
    BY <1>2
  <2>2. CASE v = w
    <3>1. ranks[v] = 0 /\ 1 \in 1 .. WAYS
      BY <1>1, <1>3, <1>5, <2>2
    <3>2. moved[1] = w
      BY <1>4, <3>1
    <3> QED
      BY <2>2, <3>1, <3>2
  <2>3. CASE v # w /\ counter[v] < k
    <3>1. ranks[v] = counter[v] + 1
      BY <1>5, <2>3
    <3>2. /\ counter[v] + 1 + 1 \in 1 .. WAYS /\ counter[v] + 1 + 1 # 1
          /\ counter[v] + 1 + 1 <= k + 1 /\ (counter[v] + 1 + 1) - 1 = counter[v] + 1
      BY <1>1, <1>3, <2>1, <2>3
    <3>3. moved[counter[v] + 1 + 1] = order[counter[v] + 1]
      BY <1>4, <3>2
    <3> QED
      BY <1>6, <3>1, <3>3
  <2>4. CASE v # w /\ ~(counter[v] < k)
    <3>1. ranks[v] = counter[v] /\ counter[v] # k
      BY <1>5, <1>8, <2>4
    <3>2. /\ counter[v] + 1 \in 1 .. WAYS /\ counter[v] + 1 # 1
          /\ ~(counter[v] + 1 <= k + 1)
      BY <1>1, <1>3, <2>1, <2>4, <3>1
    <3>3. moved[counter[v] + 1] = order[counter[v] + 1]
      BY <1>4, <3>2
    <3> QED
      BY <1>6, <3>1, <3>3
  <2> QED
    BY <2>2, <2>3, <2>4
<1>10. ASSUME NEW n \in 1 .. WAYS PROVE ranks[moved[n]] = n - 1
  <2>1. CASE n = 1
    <3>1. moved[n] = w
      BY <1>4, <2>1
    <3>2. ranks[w] = 0
      BY <1>5
    <3> QED
      BY <2>1, <3>1, <3>2
  <2>2. CASE n # 1 /\ n <= k + 1
    <3>1. n - 1 \in 1 .. WAYS
      BY <1>1, <2>2
    <3>2. moved[n] = order[n - 1]
      BY <1>4, <2>2
    <3>3. order[n - 1] \in Way /\ counter[order[n - 1]] = (n - 1) - 1
      BY <1>7, <3>1
    <3>4. (n - 1) - 1 < k /\ (n - 1) - 1 # k /\ ((n - 1) - 1) + 1 = n - 1
      BY <1>3, <2>2, <3>1
    <3>5. order[n - 1] # w
      BY <3>3, <3>4 DEF k
    <3> QED
      BY <1>5, <3>2, <3>3, <3>4, <3>5
  <2>3. CASE ~(n <= k + 1)
    <3>1. n # 1 /\ ~(n - 1 < k) /\ n - 1 # k
      BY <1>3, <2>3
    <3>2. moved[n] = order[n]
      BY <1>4, <2>3, <3>1
    <3>3. order[n] \in Way /\ counter[order[n]] = n - 1
      BY <1>7
    <3>4. order[n] # w
      BY <3>1, <3>3 DEF k
    <3> QED
      BY <1>5, <3>1, <3>2, <3>3, <3>4
  <2> QED
    BY <2>1, <2>2, <2>3
<1> QED
  BY <1>9, <1>10 DEF Ranks, moved, ranks

\* The same for one set of the array of counters.
LEMMA AccessKeepsRecency ==
  ASSUME TypeOK, RecencyInv, NEW t \in Set, NEW w \in Way,
         a_lru' = LruAccess(t, w),
         recency' = [recency EXCEPT ![t] = MoveToFront(@, w)]
  PROVE  RecencyInv'
<1> DEFINE now == Touched(Counters(t), w)
           moved == MoveToFront(recency[t], w)
<1>1. /\ a_lru \in [Way -> [Set -> Way]] /\ recency \in [Set -> [1 .. WAYS -> Way]]
      /\ recency[t] \in [1 .. WAYS -> Way]
  BY DEF TypeOK, RecencyInv
<1>2. Counters(t) \in [Way -> Way]
  BY <1>1 DEF Counters
<1>3. Ranks(recency[t], Counters(t))
  BY DEF RecencyInv
<1>4. Ranks(moved, now) /\ moved \in [1 .. WAYS -> Way]
  BY <1>1, <1>2, <1>3, TouchMovesToFront, MovedOrder DEF IsMoved
<1>5. a_lru' = [v \in Way |-> [a_lru[v] EXCEPT ![t] = now[v]]]
  BY DEF LruAccess, Counters
<1>6. recency' = [recency EXCEPT ![t] = moved]
  OBVIOUS
<1>7. now = [v \in Way |-> now[v]]
  BY DEF Touched
<1> HIDE DEF now, moved
<1>8. recency' \in [Set -> [1 .. WAYS -> Way]]
  BY <1>1, <1>4, <1>6
<1>9. ASSUME NEW s \in Set PROVE Ranks(recency'[s], Counters(s)')
  <2>1. CASE s = t
    <3>1. Counters(s)' = now
      BY <1>1, <1>5, <1>7, <2>1 DEF Counters
    <3>2. recency'[s] = moved
      BY <1>1, <1>6, <2>1
    <3> QED
      BY <1>4, <3>1, <3>2
  <2>2. CASE s # t
    <3>1. Counters(s)' = Counters(s)
      BY <1>1, <1>5, <2>2 DEF Counters
    <3>2. recency'[s] = recency[s]
      BY <1>1, <1>6, <2>2
    <3> QED
      BY <3>1, <3>2 DEF RecencyInv
  <2> QED
    BY <2>1, <2>2
<1> QED
  BY <1>8, <1>9 DEF RecencyInv

LEMMA RecencyStays ==
  ASSUME RecencyInv, a_lru' = a_lru, recency' = recency
  PROVE  RecencyInv'
  BY DEF RecencyInv, Counters

\* Every access that touches the counters is recorded in the order of use: a hit
\* when it is accepted, a miss when it is served.
LEMMA RecencyStep ==
  ASSUME Inductive, RecencyInv, HNext
  PROVE  RecencyInv'
<1>1. PICK r \in Requests : HMiss(r) \/ HHit(r) \/ HIdle(r) \/ HService(r)
  BY DEF HNext
<1>2. r.set \in Set /\ WayOf(r) \in Way
  BY DCacheAssumption, WayOfType DEF Request
<1>3. TypeOK /\ cr_pend.cr.set \in Set /\ cr_pend.way \in Way
  BY PendingType DEF Inductive, PendingSet, PendingWay
<1>4. CASE HMiss(r)
  <2>1. ready /\ ~TagMatch(r) /\ Clock(TRUE, r) /\ recency' = recency
    BY <1>4 DEF HMiss, Miss
  <2>2. a_lru' = a_lru
    BY <2>1, ReadyMeans DEF Inductive, Clock, LruEdge, hit
  <2> QED
    BY <2>1, <2>2, RecencyStays
<1>5. CASE HHit(r)
  <2>1. /\ TagMatch(r) /\ Clock(TRUE, r)
        /\ recency' = [recency EXCEPT ![r.set] = MoveToFront(@, WayOf(r))]
    BY <1>5 DEF HHit, LoadHit, StoreHit
  <2>2. a_lru' = LruAccess(r.set, WayOf(r))
    BY <2>1 DEF Clock, LruEdge, hit
  <2> QED
    BY <1>2, <1>3, <2>1, <2>2, AccessKeepsRecency
<1>6. CASE HIdle(r)
  <2>1. Clock(FALSE, r) /\ recency' = recency /\ (ready \/ state = "DC_RESET")
    BY <1>6 DEF HIdle, Idle, LeaveReset
  <2>2. ~req_pending
    BY <2>1, ReadyMeans DEF Inductive, PhaseInv, req_pending
  <2>3. a_lru' = a_lru
    BY <2>1, <2>2, ServiceEffect DEF ServiceCommon
  <2> QED
    BY <2>1, <2>3, RecencyStays
<1>7. CASE HService(r)
  <2>1. Clock(FALSE, r)
    BY <1>7 DEF HService, Service, StartRefill, StartEvict, EvictWord, EvictDone,
                RefillWord, RefillDone, ServeLoad, ServeStore
  <2>2. a_lru' = IF req_pending THEN LruAccess(cr_pend.cr.set, cr_pend.way) ELSE a_lru
    BY <2>1, ServiceEffect DEF ServiceCommon
  <2>3. recency' = IF req_pending
                     THEN [recency EXCEPT ![cr_pend.cr.set] = MoveToFront(@, cr_pend.way)]
                     ELSE recency
    BY <1>7 DEF HService
  <2>4. CASE req_pending
    BY <1>3, <2>2, <2>3, <2>4, AccessKeepsRecency
  <2>5. CASE ~req_pending
    BY <2>2, <2>3, <2>5, RecencyStays
  <2> QED
    BY <2>4, <2>5
<1> QED
  BY <1>1, <1>4, <1>5, <1>6, <1>7

\* Each step of a miss adds one to the age of the access, and one to the place the
\* phase has reached.
LEMMA LatencyStep ==
  ASSUME Inductive, LatencyInv, HNext
  PROVE  LatencyInv' /\ LoadLatency'
<1> DEFINE L == MEM_TRANSFERS_PER_CL
<1>1. PICK r \in Requests : HMiss(r) \/ HHit(r) \/ HIdle(r) \/ HService(r)
  BY DEF HNext
<1>2. r \in Request /\ L \in Nat /\ LastBeat = L - 1 /\ mem_cnt_d \in Nat
  BY DCacheAssumption, TypesAssumption DEF LastBeat, Inductive, TypeOK, Beat
<1> HIDE DEF L
<1>3. CASE HMiss(r)
  <2>1. /\ AcceptCommon(TRUE, r) /\ age' = 1 /\ wrote_back' = FALSE
    BY <1>2, <1>3, AcceptEffect DEF HMiss, Miss
  <2> QED
    BY <2>1 DEF AcceptCommon, LatencyInv, LoadLatency
<1>4. CASE HHit(r)
  <2>1. ready /\ TagMatch(r) /\ Clock(TRUE, r)
    BY <1>4 DEF HHit, LoadHit, StoreHit
  <2>2. AcceptCommon(TRUE, r) /\ hit_d' = TRUE
    BY <1>2, <2>1, AcceptEffect DEF Clock, RequestEdge, hit
  <2> QED
    BY <2>2 DEF AcceptCommon, LatencyInv, LoadLatency, Launch, miss_d
<1>5. CASE HIdle(r)
  <2>1. CASE Idle(r)
    <3>1. AcceptCommon(FALSE, r)
      BY <1>2, <2>1, AcceptEffect DEF Idle
    <3> QED
      BY <3>1 DEF AcceptCommon, LatencyInv, LoadLatency, Launch, miss_d
  <2>2. CASE LeaveReset(r)
    <3>1. /\ state' = "DC_READY" /\ clear_pending_on_read' = FALSE
          /\ new_core_req_d' = FALSE
      BY <1>2, <2>2, LeaveResetEffect, ServiceEffect DEF ServiceCommon, LeaveReset
    <3> QED
      BY <3>1 DEF LatencyInv, LoadLatency, Launch, miss_d
  <2> QED
    BY <1>5, <2>1, <2>2 DEF HIdle
<1>6. CASE HService(r)
  <2>1. age' = age + 1 /\ (wrote_back' <=> wrote_back \/ req_mem_w_valid) /\ Service(r)
    BY <1>6 DEF HService
  <2>2. CASE StartRefill(r)
    <3>1. age = 1 /\ ~wrote_back /\ ~req_mem_w_valid
      BY <2>2 DEF StartRefill, LatencyInv, Launch, req_mem_w_valid
    <3>2. /\ state' = "DC_MISS" /\ mem_cnt_d' = 0
          /\ mem_r_transfer_done_d' = FALSE /\ clear_pending_on_read' = FALSE
      BY <1>2, <2>2, StartRefillEffect
    <3>3. age' = 2
      BY <2>1, <3>1
    <3>4. ~wrote_back'
      BY <2>1, <3>1
    <3> QED
      BY <3>2, <3>3, <3>4 DEF LatencyInv, LoadLatency, Launch
  <2>3. CASE StartEvict(r)
    <3>1. age = 1 /\ req_mem_w_valid /\ mem_cnt = 0
      BY <2>3 DEF StartEvict, LatencyInv, Launch, req_mem_w_valid, Inductive, PhaseInv
    <3>2. WritebackCommon
      BY <1>2, <2>3, WritebackEffect
    <3>3. age' = 2 /\ mem_cnt_d' = 0
      BY <2>1, <3>1, <3>2 DEF WritebackCommon
    <3>4. wrote_back'
      BY <2>1, <3>1
    <3> QED
      BY <3>2, <3>3, <3>4 DEF WritebackCommon, LatencyInv, LoadLatency, Launch
  <2>4. CASE EvictWord(r)
    <3>1. /\ wrote_back /\ age = mem_cnt_d + 2
          /\ mem_cnt = NextBeat(mem_cnt_d) /\ mem_cnt_d # LastBeat
      BY <2>4 DEF EvictWord, LatencyInv, Inductive, PhaseInv, mem_cnt_done
    <3>2. WritebackCommon
      BY <1>2, <2>4, WritebackEffect
    <3>3. mem_cnt_d' = mem_cnt_d + 1
      BY <3>1, <3>2 DEF WritebackCommon, NextBeat
    <3>4. age' = mem_cnt_d' + 2
      BY <1>2, <2>1, <3>1, <3>3
    <3>5. wrote_back'
      BY <2>1, <3>1
    <3> QED
      BY <3>2, <3>4, <3>5 DEF WritebackCommon, LatencyInv, LoadLatency, Launch
  <2>5. CASE EvictDone(r)
    <3>1. wrote_back /\ age = mem_cnt_d + 2
      BY <2>5 DEF EvictDone, LatencyInv
    <3>2. /\ state' = "DC_MISS" /\ mem_cnt_d = LastBeat /\ mem_cnt_d' = 0
          /\ mem_r_transfer_done_d' = FALSE /\ clear_pending_on_read' = FALSE
      BY <1>2, <2>5, EvictDoneEffect
    <3>3. age' = L + 2 + 0
      BY <1>2, <2>1, <3>1, <3>2
    <3>4. wrote_back'
      BY <2>1, <3>1
    <3> QED
      BY <3>2, <3>3, <3>4 DEF LatencyInv, LoadLatency, Launch, L
  <2>6. CASE RefillWord(r) \/ RefillDone(r)
    <3>1. /\ state = "DC_MISS" /\ state' = "DC_MISS" /\ ~mem_r_transfer_done_d
          /\ ~req_mem_w_valid /\ clear_pending_on_read' = FALSE
      BY <1>2, <2>6, ArrivalEffect
    <3>2. age = (IF wrote_back THEN L ELSE 0) + 2 + mem_cnt_d
      BY <3>1 DEF LatencyInv, L
    <3>3. wrote_back' <=> wrote_back
      BY <2>1, <3>1
    <3>4. CASE RefillWord(r)
      <4>1. mem_cnt_d' = mem_cnt_d + 1 /\ mem_r_transfer_done_d' = FALSE
        BY <1>2, <3>4, RefillWordEffect
      <4>2. age' = (IF wrote_back THEN L ELSE 0) + 2 + mem_cnt_d'
        BY <1>2, <2>1, <3>2, <4>1
      <4> QED
        BY <3>1, <3>3, <4>1, <4>2 DEF LatencyInv, LoadLatency, Launch, L
    <3>5. CASE RefillDone(r)
      <4>1. mem_cnt_d = LastBeat /\ mem_r_transfer_done_d' = TRUE
        BY <1>2, <3>5, RefillDoneEffect
      <4>2. age' = (IF wrote_back THEN L ELSE 0) + 2 + L
        BY <1>2, <2>1, <3>2, <4>1
      <4> QED
        BY <3>1, <3>3, <4>1, <4>2 DEF LatencyInv, LoadLatency, Launch, L
    <3> QED
      BY <2>6, <3>4, <3>5
  <2>7. CASE ServeLoad(r) \/ ServeStore(r)
    <3>1. /\ state = "DC_MISS" /\ state' = "DC_READY" /\ mem_r_transfer_done_d
          /\ ~req_mem_w_valid /\ new_core_req_d' = FALSE
      BY <1>2, <2>7, ServeEffect, ServiceEffect DEF ServiceCommon
    <3>2. age = (IF wrote_back THEN L ELSE 0) + 2 + L
      BY <3>1 DEF LatencyInv, L
    <3>3. wrote_back' <=> wrote_back
      BY <2>1, <3>1
    <3>4. age' = IF wrote_back THEN 2 * L + 3 ELSE L + 3
      BY <1>2, <2>1, <3>2
    <3> QED
      BY <3>1, <3>3, <3>4 DEF LatencyInv, LoadLatency, Launch, miss_d, L
  <2> QED
    BY <2>1, <2>2, <2>3, <2>4, <2>5, <2>6, <2>7 DEF Service
<1> QED
  BY <1>1, <1>3, <1>4, <1>5, <1>6

LEMMA InitHistory ==
  ASSUME HInit PROVE HistoryInv
<1>1. WAYS \in Nat /\ Way = 0 .. WAYS - 1
  BY DCacheAssumption DEF Way
<1>2. RecencyInv
  <2>1. recency = [s \in Set |-> [n \in 1 .. WAYS |-> n - 1]]
    BY DEF HInit
  <2>2. recency \in [Set -> [1 .. WAYS -> Way]]
    BY <1>1, <2>1
  <2>3. ASSUME NEW s \in Set PROVE Ranks(recency[s], Counters(s))
    <3>1. \A n \in 1 .. WAYS : recency[s][n] = n - 1 /\ n - 1 \in Way
      BY <1>1, <2>1
    <3>2. \A w \in Way : Counters(s)[w] = w /\ w + 1 \in 1 .. WAYS /\ (w + 1) - 1 = w
      BY <1>1 DEF HInit, Init, Counters
    <3> QED
      BY <3>1, <3>2 DEF Ranks
  <2> QED
    BY <2>2, <2>3 DEF RecencyInv
<1>3. LatencyInv /\ LoadLatency
  BY DEF HInit, Init, LatencyInv, LoadLatency, Launch
<1> QED
  BY <1>2, <1>3 DEF HistoryInv

\* The counters are inverse to the order of use, and the age of an access is given by
\* its phase.
THEOREM HistoryInvariant == HSpec => [](Inductive /\ HistoryInv)
<1>1. HInit => Inductive /\ HistoryInv
  BY InitHistory, InitType, InitStrengthening DEF HInit, Inductive, Strengthening
<1>2. Inductive /\ HistoryInv /\ [HNext]_hvars => Inductive' /\ HistoryInv'
  <2> SUFFICES ASSUME Inductive, HistoryInv, [HNext]_hvars
               PROVE  Inductive' /\ HistoryInv'
    OBVIOUS
  <2>1. Inductive'
    BY HistoryIsCache, InductiveKept DEF hvars
  <2>2. CASE HNext
    BY <2>1, <2>2, RecencyStep, LatencyStep DEF HistoryInv
  <2>3. CASE UNCHANGED hvars
    <3>1. RecencyInv'
      BY <2>3, RecencyStays DEF hvars, vars, HistoryInv
    <3>2. LatencyInv' /\ LoadLatency'
      BY <2>3 DEF hvars, vars, ctrl, cnts, HistoryInv, LatencyInv, LoadLatency,
                  Launch, miss_d
    <3> QED
      BY <2>1, <3>1, <3>2 DEF HistoryInv
  <2> QED
    BY <2>2, <2>3
<1> QED
  BY <1>1, <1>2, PTL DEF HSpec

\* For every associativity and every sequence of requests the victim is the least
\* recently used way of its set: hits and served misses count, accepted ones do not.
THEOREM VictimIsTheOldest == HSpec => []VictimIsLeastRecent
<1>1. HistoryInv => VictimIsLeastRecent
  BY DEF HistoryInv, RecencyInv, Ranks, Counters, VictimIsLeastRecent
<1> QED
  BY <1>1, HistoryInvariant, PTL

\* For every line length a load that misses takes one cycle per bus word and three
\* more, and one per word of the victim when it is written back: no cycle of a miss
\* is lost or overlaps another, whatever came before.
THEOREM MissTakesItsCycles == HSpec => []LoadLatency
<1>1. HistoryInv => LoadLatency
  BY DEF HistoryInv
<1> QED
  BY <1>1, HistoryInvariant, PTL

=============================================================================

---------------------------- MODULE DCacheHistory ---------------------------
(***************************************************************************)
(* DCache with history variables that the design does not have: the        *)
(* request the last cycle accepted, how many cycles the outstanding access *)
(* has taken, whether it wrote a victim back and in which order the ways   *)
(* of each set were last used.                                             *)
(***************************************************************************)
EXTENDS DCache

VARIABLES
  accepted,     \* {} or the set of the request the last cycle accepted
  age,          \* cycles since the outstanding access was accepted, else 0
  wrote_back,   \* its victim was dirty
  recency       \* per set, the ways from most to least recently used

hvars == <<vars, accepted, age, wrote_back, recency>>

\* w moves to the front, and the ways that were before it move back by one.
MoveToFront(order, w) ==
  [n \in 1 .. WAYS |->
     IF n = 1 THEN w
     ELSE IF \E m \in n .. WAYS : order[m] = w THEN order[n - 1]
     ELSE order[n]]

HInit ==
  /\ Init
  /\ accepted = {}
  /\ age = 0
  /\ wrote_back = FALSE
  /\ recency = [s \in Set |-> [n \in 1 .. WAYS |-> n - 1]]

\* The cycle accepts r and it misses; it hits; neither.
HMiss(r) ==
  /\ Miss(r)
  /\ accepted' = {r}
  /\ age' = 1
  /\ wrote_back' = FALSE
  /\ UNCHANGED recency

HHit(r) ==
  /\ LoadHit(r) \/ StoreHit(r)
  /\ accepted' = {r}
  /\ age' = 0
  /\ recency' = [recency EXCEPT ![r.set] = MoveToFront(@, WayOf(r))]
  /\ UNCHANGED wrote_back

HIdle(r) ==
  /\ LeaveReset(r) \/ Idle(r)
  /\ accepted' = {}
  /\ age' = 0
  /\ UNCHANGED <<wrote_back, recency>>

HService(r) ==
  /\ Service(r)
  /\ accepted' = {}
  /\ age' = age + 1
  /\ wrote_back' = (wrote_back \/ req_mem_w_valid)
  /\ recency' = IF req_pending
                  THEN [recency EXCEPT
                          ![cr_pend.cr.set] = MoveToFront(@, cr_pend.way)]
                  ELSE recency

HNext == \E r \in Requests : HMiss(r) \/ HHit(r) \/ HIdle(r) \/ HService(r)

HSpec == HInit /\ [][HNext]_hvars

\* The fairness of DCache: the cycles of a miss follow each other.
HFairness ==
  WF_hvars(\E r \in Requests :
             HService(r) \/ (state = "DC_RESET" /\ HIdle(r)))

HLiveSpec == HSpec /\ HFairness

Abstract == INSTANCE AtomicMemory
              WITH contents <- CoreView, outstanding <- Outstanding,
                   answer <- Answer

\* Cache and main memory together are one atomic memory.  Each request the
\* cache accepts, hit or miss, is performed once, in the order of acceptance:
\* a store changes the word it names and nothing else does, a load is answered
\* once, with what was last stored at its address; no answer is given that was
\* not asked for, one access is outstanding at a time, and it is eventually
\* performed.
ImplementsAtomicMemory == Abstract!Spec

\* The phases of a miss follow each other without a lost or an overlapping
\* cycle: the answer of a load comes one cycle per bus word and three more
\* after its acceptance, and as many again as the victim has words when it is
\* written back (dcache.sv:542-681).
LoadLatency ==
  clear_pending_on_read =>
    age = IF wrote_back THEN 2 * MEM_TRANSFERS_PER_CL + 3
                        ELSE MEM_TRANSFERS_PER_CL + 3

\* README.md:198, for the line of four bus words it is said of: a load that
\* misses is answered in 7 cycles, in 10 when its victim is written back.
DocumentedLatency ==
  clear_pending_on_read => age = IF wrote_back THEN 10 ELSE 7

\* The LRU counter of a way is its rank in the order of use, hits and served
\* misses alike: the victim is the least recently used way.
VictimIsLeastRecent ==
  \A s \in Set, w \in Way : recency[s][a_lru[w][s] + 1] = w

-----------------------------------------------------------------------------
(* The inductive invariant behind the two.                                  *)

\* Counters and order of use are inverse to each other.
Ranks(order, counter) ==
  /\ \A w \in Way : order[counter[w] + 1] = w
  /\ \A n \in 1 .. WAYS : counter[order[n]] = n - 1

Counters(s) == [w \in Way |-> a_lru[w][s]]

RecencyInv ==
  /\ recency \in [Set -> [1 .. WAYS -> Way]]
  /\ \A s \in Set : Ranks(recency[s], Counters(s))

\* How old the access is in each phase of its miss.
LatencyInv ==
  /\ Launch => age = 1 /\ ~wrote_back
  /\ state = "DC_EVICT" => wrote_back /\ age = mem_cnt_d + 2
  /\ state = "DC_MISS" =>
       age = (IF wrote_back THEN MEM_TRANSFERS_PER_CL ELSE 0) + 2
             + (IF mem_r_transfer_done_d THEN MEM_TRANSFERS_PER_CL ELSE mem_cnt_d)

HistoryInv == RecencyInv /\ LatencyInv /\ LoadLatency

=============================================================================

---------------------------- MODULE ICacheHistory ---------------------------
(***************************************************************************)
(* ICache with a history variable that the design does not have: the       *)
(* fetch the last cycle accepted, as a load.  It binds the answer of every *)
(* fetch, hit or miss, to its request.                                     *)
(***************************************************************************)
EXTENDS ICache

VARIABLE accepted   \* {} or the set of the fetch the last cycle accepted

hvars == <<vars, accepted>>

HInit == Init /\ accepted = {}

HFetch(r) ==
  /\ FetchHit(r) \/ FetchMiss(r)
  /\ accepted' = {AsLoad(r)}

HIdle(r) == Idle(r) /\ accepted' = {}

\* The cycles that follow each other by themselves.
HWork(r) ==
  /\ LeaveReset(r) \/ Service(r)
  /\ accepted' = {}

HNext ==
  /\ \E r \in Fetches : HFetch(r) \/ HIdle(r) \/ HWork(r)
  /\ UNCHANGED mem

\* The fairness of ICache.
HFairness == WF_hvars(UNCHANGED mem /\ \E r \in Fetches : HWork(r))

HSpec == HInit /\ [][HNext]_hvars /\ HFairness

Abstract == INSTANCE AtomicMemory
              WITH contents <- FetchView, outstanding <- Outstanding,
                   answer <- Answer, Requests <- {AsLoad(r) : r \in Fetches}

\* The cache is a read-only memory: every fetch it accepts, hit or miss, is
\* answered once, in the order of acceptance, with the content of main memory
\* at the address of that fetch, and it is eventually answered ("icache
\* respects every request once issued"); no other answer is given.
ImplementsAtomicMemory == Abstract!Spec

=============================================================================

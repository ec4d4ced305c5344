---------------------------- MODULE AtomicMemory ----------------------------
(***************************************************************************)
(* What the load/store unit promises the core: one memory, in which every  *)
(* access takes effect at one instant, one access at a time.  A request    *)
(* that is accepted is either performed in the cycle that accepts it or    *)
(* outstanding from then on and performed in a later one; no other request *)
(* is accepted while one is outstanding, and none that was not accepted is *)
(* ever performed.  A load is answered with the content of the memory at   *)
(* the instant it is performed, and a store is not answered.  The memory   *)
(* changes by the stores accepted and by nothing else.                     *)
(***************************************************************************)
EXTENDS MemoryTypes

CONSTANT Requests   \* the requests the core presents

VARIABLES
  contents,     \* the memory
  accepted,     \* {} or the set of the one request the last cycle accepted
  outstanding,  \* {} or the set of the one accepted, not yet performed request
  answer        \* {} or the set of the one value a load returns this cycle

vars == <<contents, accepted, outstanding, answer>>

Init ==
  /\ contents \in MainMemory
  /\ accepted = {}
  /\ outstanding = {}
  /\ answer = {}

Perform(r) ==
  \/ /\ r.rtype = "DMEM_READ"
     /\ answer' = {Select(contents[r.tag][r.set][r.beat], r.be)}
     /\ contents' = contents
  \/ /\ r.rtype = "DMEM_WRITE"
     /\ answer' = {}
     /\ contents' =
          [contents EXCEPT ![r.tag][r.set][r.beat] = Merge(@, r.be, r.wdata)]

\* Nothing is accepted and nothing is performed; an answer lasts one cycle.
Pass ==
  /\ accepted' = {}
  /\ answer' = {}
  /\ UNCHANGED <<contents, outstanding>>

PerformAtOnce(r) ==
  /\ outstanding = {}
  /\ accepted' = {r}
  /\ Perform(r)
  /\ UNCHANGED outstanding

Accept(r) ==
  /\ outstanding = {}
  /\ accepted' = {r}
  /\ outstanding' = {r}
  /\ answer' = {}
  /\ UNCHANGED contents

Complete ==
  /\ accepted' = {}
  /\ \E r \in outstanding : Perform(r) /\ outstanding' = {}

Next ==
  \/ Pass
  \/ \E r \in Requests : PerformAtOnce(r) \/ Accept(r)
  \/ Complete

Spec == Init /\ [][Next]_vars /\ WF_vars(Complete)

=============================================================================

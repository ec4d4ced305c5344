------------------------------ MODULE MCICache ------------------------------
(***************************************************************************)
(* Instances of ICache, with its history variable.  Main memory holds a    *)
(* different datum at every (tag, set, beat), the banks a datum no program *)
(* word has.                                                               *)
(***************************************************************************)
EXTENDS ICacheHistory

CONSTANT FetchBeats   \* beats the front end fetches from

Cell(t, s, b) == 1 + b + MEM_TRANSFERS_PER_CL * (s + SETS * t)

MCData == 0 .. (MEM_TRANSFERS_PER_CL * SETS * TAGS)
MCInitMem ==
  [t \in Tag |-> [s \in Set |-> [b \in Beat |-> [l \in Lane |-> Cell(t, s, b)]]]]
MCInitBank ==
  [w \in Way |-> [s \in Set |-> [b \in Beat |-> [l \in Lane |-> 0]]]]
MCFetches == [tag : Tag, set : Set, beat : FetchBeats, be : {Lane}]

=============================================================================

------------------------------ MODULE MCDCache ------------------------------
(***************************************************************************)
(* Instances of DCache, with its history variables, for model checking.    *)
(* Main memory starts with a different datum at every (tag, set, beat),    *)
(* the banks with another one, so that a word in the wrong place is told   *)
(* apart without a store.  The first set sees every tag, loads and stores; *)
(* the others one line that is only loaded.                                *)
(***************************************************************************)
EXTENDS DCacheHistory

CONSTANTS
  Stamps,       \* data the core stores
  StoreTags,    \* tags it stores to
  StoreMasks,   \* byte enables of its stores
  StoredBeat,   \* the beat it stores to and, but for FirstBeatTags, loads from
  FirstBeatTags \* tags of which it loads the first beat

Cell(t, s, b) == 1 + b + MEM_TRANSFERS_PER_CL * (s + SETS * t)
Garbage == 0

MCData == 0 .. (MEM_TRANSFERS_PER_CL * SETS * TAGS) \cup Stamps
MCInitMem ==
  [t \in Tag |-> [s \in Set |-> [b \in Beat |-> [l \in Lane |-> Cell(t, s, b)]]]]
MCInitBank ==
  [w \in Way |-> [s \in Set |-> [b \in Beat |-> [l \in Lane |-> Garbage]]]]

LoadedBeat(t) == IF t \in FirstBeatTags THEN 0 ELSE StoredBeat

Loads(s, tags) ==
  {[rtype |-> "DMEM_READ", tag |-> t, set |-> s, beat |-> LoadedBeat(t),
    be |-> Lane, wdata |-> 0] : t \in tags}
Stores == [rtype : {"DMEM_WRITE"}, tag : StoreTags, set : {0},
           beat : {StoredBeat}, be : StoreMasks, wdata : Stamps]

MCRequests ==
  Stores \cup Loads(0, Tag) \cup UNION {Loads(s, {0}) : s \in Set \ {0}}

=============================================================================

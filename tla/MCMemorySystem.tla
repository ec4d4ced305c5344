--------------------------- MODULE MCMemorySystem ---------------------------
(***************************************************************************)
(* Instances of MemorySystem: direct-mapped caches, so that every access   *)
(* to another line replaces the one that is held.                          *)
(***************************************************************************)
EXTENDS MemorySystem

CONSTANTS
  AccessBeats,   \* beats the core loads from, stores to and fetches from
  Stamps         \* data the core stores

Cell(t, s, b) == 1 + b + MEM_TRANSFERS_PER_CL * (s + SETS * t)

MCData == 0 .. (MEM_TRANSFERS_PER_CL * SETS * TAGS) \cup Stamps
MCInitMem ==
  [t \in Tag |-> [s \in Set |-> [b \in Beat |-> [l \in Lane |-> Cell(t, s, b)]]]]
MCInitBank(ways) ==
  [w \in 0 .. ways - 1 |-> [s \in Set |-> [b \in Beat |-> [l \in Lane |-> 0]]]]
MCDataBank == MCInitBank(WAYS)
MCInstBank == MCInitBank(I_WAYS)

MCRequests ==
  [rtype : {"DMEM_READ"}, tag : Tag, set : Set, beat : AccessBeats,
   be : {Lane}, wdata : {0}]
  \cup
  [rtype : {"DMEM_WRITE"}, tag : Tag, set : Set, beat : AccessBeats,
   be : {Lane}, wdata : Stamps]
MCFetches == [tag : Tag, set : Set, beat : AccessBeats, be : {Lane}]

=============================================================================

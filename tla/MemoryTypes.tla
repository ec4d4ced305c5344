---------------------------- MODULE MemoryTypes -----------------------------
(***************************************************************************)
(* Addresses, words and requests, shared by the data cache, the main       *)
(* memory and the abstract memory they implement together.                 *)
(*                                                                         *)
(* A byte address is split the way ama_riscv_dcache.sv splits it: tag, set *)
(* index, position of the 128-bit bus word inside the line ("beat") and    *)
(* byte lane inside the beat.  A beat's content is a function from lanes   *)
(* to data; a store stamps one datum on the lanes its byte enables select. *)
(***************************************************************************)
EXTENDS Naturals

CONSTANTS
  TAGS,   \* number of distinct tags
  SETS,   \* number of sets
  MEM_TRANSFERS_PER_CL,   \* bus words in a cache line
  Lane,   \* byte lanes of a bus word
  Data    \* what a lane can hold; 0 is the reset value of a register

ASSUME TypesAssumption ==
  /\ TAGS \in Nat \ {0}
  /\ SETS \in Nat \ {0}
  /\ MEM_TRANSFERS_PER_CL \in Nat \ {0, 1}
  /\ 0 \in Data

Tag  == 0 .. TAGS - 1
Set  == 0 .. SETS - 1
Beat == 0 .. MEM_TRANSFERS_PER_CL - 1
Word == [Lane -> Data]
Line == [Beat -> Word]

\* Main memory, indexed by tag, set and beat.
MainMemory == [Tag -> [Set -> Line]]

\* A request of the core: dmem_rtype_t, the address, the byte lanes (dtype and
\* the low address bits) and, for a store, the datum.
Request == [rtype : {"DMEM_READ", "DMEM_WRITE"}, tag : Tag, set : Set,
            beat : Beat, be : SUBSET Lane, wdata : Data]

\* The lanes a byte-enable mask selects take the datum, the others keep theirs.
Merge(word, be, d) == [l \in Lane |-> IF l \in be THEN d ELSE word[l]]

\* What a load returns from a word.
Select(word, be) == [l \in be |-> word[l]]

=============================================================================

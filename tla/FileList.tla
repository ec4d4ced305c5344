------------------------------ MODULE FileList ------------------------------
(***************************************************************************)
(* script/parse_filelist.py: one pass over the tokens of a Vivado file     *)
(* list sorts them into RTL sources, verification sources, include         *)
(* directories and macros.  run_synt.py and the Makefile take their        *)
(* sources from it.                                                        *)
(*                                                                         *)
(* A token is an option or a word; a word is a path by the directory it is *)
(* in, after the expansion of REPO_ROOT.  What a path looks like matters   *)
(* only for the test '/src/' in p.                                         *)
(***************************************************************************)
EXTENDS Naturals, Sequences, FiniteSets

CONSTANTS
  DefineOptions, IncludeOptions,   \* -d and --define, -i and --include
  Words,      \* every other token
  HasSrc,     \* the words with '/src/' in their expanded path
  Inputs      \* the token sequences parsed, after the file type and worklib

Options == DefineOptions \cup IncludeOptions

ASSUME FileListAssumption ==
  /\ DefineOptions \cap IncludeOptions = {} /\ Options \cap Words = {}
  /\ HasSrc \subseteq Words
  /\ Inputs \subseteq Seq(Options \cup Words)

VARIABLES
  rest,       \* the tokens
  index,          \* the index of the loop, from 1
  ended,      \* "no", "printed" or "IndexError"; then the script has stopped
  design, verif, include_dirs, defines

fvars == <<rest, index, ended, design, verif, include_dirs, defines>>

FileListInit ==
  /\ rest \in Inputs
  /\ index = 1 /\ ended = "no"
  /\ design = <<>> /\ verif = <<>> /\ include_dirs = <<>> /\ defines = <<>>

Looping == ended = "no" /\ index <= Len(rest)

\* rest[index + 1] of an option at the end.
NoArgument ==
  /\ Looping /\ rest[index] \in Options /\ index = Len(rest)
  /\ ended' = "IndexError"
  /\ UNCHANGED <<rest, index, design, verif, include_dirs, defines>>

\* Fault: the argument is looked at again, as a token of its own.
DefineOneStep ==
  /\ Looping /\ rest[index] \in DefineOptions /\ index < Len(rest)
  /\ defines' = Append(defines, rest[index + 1])
  /\ index' = index + 1
  /\ UNCHANGED <<rest, ended, design, verif, include_dirs>>

Define ==
  /\ Looping /\ rest[index] \in DefineOptions /\ index < Len(rest)
  /\ defines' = Append(defines, rest[index + 1])
  /\ index' = index + 2
  /\ UNCHANGED <<rest, ended, design, verif, include_dirs>>

Include ==
  /\ Looping /\ rest[index] \in IncludeOptions /\ index < Len(rest)
  /\ include_dirs' = Append(include_dirs, rest[index + 1])
  /\ index' = index + 2
  /\ UNCHANGED <<rest, ended, design, verif, defines>>

Source ==
  /\ Looping /\ rest[index] \notin Options
  /\ IF rest[index] \in HasSrc
       THEN design' = Append(design, rest[index]) /\ UNCHANGED verif
       ELSE verif' = Append(verif, rest[index]) /\ UNCHANGED design
  /\ index' = index + 1
  /\ UNCHANGED <<rest, ended, include_dirs, defines>>

Printed ==
  /\ ended = "no" /\ index > Len(rest)
  /\ ended' = "printed"
  /\ UNCHANGED <<rest, index, design, verif, include_dirs, defines>>

FileListNext == NoArgument \/ Define \/ Include \/ Source \/ Printed

FileListSpec == FileListInit /\ [][FileListNext]_fvars

-----------------------------------------------------------------------------
\* Position k holds the argument of an option: options and arguments alternate
\* in the run of options before it, so that run has an odd length.
Argument(k) ==
  \E n \in 1 .. k - 1 :
    /\ \A m \in n .. k - 1 : rest[m] \in Options
    /\ n > 1 => rest[n - 1] \notin Options
    /\ (k - n) % 2 = 1

\* Who takes a token: the positions of the macros, the include directories, the RTL
\* and the verification sources.
DefinedAt == {k \in 1 .. Len(rest) : Argument(k) /\ rest[k - 1] \in DefineOptions}
IncludedAt == {k \in 1 .. Len(rest) : Argument(k) /\ rest[k - 1] \in IncludeOptions}
DesignAt == {k \in 1 .. Len(rest) : ~Argument(k) /\ rest[k] \in HasSrc}
VerifAt == {k \in 1 .. Len(rest) : ~Argument(k) /\ rest[k] \notin HasSrc \cup Options}

\* list is what stands at those places, in their order: the token at a place comes
\* behind those at the places before it.
Lists(list, places) ==
  /\ Len(list) = Cardinality(places)
  /\ \A k \in places : list[Cardinality(places \cap (1 .. k))] = rest[k]

\* Every token is taken once and in order: an argument by the option before it,
\* even when it looks like an option, and every other word as a source, in the
\* RTL sources iff it lies below src.  A list that ends in an option without its
\* argument prints nothing.
TokensTakenOnce ==
  /\ ended = "printed" =>
       /\ Lists(defines, DefinedAt) /\ Lists(include_dirs, IncludedAt)
       /\ Lists(design, DesignAt) /\ Lists(verif, VerifAt)
  /\ ended = "IndexError" <=> /\ index = Len(rest) /\ ended # "no"
                              /\ rest[index] \in Options /\ ~Argument(index)

=============================================================================

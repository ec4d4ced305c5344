------------------------------ MODULE Autogen -------------------------------
(***************************************************************************)
(* script/autogen_perf_events.py: the performance events are listed once,  *)
(* in a YAML file, and written between markers into nine files of RTL,     *)
(* testbench, co-simulation, simulator and software.  The bit an event has *)
(* in the RTL is the bit software programs into mhpmevent.                 *)
(*                                                                         *)
(* A file is a sequence of lines, a line a tuple whose first element says  *)
(* what it is; a generated line keeps what another file must agree on: the *)
(* event, its position, whether a macro goes on.  A run patches one file   *)
(* after the other; write_text empties the file before it fills it, and    *)
(* the run may be killed anywhere.                                         *)
(***************************************************************************)
EXTENDS Naturals, FiniteSets, SequencesExt

CONSTANTS
  Configs,      \* the lists of events: Seq([name, keys])
  Checkouts,    \* what may be in the working tree at first: file -> lines
  MAX_EVENTS,
  MaxKills,     \* bound: how often a run is killed
  MaxEdits      \* bound: how often the list of events is edited

VARIABLES
  config,       \* the list of events on disk
  tree,         \* file -> lines, or no entry
  auto,         \* the run: "idle", "patching", "writing", "exited"
  events,       \* what the run loaded
  at,           \* the index of its target
  any_error,
  code,         \* exit code of the last run that ended
  original,     \* history: the lines the file being written had
  kills, edits

avars == <<config, tree, auto, events, at, any_error, code, original,
           kills, edits>>

OPEN == <<"open">>
CLOSE == <<"close">>

\* A line that declares the bit of an event, for the RTL or for software.
DeclaresBit(line) == line[1] \in {"MHPMEVENT", "mhpmevent"}

\* Line k is between a BEGIN and the END that follows it.
Between(lines, k) ==
  \E b \in 1 .. k - 1 : lines[b] = OPEN /\ \A j \in b .. k : lines[j] # CLOSE

\* The list of events and the files are sequences, and the bits are declared between
\* markers only.
ASSUME AutogenAssumption ==
  /\ \A c \in Configs : c \in Seq(ToSet(c))
  /\ \A t \in Checkouts : \A f \in DOMAIN t :
       /\ t[f] \in Seq(ToSet(t[f]))
       /\ \A k \in DOMAIN t[f] : DeclaresBit(t[f][k]) => Between(t[f], k)

\* The n-th number of a set, and what s has at a set of places, in order.
Nth(S, n) == CHOOSE k \in S : Cardinality({j \in S : j <= k}) = n
At(s, places) == [n \in 1 .. Cardinality(places) |-> s[Nth(places, n)]]

-----------------------------------------------------------------------------
(* Generators.                                                              *)

filter_events(evs, key) ==
  LET with == At(evs, {i \in DOMAIN evs : key \in evs[i].keys})
  IN  [i \in DOMAIN with |-> with[i].name]

rtl(evs) == filter_events(evs, "rtl")

\* One line per event of s, the position counting from 0.
Each(s, Line(_, _)) == [i \in DOMAIN s |-> Line(i - 1, s[i])]

\* Struct fields and enum values; the first field is the most significant bit,
\* get_event selects by name.
gen_types_svh(evs) ==
  Each(rtl(evs), LAMBDA i, pe : <<"logic", pe>>)
    \o << <<"MHPMEVENTS", Len(rtl(evs))>> >>
    \o Each(rtl(evs), LAMBDA i, pe : <<"MHPMEVENT", pe, i>>)
    \o Each(rtl(evs), LAMBDA i, pe : <<"get_event", pe>>)

gen_tb_types_svh(evs) ==
  << <<"byte", "ret_inst">> >> \o Each(rtl(evs), LAMBDA i, pe : <<"byte", pe>>)

gen_tb_sv(evs) ==
  << <<"assign", "ret_inst">> >> \o Each(rtl(evs), LAMBDA i, pe : <<"assign", pe>>)

\* A line of the macro says whether it continues.
gen_core_stats_json_macro(evs) ==
  << <<"define", "", TRUE>> >>
    \o Each(rtl(evs), LAMBDA i, pe : <<"JSON", pe, i # Len(rtl(evs)) - 1>>)
    \o << <<"blank">> >>

gen_core_stats_fields(evs) ==
  << <<"field", "ret_inst">> >> \o Each(rtl(evs), LAMBDA i, pe : <<"field", pe>>)

gen_core_stats_acc(evs) ==
  << <<"acc", "ret_inst">> >> \o Each(rtl(evs), LAMBDA i, pe : <<"acc", pe>>)

gen_cosim_cpp(evs) ==
  << <<"SET_FLAG", "ret_inst">> >>
    \o Each(rtl(evs), LAMBDA i, pe : <<"SET_FLAG", pe>>)

\* The simulator's enum: its own events, those of its hardware models, and under
\* DPI those only the RTL has.
rtl_unique(evs) ==
  LET known == ToSet(filter_events(evs, "isa_sim"))
                 \cup ToSet(filter_events(evs, "isa_sim_hw_model"))
  IN  At(rtl(evs), {i \in DOMAIN rtl(evs) : rtl(evs)[i] \notin known})

Pass(evs, what, unique) ==
  << <<what, "ret_inst">> >>
    \o Each(filter_events(evs, "isa_sim"), LAMBDA i, pe : <<what, pe>>)
    \o << <<"if HW_MODELS_EN">> >>
    \o Each(filter_events(evs, "isa_sim_hw_model"), LAMBDA i, pe : <<what, pe>>)
    \o << <<"endif">> >>
    \o (IF unique
          THEN << <<"if DPI">> >>
                 \o Each(rtl_unique(evs), LAMBDA i, pe : <<what, pe>>)
                 \o << <<what, "cycle">>, <<"endif">> >>
          ELSE << >>)

gen_types_h(evs) == Pass(evs, "enum", TRUE) \o Pass(evs, "name", TRUE)
gen_main_cpp(evs) == Pass(evs, "map", FALSE)

\* Fault: positions among all events, not among those of the RTL.
gen_common_h_all(evs) ==
  SelectSeq(Each(evs, LAMBDA i, e : <<"mhpmevent", e.name, i>>),
            LAMBDA l : l[2] \in ToSet(rtl(evs)))

gen_common_h(evs) == Each(rtl(evs), LAMBDA i, pe : <<"mhpmevent", pe, i>>)

CNTRS == 6

gen_zihpm_test(evs) == Each(rtl(evs), LAMBDA i, pe : <<"TEST_CSR", pe, i % CNTRS>>)

FILES == <<"types.svh", "tb_types.svh", "tb.sv", "core_stats.h", "cosim.cpp",
           "types.h", "main.cpp", "common.h", "zihpm_test">>

\* Per file the bodies of its marker pairs.
TARGETS(evs) ==
  [f \in ToSet(FILES) |->
     CASE f = "types.svh"    -> <<gen_types_svh(evs)>>
       [] f = "tb_types.svh" -> <<gen_tb_types_svh(evs)>>
       [] f = "tb.sv"        -> <<gen_tb_sv(evs)>>
       [] f = "core_stats.h" -> <<gen_core_stats_json_macro(evs),
                                  gen_core_stats_fields(evs),
                                  gen_core_stats_acc(evs)>>
       [] f = "cosim.cpp"    -> <<gen_cosim_cpp(evs)>>
       [] f = "types.h"      -> <<gen_types_h(evs)>>
       [] f = "main.cpp"     -> <<gen_main_cpp(evs)>>
       [] f = "common.h"     -> <<gen_common_h(evs)>>
       [] f = "zihpm_test"   -> <<gen_zihpm_test(evs)>>]

-----------------------------------------------------------------------------
(* Markers.                                                                 *)

Opens(lines) == {k \in DOMAIN lines : lines[k] = OPEN}
Closes(lines) == {k \in DOMAIN lines : lines[k] = CLOSE}

\* The first marker behind line b, or the end of the file.
NextMarker(lines, b) ==
  CHOOSE e \in b + 1 .. Len(lines) + 1 :
    /\ e \in Opens(lines) \cup Closes(lines) \cup {Len(lines) + 1}
    /\ \A k \in b + 1 .. e - 1 : k \notin Opens(lines) \cup Closes(lines)

\* A BEGIN without an END, or with another BEGIN before it; an END alone is passed over.
RaisesRuntimeError(lines) ==
  \E b \in Opens(lines) : NextMarker(lines, b) \notin Closes(lines)

find_tag_pairs(lines) ==
  [n \in 1 .. Cardinality(Opens(lines)) |->
     LET b == Nth(Opens(lines), n) IN <<b, NextMarker(lines, b)>>]

\* Fault: the END marker goes with the old body.
SpliceEnd(lines, pair, body) ==
  SubSeq(lines, 1, pair[1]) \o body \o SubSeq(lines, pair[2] + 1, Len(lines))

Splice(lines, pair, body) ==
  SubSeq(lines, 1, pair[1]) \o body \o SubSeq(lines, pair[2], Len(lines))

\* new[n] has the pairs from n on patched: the last pair is the first.
Patched(lines, bodies) ==
  LET pairs == find_tag_pairs(lines)
      new[n \in 1 .. Len(pairs) + 1] ==
        IF n = Len(pairs) + 1 THEN lines ELSE Splice(new[n + 1], pairs[n], bodies[n])
  IN  new[1]

-----------------------------------------------------------------------------
AutogenInit ==
  /\ config \in Configs
  /\ tree \in Checkouts
  /\ auto = "idle" /\ events = << >> /\ at = 1 /\ any_error = FALSE /\ code = 0
  /\ original = << >>
  /\ kills = 0 /\ edits = 0

LoadsWell(evs) == Len(evs) > 0 /\ Len(evs) <= MAX_EVENTS

load_perf_events ==
  /\ auto = "idle" /\ LoadsWell(config)
  /\ auto' = "patching" /\ events' = config /\ at' = 1 /\ any_error' = FALSE
  /\ UNCHANGED <<config, tree, code, original, kills, edits>>

LoadFails ==
  /\ auto = "idle" /\ ~LoadsWell(config)
  /\ auto' = "exited" /\ code' = 1
  /\ UNCHANGED <<config, tree, events, at, any_error, original, kills, edits>>

Target == FILES[at]
Patching == auto = "patching" /\ at <= Len(FILES)

\* patch_file raises: a marker without its partner, or not as many pairs as there
\* are bodies.
OutOfSync(f) ==
  \/ RaisesRuntimeError(tree[f])
  \/ Len(find_tag_pairs(tree[f])) # Len(TARGETS(events)[f])

\* Fault: a target that is not there is passed over.
SkipTargetSilently ==
  /\ Patching
  /\ Target \in DOMAIN tree => OutOfSync(Target)
  /\ any_error' = (any_error \/ Target \in DOMAIN tree)
  /\ at' = at + 1
  /\ UNCHANGED <<config, tree, auto, events, code, original, kills, edits>>

SkipTarget ==
  /\ Patching
  /\ Target \in DOMAIN tree => OutOfSync(Target)
  /\ any_error' = TRUE
  /\ at' = at + 1
  /\ UNCHANGED <<config, tree, auto, events, code, original, kills, edits>>

NewLines == Patched(tree[Target], TARGETS(events)[Target])

\* The file is well formed, and the patch changes it (TRUE) or not.
Patches(changed) ==
  /\ Patching /\ Target \in DOMAIN tree /\ ~OutOfSync(Target)
  /\ changed <=> NewLines # tree[Target]

LeaveUnchanged ==
  /\ Patches(FALSE)
  /\ at' = at + 1
  /\ UNCHANGED <<config, tree, auto, events, any_error, code, original,
                 kills, edits>>

\* write_text, first half: the file is empty.
OpenForWriting ==
  /\ Patches(TRUE)
  /\ auto' = "writing"
  /\ original' = tree[Target]
  /\ tree' = [tree EXCEPT ![Target] = << >>]
  /\ UNCHANGED <<config, events, at, any_error, code, kills, edits>>

Written == Patched(original, TARGETS(events)[Target])

Write ==
  /\ auto = "writing"
  /\ auto' = "patching" /\ at' = at + 1
  /\ tree' = [tree EXCEPT ![Target] = Written]
  /\ original' = << >>
  /\ UNCHANGED <<config, events, any_error, code, kills, edits>>

AutogenExit ==
  /\ auto = "patching" /\ at > Len(FILES)
  /\ auto' = "exited"
  /\ code' = IF any_error THEN 1 ELSE 0
  /\ UNCHANGED <<config, tree, events, at, any_error, original, kills, edits>>

Killed ==
  /\ kills < MaxKills /\ kills' = kills + 1
  /\ auto' = "idle"
  /\ events' = << >> /\ at' = 1 /\ any_error' = FALSE /\ original' = << >>
  /\ UNCHANGED <<config, code, edits>>

KillBetween == auto = "patching" /\ Killed /\ UNCHANGED tree

\* The file that is being written keeps a prefix.
KillWriting ==
  /\ auto = "writing" /\ Killed
  /\ \E n \in 0 .. Len(Written) - 1 :
       tree' = [tree EXCEPT ![Target] = SubSeq(Written, 1, n)]

\* Another run, of the same list or of an edited one.
StartAgain ==
  /\ auto = "exited"
  /\ auto' = "idle"
  /\ events' = << >> /\ at' = 1 /\ any_error' = FALSE
  /\ UNCHANGED <<config, tree, code, original, kills, edits>>

EditConfig ==
  /\ edits < MaxEdits
  /\ edits' = edits + 1
  /\ config' \in Configs \ {config}
  /\ UNCHANGED <<tree, auto, events, at, any_error, code, original, kills>>

AutogenNext ==
  \/ load_perf_events \/ LoadFails \/ SkipTarget \/ LeaveUnchanged
  \/ OpenForWriting \/ Write \/ AutogenExit
  \/ KillBetween \/ KillWriting \/ StartAgain \/ EditConfig

AutogenSpec == AutogenInit /\ [][AutogenNext]_avars

-----------------------------------------------------------------------------
\* What stands between the markers, pair by pair, and the rest, markers included.
Bodies(lines) ==
  LET pairs == find_tag_pairs(lines)
  IN  [n \in DOMAIN pairs |-> SubSeq(lines, pairs[n][1] + 1, pairs[n][2] - 1)]

\* The n-th piece runs from the END of pair n to the BEGIN of the next.
HandWritten(lines) ==
  LET pairs == find_tag_pairs(lines)
  IN  [n \in 0 .. Len(pairs) |->
         SubSeq(lines, IF n = 0 THEN 1 ELSE pairs[n][2],
                       IF n = Len(pairs) THEN Len(lines) ELSE pairs[n + 1][1])]

\* A file that is written has the new bodies between its markers, each in its own
\* pair, and the rest as it was, however much the bodies grow or shrink
\* (patch_file, back to front).
HandWrittenKept ==
  [][auto = "writing" /\ auto' = "patching" =>
       /\ HandWritten(tree'[Target]) = HandWritten(original)
       /\ Bodies(tree'[Target]) = TARGETS(events)[Target]]_avars

Success == auto = "exited" /\ code = 0

\* A run that exits with 0 leaves all nine files with what the events it loaded
\* generate, also after runs that were killed in the middle of a file: a file
\* that lost its markers, or is not there, is reported.
SuccessMeansInStep ==
  Success =>
    \A f \in ToSet(FILES) :
      f \in DOMAIN tree /\ Bodies(tree[f]) = TARGETS(events)[f]

Bits(f, what) == {<<l[2], l[3]>> : l \in {x \in ToSet(tree[f]) : x[1] = what}}

\* The bit software programs into mhpmevent for an event is the bit the RTL gives
\* it, no two events share one, and the enum is as wide as they need.
EncodingsAgree ==
  Success =>
    LET hw == Bits("types.svh", "MHPMEVENT")
    IN  /\ Bits("common.h", "mhpmevent") = hw
        /\ \A x, y \in hw : x[2] = y[2] => x = y
        /\ <<"MHPMEVENTS", Cardinality(hw)>> \in ToSet(tree["types.svh"])
        /\ \A x \in hw : x[2] < Cardinality(hw)

=============================================================================

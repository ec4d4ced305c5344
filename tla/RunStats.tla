------------------------------ MODULE RunStats ------------------------------
(***************************************************************************)
(* script/get_run_stats.py: the boards print two JSON lines per workload   *)
(* on the serial line, in the order in which flash_bit.tcl flashes them;   *)
(* the script takes every other one from two logs, one per set of          *)
(* counters, and attributes them to the workloads by position.             *)
(*                                                                         *)
(* flash_bit.tcl gives each workload a fixed time, so a log may lack the   *)
(* last lines of a workload.  Such a line is named by the workload and the *)
(* order in which the program prints it.                                   *)
(***************************************************************************)
EXTENDS Naturals, Sequences, FiniteSets

CONSTANTS
  WORKLOADS,  \* in the order of flash_bit.tcl
  Logs        \* the logs there may be: sequences of lines

\* A line: other text, or a JSON dict, which may have been damaged on the way.
Text == [json |-> FALSE]
Dict(w, nth, damaged) == [json |-> TRUE, of |-> w, nth |-> nth, damaged |-> damaged]
LogLines == {Text} \cup {Dict(WORKLOADS[n], nth, damaged) :
                       n \in 1 .. Len(WORKLOADS), nth \in {1, 2}, damaged \in BOOLEAN}

JsonLines(log) == {n \in DOMAIN log : log[n].json}

\* What is in a log was printed in order: its dicts are some of the two per workload.
InPrintOrder(log) ==
  \E place \in [JsonLines(log) -> 1 .. 2 * Len(WORKLOADS)] :
    /\ \A m, n \in JsonLines(log) : m < n => place[m] < place[n]
    /\ \A n \in JsonLines(log) :
         /\ log[n].of = WORKLOADS[(place[n] + 1) \div 2]
         /\ log[n].nth = IF place[n] % 2 = 1 THEN 1 ELSE 2

ASSUME RunStatsAssumption ==
  /\ Len(WORKLOADS) \in Nat
  /\ \A log \in Logs : log \in Seq(LogLines) /\ InPrintOrder(log)

VARIABLES
  logs,          \* "tda", "hw" -> the log
  stats,         \* "tda", "hw", "merge", "done" or "error"
  lineno,        \* the next line, from 1
  json_counter,
  dicts,         \* "tda", "hw" -> the dicts taken
  written        \* workload -> the dicts merged into its file

rvars == <<logs, stats, lineno, json_counter, dicts, written>>

RunStatsInit ==
  /\ logs \in [{"tda", "hw"} -> Logs]
  /\ stats = "tda" /\ lineno = 1 /\ json_counter = 0
  /\ dicts = [l \in {"tda", "hw"} |-> << >>]
  /\ written = << >>

ReadingLog == stats \in {"tda", "hw"}
LogLine == logs[stats][lineno]
MoreLines == ReadingLog /\ lineno <= Len(logs[stats])

\* Fault: the parity is looked at before the counter is incremented: the even dicts
\* are taken.
OddBefore == LogLine.json /\ json_counter % 2 = 1

\* The line is a dict at an odd position.
Odd == LogLine.json /\ json_counter % 2 = 0

SkipLine ==
  /\ MoreLines /\ ~Odd
  /\ lineno' = lineno + 1
  /\ json_counter' = IF LogLine.json THEN json_counter + 1 ELSE json_counter
  /\ UNCHANGED <<logs, stats, dicts, written>>

TakeDict ==
  /\ MoreLines /\ Odd /\ ~LogLine.damaged
  /\ lineno' = lineno + 1
  /\ json_counter' = json_counter + 1
  /\ dicts' = [dicts EXCEPT ![stats] = Append(@, LogLine)]
  /\ UNCHANGED <<logs, stats, written>>

ParseFails ==
  /\ MoreLines /\ Odd /\ LogLine.damaged
  /\ stats' = "error"
  /\ UNCHANGED <<logs, lineno, json_counter, dicts, written>>

EndOfLog ==
  /\ ReadingLog /\ ~MoreLines
  /\ stats' = IF stats = "tda" THEN "hw" ELSE "merge"
  /\ lineno' = 1 /\ json_counter' = 0
  /\ UNCHANGED <<logs, dicts, written>>

AllThere == \A l \in {"tda", "hw"} : Len(dicts[l]) = Len(WORKLOADS)

CountFails ==
  /\ stats = "merge" /\ ~AllThere
  /\ stats' = "error"
  /\ UNCHANGED <<logs, lineno, json_counter, dicts, written>>

\* zip ends with the shortest of the three.
NextPair == Len(written) + 1
MorePairs ==
  /\ NextPair <= Len(WORKLOADS)
  /\ \A l \in {"tda", "hw"} : NextPair <= Len(dicts[l])

\* The two counter sets of the next workload; where both have a key, TDA's stays.
WriteWorkload ==
  /\ stats = "merge" /\ AllThere /\ MorePairs
  /\ written' = Append(written, [l \in {"tda", "hw"} |-> dicts[l][NextPair]])
  /\ UNCHANGED <<logs, stats, lineno, json_counter, dicts>>

AllWritten ==
  /\ stats = "merge" /\ AllThere /\ ~MorePairs
  /\ stats' = "done"
  /\ UNCHANGED <<logs, lineno, json_counter, dicts, written>>

RunStatsNext ==
  \/ SkipLine \/ TakeDict \/ ParseFails \/ EndOfLog \/ CountFails
  \/ WriteWorkload \/ AllWritten

RunStatsSpec == RunStatsInit /\ [][RunStatsNext]_rvars

-----------------------------------------------------------------------------
PrintedDicts(l) == JsonLines(logs[l])
Complete(l) == Cardinality(PrintedDicts(l)) = 2 * Len(WORKLOADS)

\* Files are only written from logs that lack one dict at most, and when both logs
\* are complete each file holds the first dict of its own workload from either log.
\* (A log that lacks one is not noticed, and shifts all that follows: README,
\* section 5.)
RightWorkload ==
  written # << >> =>
    /\ \A l \in {"tda", "hw"} : Cardinality(PrintedDicts(l)) >= 2 * Len(WORKLOADS) - 1
    /\ Complete("tda") /\ Complete("hw") =>
         \A n \in DOMAIN written : \A l \in {"tda", "hw"} :
           written[n][l].of = WORKLOADS[n] /\ written[n][l].nth = 1

=============================================================================

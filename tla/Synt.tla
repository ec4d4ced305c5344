-------------------------------- MODULE Synt --------------------------------
(***************************************************************************)
(* fpga/run_synt.py: one launch resolves the YAML configs of its command   *)
(* line (each a chain of files that extend one another), gives each a run  *)
(* directory and hands them to a pool of workers.  A worker writes         *)
(* params.tcl and config.resolved.yaml and runs Vivado on them; the driver *)
(* collects the outcomes as they come.                                     *)
(*                                                                         *)
(* A path, a name and a setting are atoms.  sys.exit in a worker, like     *)
(* every exception there, is kept in the job's future and raised again     *)
(* where the driver takes the result.                                      *)
(***************************************************************************)
EXTENDS Naturals, FiniteSets, SequencesExt

CONSTANTS
  Launches,   \* command lines: configs, jobs, dry_run, vivado on PATH
  File,       \* the YAML files there are: path -> [extends, own]
  Sections,   \* the settings that are dictionaries themselves
  HexFiles,   \* the memory images there are
  NONE,       \* no value
  RAISED,     \* a worker that ended with an exception
  EARLIER     \* a file an earlier launch left behind

ASSUME SyntAssumption ==
  /\ RAISED # NONE
  /\ {NONE, RAISED} \cap {0, 1} = {}
  /\ "defines" \in Sections

VARIABLES
  args,     \* the command line
  phase,    \* where main() is: "load", "pool", "drain", "exit"
  status,   \* the exit status, NONE before
  seen,     \* the chain of files load_config is resolving
  jobs,     \* the jobs made so far: name, cfg, run_dir, and the chain of files
  work,     \* per job, how far its worker is
  outcome,  \* per job, Vivado's return code or RAISED, NONE before
  results,  \* name -> return code, as collected by main()
  taken,    \* the jobs as_completed has yielded
  disk      \* per run directory, who wrote params.tcl and config.resolved.yaml

loading == <<seen, jobs>>
collecting == <<results, taken>>
working == <<work, outcome, disk>>
svars == <<args, phase, status, loading, collecting, working>>

Rc == {0, 1}
RunDir == {j.run_dir : j \in ToSet(jobs)}

\* main() ends with status s.
Exit(s) ==
  /\ phase' = "exit" /\ status' = s
  /\ UNCHANGED <<args, loading, collecting, working>>

-----------------------------------------------------------------------------
(* Configs.                                                                 *)

Overlay(base, over) ==
  [k \in DOMAIN base \cup DOMAIN over |->
     IF k \in DOMAIN over THEN over[k] ELSE base[k]]

\* Fault: a section is replaced as a whole, its keys are not merged.
deep_merge_shallow(base, over) == Overlay(base, over)

deep_merge(base, over) ==
  [k \in DOMAIN base \cup DOMAIN over |->
     IF k \in DOMAIN base \cap DOMAIN over /\ k \in Sections
       THEN Overlay(base[k], over[k])
       ELSE Overlay(base, over)[k]]

\* The last file of the chain is the one that extends nothing; each one before
\* it is merged over what follows.
Resolved(chain) ==
  LET load[n \in DOMAIN chain] ==
        IF n = Len(chain) THEN File[chain[n]].own
                          ELSE deep_merge(load[n + 1], File[chain[n]].own)
  IN  load[1]

Setting(cfg, k) == IF k \in DOMAIN cfg THEN cfg[k] ELSE NONE
Either(a, b) == IF a = NONE THEN b ELSE a

\* A config without run_name is named after its file; a run directory is named
\* after the run and lies in run_root.
Job(chain) ==
  LET cfg  == Resolved(chain)
      name == Either(Setting(cfg, "run_name"), File[chain[1]].basename)
  IN  [chain |-> chain, cfg |-> cfg, name |-> name,
       run_dir |-> <<Setting(cfg, "run_root"), name>>]

\* What a config, or a file, sets macros to.
Defines(cfg) ==
  IF "defines" \in DOMAIN cfg THEN cfg["defines"] ELSE [k \in {} |-> NONE]

\* The macros a config defines: one set to false is left out.
build_defines(cfg) ==
  LET d == Defines(cfg) IN {<<k, d[k]>> : k \in {i \in DOMAIN d : d[i] # "false"}}

-----------------------------------------------------------------------------
SyntInit ==
  /\ args \in Launches
  /\ phase = "load" /\ status = NONE
  /\ seen = <<>>
  /\ jobs = <<>> /\ work = <<>> /\ outcome = <<>>
  /\ results = [n \in {} |-> NONE] /\ taken = {}
  /\ disk = [d \in {} |-> NONE]

NoVivado ==
  /\ phase = "load" /\ ~args.vivado
  /\ Exit(1)

\* The file load_config opens next.
Opened ==
  IF seen = <<>> THEN args.configs[Len(jobs) + 1] ELSE File[Last(seen)].extends

Loading == phase = "load" /\ args.vivado /\ Len(jobs) < Len(args.configs)

RejectConfig ==
  /\ Loading
  /\ Opened \in ToSet(seen) \/ Opened \notin DOMAIN File
  /\ Exit(1)

Extend ==
  /\ Loading
  /\ Opened \notin ToSet(seen) /\ Opened \in DOMAIN File
  /\ File[Opened].extends # NONE
  /\ seen' = Append(seen, Opened)
  /\ UNCHANGED <<args, phase, status, jobs, collecting, working>>

\* The job of the config whose chain ends with the file just opened.
NewJob == Job(Append(seen, Opened))

ChainEnds ==
  /\ Loading
  /\ Opened \notin ToSet(seen) /\ Opened \in DOMAIN File
  /\ File[Opened].extends = NONE

\* Fault: run directories are compared nowhere, names neither.
CollidesNever == FALSE

Collides == NewJob.name \in {j.name : j \in ToSet(jobs)}

RejectName ==
  /\ ChainEnds /\ Collides
  /\ Exit(1)

AddJob ==
  /\ ChainEnds /\ ~Collides
  /\ jobs' = Append(jobs, NewJob)
  /\ seen' = <<>>
  /\ UNCHANGED <<args, phase, status, collecting, working>>

\* What an earlier launch may have left in a run directory.
Left == [params : {NONE, EARLIER}, resolved : {NONE, EARLIER}]

Submit ==
  /\ phase = "load" /\ args.vivado /\ Len(jobs) = Len(args.configs)
  /\ phase' = "pool"
  /\ work' = [j \in DOMAIN jobs |-> "queued"]
  /\ outcome' = [j \in DOMAIN jobs |-> NONE]
  /\ \E l \in Left : disk' = [d \in RunDir |-> l]
  /\ UNCHANGED <<args, status, loading, collecting>>

-----------------------------------------------------------------------------
(* A worker, run_one.                                                       *)

mainvars == <<args, phase, status, loading, collecting>>

\* The pool's threads take the jobs in the order of their submission.
Busy == {j \in DOMAIN work : work[j] \notin {"queued", "done"}}
Queued == {j \in DOMAIN work : work[j] = "queued"}

TakeJob(j) ==
  /\ j \in Queued /\ \A k \in Queued : j <= k
  /\ Cardinality(Busy) < args.jobs
  /\ work' = [work EXCEPT ![j] = "started"]
  /\ UNCHANGED <<outcome, disk, mainvars>>

HexMissing(cfg) ==
  Setting(cfg, "hex_path") \notin HexFiles \cup {NONE}

\* build_defines exits before params.tcl is opened.
ExitInWorker(j) ==
  /\ work[j] = "started" /\ HexMissing(jobs[j].cfg)
  /\ work' = [work EXCEPT ![j] = "done"]
  /\ outcome' = [outcome EXCEPT ![j] = RAISED]
  /\ UNCHANGED <<disk, mainvars>>

emit_params_tcl(j) ==
  /\ work[j] = "started" /\ ~HexMissing(jobs[j].cfg)
  /\ disk' = [disk EXCEPT ![jobs[j].run_dir].params = j]
  /\ work' = [work EXCEPT ![j] = "emitted"]
  /\ UNCHANGED <<outcome, mainvars>>

DumpResolved(j) ==
  /\ work[j] = "emitted"
  /\ disk' = [disk EXCEPT ![jobs[j].run_dir].resolved = j]
  /\ work' = [work EXCEPT ![j] = IF args.dry_run THEN "done" ELSE "vivado"]
  /\ UNCHANGED <<outcome, mainvars>>

VivadoEnds(j) ==
  /\ work[j] = "vivado"
  /\ \E rc \in Rc : outcome' = [outcome EXCEPT ![j] = rc]
  /\ work' = [work EXCEPT ![j] = "done"]
  /\ UNCHANGED <<disk, mainvars>>

Worker(j) ==
  TakeJob(j) \/ ExitInWorker(j) \/ emit_params_tcl(j) \/ DumpResolved(j)
    \/ VivadoEnds(j)

-----------------------------------------------------------------------------
(* main() collects.                                                         *)

Completed == {j \in DOMAIN work \ taken : work[j] = "done"}

SkipResult(j) ==
  /\ phase = "pool" /\ j \in Completed /\ args.dry_run
  /\ taken' = taken \cup {j}
  /\ UNCHANGED <<args, phase, status, loading, results, working>>

StoreResult(j) ==
  /\ phase = "pool" /\ j \in Completed /\ ~args.dry_run
  /\ outcome[j] # RAISED
  /\ taken' = taken \cup {j}
  /\ results' = Overlay(results, [n \in {jobs[j].name} |-> outcome[j]])
  /\ UNCHANGED <<args, phase, status, loading, working>>

\* Fault: the driver goes on to the next result.
RaiseResultIgnored(j) ==
  /\ phase = "pool" /\ j \in Completed /\ ~args.dry_run
  /\ outcome[j] = RAISED
  /\ taken' = taken \cup {j}
  /\ UNCHANGED <<args, phase, status, loading, results, working>>

\* Fault: leaving the pool cancels the jobs that wait in its queue.
RaiseResultCancels(j) ==
  /\ phase = "pool" /\ j \in Completed /\ ~args.dry_run
  /\ outcome[j] = RAISED
  /\ taken' = taken \cup {j}
  /\ phase' = "drain"
  /\ work' = [k \in DOMAIN work |-> IF k \in Queued THEN "cancelled" ELSE work[k]]
  /\ UNCHANGED <<args, status, loading, outcome, results, disk>>

\* result() raises in main(); the with statement then waits for the pool, which
\* still runs every job it was given.
RaiseResult(j) ==
  /\ phase = "pool" /\ j \in Completed /\ ~args.dry_run
  /\ outcome[j] = RAISED
  /\ taken' = taken \cup {j}
  /\ phase' = "drain"
  /\ UNCHANGED <<args, status, loading, results, working>>

PoolEmpty == \A j \in DOMAIN work : work[j] = "done"

\* Fault: the exception leaves main() while workers still run.
LeaveRaisingEarly ==
  /\ phase = "drain" /\ Exit(1)

LeaveRaising ==
  /\ phase = "drain" /\ PoolEmpty
  /\ Exit(1)

Leave ==
  /\ phase = "pool" /\ taken = DOMAIN work
  /\ Exit(IF args.dry_run \/ \A n \in DOMAIN results : results[n] = 0
            THEN 0 ELSE 1)

SyntNext ==
  \/ NoVivado \/ RejectConfig \/ Extend \/ RejectName \/ AddJob \/ Submit
  \/ \E j \in DOMAIN work :
       Worker(j) \/ SkipResult(j) \/ StoreResult(j) \/ RaiseResult(j)
  \/ LeaveRaising \/ Leave

\* Neither the driver nor a worker stops for good, and Vivado ends.
SyntSpec == SyntInit /\ [][SyntNext]_svars /\ WF_svars(SyntNext)

-----------------------------------------------------------------------------
SyntTypeOK ==
  /\ args \in Launches
  /\ phase \in {"load", "pool", "drain", "exit"}
  /\ status \in Rc \cup {NONE}
  /\ seen \in Seq(DOMAIN File)
  /\ \A j \in DOMAIN jobs : jobs[j].chain \in Seq(DOMAIN File)
  /\ DOMAIN outcome = DOMAIN work
  /\ \A j \in DOMAIN work :
       /\ work[j] \in {"queued", "started", "emitted", "vivado", "done"}
       /\ outcome[j] \in Rc \cup {NONE, RAISED}
  /\ taken \subseteq DOMAIN work
  /\ \A n \in DOMAIN results : results[n] \in Rc

\* The launch succeeds only if every config of the command line had a job and
\* Vivado returned 0 for each (main's last line): an exception in a worker, a
\* second job of the same name or a config that did not load never passes for
\* success.
SuccessMeansAll ==
  status = 0 /\ ~args.dry_run =>
    /\ Len(jobs) = Len(args.configs)
    /\ \A j \in DOMAIN jobs :
         jobs[j].chain[1] = args.configs[j] /\ outcome[j] = 0

\* While Vivado runs for a job, the parameters and the resolved config in its
\* directory are its own, whatever runs beside it or ran there before.
OwnArtifacts ==
  \A j \in DOMAIN work :
    work[j] = "vivado" => disk[jobs[j].run_dir] = [params |-> j, resolved |-> j]

\* The driver never ends while a worker has a job left: a failure does not leave
\* Vivado processes behind.
NoOrphans == phase = "exit" => PoolEmpty

\* Every job handed to the pool runs to its end, also after another one raised
\* in its worker, and then the driver ends.
EveryJobRuns == phase = "pool" ~> phase = "exit" /\ PoolEmpty

\* A macro reaches Vivado iff the nearest file of the extends chain that mentions
\* it does not set it to false, and with the value that file gives (README.md:353,
\* "add new or override existing parameters").
DefinesOfNearest ==
  \A j \in DOMAIN jobs :
    LET own(n) == Defines(File[jobs[j].chain[n]].own)
        setters(k) == {n \in DOMAIN jobs[j].chain : k \in DOMAIN own(n)}
        nearest(k) == own(CHOOSE n \in setters(k) : \A i \in setters(k) : n <= i)[k]
        names == UNION {DOMAIN own(n) : n \in DOMAIN jobs[j].chain}
    IN  build_defines(jobs[j].cfg) =
          {<<k, nearest(k)>> : k \in {i \in names : nearest(i) # "false"}}

\* run_synt.py:202: a dry run generates params.tcl and config.resolved.yaml for
\* the configs that would run.
DryRunGenerates ==
  status = 0 /\ args.dry_run =>
    \A j \in DOMAIN jobs : disk[jobs[j].run_dir] = [params |-> j, resolved |-> j]

=============================================================================

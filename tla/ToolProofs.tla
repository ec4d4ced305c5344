----------------------------- MODULE ToolProofs -----------------------------
(***************************************************************************)
(* What the Python scripts guarantee for every input: a launch of          *)
(* run_synt.py for every command line and every set of config files        *)
(* (success means that Vivado succeeded for each config, no worker is left *)
(* behind, Vivado reads the files of its own job); parse_filelist.py for   *)
(* lists of any length; get_run_stats.py for any number of workloads.      *)
(***************************************************************************)
EXTENDS Synt, FileList, RunStats, FiniteSetTheorems, NaturalsInduction, TLAPS

-----------------------------------------------------------------------------
(* The FPGA flow driver.                                                   *)

\* Everything that can be a job.
Jobs == {Job(c) : c \in Seq(DOMAIN File) \ {<< >>}}

Who == {NONE, EARLIER} \cup Nat

\* The jobs are those of the configs, in their order, and so is the chain of files
\* that is being resolved.
InOrder ==
  /\ jobs \in Seq(Jobs) /\ seen \in Seq(DOMAIN File)
  /\ \A j \in DOMAIN jobs : jobs[j].chain[1] = args.configs[j]
  /\ seen # << >> => seen[1] = args.configs[Len(jobs) + 1]

OwnNames == \A i, j \in DOMAIN jobs : jobs[i].name = jobs[j].name => i = j

\* There is one worker per job from Submit on, and a status only at the end.
Phases ==
  /\ phase \in {"load", "pool", "drain", "exit"}
  /\ status # NONE => phase = "exit"
  /\ DOMAIN outcome = DOMAIN work
  /\ phase = "load" => DOMAIN work = {} /\ taken = {}
  /\ phase \in {"pool", "drain"} => DOMAIN work = DOMAIN jobs
                                    /\ Len(jobs) = Len(args.configs)
  /\ DOMAIN work # {} => DOMAIN work = DOMAIN jobs

\* What main() has collected is the outcome of jobs that are done.
Collected ==
  /\ taken \subseteq DOMAIN work
  /\ \A j \in taken : work[j] = "done"
  /\ phase = "pool" /\ ~args.dry_run =>
       \A j \in taken : /\ outcome[j] \in Rc
                        /\ jobs[j].name \in DOMAIN results
                        /\ results[jobs[j].name] = outcome[j]

\* A worker that has emitted params.tcl still finds its own there.
Artifacts ==
  /\ DOMAIN work # {} => disk \in [RunDir -> [params : Who, resolved : Who]]
  /\ \A j \in DOMAIN work :
       work[j] \in {"emitted", "vivado"} => disk[jobs[j].run_dir].params = j
  /\ OwnArtifacts

\* Vivado returns 0 or 1, an exception is kept as RAISED, and a finished job of a
\* launch that is no dry run has one of these.
Outcomes ==
  \A j \in DOMAIN work :
    /\ outcome[j] \in Rc \cup {NONE, RAISED}
    /\ work[j] = "done" /\ ~args.dry_run => outcome[j] # NONE

SyntInductive ==
  /\ Outcomes
  /\ InOrder /\ OwnNames /\ Phases /\ Collected /\ Artifacts /\ NoOrphans /\ SuccessMeansAll

-----------------------------------------------------------------------------
\* A job keeps the chain it was made from, and its directory its name.
LEMMA JobFields ==
  ASSUME NEW c
  PROVE  /\ Job(c).chain = c /\ Job(c).cfg = Resolved(c)
         /\ Job(c).run_dir[2] = Job(c).name
BY DEF Job

\* Jobs with different names have different run directories.
LEMMA OwnDirectories ==
  ASSUME InOrder, OwnNames, NEW i \in DOMAIN jobs, NEW j \in DOMAIN jobs,
         jobs[i].run_dir = jobs[j].run_dir
  PROVE  i = j
<1>1. PICK c : jobs[i] = Job(c)
  BY DEF InOrder, Jobs
<1>2. PICK d : jobs[j] = Job(d)
  BY DEF InOrder, Jobs
<1>3. jobs[i].name = jobs[j].name
  BY <1>1, <1>2, JobFields
<1> QED
  BY <1>3 DEF OwnNames

\* The directory of a job is one of those Submit prepares.
LEMMA HasDirectory ==
  ASSUME NEW j \in DOMAIN jobs
  PROVE  jobs[j].run_dir \in RunDir
BY DEF RunDir, ToSet

-----------------------------------------------------------------------------
LEMMA InitInductive == SyntInit => SyntInductive
<1> SUFFICES ASSUME SyntInit PROVE SyntInductive
  OBVIOUS
<1>1. /\ jobs = << >> /\ work = << >> /\ outcome = << >> /\ seen = << >>
      /\ phase = "load" /\ status = NONE /\ taken = {}
  BY DEF SyntInit
<1>2. Outcomes /\ InOrder /\ OwnNames /\ Phases /\ Collected
  BY <1>1 DEF Outcomes, InOrder, OwnNames, Phases, Collected
<1>3. Artifacts /\ NoOrphans
  BY <1>1 DEF Artifacts, OwnArtifacts, NoOrphans, PoolEmpty
<1>4. SuccessMeansAll
  BY <1>1, SyntAssumption DEF SuccessMeansAll
<1> QED
  BY <1>2, <1>3, <1>4 DEF SyntInductive

\* A step of load_config: the jobs may grow by the one that is complete.
LEMMA LoadStep ==
  ASSUME SyntInductive,
         Extend \/ AddJob
  PROVE  SyntInductive'
<1> USE DEF SyntInductive
<1>1. phase = "load" /\ phase' = "load" /\ args' = args /\ status' = status
      /\ work' = work /\ outcome' = outcome /\ disk' = disk /\ taken' = taken
      /\ results' = results
  BY DEF Extend, AddJob, Loading, ChainEnds, collecting, working
<1>2. DOMAIN work = {} /\ taken = {} /\ status = NONE
  BY <1>1 DEF Phases
<1>3. InOrder' /\ OwnNames'
  <2>1. CASE Extend
    <3>1. /\ jobs' = jobs /\ seen' = Append(seen, Opened) /\ Opened \in DOMAIN File
          /\ jobs \in Seq(Jobs) /\ seen \in Seq(DOMAIN File)
      BY <2>1 DEF Extend, InOrder
    <3>2. seen' \in Seq(DOMAIN File)
      BY <3>1
    <3>3. seen'[1] = args.configs[Len(jobs) + 1]
      <4>1. CASE seen = << >>
        BY <3>1, <4>1 DEF Opened
      <4>2. CASE seen # << >>
        BY <3>1, <4>2 DEF InOrder
      <4> QED
        BY <4>1, <4>2
    <3> QED
      BY <1>1, <3>1, <3>2, <3>3 DEF InOrder, OwnNames
  <2>2. CASE AddJob
    <3>1. /\ jobs' = Append(jobs, NewJob) /\ seen' = << >> /\ Opened \in DOMAIN File
          /\ jobs \in Seq(Jobs) /\ seen \in Seq(DOMAIN File) /\ ~Collides
      BY <2>2 DEF AddJob, ChainEnds, InOrder
    <3> DEFINE c == Append(seen, Opened)
    <3>2. c \in Seq(DOMAIN File) \ {<< >>} /\ c[1] = args.configs[Len(jobs) + 1]
      <4>1. CASE seen = << >>
        BY <3>1, <4>1 DEF Opened
      <4>2. CASE seen # << >>
        BY <3>1, <4>2 DEF InOrder
      <4> QED
        BY <4>1, <4>2
    <3>3. NewJob \in Jobs /\ NewJob.chain = c
      BY <3>2, JobFields DEF NewJob, Jobs
    <3>4. \A j \in DOMAIN jobs : NewJob.name # jobs[j].name
      BY <3>1 DEF Collides, ToSet
    <3> HIDE DEF c
    <3>5. /\ jobs' \in Seq(Jobs) /\ Len(jobs') = Len(jobs) + 1
          /\ DOMAIN jobs' = 1 .. Len(jobs) + 1
          /\ \A j \in DOMAIN jobs : jobs'[j] = jobs[j] /\ j \in 1 .. Len(jobs)
          /\ jobs'[Len(jobs) + 1] = NewJob
          /\ \A j \in DOMAIN jobs' : j \in DOMAIN jobs \/ j = Len(jobs) + 1
      BY <3>1, <3>3
    <3>6. InOrder'
      BY <1>1, <3>1, <3>2, <3>3, <3>5 DEF InOrder
    <3>7. OwnNames'
      BY <3>4, <3>5 DEF OwnNames
    <3> QED
      BY <3>6, <3>7
  <2> QED
    BY <2>1, <2>2
<1>4. Outcomes' /\ Phases' /\ Collected' /\ Artifacts' /\ NoOrphans'
  BY <1>1, <1>2 DEF Outcomes, Phases, Collected, Artifacts, OwnArtifacts, NoOrphans
<1>5. SuccessMeansAll'
  BY <1>1, <1>2, SyntAssumption DEF SuccessMeansAll
<1> QED
  BY <1>3, <1>4, <1>5

\* main() ends: with status 0 only when every result that counts is 0.
LEMMA ExitStep ==
  ASSUME SyntInductive,
         NoVivado \/ RejectConfig \/ RejectName \/ LeaveRaising \/ Leave
  PROVE  SyntInductive'
<1> USE DEF SyntInductive
<1>1. /\ phase' = "exit" /\ args' = args /\ seen' = seen /\ jobs' = jobs
      /\ work' = work /\ outcome' = outcome /\ disk' = disk
      /\ results' = results /\ taken' = taken
  BY DEF NoVivado, RejectConfig, RejectName, LeaveRaising, Leave, Exit,
         loading, collecting, working
<1>2. PoolEmpty
  <2>1. CASE NoVivado \/ RejectConfig \/ RejectName
    BY <2>1 DEF NoVivado, RejectConfig, RejectName, ChainEnds, Loading, Phases, PoolEmpty
  <2>2. CASE LeaveRaising
    BY <2>2 DEF LeaveRaising
  <2>3. CASE Leave
    BY <2>3 DEF Leave, Collected, PoolEmpty
  <2> QED
    BY <2>1, <2>2, <2>3
<1>3. /\ Outcomes' /\ InOrder' /\ OwnNames' /\ Phases' /\ Collected' /\ Artifacts'
      /\ NoOrphans'
  BY <1>1, <1>2 DEF Outcomes, InOrder, OwnNames, Phases, Collected, Artifacts,
                    OwnArtifacts, NoOrphans, PoolEmpty, RunDir
<1>4. SuccessMeansAll'
  <2>1. CASE Leave
    <3>1. SUFFICES ASSUME status' = 0, ~args.dry_run
                   PROVE  /\ Len(jobs) = Len(args.configs)
                          /\ \A j \in DOMAIN jobs :
                               jobs[j].chain[1] = args.configs[j] /\ outcome[j] = 0
      BY <1>1 DEF SuccessMeansAll
    <3>2. phase = "pool" /\ taken = DOMAIN work /\ DOMAIN work = DOMAIN jobs
          /\ Len(jobs) = Len(args.configs)
      BY <2>1 DEF Leave, Phases
    <3>3. \A n \in DOMAIN results : results[n] = 0
      BY <2>1, <3>1 DEF Leave, Exit
    <3> QED
      BY <3>1, <3>2, <3>3 DEF Collected, InOrder
  <2>2. CASE NoVivado \/ RejectConfig \/ RejectName \/ LeaveRaising
    <3>1. status' = 1
      BY <2>2 DEF NoVivado, RejectConfig, RejectName, LeaveRaising, Exit
    <3> QED
      BY <3>1 DEF SuccessMeansAll
  <2> QED
    BY <2>1, <2>2
<1> QED
  BY <1>3, <1>4

\* The pool starts: every directory holds what an earlier launch left there.
LEMMA SubmitStep ==
  ASSUME SyntInductive, Submit
  PROVE  SyntInductive'
<1> USE DEF SyntInductive
<1>1. /\ phase = "load" /\ phase' = "pool" /\ args' = args /\ status' = status
      /\ seen' = seen /\ jobs' = jobs /\ results' = results /\ taken' = taken
      /\ Len(jobs) = Len(args.configs)
      /\ work' = [j \in DOMAIN jobs |-> "queued"]
      /\ outcome' = [j \in DOMAIN jobs |-> NONE]
  BY DEF Submit, loading, collecting
<1>2. taken = {} /\ status = NONE
  BY <1>1 DEF Phases
<1>3. Outcomes' /\ InOrder' /\ OwnNames' /\ Phases' /\ Collected' /\ NoOrphans'
  BY <1>1, <1>2 DEF Outcomes, InOrder, OwnNames, Phases, Collected, NoOrphans
<1>4. Artifacts'
  <2>1. PICK l \in Left : disk' = [d \in RunDir |-> l]
    BY DEF Submit
  <2>2. l \in [params : Who, resolved : Who]
    BY DEF Left, Who
  <2>3. RunDir' = RunDir
    BY <1>1 DEF RunDir
  <2>4. \A j \in DOMAIN work' : work'[j] = "queued"
    BY <1>1
  <2> QED
    BY <2>1, <2>2, <2>3, <2>4 DEF Artifacts, OwnArtifacts
<1>5. SuccessMeansAll'
  BY <1>1, <1>2, SyntAssumption DEF SuccessMeansAll
<1> QED
  BY <1>3, <1>4, <1>5

-----------------------------------------------------------------------------
\* A worker moves only its own entry, and only while the driver is there.
LEMMA WorkerRunning ==
  ASSUME SyntInductive, NEW j \in DOMAIN work, work[j] # "done"
  PROVE  /\ phase \in {"pool", "drain"} /\ status = NONE /\ j \notin taken
         /\ DOMAIN work = DOMAIN jobs /\ DOMAIN outcome = DOMAIN work /\ j \in Nat
         /\ disk \in [RunDir -> [params : Who, resolved : Who]]
         /\ jobs[j].run_dir \in RunDir
<1> USE DEF SyntInductive
<1>1. phase # "load" /\ DOMAIN work = DOMAIN jobs /\ DOMAIN outcome = DOMAIN work
  BY DEF Phases
<1>2. phase # "exit"
  BY DEF NoOrphans, PoolEmpty
<1>3. j \notin taken
  BY DEF Collected
<1>4. phase \in {"pool", "drain"} /\ status = NONE
  BY <1>1, <1>2 DEF Phases
<1>5. j \in Nat
  BY <1>1 DEF InOrder
<1>6. disk \in [RunDir -> [params : Who, resolved : Who]]
  BY DEF Artifacts
<1>7. jobs[j].run_dir \in RunDir
  BY <1>1, HasDirectory
<1> QED
  BY <1>1, <1>3, <1>4, <1>5, <1>6, <1>7

\* What does not depend on the files holds after every step of a worker.
LEMMA WorkerFrame ==
  ASSUME SyntInductive, NEW j \in DOMAIN work, work[j] # "done",
         UNCHANGED mainvars,
         NEW w, work' = [work EXCEPT ![j] = w],
         DOMAIN outcome' = DOMAIN outcome,
         \A k \in DOMAIN outcome : k # j => outcome'[k] = outcome[k]
  PROVE  InOrder' /\ OwnNames' /\ Phases' /\ Collected' /\ NoOrphans' /\ SuccessMeansAll'
<1> USE DEF SyntInductive
<1>1. /\ args' = args /\ phase' = phase /\ status' = status /\ seen' = seen
      /\ jobs' = jobs /\ results' = results /\ taken' = taken
  BY DEF mainvars, loading, collecting
<1>2. /\ phase \in {"pool", "drain"} /\ status = NONE /\ j \notin taken
      /\ DOMAIN outcome = DOMAIN work
  BY WorkerRunning
<1>3. InOrder' /\ OwnNames'
  BY <1>1 DEF InOrder, OwnNames
<1>4. DOMAIN work' = DOMAIN work /\ DOMAIN outcome' = DOMAIN outcome
  OBVIOUS
<1>5. Phases'
  BY <1>1, <1>4 DEF Phases
<1>6. \A k \in DOMAIN work : k # j => work'[k] = work[k] /\ outcome'[k] = outcome[k]
  BY <1>2
<1>7. \A k \in taken : k \in DOMAIN work /\ k # j
  BY <1>2 DEF Collected
<1>8. Collected'
  BY <1>1, <1>4, <1>6, <1>7 DEF Collected
<1>9. NoOrphans' /\ SuccessMeansAll'
  BY <1>1, <1>2, SyntAssumption DEF NoOrphans, SuccessMeansAll
<1> QED
  BY <1>3, <1>5, <1>8, <1>9

\* A step of a worker: another job's directory is another directory.
LEMMA WorkerStep ==
  ASSUME SyntInductive, NEW j \in DOMAIN work, Worker(j)
  PROVE  SyntInductive'
<1> USE DEF SyntInductive
<1>1. /\ UNCHANGED mainvars /\ work[j] # "done"
      /\ \E w : work' = [work EXCEPT ![j] = w]
  BY DEF Worker, TakeJob, ExitInWorker, emit_params_tcl, DumpResolved, VivadoEnds, Queued
<1>2. jobs' = jobs /\ RunDir' = RunDir
  BY <1>1 DEF mainvars, loading, RunDir
<1>3. /\ DOMAIN work = DOMAIN jobs /\ DOMAIN outcome = DOMAIN work /\ j \in Nat
      /\ disk \in [RunDir -> [params : Who, resolved : Who]]
      /\ jobs[j].run_dir \in RunDir
  BY <1>1, WorkerRunning
<1>4. DOMAIN outcome' = DOMAIN outcome
      /\ \A k \in DOMAIN outcome : k # j => outcome'[k] = outcome[k]
  <2>1. CASE ExitInWorker(j) \/ VivadoEnds(j)
    BY <2>1 DEF ExitInWorker, VivadoEnds
  <2>2. CASE outcome' = outcome
    BY <2>2
  <2> QED
    BY <2>1, <2>2 DEF Worker, TakeJob, emit_params_tcl, DumpResolved
<1>5. InOrder' /\ OwnNames' /\ Phases' /\ Collected' /\ NoOrphans' /\ SuccessMeansAll'
  BY <1>1, <1>4, WorkerFrame
<1>6. DOMAIN work' = DOMAIN work
      /\ \A k \in DOMAIN work : k # j => /\ work'[k] = work[k]
                                         /\ jobs[k].run_dir # jobs[j].run_dir
  BY <1>1, <1>3, OwnDirectories
<1>7. Artifacts'
  <2> DEFINE d == jobs[j].run_dir
  <2>1. CASE emit_params_tcl(j)
    <3>1. disk' = [disk EXCEPT ![d].params = j] /\ work'[j] = "emitted"
      BY <2>1 DEF emit_params_tcl
    <3>2. disk' \in [RunDir -> [params : Who, resolved : Who]]
      BY <3>1, <1>3 DEF Who
    <3>3. disk'[d].params = j /\ \A e \in RunDir : e # d => disk'[e] = disk[e]
      BY <3>1, <1>3
    <3>4. \A k \in DOMAIN work : jobs[k].run_dir \in RunDir
      BY <1>3, HasDirectory
    <3> QED
      BY <1>2, <1>3, <1>6, <3>1, <3>2, <3>3, <3>4 DEF Artifacts, OwnArtifacts
  <2>2. CASE DumpResolved(j)
    <3>1. disk' = [disk EXCEPT ![d].resolved = j] /\ work[j] = "emitted"
      BY <2>2 DEF DumpResolved
    <3>2. disk' \in [RunDir -> [params : Who, resolved : Who]]
      BY <3>1, <1>3 DEF Who
    <3>3. disk[d].params = j
      BY <3>1 DEF Artifacts
    <3>4. disk'[d] = [params |-> j, resolved |-> j]
          /\ \A e \in RunDir : e # d => disk'[e] = disk[e]
      BY <3>1, <3>3, <1>3
    <3>5. \A k \in DOMAIN work : jobs[k].run_dir \in RunDir
      BY <1>3, HasDirectory
    <3> QED
      BY <1>2, <1>3, <1>6, <3>2, <3>4, <3>5 DEF Artifacts, OwnArtifacts
  <2>3. CASE TakeJob(j) \/ ExitInWorker(j) \/ VivadoEnds(j)
    <3>1. disk' = disk /\ work'[j] \in {"started", "done"}
      BY <2>3 DEF TakeJob, ExitInWorker, VivadoEnds
    <3> QED
      BY <1>2, <1>3, <1>6, <3>1 DEF Artifacts, OwnArtifacts
  <2> QED
    BY <2>1, <2>2, <2>3 DEF Worker
<1>8. Outcomes'
  <2>1. \A k \in DOMAIN work : k # j => outcome'[k] = outcome[k]
    BY <1>3, <1>4
  <2>2. outcome'[j] \in Rc \cup {NONE, RAISED}
        /\ (work'[j] = "done" /\ ~args.dry_run => outcome'[j] # NONE)
    <3>1. CASE ExitInWorker(j)
      BY <3>1, <1>3, SyntAssumption DEF ExitInWorker
    <3>2. CASE VivadoEnds(j)
      BY <3>2, <1>3, SyntAssumption DEF VivadoEnds, Rc
    <3>3. CASE TakeJob(j) \/ emit_params_tcl(j) \/ DumpResolved(j)
      <4>1. outcome' = outcome /\ (work'[j] = "done" => args.dry_run)
        BY <3>3 DEF TakeJob, emit_params_tcl, DumpResolved
      <4> QED
        BY <4>1 DEF Outcomes
    <3> QED
      BY <3>1, <3>2, <3>3 DEF Worker
  <2>3. args' = args
    BY <1>1 DEF mainvars
  <2> QED
    BY <1>6, <2>1, <2>2, <2>3 DEF Outcomes
<1> QED
  BY <1>5, <1>7, <1>8

-----------------------------------------------------------------------------
\* main() takes a result: it is stored under a name no other job has.
LEMMA TakeStep ==
  ASSUME SyntInductive, NEW j \in DOMAIN work,
         SkipResult(j) \/ StoreResult(j) \/ RaiseResult(j)
  PROVE  SyntInductive'
<1> USE DEF SyntInductive
<1>1. /\ args' = args /\ status' = status /\ seen' = seen /\ jobs' = jobs
      /\ work' = work /\ outcome' = outcome /\ disk' = disk
      /\ phase = "pool" /\ work[j] = "done" /\ taken' = taken \cup {j}
  BY DEF SkipResult, StoreResult, RaiseResult, Completed, loading, working
<1>2. status = NONE /\ DOMAIN work = DOMAIN jobs /\ Len(jobs) = Len(args.configs)
  BY <1>1 DEF Phases
<1>3. phase' \in {"pool", "drain"}
  BY <1>1 DEF SkipResult, StoreResult, RaiseResult
<1>4. Outcomes' /\ InOrder' /\ OwnNames' /\ Phases' /\ Artifacts' /\ NoOrphans'
  BY <1>1, <1>2, <1>3 DEF Outcomes, InOrder, OwnNames, Phases, Artifacts, OwnArtifacts, NoOrphans,
                          RunDir
<1>5. SuccessMeansAll'
  BY <1>1, <1>2, SyntAssumption DEF SuccessMeansAll
<1>6. Collected'
  <2>1. taken' \subseteq DOMAIN work' /\ \A k \in taken' : work'[k] = "done"
    BY <1>1 DEF Collected
  <2>2. CASE SkipResult(j)
    BY <1>1, <2>1, <2>2 DEF SkipResult, Collected
  <2>3. CASE RaiseResult(j)
    BY <1>1, <2>1, <2>3 DEF RaiseResult, Collected
  <2>4. CASE StoreResult(j)
    <3>1. results' = Overlay(results, [n \in {jobs[j].name} |-> outcome[j]]) /\ ~args.dry_run
      BY <2>4 DEF StoreResult
    <3>2. outcome[j] \in Rc
      BY <1>1, <3>1, <2>4 DEF StoreResult, Outcomes
    <3>3. jobs[j].name \in DOMAIN results' /\ results'[jobs[j].name] = outcome[j]
      BY <3>1 DEF Overlay
    <3>4. \A k \in taken : k # j => jobs[k].name # jobs[j].name
      BY <1>2 DEF OwnNames, Collected
    <3>5. \A n \in DOMAIN results : n # jobs[j].name =>
            n \in DOMAIN results' /\ results'[n] = results[n]
      BY <3>1 DEF Overlay
    <3> QED
      BY <1>1, <2>1, <3>1, <3>2, <3>3, <3>4, <3>5 DEF Collected
  <2> QED
    BY <2>2, <2>3, <2>4
<1> QED
  BY <1>4, <1>5, <1>6

-----------------------------------------------------------------------------
\* Every step of a launch keeps the invariant.
LEMMA StepInductive == SyntInductive /\ [SyntNext]_svars => SyntInductive'
<1> SUFFICES ASSUME SyntInductive, [SyntNext]_svars PROVE SyntInductive'
  OBVIOUS
<1>1. CASE Extend \/ AddJob
  BY <1>1, LoadStep
<1>2. CASE NoVivado \/ RejectConfig \/ RejectName \/ LeaveRaising \/ Leave
  BY <1>2, ExitStep
<1>3. CASE Submit
  BY <1>3, SubmitStep
<1>4. ASSUME NEW j \in DOMAIN work,
             Worker(j) \/ SkipResult(j) \/ StoreResult(j) \/ RaiseResult(j)
      PROVE  SyntInductive'
  BY <1>4, WorkerStep, TakeStep
<1>5. CASE UNCHANGED svars
  BY <1>5 DEF svars, loading, collecting, working, SyntInductive, Outcomes, InOrder, OwnNames, Phases,
              Collected, Artifacts, OwnArtifacts, RunDir, NoOrphans, PoolEmpty,
              SuccessMeansAll
<1> QED
  BY <1>1, <1>2, <1>3, <1>4, <1>5 DEF SyntNext

\* What a launch maintains: the jobs in the order of the command line, one name
\* each, and results that are the outcomes of finished jobs (load_config, main).
THEOREM LaunchInvariant == SyntSpec => []SyntInductive
BY InitInductive, StepInductive, PTL DEF SyntSpec

\* A launch that succeeds ran Vivado for every config it was given, and each run
\* returned 0: no exception in a worker and no colliding name passes for success
\* (run_synt.py, main).
THEOREM SuccessIsComplete == SyntSpec => []SuccessMeansAll
<1>1. SyntInductive => SuccessMeansAll
  BY DEF SyntInductive
<1> QED
  BY <1>1, LaunchInvariant, PTL

\* The driver never ends before its workers, whichever way it ends (the with
\* statement around the pool).
THEOREM WorkersEndFirst == SyntSpec => []NoOrphans
<1>1. SyntInductive => NoOrphans
  BY DEF SyntInductive
<1> QED
  BY <1>1, LaunchInvariant, PTL

\* Vivado reads the params.tcl and the resolved config of its own job, for every
\* number of jobs side by side and whatever earlier launches left (run_one).
THEOREM FilesAreOwn == SyntSpec => []OwnArtifacts
<1>1. SyntInductive => OwnArtifacts
  BY DEF SyntInductive, Artifacts
<1> QED
  BY <1>1, LaunchInvariant, PTL

-----------------------------------------------------------------------------
\* What type correctness says beyond the invariant.
Ranges ==
  /\ args \in Launches /\ status \in Rc \cup {NONE}
  /\ \A j \in DOMAIN work : work[j] \in {"queued", "started", "emitted", "vivado", "done"}
  /\ \A n \in DOMAIN results : results[n] \in Rc

LEMMA RangesStep == Ranges /\ SyntInductive /\ [SyntNext]_svars => Ranges'
<1> SUFFICES ASSUME Ranges, SyntInductive, [SyntNext]_svars PROVE Ranges'
  OBVIOUS
<1> USE DEF Ranges, Rc
<1>1. CASE Extend \/ AddJob \/ UNCHANGED svars
  BY <1>1 DEF Extend, AddJob, collecting, working, svars
<1>2. CASE NoVivado \/ RejectConfig \/ RejectName \/ LeaveRaising \/ Leave
  BY <1>2 DEF NoVivado, RejectConfig, RejectName, LeaveRaising, Leave, Exit, collecting,
              working
<1>3. CASE Submit
  BY <1>3 DEF Submit, collecting
<1>4. ASSUME NEW j \in DOMAIN work, Worker(j) PROVE Ranges'
  BY <1>4 DEF Worker, TakeJob, ExitInWorker, emit_params_tcl, DumpResolved, VivadoEnds,
              mainvars, collecting
<1>5. ASSUME NEW j \in DOMAIN work, SkipResult(j) \/ RaiseResult(j) PROVE Ranges'
  BY <1>5 DEF SkipResult, RaiseResult, working
<1>6. ASSUME NEW j \in DOMAIN work, StoreResult(j) PROVE Ranges'
  <2>1. outcome[j] \in Rc
    BY <1>6 DEF StoreResult, Completed, SyntInductive, Outcomes
  <2> QED
    BY <1>6, <2>1 DEF StoreResult, Overlay, working
<1> QED
  BY <1>1, <1>2, <1>3, <1>4, <1>5, <1>6 DEF SyntNext

\* Type correctness of the driver, for every command line and set of files.
THEOREM LaunchTypes == SyntSpec => []SyntTypeOK
<1>1. SyntInit => Ranges
  BY DEF SyntInit, Ranges
<1>2. Ranges /\ SyntInductive => SyntTypeOK
  <2> SUFFICES ASSUME Ranges, SyntInductive PROVE SyntTypeOK
    OBVIOUS
  <2>1. \A j \in DOMAIN jobs : jobs[j].chain \in Seq(DOMAIN File)
    BY SMTT(30), JobFields DEF SyntInductive, InOrder, Jobs
  <2> QED
    BY <2>1 DEF Ranges, SyntInductive, InOrder, Phases, Outcomes, Collected, SyntTypeOK
<1> QED
  BY <1>1, <1>2, RangesStep, LaunchInvariant, PTL DEF SyntSpec

-----------------------------------------------------------------------------
(* Induction, for sets: the library's theorems take an operator.            *)

LEMMA LeastNumber ==
  ASSUME NEW S, S \subseteq Nat, S # {}
  PROVE  \E m \in S : \A n \in S : m <= n
<1>1. PICK m \in S : \A n \in S : ~(<<n, m>> \in OpToRel(<, Nat))
  BY NatLessThanWellFounded, WFMin, Zenon
<1>2. \A n \in S : n < m => <<n, m>> \in OpToRel(<, Nat)
  BY DEF OpToRel
<1>3. \A n \in S : ~(n < m)
  BY <1>1, <1>2, Zenon
<1> QED
  BY <1>3

LEMMA SetInduction ==
  ASSUME NEW S, 0 \in S, \A n \in Nat : n \in S => n + 1 \in S
  PROVE  \A n \in Nat : n \in S
<1> SUFFICES ASSUME Nat \ S # {} PROVE FALSE
  OBVIOUS
<1>1. PICK m \in Nat \ S : \A n \in Nat \ S : m <= n
  BY LeastNumber
<1>2. m # 0 /\ m - 1 \in Nat
  BY <1>1
<1> QED
  BY <1>1, <1>2

-----------------------------------------------------------------------------
(* What a chain of configs resolves to.                                     *)

\* f is the function by which load_config is defined.
IsLoad(f, chain) ==
  f = [n \in DOMAIN chain |->
         IF n = Len(chain) THEN File[chain[n]].own
                           ELSE deep_merge(f[n + 1], File[chain[n]].own)]

LEMMA LoadExists ==
  ASSUME NEW chain \in Seq(DOMAIN File), chain # << >>
  PROVE  \E f : IsLoad(f, chain) /\ Resolved(chain) = f[1]
<1> DEFINE L == Len(chain)
           Val(g, n) == IF n = L THEN File[chain[n]].own
                                 ELSE deep_merge(g[n + 1], File[chain[n]].own)
           S == {m \in Nat : m < L => \E g : \A n \in L - m .. L : g[n] = Val(g, n)}
<1>1. L \in Nat /\ L >= 1 /\ DOMAIN chain = 1 .. L
  OBVIOUS
<1> HIDE DEF L
<1>2. 0 \in S
  <2>1. L - 0 .. L = {L}
    BY <1>1
  <2>2. [n \in {L} |-> File[chain[L]].own][L] = Val([n \in {L} |-> File[chain[L]].own], L)
    OBVIOUS
  <2> QED
    BY <2>1, <2>2
<1>3. ASSUME NEW m \in Nat, m \in S PROVE m + 1 \in S
  <2> SUFFICES ASSUME m + 1 < L
               PROVE  \E g : \A n \in L - (m + 1) .. L : g[n] = Val(g, n)
    OBVIOUS
  <2>1. PICK g : \A n \in L - m .. L : g[n] = Val(g, n)
    <3>1. m < L
      BY <1>1
    <3> QED
      BY <1>3, <3>1
  <2> DEFINE o == L - (m + 1)
             h == [n \in o .. L |-> IF n = o THEN deep_merge(g[o + 1], File[chain[o]].own)
                                             ELSE g[n]]
  <2>2. o \in Nat /\ o < L /\ o + 1 \in o .. L /\ o \in o .. L /\ o + 1 # o
    BY <1>1
  <2>3. h[o] = Val(h, o)
    BY <2>2
  <2>4. ASSUME NEW n \in o .. L, n # o PROVE h[n] = Val(h, n)
    <3>1. n \in L - m .. L /\ h[n] = g[n]
      BY <1>1, <2>2, <2>4
    <3>2. n # L => h[n + 1] = g[n + 1]
      <4> SUFFICES ASSUME n # L PROVE h[n + 1] = g[n + 1]
        OBVIOUS
      <4>1. n + 1 \in o .. L /\ n + 1 # o
        BY <1>1, <2>2, <3>1
      <4> QED
        BY <4>1
    <3> QED
      BY <2>1, <3>1, <3>2
  <2> QED
    BY <2>3, <2>4
<1>4. \A m \in Nat : m \in S
  <2> HIDE DEF S
  <2> QED
    BY <1>2, <1>3, SetInduction
<1>5. PICK g : \A n \in 1 .. L : g[n] = Val(g, n)
  <2>1. L - 1 \in S /\ L - 1 < L /\ L - (L - 1) = 1
    <3> HIDE DEF S
    <3>1. L - 1 \in Nat /\ L - 1 < L /\ L - (L - 1) = 1
      BY <1>1
    <3> QED
      BY <1>4, <3>1
  <2> QED
    BY <2>1
<1>6. IsLoad([n \in 1 .. L |-> g[n]], chain)
  <2> DEFINE f == [n \in 1 .. L |-> g[n]]
  <2>1. ASSUME NEW n \in 1 .. L PROVE f[n] = Val(f, n)
    <3>1. n # L => n + 1 \in 1 .. L
      BY <1>1
    <3> QED
      BY <1>5, <3>1
  <2>2. f = [n \in 1 .. L |-> Val(f, n)]
    BY <2>1
  <2> QED
    BY <1>1, <2>2 DEF IsLoad, L
<1>7. Resolved(chain) = (CHOOSE f : IsLoad(f, chain))[1]
  BY DEF Resolved, IsLoad
<1> QED
  BY <1>6, <1>7

\* Merging two configs merges their macros.
LEMMA MergedDefines ==
  ASSUME NEW base, NEW over
  PROVE  /\ DOMAIN Defines(deep_merge(base, over))
              = DOMAIN Defines(base) \cup DOMAIN Defines(over)
         /\ \A k \in DOMAIN Defines(over) :
              Defines(deep_merge(base, over))[k] = Defines(over)[k]
         /\ \A k \in DOMAIN Defines(base) \ DOMAIN Defines(over) :
              Defines(deep_merge(base, over))[k] = Defines(base)[k]
<1>1. PICK merged : merged = deep_merge(base, over)
  OBVIOUS
<1>2. /\ "defines" \in DOMAIN merged <=> "defines" \in DOMAIN base \cup DOMAIN over
      /\ "defines" \in DOMAIN base \cup DOMAIN over =>
           merged["defines"] =
             IF "defines" \in DOMAIN base \cap DOMAIN over
               THEN Overlay(base["defines"], over["defines"])
               ELSE IF "defines" \in DOMAIN over THEN over["defines"] ELSE base["defines"]
  BY <1>1, SyntAssumption DEF deep_merge, Overlay
<1>3. /\ DOMAIN Defines(merged) = DOMAIN Defines(base) \cup DOMAIN Defines(over)
      /\ \A k \in DOMAIN Defines(over) : Defines(merged)[k] = Defines(over)[k]
      /\ \A k \in DOMAIN Defines(base) \ DOMAIN Defines(over) :
           Defines(merged)[k] = Defines(base)[k]
  <2>1. CASE "defines" \in DOMAIN base \cap DOMAIN over
    BY <1>2, <2>1 DEF Defines, Overlay
  <2>2. CASE "defines" \in DOMAIN over \ DOMAIN base
    BY <1>2, <2>2 DEF Defines
  <2>3. CASE "defines" \notin DOMAIN over
    BY <1>2, <2>3 DEF Defines
  <2> QED
    BY <2>1, <2>2, <2>3
<1> QED
  BY <1>1, <1>3

\* Place m is the nearest from place n on whose file mentions macro k.
Nearest(chain, k, n, m) ==
  /\ m \in n .. Len(chain) /\ k \in DOMAIN Defines(File[chain[m]].own)
  /\ \A i \in n .. m - 1 : k \notin DOMAIN Defines(File[chain[i]].own)

\* What load_config returns for place n sets each macro as the nearest file does.
SaysNearest(f, chain, n) ==
  \A k : IF k \in DOMAIN Defines(f[n])
           THEN \E m : /\ Nearest(chain, k, n, m)
                       /\ Defines(f[n])[k] = Defines(File[chain[m]].own)[k]
           ELSE \A m : ~Nearest(chain, k, n, m)

LEMMA LastSaysNearest ==
  ASSUME NEW chain \in Seq(DOMAIN File), chain # << >>, NEW f, IsLoad(f, chain)
  PROVE  SaysNearest(f, chain, Len(chain))
<1>1. /\ Len(chain) \in 1 .. Len(chain) /\ DOMAIN chain = 1 .. Len(chain)
      /\ Len(chain) .. Len(chain) = {Len(chain)} /\ Len(chain) .. Len(chain) - 1 = {}
  OBVIOUS
<1>2. f[Len(chain)] = File[chain[Len(chain)]].own
  BY <1>1 DEF IsLoad
<1> QED
  BY <1>1, <1>2 DEF SaysNearest, Nearest

LEMMA SaysNearestStep ==
  ASSUME NEW chain \in Seq(DOMAIN File), NEW f, IsLoad(f, chain),
         NEW n \in Nat \ {0}, n < Len(chain), SaysNearest(f, chain, n + 1)
  PROVE  SaysNearest(f, chain, n)
<1> DEFINE own == File[chain[n]].own
<1>1. /\ n \in DOMAIN chain /\ n # Len(chain) /\ n \in n .. Len(chain)
      /\ n .. n - 1 = {} /\ Len(chain) \in Nat
  OBVIOUS
<1>2. f[n] = deep_merge(f[n + 1], own)
  BY <1>1 DEF IsLoad
<1>3. /\ DOMAIN Defines(f[n]) = DOMAIN Defines(f[n + 1]) \cup DOMAIN Defines(own)
      /\ \A k \in DOMAIN Defines(own) : Defines(f[n])[k] = Defines(own)[k]
      /\ \A k \in DOMAIN Defines(f[n + 1]) \ DOMAIN Defines(own) :
           Defines(f[n])[k] = Defines(f[n + 1])[k]
  <2>1. PICK base, over : base = f[n + 1] /\ over = own
    OBVIOUS
  <2>2. f[n] = deep_merge(base, over)
    BY <1>2, <2>1
  <2>3. /\ DOMAIN Defines(deep_merge(base, over))
             = DOMAIN Defines(base) \cup DOMAIN Defines(over)
        /\ \A k \in DOMAIN Defines(over) :
             Defines(deep_merge(base, over))[k] = Defines(over)[k]
        /\ \A k \in DOMAIN Defines(base) \ DOMAIN Defines(over) :
             Defines(deep_merge(base, over))[k] = Defines(base)[k]
    BY MergedDefines
  <2> QED
    BY <2>1, <2>2, <2>3
<1>4. ASSUME NEW k, k \in DOMAIN Defines(own) PROVE Nearest(chain, k, n, n)
  BY <1>1, <1>4 DEF Nearest
<1>5. ASSUME NEW k, k \notin DOMAIN Defines(own), NEW m
      PROVE  Nearest(chain, k, n, m) <=> Nearest(chain, k, n + 1, m)
  <2>1. m \in n .. Len(chain) <=> m = n \/ m \in n + 1 .. Len(chain)
    BY <1>1
  <2>2. m \in n + 1 .. Len(chain) =>
          \A i : i \in n .. m - 1 <=> i = n \/ i \in n + 1 .. m - 1
    BY <1>1
  <2> QED
    BY <1>5, <2>1, <2>2 DEF Nearest
<1>6. ASSUME NEW k
      PROVE  IF k \in DOMAIN Defines(f[n])
               THEN \E m : /\ Nearest(chain, k, n, m)
                           /\ Defines(f[n])[k] = Defines(File[chain[m]].own)[k]
               ELSE \A m : ~Nearest(chain, k, n, m)
  <2>1. CASE k \in DOMAIN Defines(own)
    BY <1>3, <1>4, <2>1
  <2>2. CASE k \notin DOMAIN Defines(own) /\ k \in DOMAIN Defines(f[n + 1])
    <3>1. PICK m : /\ Nearest(chain, k, n + 1, m)
                   /\ Defines(f[n + 1])[k] = Defines(File[chain[m]].own)[k]
      BY <2>2 DEF SaysNearest
    <3> QED
      BY <1>3, <1>5, <2>2, <3>1
  <2>3. CASE k \notin DOMAIN Defines(own) /\ k \notin DOMAIN Defines(f[n + 1])
    <3>1. \A m : ~Nearest(chain, k, n + 1, m)
      BY <2>3 DEF SaysNearest
    <3> QED
      BY <1>3, <1>5, <2>3, <3>1
  <2> QED
    BY <2>1, <2>2, <2>3
<1> QED
  BY <1>6 DEF SaysNearest

LEMMA LoadSaysNearest ==
  ASSUME NEW chain \in Seq(DOMAIN File), chain # << >>, NEW f, IsLoad(f, chain)
  PROVE  SaysNearest(f, chain, 1)
<1> DEFINE L == Len(chain)
           S == {m \in Nat : m < L => SaysNearest(f, chain, L - m)}
<1>1. L \in Nat /\ L >= 1
  OBVIOUS
<1>2. 0 \in S
  BY <1>1, LastSaysNearest
<1>3. ASSUME NEW m \in Nat, m \in S PROVE m + 1 \in S
  <2> SUFFICES ASSUME m + 1 < L PROVE SaysNearest(f, chain, L - (m + 1))
    OBVIOUS
  <2>1. /\ L - (m + 1) \in Nat \ {0} /\ L - (m + 1) < L /\ (L - (m + 1)) + 1 = L - m
        /\ m < L
    BY <1>1
  <2>2. SaysNearest(f, chain, L - m)
    BY <1>3, <2>1
  <2> HIDE DEF S
  <2> QED
    BY <2>1, <2>2, SaysNearestStep
<1>4. L - 1 \in S
  <2> HIDE DEF S
  <2> QED
    <3>1. \A m \in Nat : m \in S
      BY <1>2, <1>3, SetInduction
    <3> QED
      BY <1>1, <3>1
<1> QED
  BY <1>1, <1>4

\* The macros of a job, from the chain of its config.
LEMMA MacrosOfNearest ==
  ASSUME NEW chain \in Seq(DOMAIN File), chain # << >>
  PROVE  LET own(n) == Defines(File[chain[n]].own)
             setters(k) == {n \in DOMAIN chain : k \in DOMAIN own(n)}
             nearest(k) == own(CHOOSE n \in setters(k) : \A i \in setters(k) : n <= i)[k]
             names == UNION {DOMAIN own(n) : n \in DOMAIN chain}
         IN  build_defines(Resolved(chain)) =
               {<<k, nearest(k)>> : k \in {i \in names : nearest(i) # "false"}}
<1> DEFINE own(n) == Defines(File[chain[n]].own)
           setters(k) == {n \in DOMAIN chain : k \in DOMAIN own(n)}
           nearest(k) == own(CHOOSE n \in setters(k) : \A i \in setters(k) : n <= i)[k]
           names == UNION {DOMAIN own(n) : n \in DOMAIN chain}
           d == Defines(Resolved(chain))
<1>1. PICK f : IsLoad(f, chain) /\ Resolved(chain) = f[1]
  BY LoadExists
<1>2. \A k : IF k \in DOMAIN d
               THEN \E m : Nearest(chain, k, 1, m) /\ d[k] = own(m)[k]
               ELSE \A m : ~Nearest(chain, k, 1, m)
  BY <1>1, LoadSaysNearest DEF SaysNearest
<1>3. ASSUME NEW k, NEW m, Nearest(chain, k, 1, m)
      PROVE  /\ k \in names
             /\ (CHOOSE n \in setters(k) : \A i \in setters(k) : n <= i) = m
  <2>1. m \in setters(k) /\ \A i \in setters(k) : m <= i
    BY <1>3 DEF Nearest
  <2>2. \A n \in setters(k) : (\A i \in setters(k) : n <= i) => n = m
    BY <2>1
  <2> HIDE DEF setters
  <2>3. (CHOOSE n \in setters(k) : \A i \in setters(k) : n <= i) = m
    BY <2>1, <2>2
  <2> QED
    BY <2>1, <2>3 DEF setters
<1>4. ASSUME NEW k \in names PROVE \E m : Nearest(chain, k, 1, m)
  <2>1. setters(k) \subseteq Nat /\ setters(k) # {}
    OBVIOUS
  <2>2. PICK m \in setters(k) : \A i \in setters(k) : m <= i
    BY <2>1, LeastNumber
  <2>3. Nearest(chain, k, 1, m)
    BY <2>2 DEF Nearest
  <2> QED
    BY <2>3
<1>5. DOMAIN d = names
  BY <1>2, <1>3, <1>4
<1>6. \A k \in names : d[k] = nearest(k)
  BY <1>2, <1>3, <1>5
<1>7. build_defines(Resolved(chain)) = {<<k, d[k]>> : k \in {i \in DOMAIN d : d[i] # "false"}}
  BY DEF build_defines
<1> HIDE DEF d, nearest, names
<1>8. {<<k, d[k]>> : k \in {i \in DOMAIN d : d[i] # "false"}}
        = {<<k, nearest(k)>> : k \in {i \in names : nearest(i) # "false"}}
  BY <1>5, <1>6
<1> QED
  BY <1>7, <1>8 DEF d, nearest, names

\* The macros that reach Vivado are those of the nearest files, for chains of any
\* length (load_config, deep_merge, build_defines).
THEOREM MacrosAreOfNearest == SyntSpec => []DefinesOfNearest
<1>1. SyntInductive => DefinesOfNearest
  <2> SUFFICES ASSUME SyntInductive, NEW j \in DOMAIN jobs
               PROVE  LET own(n) == Defines(File[jobs[j].chain[n]].own)
                          setters(k) == {n \in DOMAIN jobs[j].chain : k \in DOMAIN own(n)}
                          nearest(k) == own(CHOOSE n \in setters(k) :
                                              \A i \in setters(k) : n <= i)[k]
                          names == UNION {DOMAIN own(n) : n \in DOMAIN jobs[j].chain}
                      IN  build_defines(jobs[j].cfg) =
                            {<<k, nearest(k)>> : k \in {i \in names : nearest(i) # "false"}}
    BY DEF DefinesOfNearest
  <2>1. PICK c \in Seq(DOMAIN File) \ {<< >>} : jobs[j] = Job(c)
    BY DEF SyntInductive, InOrder, Jobs
  <2>2. jobs[j].chain = c /\ jobs[j].cfg = Resolved(c)
    BY <2>1, JobFields
  <2>3. c \in Seq(DOMAIN File) /\ c # << >>
    OBVIOUS
  <2> QED
    BY <2>2, <2>3, MacrosOfNearest, Zenon
<1> QED
  BY <1>1, LaunchInvariant, PTL

-----------------------------------------------------------------------------
(* The file list parser.                                                    *)

\* The run of options before place k, which may be empty, has an even length: the
\* last of them is an argument, and k is not.
EvenRun(k) ==
  \E n \in 1 .. k :
    /\ \A m \in n .. k - 1 : rest[m] \in Options
    /\ n > 1 => rest[n - 1] \notin Options
    /\ (k - n) % 2 = 0

\* The lists hold what stands before the token the loop is at.
FileListInv ==
  /\ rest \in Inputs /\ index \in 1 .. Len(rest) + 1 /\ EvenRun(index)
  /\ ended \in {"no", "printed", "IndexError"}
  /\ ended = "printed" => index > Len(rest)
  /\ ended = "IndexError" => index = Len(rest) /\ rest[index] \in Options
  /\ \A list \in {design, verif, include_dirs, defines} : list \in Seq(Options \cup Words)
  /\ LET before == 1 .. index - 1
     IN  /\ Lists(defines, DefinedAt \cap before)
         /\ Lists(include_dirs, IncludedAt \cap before)
         /\ Lists(design, DesignAt \cap before)
         /\ Lists(verif, VerifAt \cap before)

\* A list and its places grow together.
LEMMA ListGrows ==
  ASSUME NEW list, NEW T, list \in Seq(T), NEW places, NEW i \in Nat, NEW k \in Nat,
         places \subseteq 1 .. i, k > i, Lists(list, places), NEW tok \in T,
         tok = rest[k]
  PROVE  Lists(Append(list, tok), places \cup {k})
<1>1. IsFiniteSet(1 .. i)
  BY FS_Interval
<1>2. IsFiniteSet(places) /\ Cardinality(places) \in Nat
  BY <1>1, FS_Subset, FS_CardinalityType
<1>3. k \notin places
  OBVIOUS
<1>4. Cardinality(places \cup {k}) = Cardinality(places) + 1
  BY <1>2, <1>3, FS_AddElement
<1>5. Len(list) = Cardinality(places)
  BY DEF Lists
<1>6. Len(Append(list, tok)) = Cardinality(places \cup {k})
  BY <1>4, <1>5
<1>7. ASSUME NEW m \in places \cup {k}
      PROVE  Append(list, tok)[Cardinality((places \cup {k}) \cap (1 .. m))] = rest[m]
  <2>1. CASE m = k
    <3>1. (places \cup {k}) \cap (1 .. k) = places \cup {k}
      <4>1. \A x \in places \cup {k} : x \in 1 .. k
        OBVIOUS
      <4> QED
        BY <4>1
    <3>2. Append(list, tok)[Len(list) + 1] = tok
      OBVIOUS
    <3> QED
      BY <1>4, <1>5, <2>1, <3>1, <3>2
  <2>2. CASE m \in places
    <3>1. (places \cup {k}) \cap (1 .. m) = places \cap (1 .. m)
      BY <2>2
    <3>2. places \cap (1 .. m) \in SUBSET places /\ m \in places \cap (1 .. m)
      BY <2>2
    <3>3. Cardinality(places \cap (1 .. m)) \in 1 .. Len(list)
      <4>1. /\ IsFiniteSet(places \cap (1 .. m))
            /\ Cardinality(places \cap (1 .. m)) <= Cardinality(places)
        BY <1>2, <3>2, FS_Subset
      <4>2. /\ Cardinality(places \cap (1 .. m)) \in Nat
            /\ Cardinality(places \cap (1 .. m)) # 0
        BY <3>2, <4>1, FS_CardinalityType, FS_EmptySet
      <4> QED
        BY <1>2, <1>5, <4>1, <4>2
    <3>4. list[Cardinality(places \cap (1 .. m))] = rest[m]
      BY <2>2 DEF Lists
    <3>5. \A c \in 1 .. Len(list) : Append(list, tok)[c] = list[c]
      OBVIOUS
    <3>6. Append(list, tok)[Cardinality(places \cap (1 .. m))]
            = list[Cardinality(places \cap (1 .. m))]
      BY <3>3, <3>5
    <3> QED
      BY <3>1, <3>4, <3>6
  <2> QED
    BY <2>1, <2>2
<1> QED
  BY <1>6, <1>7 DEF Lists

\* A place behind an even run of options is not an argument, and what follows it.
LEMMA Runs ==
  ASSUME NEW k \in Nat \ {0}, EvenRun(k)
  PROVE  /\ ~Argument(k)
         /\ rest[k] \in Options => Argument(k + 1) /\ EvenRun(k + 2)
         /\ rest[k] \notin Options => EvenRun(k + 1)
<1>1. PICK n \in 1 .. k :
        /\ \A m \in n .. k - 1 : rest[m] \in Options
        /\ n > 1 => rest[n - 1] \notin Options
        /\ (k - n) % 2 = 0
  BY DEF EvenRun
<1>2. ~Argument(k)
  <2> SUFFICES ASSUME Argument(k) PROVE FALSE
    OBVIOUS
  <2>1. PICK o \in 1 .. k - 1 :
          /\ \A m \in o .. k - 1 : rest[m] \in Options
          /\ o > 1 => rest[o - 1] \notin Options
          /\ (k - o) % 2 = 1
    BY DEF Argument
  <2>2. ~(o < n)
    <3> SUFFICES ASSUME o < n PROVE FALSE
      OBVIOUS
    <3>1. n - 1 \in o .. k - 1 /\ n > 1
      OBVIOUS
    <3> QED
      BY <1>1, <2>1, <3>1
  <2>3. ~(n < o)
    <3> SUFFICES ASSUME n < o PROVE FALSE
      OBVIOUS
    <3>1. o - 1 \in n .. k - 1 /\ o > 1
      OBVIOUS
    <3> QED
      BY <1>1, <2>1, <3>1
  <2>4. n = o
    BY <2>2, <2>3
  <2> QED
    BY <1>1, <2>1, <2>4
<1>3. ASSUME rest[k] \in Options PROVE Argument(k + 1) /\ EvenRun(k + 2)
  <2>1. \A m \in n .. k : rest[m] \in Options
    <3> SUFFICES ASSUME NEW m \in n .. k PROVE rest[m] \in Options
      OBVIOUS
    <3>1. m = k \/ m \in n .. k - 1
      OBVIOUS
    <3> QED
      BY <1>1, <1>3, <3>1
  <2>2. (k + 1 - n) % 2 = 1 /\ (k + 2 - n) % 2 = 0
    BY <1>1
  <2>3. Argument(k + 1)
    <3>1. n \in 1 .. (k + 1) - 1 /\ (k + 1) - 1 = k
      OBVIOUS
    <3> QED
      BY <1>1, <2>1, <2>2, <3>1 DEF Argument
  <2>4. EvenRun(k + 2)
    <3>1. CASE rest[k + 1] \in Options
      <4>1. n \in 1 .. k + 2 /\ (k + 2) - 1 = k + 1
        OBVIOUS
      <4>2. \A m \in n .. k + 1 : rest[m] \in Options
        <5> SUFFICES ASSUME NEW m \in n .. k + 1 PROVE rest[m] \in Options
          OBVIOUS
        <5>1. m = k + 1 \/ m \in n .. k
          OBVIOUS
        <5> QED
          BY <2>1, <3>1, <5>1
      <4> QED
        BY <1>1, <2>2, <4>1, <4>2 DEF EvenRun
    <3>2. CASE rest[k + 1] \notin Options
      <4>1. /\ k + 2 \in 1 .. k + 2 /\ (k + 2) - 1 = k + 1 /\ (k + 2) .. (k + 1) = {}
            /\ ((k + 2) - (k + 2)) % 2 = 0
        OBVIOUS
      <4> QED
        BY <3>2, <4>1 DEF EvenRun
    <3> QED
      BY <3>1, <3>2
  <2> QED
    BY <2>3, <2>4
<1>4. ASSUME rest[k] \notin Options PROVE EvenRun(k + 1)
  <2>1. /\ k + 1 \in 1 .. k + 1 /\ (k + 1) - 1 = k /\ (k + 1) .. k = {}
        /\ ((k + 1) - (k + 1)) % 2 = 0
    OBVIOUS
  <2> QED
    BY <1>4, <2>1 DEF EvenRun
<1> QED
  BY <1>2, <1>3, <1>4

LEMMA FileListFrame ==
  ASSUME rest' = rest
  PROVE  /\ DefinedAt' = DefinedAt /\ IncludedAt' = IncludedAt
         /\ DesignAt' = DesignAt /\ VerifAt' = VerifAt
         /\ \A k : EvenRun(k)' <=> EvenRun(k)
         /\ \A list, places : Lists(list, places)' <=> Lists(list, places)
  BY DEF DefinedAt, IncludedAt, DesignAt, VerifAt, Argument, EvenRun, Lists

LEMMA FileListStart == FileListInit => FileListInv
<1> SUFFICES ASSUME FileListInit PROVE FileListInv
  OBVIOUS
<1>1. rest \in Seq(Options \cup Words) /\ Len(rest) \in Nat
  BY FileListAssumption DEF FileListInit
<1>2. EvenRun(index)
  <2>1. 1 \in 1 .. 1 /\ 1 .. 1 - 1 = {} /\ (1 - 1) % 2 = 0 /\ ~(1 > 1)
    OBVIOUS
  <2> QED
    BY <2>1 DEF EvenRun, FileListInit
<1>3. Lists(<< >>, {})
  BY FS_EmptySet DEF Lists
<1>4. \A S : S \cap (1 .. index - 1) = {}
  BY DEF FileListInit
<1> QED
  BY <1>1, <1>2, <1>3, <1>4 DEF FileListInit, FileListInv

\* The places an option and its argument, or a source, add to the lists.
LEMMA PlacesOfOption ==
  ASSUME NEW i \in Nat \ {0}, i < Len(rest), rest \in Seq(Options \cup Words),
         rest[i] \in Options, EvenRun(i)
  PROVE  /\ rest[i] \in DefineOptions =>
              DefinedAt \cap (1 .. i + 1) = (DefinedAt \cap (1 .. i - 1)) \cup {i + 1}
         /\ rest[i] \notin DefineOptions =>
              DefinedAt \cap (1 .. i + 1) = DefinedAt \cap (1 .. i - 1)
         /\ rest[i] \in IncludeOptions =>
              IncludedAt \cap (1 .. i + 1) = (IncludedAt \cap (1 .. i - 1)) \cup {i + 1}
         /\ rest[i] \notin IncludeOptions =>
              IncludedAt \cap (1 .. i + 1) = IncludedAt \cap (1 .. i - 1)
         /\ DesignAt \cap (1 .. i + 1) = DesignAt \cap (1 .. i - 1)
         /\ VerifAt \cap (1 .. i + 1) = VerifAt \cap (1 .. i - 1)
<1>1. ~Argument(i) /\ Argument(i + 1)
  BY Runs
<1>2. \A m : m \in 1 .. i + 1 <=> m \in 1 .. i - 1 \/ m = i \/ m = i + 1
  OBVIOUS
<1>3. i + 1 \in 1 .. Len(rest) /\ (i + 1) - 1 = i /\ i \in 1 .. Len(rest)
  OBVIOUS
<1>4. rest[i] \notin HasSrc
  BY FileListAssumption
<1>5. i \notin DefinedAt /\ i \notin IncludedAt /\ i \notin DesignAt /\ i \notin VerifAt
  BY <1>1, <1>4 DEF DefinedAt, IncludedAt, DesignAt, VerifAt
<1>6. /\ i + 1 \in DefinedAt <=> rest[i] \in DefineOptions
      /\ i + 1 \in IncludedAt <=> rest[i] \in IncludeOptions
      /\ i + 1 \notin DesignAt /\ i + 1 \notin VerifAt
  BY <1>1, <1>3 DEF DefinedAt, IncludedAt, DesignAt, VerifAt
<1>7. \A S : /\ i + 1 \notin S /\ i \notin S => S \cap (1 .. i + 1) = S \cap (1 .. i - 1)
             /\ i + 1 \in S /\ i \notin S =>
                  S \cap (1 .. i + 1) = (S \cap (1 .. i - 1)) \cup {i + 1}
  BY <1>2
<1> HIDE <1>2
<1> QED
  BY <1>5, <1>6, <1>7

LEMMA PlacesOfSource ==
  ASSUME NEW i \in Nat \ {0}, i <= Len(rest), rest \in Seq(Options \cup Words),
         rest[i] \notin Options, EvenRun(i)
  PROVE  /\ DefinedAt \cap (1 .. i) = DefinedAt \cap (1 .. i - 1)
         /\ IncludedAt \cap (1 .. i) = IncludedAt \cap (1 .. i - 1)
         /\ DesignAt \cap (1 .. i) =
              (DesignAt \cap (1 .. i - 1)) \cup (IF rest[i] \in HasSrc THEN {i} ELSE {})
         /\ VerifAt \cap (1 .. i) =
              (VerifAt \cap (1 .. i - 1)) \cup (IF rest[i] \in HasSrc THEN {} ELSE {i})
<1>1. ~Argument(i)
  BY Runs
<1>2. \A m : m \in 1 .. i <=> m \in 1 .. i - 1 \/ m = i
  OBVIOUS
<1>3. i \in 1 .. Len(rest)
  OBVIOUS
<1>4. i \notin DefinedAt /\ i \notin IncludedAt
  BY <1>1 DEF DefinedAt, IncludedAt
<1>5. /\ i \in DesignAt <=> rest[i] \in HasSrc
      /\ i \in VerifAt <=> rest[i] \notin HasSrc
  BY <1>1, <1>3 DEF DesignAt, VerifAt
<1>6. \A S : /\ i \notin S => S \cap (1 .. i) = S \cap (1 .. i - 1)
             /\ i \in S => S \cap (1 .. i) = (S \cap (1 .. i - 1)) \cup {i}
  BY <1>2
<1> QED
  BY <1>4, <1>5, <1>6

LEMMA FileListStep == FileListInv /\ [FileListNext]_fvars => FileListInv'
<1> SUFFICES ASSUME FileListInv, [FileListNext]_fvars PROVE FileListInv'
  OBVIOUS
<1> DEFINE T == Options \cup Words
           before == 1 .. index - 1
<1>1. /\ rest \in Inputs /\ rest \in Seq(T) /\ Len(rest) \in Nat
      /\ index \in Nat \ {0} /\ index <= Len(rest) + 1 /\ EvenRun(index)
      /\ design \in Seq(T) /\ verif \in Seq(T) /\ include_dirs \in Seq(T)
      /\ defines \in Seq(T)
  BY FileListAssumption DEF FileListInv
<1>2. /\ Lists(defines, DefinedAt \cap before) /\ Lists(include_dirs, IncludedAt \cap before)
      /\ Lists(design, DesignAt \cap before) /\ Lists(verif, VerifAt \cap before)
  BY DEF FileListInv
<1>3. /\ \A S : S \cap before \subseteq 1 .. index - 1
      /\ \A q \in Seq(T), x \in T : Append(q, x) \in Seq(T)
  OBVIOUS
<1>4. CASE UNCHANGED <<rest, index, design, verif, include_dirs, defines>>
           /\ (ended' = ended \/ NoArgument \/ Printed)
  <2>1. /\ ended' \in {"no", "printed", "IndexError"}
        /\ ended' = "printed" => index' > Len(rest')
        /\ ended' = "IndexError" => index' = Len(rest') /\ rest'[index'] \in Options
    BY <1>4 DEF FileListInv, NoArgument, Printed, Looping
  <2>2. index' \in 1 .. Len(rest') + 1 /\ EvenRun(index)'
    BY <1>1, <1>4, FileListFrame
  <2> QED
    BY <1>1, <1>2, <1>4, <2>1, <2>2, FileListFrame DEF FileListInv
<1>5. CASE Define \/ Include
  <2>1. /\ Looping /\ rest[index] \in Options /\ index < Len(rest)
        /\ rest' = rest /\ ended' = ended /\ index' = index + 2
        /\ design' = design /\ verif' = verif
    BY <1>5 DEF Define, Include, Options
  <2>2. rest[index + 1] \in T /\ index + 1 \in Nat /\ index + 1 > index - 1
        /\ index - 1 \in Nat
    BY <1>1, <2>1
  <2>3. EvenRun(index + 2)
    BY <1>1, <2>1, Runs
  <2>4. (index + 2) - 1 = index + 1
    BY <1>1
  <2>5. /\ DesignAt \cap (1 .. index + 1) = DesignAt \cap before
        /\ VerifAt \cap (1 .. index + 1) = VerifAt \cap before
    BY <1>1, <2>1, PlacesOfOption
  <2>6. /\ defines' \in Seq(T) /\ include_dirs' \in Seq(T)
        /\ Lists(defines', DefinedAt \cap (1 .. index + 1))
        /\ Lists(include_dirs', IncludedAt \cap (1 .. index + 1))
    <3>1. CASE Define
      <4>1. /\ rest[index] \in DefineOptions /\ rest[index] \notin IncludeOptions
            /\ defines' = Append(defines, rest[index + 1]) /\ include_dirs' = include_dirs
        BY <3>1, FileListAssumption DEF Define
      <4>2. /\ DefinedAt \cap (1 .. index + 1) = (DefinedAt \cap before) \cup {index + 1}
            /\ IncludedAt \cap (1 .. index + 1) = IncludedAt \cap before
        BY <1>1, <2>1, <4>1, PlacesOfOption
      <4>3. Lists(Append(defines, rest[index + 1]), (DefinedAt \cap before) \cup {index + 1})
        BY <1>1, <1>2, <1>3, <2>2, ListGrows
      <4> QED
        BY <1>1, <1>2, <1>3, <2>2, <4>1, <4>2, <4>3
    <3>2. CASE Include
      <4>1. /\ rest[index] \in IncludeOptions /\ rest[index] \notin DefineOptions
            /\ include_dirs' = Append(include_dirs, rest[index + 1]) /\ defines' = defines
        BY <3>2, FileListAssumption DEF Include
      <4>2. /\ IncludedAt \cap (1 .. index + 1) = (IncludedAt \cap before) \cup {index + 1}
            /\ DefinedAt \cap (1 .. index + 1) = DefinedAt \cap before
        BY <1>1, <2>1, <4>1, PlacesOfOption
      <4>3. Lists(Append(include_dirs, rest[index + 1]),
                  (IncludedAt \cap before) \cup {index + 1})
        BY <1>1, <1>2, <1>3, <2>2, ListGrows
      <4> QED
        BY <1>1, <1>2, <1>3, <2>2, <4>1, <4>2, <4>3
    <3> QED
      BY <1>5, <3>1, <3>2
  <2>7. /\ Lists(defines, DefinedAt \cap (1 .. index - 1))'
        /\ Lists(include_dirs, IncludedAt \cap (1 .. index - 1))'
        /\ Lists(design, DesignAt \cap (1 .. index - 1))'
        /\ Lists(verif, VerifAt \cap (1 .. index - 1))'
    BY <1>2, <2>1, <2>4, <2>5, <2>6, FileListFrame
  <2>8. /\ index' \in 1 .. Len(rest') + 1 /\ EvenRun(index)' /\ ended' = "no"
    <3>1. index + 2 \in 1 .. Len(rest) + 1
      BY <1>1, <2>1
    <3> QED
      BY <2>1, <2>3, <3>1, FileListFrame DEF Looping
  <2> QED
    BY <1>1, <2>1, <2>6, <2>7, <2>8 DEF FileListInv
<1>6. CASE Source
  <2>1. /\ Looping /\ rest[index] \notin Options /\ index <= Len(rest)
        /\ rest' = rest /\ ended' = ended /\ index' = index + 1
        /\ include_dirs' = include_dirs /\ defines' = defines
    BY <1>6 DEF Source, Looping
  <2>2. rest[index] \in T /\ index \in Nat /\ index > index - 1 /\ index - 1 \in Nat
    BY <1>1, <2>1
  <2>3. EvenRun(index + 1)
    BY <1>1, <2>1, Runs
  <2>4. (index + 1) - 1 = index
    BY <1>1
  <2>5. /\ DefinedAt \cap (1 .. index) = DefinedAt \cap before
        /\ IncludedAt \cap (1 .. index) = IncludedAt \cap before
        /\ rest[index] \in HasSrc =>
             /\ DesignAt \cap (1 .. index) = (DesignAt \cap before) \cup {index}
             /\ VerifAt \cap (1 .. index) = VerifAt \cap before
        /\ rest[index] \notin HasSrc =>
             /\ VerifAt \cap (1 .. index) = (VerifAt \cap before) \cup {index}
             /\ DesignAt \cap (1 .. index) = DesignAt \cap before
    BY <1>1, <2>1, PlacesOfSource
  <2>6. /\ design' \in Seq(T) /\ verif' \in Seq(T)
        /\ Lists(design', DesignAt \cap (1 .. index))
        /\ Lists(verif', VerifAt \cap (1 .. index))
    <3>1. CASE rest[index] \in HasSrc
      <4>1. design' = Append(design, rest[index]) /\ verif' = verif
        BY <1>6, <3>1 DEF Source
      <4>2. Lists(Append(design, rest[index]), (DesignAt \cap before) \cup {index})
        BY <1>1, <1>2, <1>3, <2>2, ListGrows
      <4> QED
        BY <1>1, <1>2, <1>3, <2>2, <2>5, <3>1, <4>1, <4>2
    <3>2. CASE rest[index] \notin HasSrc
      <4>1. verif' = Append(verif, rest[index]) /\ design' = design
        BY <1>6, <3>2 DEF Source
      <4>2. Lists(Append(verif, rest[index]), (VerifAt \cap before) \cup {index})
        BY <1>1, <1>2, <1>3, <2>2, ListGrows
      <4> QED
        BY <1>1, <1>2, <1>3, <2>2, <2>5, <3>2, <4>1, <4>2
    <3> QED
      BY <3>1, <3>2
  <2>7. /\ Lists(defines, DefinedAt \cap (1 .. index - 1))'
        /\ Lists(include_dirs, IncludedAt \cap (1 .. index - 1))'
        /\ Lists(design, DesignAt \cap (1 .. index - 1))'
        /\ Lists(verif, VerifAt \cap (1 .. index - 1))'
    BY <1>2, <2>1, <2>4, <2>5, <2>6, FileListFrame
  <2>8. /\ index' \in 1 .. Len(rest') + 1 /\ EvenRun(index)' /\ ended' = "no"
    <3>1. index + 1 \in 1 .. Len(rest) + 1
      BY <1>1, <2>1
    <3> QED
      BY <2>1, <2>3, <3>1, FileListFrame DEF Looping
  <2> QED
    BY <1>1, <2>1, <2>6, <2>7, <2>8 DEF FileListInv
<1> QED
  BY <1>4, <1>5, <1>6 DEF FileListNext, NoArgument, Printed, fvars

\* Every token of a file list is taken once and in order, for lists of any length and
\* any tokens: an argument by the option before it, even when it looks like an
\* option, and every other word as a source (script/parse_filelist.py).
THEOREM TokensAreTakenOnce == FileListSpec => []TokensTakenOnce
<1>1. FileListInv => TokensTakenOnce
  <2> SUFFICES ASSUME FileListInv PROVE TokensTakenOnce
    OBVIOUS
  <2>1. rest \in Seq(Options \cup Words) /\ index \in Nat \ {0} /\ Len(rest) \in Nat
        /\ index <= Len(rest) + 1
    BY FileListAssumption DEF FileListInv
  <2>2. ~Argument(index)
    BY <2>1, Runs DEF FileListInv
  <2>3. ASSUME ended = "printed"
        PROVE  /\ Lists(defines, DefinedAt) /\ Lists(include_dirs, IncludedAt)
               /\ Lists(design, DesignAt) /\ Lists(verif, VerifAt)
    <3>1. index - 1 = Len(rest)
      BY <2>1, <2>3 DEF FileListInv
    <3>2. /\ DefinedAt \subseteq 1 .. Len(rest) /\ IncludedAt \subseteq 1 .. Len(rest)
          /\ DesignAt \subseteq 1 .. Len(rest) /\ VerifAt \subseteq 1 .. Len(rest)
      BY DEF DefinedAt, IncludedAt, DesignAt, VerifAt
    <3>3. \A S : S \subseteq 1 .. Len(rest) => S \cap (1 .. Len(rest)) = S
      OBVIOUS
    <3> QED
      BY <3>1, <3>2, <3>3 DEF FileListInv
  <2>4. ended = "IndexError" <=> /\ index = Len(rest) /\ ended # "no"
                                 /\ rest[index] \in Options /\ ~Argument(index)
    BY <2>1, <2>2 DEF FileListInv
  <2> QED
    BY <2>3, <2>4 DEF TokensTakenOnce
<1> QED
  BY <1>1, FileListStart, FileListStep, PTL DEF FileListSpec

-----------------------------------------------------------------------------
(* The run statistics.                                                      *)

\* The dicts above line k.
Above(l, k) == {n \in PrintedDicts(l) : n < k}

\* What has been taken of the lines above k: the dicts with an even number of dicts
\* above them.
Taken(l, k) ==
  /\ Len(dicts[l]) = (Cardinality(Above(l, k)) + 1) \div 2
  /\ \A i \in 1 .. Len(dicts[l]) : \E n \in Above(l, k) :
       Cardinality(Above(l, n)) = 2 * (i - 1) /\ dicts[l][i] = logs[l][n]

TakenAll(l) == Taken(l, Len(logs[l]) + 1)

RunStatsInv ==
  /\ logs \in [{"tda", "hw"} -> Logs] /\ dicts \in [{"tda", "hw"} -> Seq(LogLines)]
  /\ stats \in {"tda", "hw", "merge", "done", "error"}
  /\ ReadingLog =>
       /\ lineno \in 1 .. Len(logs[stats]) + 1
       /\ json_counter = Cardinality(Above(stats, lineno)) /\ Taken(stats, lineno)
  /\ stats = "tda" => dicts["hw"] = << >>
  /\ stats = "hw" => TakenAll("tda")
  /\ stats \in {"merge", "done"} => TakenAll("tda") /\ TakenAll("hw")
  /\ stats \notin {"merge", "done"} => written = << >>
  /\ written # << >> => AllThere
  /\ written \in Seq([{"tda", "hw"} -> LogLines]) /\ Len(written) <= Len(WORKLOADS)
  /\ \A n \in 1 .. Len(written) : \A l \in {"tda", "hw"} : written[n][l] = dicts[l][n]

\* The dicts above a line are finitely many, and one more below each of them.
LEMMA DictsAbove ==
  ASSUME NEW l \in {"tda", "hw"}, logs \in [{"tda", "hw"} -> Logs]
  PROVE  /\ logs[l] \in Seq(LogLines) /\ Len(logs[l]) \in Nat
         /\ PrintedDicts(l) \subseteq 1 .. Len(logs[l])
         /\ IsFiniteSet(PrintedDicts(l)) /\ Cardinality(PrintedDicts(l)) \in Nat
         /\ \A k : IsFiniteSet(Above(l, k)) /\ Cardinality(Above(l, k)) \in Nat
         /\ Above(l, 1) = {} /\ Cardinality(Above(l, 1)) = 0
         /\ Above(l, Len(logs[l]) + 1) = PrintedDicts(l)
         /\ \A k \in 1 .. Len(logs[l]) :
              IF logs[l][k].json
                THEN /\ Above(l, k + 1) = Above(l, k) \cup {k}
                     /\ Cardinality(Above(l, k + 1)) = Cardinality(Above(l, k)) + 1
                ELSE Above(l, k + 1) = Above(l, k)
<1>1. logs[l] \in Seq(LogLines) /\ Len(logs[l]) \in Nat /\ DOMAIN logs[l] = 1 .. Len(logs[l])
  <2>1. logs[l] \in Logs
    OBVIOUS
  <2>2. logs[l] \in Seq(LogLines)
    BY <2>1, RunStatsAssumption
  <2> QED
    BY <2>2
<1>2. PrintedDicts(l) \subseteq 1 .. Len(logs[l])
  BY <1>1 DEF PrintedDicts, JsonLines
<1>3. IsFiniteSet(PrintedDicts(l))
  <2>1. IsFiniteSet(1 .. Len(logs[l]))
    BY <1>1, FS_Interval
  <2> QED
    BY <1>2, <2>1, FS_Subset
<1>4. \A k : IsFiniteSet(Above(l, k)) /\ Cardinality(Above(l, k)) \in Nat
  <2> TAKE k
  <2>1. Above(l, k) \in SUBSET PrintedDicts(l)
    BY DEF Above
  <2> QED
    BY <1>3, <2>1, FS_Subset, FS_CardinalityType
<1>5. Above(l, 1) = {} /\ Cardinality(Above(l, 1)) = 0
  <2>1. Above(l, 1) = {}
    BY <1>2 DEF Above
  <2> QED
    BY <2>1, FS_EmptySet
<1>6. Above(l, Len(logs[l]) + 1) = PrintedDicts(l)
  BY <1>1, <1>2 DEF Above
<1>7. ASSUME NEW k \in 1 .. Len(logs[l])
      PROVE  IF logs[l][k].json
               THEN /\ Above(l, k + 1) = Above(l, k) \cup {k}
                    /\ Cardinality(Above(l, k + 1)) = Cardinality(Above(l, k)) + 1
               ELSE Above(l, k + 1) = Above(l, k)
  <2>1. \A n \in PrintedDicts(l) : n < k + 1 <=> n < k \/ n = k
    BY <1>1, <1>2
  <2>2. k \in PrintedDicts(l) <=> logs[l][k].json
    BY <1>1 DEF PrintedDicts, JsonLines
  <2>3. k \notin Above(l, k)
    BY DEF Above
  <2>4. ASSUME logs[l][k].json
        PROVE  /\ Above(l, k + 1) = Above(l, k) \cup {k}
               /\ Cardinality(Above(l, k + 1)) = Cardinality(Above(l, k)) + 1
    <3>1. Above(l, k + 1) = Above(l, k) \cup {k}
      BY <2>1, <2>2, <2>4 DEF Above
    <3> QED
      BY <1>4, <2>3, <3>1, FS_AddElement
  <2>5. ~logs[l][k].json => Above(l, k + 1) = Above(l, k)
    BY <2>1, <2>2 DEF Above
  <2> QED
    BY <2>4, <2>5
<1> QED
  BY <1>1, <1>2, <1>3, <1>4, <1>5, <1>6, <1>7, FS_CardinalityType

LEMMA RunStatsFrame ==
  ASSUME logs' = logs
  PROVE  /\ \A l, k : Above(l, k)' = Above(l, k)
         /\ \A l : PrintedDicts(l)' = PrintedDicts(l)
         /\ \A l, k : dicts'[l] = dicts[l] => (Taken(l, k)' <=> Taken(l, k))
         /\ \A l : dicts'[l] = dicts[l] => (TakenAll(l)' <=> TakenAll(l))
<1>1. \A l : PrintedDicts(l)' = PrintedDicts(l)
  BY DEF PrintedDicts, JsonLines
<1>2. \A l, k : Above(l, k)' = Above(l, k)
  BY <1>1 DEF Above
<1>3. ASSUME NEW l, NEW k, dicts'[l] = dicts[l] PROVE Taken(l, k)' <=> Taken(l, k)
  BY <1>2, <1>3 DEF Taken
<1>4. ASSUME NEW l, dicts'[l] = dicts[l] PROVE TakenAll(l)' <=> TakenAll(l)
  BY <1>3, <1>4 DEF TakenAll
<1> QED
  BY <1>1, <1>2, <1>3, <1>4

\* Taking no line takes nothing, and taking the next dict of even position, or passing
\* over the next line otherwise, keeps what was taken right.
LEMMA NothingTaken ==
  ASSUME NEW l \in {"tda", "hw"}, logs \in [{"tda", "hw"} -> Logs], dicts[l] = << >>
  PROVE  Taken(l, 1)
<1>1. Len(dicts[l]) = 0 /\ 1 .. 0 = {} /\ (0 + 1) \div 2 = 0
  OBVIOUS
<1> QED
  BY <1>1, DictsAbove DEF Taken

LEMMA Halves ==
  \A c \in Nat : /\ c % 2 = 0 => (c + 1) \div 2 = c \div 2 /\ c = 2 * (c \div 2)
                             /\ (c + 1 + 1) \div 2 = (c \div 2) + 1
                /\ c % 2 # 0 => (c + 1) \div 2 = (c + 1 + 1) \div 2
  OBVIOUS

LEMMA OneMoreLine ==
  ASSUME NEW l \in {"tda", "hw"}, logs \in [{"tda", "hw"} -> Logs],
         dicts \in [{"tda", "hw"} -> Seq(LogLines)],
         NEW k \in 1 .. Len(logs[l]), Taken(l, k),
         logs' = logs,
         dicts'[l] = IF logs[l][k].json /\ Cardinality(Above(l, k)) % 2 = 0
                       THEN Append(dicts[l], logs[l][k]) ELSE dicts[l]
  PROVE  Taken(l, k + 1)'
<1> DEFINE c == Cardinality(Above(l, k))
<1>1. /\ logs[l] \in Seq(LogLines) /\ c \in Nat /\ Len(logs[l]) \in Nat
      /\ dicts[l] \in Seq(LogLines) /\ Len(dicts[l]) \in Nat
  BY DictsAbove
<1>2. IF logs[l][k].json
        THEN /\ Above(l, k + 1) = Above(l, k) \cup {k}
             /\ Cardinality(Above(l, k + 1)) = c + 1
        ELSE Above(l, k + 1) = Above(l, k)
  BY DictsAbove
<1>3. /\ Len(dicts[l]) = (c + 1) \div 2
      /\ \A i \in 1 .. Len(dicts[l]) : \E n \in Above(l, k) :
           Cardinality(Above(l, n)) = 2 * (i - 1) /\ dicts[l][i] = logs[l][n]
  BY DEF Taken
<1>4. CASE logs[l][k].json /\ c % 2 = 0
  <2>1. /\ dicts'[l] = Append(dicts[l], logs[l][k]) /\ logs[l][k] \in LogLines
        /\ Len(dicts'[l]) = Len(dicts[l]) + 1
        /\ dicts'[l][Len(dicts[l]) + 1] = logs[l][k]
        /\ \A i \in 1 .. Len(dicts[l]) : dicts'[l][i] = dicts[l][i]
    BY <1>1, <1>4
  <2>2. c = 2 * Len(dicts[l]) /\ Len(dicts[l]) + 1 = (c + 1 + 1) \div 2
    <3> HIDE DEF c
    <3>1. /\ (c + 1) \div 2 = c \div 2 /\ c = 2 * (c \div 2)
          /\ (c + 1 + 1) \div 2 = (c \div 2) + 1
      BY <1>1, <1>4, Halves
    <3> QED
      BY <1>3, <3>1
  <2>3. ASSUME NEW i \in 1 .. Len(dicts[l]) + 1
        PROVE  \E n \in Above(l, k + 1) :
                 Cardinality(Above(l, n)) = 2 * (i - 1) /\ dicts'[l][i] = logs[l][n]
    <3>1. CASE i = Len(dicts[l]) + 1
      <4>1. k \in Above(l, k + 1) /\ Cardinality(Above(l, k)) = 2 * (i - 1)
        BY <1>1, <1>2, <1>4, <2>2, <3>1
      <4> QED
        BY <2>1, <3>1, <4>1
    <3>2. CASE i \in 1 .. Len(dicts[l])
      BY <1>2, <1>3, <1>4, <2>1, <3>2
    <3> QED
      BY <1>1, <3>1, <3>2
  <2>4. Len(dicts'[l]) = (Cardinality(Above(l, k + 1)) + 1) \div 2
    BY <1>2, <1>4, <2>1, <2>2
  <2> QED
    BY <2>1, <2>3, <2>4, RunStatsFrame DEF Taken
<1>5. CASE ~(logs[l][k].json /\ c % 2 = 0)
  <2>1. dicts'[l] = dicts[l]
    BY <1>5
  <2>2. Len(dicts[l]) = (Cardinality(Above(l, k + 1)) + 1) \div 2
    <3>1. CASE logs[l][k].json
      <4>1. (c + 1) \div 2 = (c + 1 + 1) \div 2
        BY <1>1, <1>5, <3>1, Halves
      <4> QED
        BY <1>2, <1>3, <3>1, <4>1
    <3>2. CASE ~logs[l][k].json
      BY <1>2, <1>3, <3>2
    <3> QED
      BY <3>1, <3>2
  <2>3. \A i \in 1 .. Len(dicts[l]) : \E n \in Above(l, k + 1) :
          Cardinality(Above(l, n)) = 2 * (i - 1) /\ dicts[l][i] = logs[l][n]
    <3>1. Above(l, k) \subseteq Above(l, k + 1)
      BY <1>2
    <3> QED
      BY <1>3, <3>1
  <2>4. Taken(l, k + 1)
    BY <2>2, <2>3 DEF Taken
  <2> QED
    BY <2>1, <2>4, RunStatsFrame
<1> QED
  BY <1>4, <1>5

LEMMA RunStatsStart == RunStatsInit => RunStatsInv
<1> SUFFICES ASSUME RunStatsInit PROVE RunStatsInv
  OBVIOUS
<1>1. /\ logs \in [{"tda", "hw"} -> Logs] /\ stats = "tda" /\ lineno = 1
      /\ json_counter = 0 /\ written = << >>
      /\ dicts \in [{"tda", "hw"} -> Seq(LogLines)]
      /\ dicts["tda"] = << >> /\ dicts["hw"] = << >>
  BY DEF RunStatsInit
<1>2. /\ Len(logs["tda"]) \in Nat /\ Cardinality(Above("tda", 1)) = 0
      /\ Taken("tda", 1)
  BY <1>1, DictsAbove, NothingTaken
<1>3. lineno \in 1 .. Len(logs[stats]) + 1
  BY <1>1, <1>2
<1>4. Len(written) <= Len(WORKLOADS) /\ 1 .. Len(written) = {}
  BY <1>1, RunStatsAssumption
<1> QED
  BY <1>1, <1>2, <1>3, <1>4 DEF RunStatsInv

\* The lines of a log: the next one is skipped or taken.
LEMMA RunStatsLine ==
  ASSUME RunStatsInv, MoreLines, logs' = logs, stats' = stats, written' = written,
         lineno' = lineno + 1,
         json_counter' = IF LogLine.json THEN json_counter + 1 ELSE json_counter,
         dicts' = IF Odd THEN [dicts EXCEPT ![stats] = Append(@, LogLine)] ELSE dicts
  PROVE  RunStatsInv'
<1>1. /\ logs \in [{"tda", "hw"} -> Logs] /\ dicts \in [{"tda", "hw"} -> Seq(LogLines)]
      /\ stats \in {"tda", "hw"} /\ lineno \in 1 .. Len(logs[stats]) + 1
      /\ json_counter = Cardinality(Above(stats, lineno)) /\ Taken(stats, lineno)
      /\ lineno <= Len(logs[stats]) /\ written = << >>
  BY DEF RunStatsInv, MoreLines, ReadingLog
<1>2. Len(logs[stats]) \in Nat /\ logs[stats] \in Seq(LogLines)
  BY <1>1, DictsAbove
<1>3. lineno \in 1 .. Len(logs[stats]) /\ LogLine \in LogLines /\ dicts[stats] \in Seq(LogLines)
  BY <1>1, <1>2 DEF LogLine
<1>4. Append(dicts[stats], LogLine) \in Seq(LogLines)
  BY <1>3
<1>5. dicts' \in [{"tda", "hw"} -> Seq(LogLines)] /\ \A l : l # stats => dicts'[l] = dicts[l]
  BY <1>1, <1>4
<1>6. dicts'[stats] = IF logs[stats][lineno].json
                           /\ Cardinality(Above(stats, lineno)) % 2 = 0
                        THEN Append(dicts[stats], logs[stats][lineno]) ELSE dicts[stats]
  BY <1>1 DEF Odd, LogLine
<1>7. PICK l \in {"tda", "hw"}, k \in 1 .. Len(logs[stats]) : l = stats /\ k = lineno
  BY <1>1, <1>3
<1>8. Taken(l, k + 1)' /\ json_counter' = Cardinality(Above(l, k + 1))
  <2>1. Taken(l, k + 1)'
    BY <1>1, <1>6, <1>7, OneMoreLine
  <2> QED
    BY <1>1, <1>7, <2>1, DictsAbove DEF LogLine
<1>9. (json_counter = Cardinality(Above(stats, lineno)))' /\ Taken(stats, lineno)'
  BY <1>7, <1>8, RunStatsFrame
<1>10. stats = "hw" => TakenAll("tda")'
  BY <1>5, RunStatsFrame DEF RunStatsInv
<1>11. stats = "tda" => dicts'["hw"] = << >>
  BY <1>5 DEF RunStatsInv
<1>12. /\ Len(written) <= Len(WORKLOADS) /\ 1 .. Len(written) = {}
       /\ written \in Seq([{"tda", "hw"} -> LogLines])
  BY <1>1, RunStatsAssumption
<1> QED
  BY <1>1, <1>2, <1>5, <1>9, <1>10, <1>11, <1>12 DEF RunStatsInv, ReadingLog

LEMMA RunStatsStep == RunStatsInv /\ [RunStatsNext]_rvars => RunStatsInv'
<1> SUFFICES ASSUME RunStatsInv, [RunStatsNext]_rvars PROVE RunStatsInv'
  OBVIOUS
<1>1. /\ logs \in [{"tda", "hw"} -> Logs] /\ dicts \in [{"tda", "hw"} -> Seq(LogLines)]
      /\ written \in Seq([{"tda", "hw"} -> LogLines]) /\ Len(written) <= Len(WORKLOADS)
      /\ stats \in {"tda", "hw", "merge", "done", "error"}
      /\ \A n \in 1 .. Len(written) : \A l \in {"tda", "hw"} : written[n][l] = dicts[l][n]
  BY DEF RunStatsInv
<1>2. CASE SkipLine
  BY <1>2, RunStatsLine DEF SkipLine
<1>3. CASE TakeDict
  BY <1>3, RunStatsLine DEF TakeDict, Odd
<1>4. CASE ParseFails
  BY <1>1, <1>4 DEF ParseFails, MoreLines, ReadingLog, RunStatsInv
<1>5. CASE EndOfLog
  <2>1. /\ logs' = logs /\ dicts' = dicts /\ written' = written /\ written = << >>
        /\ stats \in {"tda", "hw"} /\ stats' = IF stats = "tda" THEN "hw" ELSE "merge"
        /\ lineno' = 1 /\ json_counter' = 0
    BY <1>5 DEF EndOfLog, ReadingLog, RunStatsInv
  <2>2. /\ Len(logs["hw"]) \in Nat /\ Len(logs[stats]) \in Nat
        /\ Cardinality(Above("hw", 1)) = 0
    BY <1>1, <2>1, DictsAbove
  <2>3. lineno = Len(logs[stats]) + 1 /\ TakenAll(stats)
    <3>1. lineno \in 1 .. Len(logs[stats]) + 1 /\ ~(lineno <= Len(logs[stats]))
          /\ Taken(stats, lineno)
      BY <1>5, <2>1 DEF EndOfLog, MoreLines, ReadingLog, RunStatsInv
    <3>2. lineno = Len(logs[stats]) + 1
      BY <2>2, <3>1
    <3> QED
      BY <3>1, <3>2 DEF TakenAll
  <2>4. TakenAll("tda")' /\ (stats = "hw" => TakenAll("hw")')
    <3>1. stats = "hw" => TakenAll("tda")
      BY DEF RunStatsInv
    <3> QED
      BY <2>1, <2>3, <3>1, RunStatsFrame
  <2>5. CASE stats = "tda"
    <3>1. Taken("hw", 1)
      BY <1>1, <2>5, NothingTaken DEF RunStatsInv
    <3>2. (/\ json_counter = Cardinality(Above("hw", lineno)) /\ Taken("hw", lineno))'
      BY <2>1, <2>2, <3>1, RunStatsFrame DEF Taken
    <3>3. lineno' \in 1 .. Len(logs'["hw"]) + 1
      BY <2>1, <2>2
    <3> QED
      BY <1>1, <2>1, <2>4, <2>5, <3>2, <3>3 DEF RunStatsInv, ReadingLog
  <2>6. CASE stats = "hw"
    <3>1. TakenAll("hw")' /\ TakenAll("tda")'
      BY <2>1, <2>3, <2>4, <2>6, RunStatsFrame
    <3> QED
      BY <1>1, <2>1, <2>6, <3>1 DEF RunStatsInv, ReadingLog
  <2> QED
    BY <2>1, <2>5, <2>6
<1>6. CASE CountFails
  BY <1>1, <1>6 DEF CountFails, ReadingLog, RunStatsInv
<1>7. CASE WriteWorkload
  <2>1. /\ stats = "merge" /\ AllThere /\ MorePairs
        /\ logs' = logs /\ dicts' = dicts /\ stats' = stats
        /\ written' = Append(written, [l \in {"tda", "hw"} |-> dicts[l][NextPair]])
    BY <1>7 DEF WriteWorkload
  <2>2. /\ NextPair = Len(written) + 1 /\ NextPair \in Nat /\ NextPair <= Len(WORKLOADS)
        /\ \A l \in {"tda", "hw"} : NextPair \in 1 .. Len(dicts[l])
    BY <1>1, <2>1 DEF NextPair, MorePairs
  <2>3. [l \in {"tda", "hw"} |-> dicts[l][NextPair]] \in [{"tda", "hw"} -> LogLines]
    <3>1. \A l \in {"tda", "hw"} : dicts[l][NextPair] \in LogLines
      BY <1>1, <2>2
    <3> QED
      BY <3>1
  <2>4. /\ written' \in Seq([{"tda", "hw"} -> LogLines]) /\ Len(written') = NextPair
        /\ \A n \in 1 .. Len(written) : written'[n] = written[n]
        /\ written'[NextPair] = [l \in {"tda", "hw"} |-> dicts[l][NextPair]]
    BY <1>1, <2>1, <2>2, <2>3
  <2>5. ASSUME NEW n \in 1 .. Len(written'), NEW l \in {"tda", "hw"}
        PROVE  written'[n][l] = dicts'[l][n]
    <3>1. n \in 1 .. Len(written) \/ n = NextPair
      BY <1>1, <2>2, <2>4
    <3> QED
      BY <1>1, <2>1, <2>4, <3>1
  <2>6. TakenAll("tda")' /\ TakenAll("hw")'
    BY <2>1, RunStatsFrame DEF RunStatsInv
  <2>7. AllThere'
    BY <2>1 DEF AllThere
  <2> QED
    BY <1>1, <2>1, <2>2, <2>4, <2>5, <2>6, <2>7 DEF RunStatsInv, ReadingLog
<1>8. CASE AllWritten
  <2>1. /\ logs' = logs /\ dicts' = dicts /\ written' = written
        /\ stats = "merge" /\ stats' = "done" /\ AllThere
    BY <1>8 DEF AllWritten
  <2>2. TakenAll("tda")' /\ TakenAll("hw")' /\ AllThere'
    BY <2>1, RunStatsFrame DEF RunStatsInv, AllThere
  <2> QED
    BY <1>1, <2>1, <2>2 DEF RunStatsInv, ReadingLog
<1>9. CASE UNCHANGED rvars
  <2>1. /\ logs' = logs /\ stats' = stats /\ lineno' = lineno
        /\ json_counter' = json_counter /\ dicts' = dicts /\ written' = written
    BY <1>9 DEF rvars
  <2>2. /\ \A k : Above(stats, k)' = Above(stats, k)
        /\ Taken(stats, lineno)' <=> Taken(stats, lineno)
        /\ TakenAll("tda")' <=> TakenAll("tda")
        /\ TakenAll("hw")' <=> TakenAll("hw")
    <3>1. Taken(stats, lineno)' <=> Taken(stats, lineno)
      BY <2>1, RunStatsFrame DEF Taken
    <3> QED
      BY <2>1, <3>1, RunStatsFrame
  <2>3. Cardinality(Above(stats, lineno))' = Cardinality(Above(stats, lineno))
    BY <2>1, <2>2
  <2> QED
    BY <2>1, <2>2, <2>3 DEF RunStatsInv, ReadingLog, AllThere
<1> QED
  BY <1>2, <1>3, <1>4, <1>5, <1>6, <1>7, <1>8, <1>9 DEF RunStatsNext

\* In a log that lacks nothing, the dict with 2 * (i - 1) dicts above it is the first
\* of workload i: there is no place left for another.
LEMMA FirstOfWorkload ==
  ASSUME NEW l \in {"tda", "hw"}, logs \in [{"tda", "hw"} -> Logs], Complete(l),
         NEW i \in 1 .. Len(WORKLOADS),
         NEW n \in PrintedDicts(l), Cardinality(Above(l, n)) = 2 * (i - 1)
  PROVE  logs[l][n].of = WORKLOADS[i] /\ logs[l][n].nth = 1
<1> DEFINE D == PrintedDicts(l)
           W == Len(WORKLOADS)
           below == D \ (Above(l, n) \cup {n})
<1>1. /\ W \in Nat /\ D \subseteq Nat /\ IsFiniteSet(D) /\ Cardinality(D) = 2 * W
      /\ IsFiniteSet(Above(l, n)) /\ Above(l, n) \subseteq D
      /\ \A m \in Above(l, n) : m < n
      /\ \A m \in below : n < m
  <2>1. /\ Len(logs[l]) \in Nat /\ D \subseteq 1 .. Len(logs[l]) /\ IsFiniteSet(D)
        /\ IsFiniteSet(Above(l, n))
    BY DictsAbove
  <2>2. D \subseteq Nat
    BY <2>1
  <2>3. Above(l, n) = {m \in D : m < n}
    BY DEF Above
  <2>4. \A m \in below : n < m
    BY <2>2, <2>3
  <2> QED
    BY <2>1, <2>2, <2>3, <2>4, RunStatsAssumption DEF Complete
<1>2. PICK place \in [D -> 1 .. 2 * W] :
        /\ \A m, o \in D : m < o => place[m] < place[o]
        /\ \A m \in D : /\ logs[l][m].of = WORKLOADS[(place[m] + 1) \div 2]
                        /\ logs[l][m].nth = IF place[m] % 2 = 1 THEN 1 ELSE 2
  <2>1. InPrintOrder(logs[l])
    <3>1. logs[l] \in Logs
      OBVIOUS
    <3> QED
      BY <3>1, RunStatsAssumption
  <2> QED
    BY <2>1 DEF InPrintOrder, PrintedDicts
<1>3. place[n] \in 1 .. 2 * W
  BY <1>2
<1>4. ASSUME NEW m \in D, NEW o \in D, m # o PROVE place[m] # place[o]
  <2>1. m < o \/ o < m
    BY <1>1, <1>4
  <2>2. \A x \in 1 .. 2 * W : x \in Nat
    OBVIOUS
  <2>3. place[m] \in 1 .. 2 * W /\ place[o] \in 1 .. 2 * W
    BY <1>2
  <2>4. place[m] \in Nat /\ place[o] \in Nat
    BY <2>2, <2>3
  <2> QED
    BY <1>2, <2>1, <2>4
<1>5. 2 * (i - 1) <= place[n] - 1
  <2> DEFINE f == [m \in Above(l, n) |-> place[m]]
  <2>1. f \in Injection(Above(l, n), 1 .. place[n] - 1)
    <3>1. \A m \in Above(l, n) : place[m] \in 1 .. place[n] - 1
      BY <1>1, <1>2, <1>3
    <3> QED
      BY <1>1, <1>4, <3>1 DEF Injection, IsInjective
  <2>2. /\ IsFiniteSet(1 .. place[n] - 1)
        /\ Cardinality(1 .. place[n] - 1) = place[n] - 1
    <3>1. 1 \in Int /\ place[n] - 1 \in Int
          /\ (IF 1 > place[n] - 1 THEN 0 ELSE (place[n] - 1) - 1 + 1) = place[n] - 1
      BY <1>1, <1>3
    <3>2. /\ IsFiniteSet(1 .. place[n] - 1)
          /\ Cardinality(1 .. place[n] - 1)
               = IF 1 > place[n] - 1 THEN 0 ELSE (place[n] - 1) - 1 + 1
      BY <3>1, FS_Interval
    <3> QED
      BY <3>1, <3>2
  <2>3. Cardinality(Above(l, n)) <= Cardinality(1 .. place[n] - 1)
    BY <2>1, <2>2, FS_Injection
  <2> QED
    BY <2>2, <2>3
<1>6. Cardinality(below) = 2 * W - 2 * (i - 1) - 1 /\ IsFiniteSet(below)
  <2>1. n \notin Above(l, n)
    BY <1>1
  <2>2. /\ IsFiniteSet(Above(l, n) \cup {n})
        /\ Cardinality(Above(l, n) \cup {n}) = 2 * (i - 1) + 1
    BY <1>1, <2>1, FS_AddElement
  <2>3. Above(l, n) \cup {n} \in SUBSET D
    BY <1>1
  <2>4. IsFiniteSet(below) /\ Cardinality(below) = Cardinality(D) - Cardinality(D \cap (Above(l, n) \cup {n}))
    BY <1>1, <2>2, FS_Difference
  <2>5. D \cap (Above(l, n) \cup {n}) = Above(l, n) \cup {n}
    BY <2>3
  <2>6. 2 * W \in Int /\ i \in Int
    BY <1>1
  <2>7. Cardinality(below) = 2 * W - (2 * (i - 1) + 1)
    BY <1>1, <2>2, <2>4, <2>5
  <2> QED
    BY <2>4, <2>6, <2>7
<1>7. 2 * W - 2 * (i - 1) - 1 <= 2 * W - place[n]
  <2> DEFINE f == [m \in below |-> place[m]]
  <2>1. f \in Injection(below, place[n] + 1 .. 2 * W)
    <3>1. \A m \in below : place[m] \in place[n] + 1 .. 2 * W
      BY <1>1, <1>2, <1>3
    <3> QED
      BY <1>4, <3>1 DEF Injection, IsInjective
  <2>2. /\ IsFiniteSet(place[n] + 1 .. 2 * W)
        /\ Cardinality(place[n] + 1 .. 2 * W) = 2 * W - place[n]
    <3>1. place[n] + 1 \in Int /\ 2 * W \in Int
          /\ (IF place[n] + 1 > 2 * W THEN 0 ELSE 2 * W - (place[n] + 1) + 1)
               = 2 * W - place[n]
      BY <1>1, <1>3
    <3>2. /\ IsFiniteSet(place[n] + 1 .. 2 * W)
          /\ Cardinality(place[n] + 1 .. 2 * W)
               = IF place[n] + 1 > 2 * W THEN 0 ELSE 2 * W - (place[n] + 1) + 1
      BY <3>1, FS_Interval
    <3> QED
      BY <3>1, <3>2
  <2>3. Cardinality(below) <= Cardinality(place[n] + 1 .. 2 * W)
    BY <2>1, <2>2, FS_Injection
  <2> QED
    BY <1>6, <2>2, <2>3
<1>8. place[n] = 2 * i - 1
  BY SMTT(30), <1>1, <1>3, <1>5, <1>7
<1>9. (place[n] + 1) \div 2 = i /\ place[n] % 2 = 1
  <2>1. \A k \in Nat : (2 * k) \div 2 = k /\ (2 * k + 1) % 2 = 1
    OBVIOUS
  <2>2. place[n] + 1 = 2 * i /\ place[n] = 2 * (i - 1) + 1 /\ i \in Nat /\ i - 1 \in Nat
    BY <1>1, <1>8
  <2> QED
    BY <2>1, <2>2
<1> QED
  BY <1>2, <1>9

\* However many workloads there are and whatever the logs lack, files are only
\* written from logs that lack one dict at most, and from complete logs each file
\* gets the first dict of its own workload (script/get_run_stats.py).
THEOREM WorkloadsAreRight == RunStatsSpec => []RightWorkload
<1>1. RunStatsInv => RightWorkload
  <2> SUFFICES ASSUME RunStatsInv, written # << >> PROVE RightWorkload
    BY DEF RightWorkload
  <2>1. /\ logs \in [{"tda", "hw"} -> Logs] /\ AllThere /\ TakenAll("tda") /\ TakenAll("hw")
        /\ written \in Seq([{"tda", "hw"} -> LogLines]) /\ Len(written) <= Len(WORKLOADS)
        /\ \A n \in 1 .. Len(written) : \A l \in {"tda", "hw"} : written[n][l] = dicts[l][n]
        /\ Len(WORKLOADS) \in Nat
    BY RunStatsAssumption DEF RunStatsInv
  <2>2. ASSUME NEW l \in {"tda", "hw"}
        PROVE  /\ Len(WORKLOADS) = (Cardinality(PrintedDicts(l)) + 1) \div 2
               /\ \A i \in 1 .. Len(WORKLOADS) : \E n \in PrintedDicts(l) :
                    Cardinality(Above(l, n)) = 2 * (i - 1) /\ dicts[l][i] = logs[l][n]
    <3>1. TakenAll(l) /\ Len(dicts[l]) = Len(WORKLOADS)
      BY <2>1 DEF AllThere
    <3>2. Above(l, Len(logs[l]) + 1) = PrintedDicts(l)
      BY <2>1, DictsAbove
    <3> QED
      BY <3>1, <3>2 DEF TakenAll, Taken
  <2>3. ASSUME NEW l \in {"tda", "hw"}
        PROVE  Cardinality(PrintedDicts(l)) >= 2 * Len(WORKLOADS) - 1
    <3>1. Cardinality(PrintedDicts(l)) \in Nat
      BY <2>1, DictsAbove
    <3>2. \A c \in Nat : c >= 2 * ((c + 1) \div 2) - 1
      OBVIOUS
    <3> QED
      BY <2>2, <3>1, <3>2
  <2>4. ASSUME Complete("tda"), Complete("hw"),
               NEW n \in DOMAIN written, NEW l \in {"tda", "hw"}
        PROVE  written[n][l].of = WORKLOADS[n] /\ written[n][l].nth = 1
    <3>1. n \in 1 .. Len(written) /\ n \in 1 .. Len(WORKLOADS) /\ Complete(l)
      BY <2>1, <2>4
    <3>2. PICK m \in PrintedDicts(l) :
            Cardinality(Above(l, m)) = 2 * (n - 1) /\ dicts[l][n] = logs[l][m]
      BY <2>2, <3>1
    <3>3. logs[l][m].of = WORKLOADS[n] /\ logs[l][m].nth = 1
      BY <2>1, <3>1, <3>2, FirstOfWorkload
    <3> QED
      BY <2>1, <3>1, <3>2, <3>3
  <2> QED
    BY <2>3, <2>4 DEF RightWorkload
<1> QED
  BY <1>1, RunStatsStart, RunStatsStep, PTL DEF RunStatsSpec

=============================================================================

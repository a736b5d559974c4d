-------------------------------- MODULE Batch --------------------------------
(***************************************************************************)
(* One invocation of `kedro azureml run` (run_jobs in cli/functions.py):   *)
(* the main thread prepares every job, staging the code snapshot once and  *)
(* registering it once per workspace, then submits them, in order or from  *)
(* a pool of threads, through the clients of BatchClients (client.py).     *)
(* Azure ML is external: its calls succeed, fail, or succeed and lose the  *)
(* answer, and the jobs it has accepted end when they like.                *)
(***************************************************************************)
EXTENDS Integers, FiniteSets

CONSTANTS
  JobCount,     \* how many jobs the command names; a job is its position
  Workspaces,   \* the workspaces azureml.yml defines
  Undefined,    \* a workspace it does not
  Assignments,  \* which workspace each job may name
  Workers,      \* CONCURRENT_SUBMIT_WORKERS
  Snapshots,    \* whether execution.code_directory may be set
  Modes,        \* how the command may be invoked
  Faults,       \* which calls may fail
  MaxFaults     \* bound: how many of them fail in a behaviour

Jobs == 1..JobCount

ASSUME BatchAssumption ==
  /\ JobCount \in Nat \ {0}                       \* -j is required
  /\ Undefined \notin Workspaces
  /\ Assignments \subseteq [Jobs -> Workspaces \cup {Undefined}]
  /\ Workers \in Nat \ {0}
  /\ Snapshots \subseteq BOOLEAN
  /\ Modes \subseteq {"dry", "serial", "wait", "concurrent"}
  /\ Faults \subseteq {"prepare", "credential", "client", "compute", "create",
                       "reply", "callback", "network", "job"}
  /\ MaxFaults \in Nat

VARIABLES
  workspaceOf,  \* the workspace each job names
  snapshot,     \* whether execution.code_directory is set
  mode,         \* the flags: --dry-run, none, --wait-for-completion, --concurrent
  phase,        \* where the main thread is
  cursor,       \* the job it prepares
  staged,       \* the staged snapshot directory
  stagings,     \* how many times a snapshot was staged
  codeIds,      \* the workspaces whose code asset id is known
  registrations,\* per workspace, how many times the snapshot was registered
  code,         \* the workspace whose code asset each prepared job's steps name
  lock,         \* the job whose thread holds BatchClients._lock
  credentials,  \* how many credentials were built
  opened,       \* per workspace, how many clients were opened
  pc,           \* where each job's submission is
  result,       \* what submit(job) returned
  remote,       \* the job in Azure ML
  faults        \* how many calls have failed

conf == <<workspaceOf, snapshot, mode>>
prep == <<cursor, stagings, codeIds, registrations, code>>
pool == <<lock, credentials, opened>>
work == <<pc, result, remote>>
vars == <<conf, phase, staged, prep, pool, work, faults>>

Free == 0
NoCode == "no code"
Phases == {"preparing", "submitting", "aborted", "good", "bad"}
Stages == {"queued", "client", "credential", "open", "compute", "create", "callback",
           "stream", "done"}

Init ==
  /\ workspaceOf \in Assignments /\ snapshot \in Snapshots
  /\ mode \in Modes
  /\ phase = "preparing"
  /\ cursor = 1
  /\ staged = "none" /\ stagings = 0
  /\ codeIds = {} /\ registrations = [w \in Workspaces |-> 0]
  /\ code = [j \in Jobs |-> NoCode]
  /\ lock = Free /\ credentials = 0 /\ opened = [w \in Workspaces |-> 0]
  /\ pc = [j \in Jobs |-> "queued"]
  /\ result = [j \in Jobs |-> "none"]
  /\ remote = [j \in Jobs |-> "absent"]
  /\ faults = 0

Fault(kind) ==
  /\ kind \in Faults /\ faults < MaxFaults
  /\ faults' = faults + 1

-----------------------------------------------------------------------------
(* Preparing: the main thread alone, one job after another. *)

Resolves(j) == workspaceOf[j] \in Workspaces
\* Bug: a dry run prepares like any other.
ResolvingAlways == TRUE
\* A dry run has no code_resolver.
Resolving == mode # "dry"
\* Bug: the asset id is cached without its workspace.
WantsFirstCode(j) == Resolving /\ snapshot /\ codeIds = {}
WantsCode(j) == Resolving /\ snapshot /\ workspaceOf[j] \notin codeIds

Preparing == phase = "preparing" /\ cursor <= JobCount

\* SnapshotRegistrar, first job that needs code.
Stage ==
  /\ Preparing /\ Resolves(cursor) /\ WantsCode(cursor) /\ staged = "none"
  /\ staged' = "live" /\ stagings' = stagings + 1
  /\ UNCHANGED <<conf, phase, cursor, codeIds, registrations, code, pool, work, faults>>

Known(w) == codeIds \cup {w}

\* SnapshotRegistrar, first job of a workspace.  No other thread is there to
\* contend for the lock, so opening the client is part of the step.
Register ==
  /\ Preparing /\ Resolves(cursor) /\ WantsCode(cursor) /\ staged = "live"
  /\ LET w == workspaceOf[cursor] IN
       /\ credentials' = IF credentials = 0 THEN 1 ELSE credentials
       /\ opened' = IF opened[w] = 0 THEN [opened EXCEPT ![w] = 1] ELSE opened
       /\ registrations' = [registrations EXCEPT ![w] = @ + 1]
       /\ codeIds' = Known(w)
  /\ UNCHANGED <<conf, phase, cursor, staged, stagings, code, lock, work, faults>>

\* generate() and the prepared entry.  Without a resolver the workspace is not
\* looked at; without a code_directory the steps name no asset.
Generate ==
  /\ Preparing
  /\ Resolving => Resolves(cursor)
  /\ ~WantsCode(cursor)
  /\ code' = IF Resolving /\ snapshot
             THEN [code EXCEPT ![cursor] = workspaceOf[cursor]] ELSE code
  /\ cursor' = cursor + 1
  /\ UNCHANGED <<conf, phase, staged, stagings, codeIds, registrations, pool, work, faults>>

Closed == IF staged = "live" THEN "removed" ELSE staged

\* An exception while preparing any job leaves run_jobs; the ExitStack removes
\* the staged directory.
PrepareFails ==
  /\ Preparing
  /\ IF Resolving /\ ~Resolves(cursor) THEN UNCHANGED faults ELSE Fault("prepare")
  /\ phase' = "aborted" /\ staged' = Closed
  /\ UNCHANGED <<conf, prep, pool, work>>

StartSubmitting ==
  /\ phase = "preparing" /\ cursor > JobCount
  /\ phase' = "submitting"
  /\ UNCHANGED <<conf, staged, prep, pool, work, faults>>

-----------------------------------------------------------------------------
(* Submitting: submit(job), in the main thread or in one of the pool. *)

InFlight == {j \in Jobs : pc[j] \notin {"queued", "done"}}

Goto(j, stage) == pc' = [pc EXCEPT ![j] = stage]
Return(j, value) == Goto(j, "done") /\ result' = [result EXCEPT ![j] = value]

\* Bug: the loop does not break.
IsNextAlways(j) ==
  /\ phase = "submitting" /\ pc[j] = "queued"
  /\ \A i \in 1..(j - 1) : pc[i] = "done"

\* pool.map hands the jobs out in order; the loop breaks at the first failure.
IsNext(j) ==
  /\ phase = "submitting" /\ pc[j] = "queued"
  /\ IF mode = "concurrent"
     THEN /\ \A i \in 1..(j - 1) : pc[i] # "queued"
          /\ Cardinality(InFlight) < Workers
     ELSE \A i \in 1..(j - 1) : result[i] = "ok"

\* The workspace is resolved again, before the dry run is told apart.
Take(j) ==
  /\ IsNext(j)
  /\ \/ ~Resolves(j) /\ Return(j, "failed")
     \/ Resolves(j) /\ mode = "dry" /\ Return(j, "ok")
     \/ Resolves(j) /\ mode # "dry" /\ Goto(j, "client") /\ UNCHANGED result
  /\ UNCHANGED <<conf, phase, staged, prep, pool, remote, faults>>

\* BatchClients.get: a client that is there is returned at once.
ReuseClient(j) ==
  /\ pc[j] = "client" /\ lock = Free /\ opened[workspaceOf[j]] > 0
  /\ Goto(j, "compute")
  /\ UNCHANGED <<conf, phase, staged, prep, pool, result, remote, faults>>

\* Bug: get takes no lock.
NoLock == TRUE
LockIsFree == lock = Free

EnterGet(j) ==
  /\ pc[j] = "client" /\ LockIsFree /\ opened[workspaceOf[j]] = 0
  /\ lock' = j
  /\ Goto(j, IF credentials = 0 THEN "credential" ELSE "open")
  /\ UNCHANGED <<conf, phase, staged, prep, credentials, opened, result, remote, faults>>

BuildCredential(j) ==
  /\ pc[j] = "credential"
  /\ credentials' = credentials + 1
  /\ Goto(j, "open")
  /\ UNCHANGED <<conf, phase, staged, prep, lock, opened, result, remote, faults>>

OpenClient(j) ==
  /\ pc[j] = "open"
  /\ opened' = [opened EXCEPT ![workspaceOf[j]] = @ + 1]
  /\ lock' = Free
  /\ Goto(j, "compute")
  /\ UNCHANGED <<conf, phase, staged, prep, credentials, result, remote, faults>>

\* Bug: the lock is acquired and released by hand.
LeakLock == UNCHANGED lock
LeaveGet == lock' = Free

\* An exception leaves the with block; submit turns it into False.
GetFails(j) ==
  /\ \/ pc[j] = "credential" /\ Fault("credential")
     \/ pc[j] = "open" /\ Fault("client")
  /\ LeaveGet
  /\ Return(j, "failed")
  /\ UNCHANGED <<conf, phase, staged, prep, credentials, opened, remote>>

FindCompute(j) ==
  /\ pc[j] = "compute"
  /\ Goto(j, "create")
  /\ UNCHANGED <<conf, phase, staged, prep, pool, result, remote, faults>>

\* A cluster that is not there, or the call fails.
ComputeFails(j) ==
  /\ pc[j] = "compute" /\ Fault("compute")
  /\ Return(j, "failed")
  /\ UNCHANGED <<conf, phase, staged, prep, pool, remote>>

CreateJob(j) ==
  /\ pc[j] = "create"
  /\ remote' = [remote EXCEPT ![j] = "running"]
  /\ Goto(j, "callback")
  /\ UNCHANGED <<conf, phase, staged, prep, pool, result, faults>>

\* create_or_update raises: before Azure ML has the job, or after.
CreateFails(j) ==
  /\ pc[j] = "create"
  /\ \/ Fault("create") /\ UNCHANGED remote
     \/ Fault("reply") /\ remote' = [remote EXCEPT ![j] = "running"]
  /\ Return(j, "failed")
  /\ UNCHANGED <<conf, phase, staged, prep, pool>>

\* Bug: submit falls off its end without an answer.
CallBackMute(j) ==
  /\ pc[j] = "callback"
  /\ Goto(j, IF mode = "wait" THEN "stream" ELSE "done")
  /\ UNCHANGED <<conf, phase, staged, prep, pool, result, remote, faults>>

\* on_job_scheduled returns.
CallBack(j) ==
  /\ pc[j] = "callback"
  /\ IF mode = "wait" THEN Goto(j, "stream") /\ UNCHANGED result ELSE Return(j, "ok")
  /\ UNCHANGED <<conf, phase, staged, prep, pool, remote, faults>>

\* on_job_scheduled raises: the job is there all the same.
CallbackFails(j) ==
  /\ pc[j] = "callback" /\ Fault("callback")
  /\ Return(j, "failed")
  /\ UNCHANGED <<conf, phase, staged, prep, pool, remote>>

\* jobs.stream returns when the job has completed and raises when it has failed.
Stream(j) ==
  /\ pc[j] = "stream" /\ remote[j] # "running"
  /\ Return(j, IF remote[j] = "completed" THEN "ok" ELSE "failed")
  /\ UNCHANGED <<conf, phase, staged, prep, pool, remote, faults>>

\* Bug: a stream that breaks off counts as the end of the job.
StreamForgives(j) ==
  /\ pc[j] = "stream" /\ Fault("network")
  /\ Return(j, "ok")
  /\ UNCHANGED <<conf, phase, staged, prep, pool, remote>>

\* HttpResponseError or ServiceRequestError: the job may still be running.
StreamFails(j) ==
  /\ pc[j] = "stream" /\ Fault("network")
  /\ Return(j, "failed")
  /\ UNCHANGED <<conf, phase, staged, prep, pool, remote>>

Submit(j) ==
  \/ Take(j)
  \/ ReuseClient(j) \/ EnterGet(j) \/ BuildCredential(j) \/ OpenClient(j) \/ GetFails(j)
  \/ FindCompute(j) \/ ComputeFails(j)
  \/ CreateJob(j) \/ CreateFails(j)
  \/ CallBack(j) \/ CallbackFails(j)
  \/ Stream(j) \/ StreamFails(j)

-----------------------------------------------------------------------------
(* The end of the batch. *)

Attempted ==
  \/ \A j \in Jobs : pc[j] = "done"
  \/ mode # "concurrent" /\ \E j \in Jobs : result[j] = "failed"

\* The summary, the ExitStack, and the exit status of the command.
Verdict == IF \A j \in Jobs : result[j] = "ok" THEN "good" ELSE "bad"

Finish ==
  /\ phase = "submitting" /\ Attempted
  /\ phase' = Verdict /\ staged' = Closed
  /\ UNCHANGED <<conf, prep, pool, work, faults>>

\* External: Azure ML ends a job, well or badly.
RemoteEnds(j) ==
  /\ remote[j] = "running"
  /\ \/ remote' = [remote EXCEPT ![j] = "completed"] /\ UNCHANGED faults
     \/ Fault("job") /\ remote' = [remote EXCEPT ![j] = "failed"]
  /\ UNCHANGED <<conf, phase, staged, prep, pool, pc, result>>

Main == Stage \/ Register \/ Generate \/ PrepareFails \/ StartSubmitting \/ Finish

Next == Main \/ \E j \in Jobs : Submit(j) \/ RemoteEnds(j)

Spec == Init /\ [][Next]_vars

\* The threads run (a lock each of them takes once cannot starve one), the
\* callback returns, and Azure ML ends the jobs it has.
Fairness ==
  /\ WF_vars(Main)
  /\ \A j \in Jobs : WF_vars(Submit(j)) /\ WF_vars(RemoteEnds(j))

FairSpec == Spec /\ Fairness

-----------------------------------------------------------------------------
(* Properties. *)

Ended == phase \in {"aborted", "good", "bad"}
Created(j) == remote[j] # "absent"

\* The state is well formed: only a job whose thread is inside get holds the
\* lock, and submit has answered for exactly the jobs it is done with.
TypeOK ==
  /\ workspaceOf \in Assignments /\ snapshot \in Snapshots
  /\ mode \in Modes /\ phase \in Phases
  /\ cursor \in 1..(JobCount + 1)
  /\ staged \in {"none", "live", "removed"} /\ stagings \in Nat
  /\ codeIds \in SUBSET Workspaces /\ registrations \in [Workspaces -> Nat]
  /\ code \in [Jobs -> Workspaces \cup {NoCode}]
  /\ credentials \in Nat /\ opened \in [Workspaces -> Nat]
  /\ pc \in [Jobs -> Stages]
  /\ result \in [Jobs -> {"none", "ok", "failed"}]
  /\ remote \in [Jobs -> {"absent", "running", "completed", "failed"}]
  /\ lock \in {j \in Jobs : pc[j] \in {"credential", "open"}} \cup {Free}
  /\ faults \in 0..MaxFaults
  /\ \A j \in Jobs : pc[j] = "done" <=> result[j] # "none"

\* Whatever is made for the batch is made once, however many threads ask for it and
\* whichever of their attempts fail: one credential, one client per workspace
\* (BatchClients.get), one staged snapshot, one registration per workspace
\* (SnapshotRegistrar); and the staged directory does not outlive the command.
OncePerBatch ==
  /\ credentials <= 1 /\ stagings <= 1
  /\ \A w \in Workspaces : opened[w] <= 1 /\ registrations[w] <= 1
  /\ Ended => staged # "live"

\* A job reaches Azure ML with steps that name a code asset registered in the
\* workspace the job is submitted to (code_resolver, then submit).
CodeIsThere ==
  snapshot => \A j \in Jobs :
    Created(j) => code[j] = workspaceOf[j] /\ registrations[workspaceOf[j]] > 0

\* With --wait-for-completion a job is created only when every job before it has
\* completed in Azure ML, so it never reads an output that is missing; and exit
\* status 0 means that Azure ML has every job, completed when they were waited for.
ChainConsumesOutputs ==
  /\ mode = "wait" => \A j \in Jobs :
       Created(j) => \A i \in 1..(j - 1) : remote[i] = "completed"
  /\ phase = "good" /\ mode # "dry" => \A j \in Jobs :
       Created(j) /\ (mode = "wait" => remote[j] = "completed")

\* A dry run changes nothing outside the process: no snapshot, no credential,
\* no registration, no job.
DryRunIsDry ==
  mode = "dry" => /\ stagings = 0 /\ credentials = 0
                  /\ \A w \in Workspaces : registrations[w] = 0 /\ opened[w] = 0
                  /\ \A j \in Jobs : ~Created(j)

\* The command always ends: no failure leaves a thread waiting for the lock.
BatchEnds == <>Ended

\* The batch implements the contract of `run` (BatchSpec): modes by what they
\* promise, jobs by whether Azure ML has them.
Abstract == INSTANCE BatchSpec WITH
  mode <- [dry |-> "preview", serial |-> "chain", wait |-> "chain",
           concurrent |-> "independent"][mode],
  exists <- {j \in Jobs : Created(j)},
  outcome <- result,
  exit <- CASE phase = "good" -> "good"
            [] phase \in {"bad", "aborted"} -> "bad"
            [] OTHER -> "running"

ImplementsBatchSpec == Abstract!Spec
=============================================================================

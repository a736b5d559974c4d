------------------------------ MODULE BatchSpec ------------------------------
(***************************************************************************)
(* What `kedro azureml run` promises of the jobs named on its command line *)
(* (docs/pages/reference/cli.md): without workspaces, clients, snapshots   *)
(* or threads.  A chain is submitted in order and stops at the first       *)
(* failure; independent jobs are all attempted; a preview submits nothing; *)
(* and the exit status is good only if every job is.                       *)
(***************************************************************************)
EXTENDS Integers

CONSTANT JobCount  \* how many jobs the command names; a job is its position

Jobs == 1..JobCount

VARIABLES
  mode,     \* "preview", "chain" or "independent"
  exists,   \* the jobs Azure ML has
  outcome,  \* what is known of each job: "none", "ok" or "failed"
  exit      \* the exit status: "running", "good" or "bad"

vars == <<mode, exists, outcome, exit>>

Init ==
  /\ mode \in {"preview", "chain", "independent"}
  /\ exists = {}
  /\ outcome = [j \in Jobs |-> "none"]
  /\ exit = "running"

MayAttempt(j) ==
  /\ exit = "running"
  /\ outcome[j] = "none"
  /\ mode # "independent" => \A i \in 1..(j - 1) : outcome[i] = "ok"

\* The job appears in Azure ML.
Create(j) ==
  /\ MayAttempt(j) /\ mode # "preview" /\ j \notin exists
  /\ exists' = exists \cup {j}
  /\ UNCHANGED <<mode, outcome, exit>>

\* The job is reported: as good only if it is there.
Succeed(j) ==
  /\ MayAttempt(j) /\ (mode = "preview" \/ j \in exists)
  /\ outcome' = [outcome EXCEPT ![j] = "ok"]
  /\ UNCHANGED <<mode, exists, exit>>

\* A failed report says nothing of whether the job is there: the answer may be
\* what was lost.
Fail(j) ==
  /\ MayAttempt(j)
  /\ outcome' = [outcome EXCEPT ![j] = "failed"]
  /\ \/ UNCHANGED exists
     \/ mode # "preview" /\ exists' = exists \cup {j}
  /\ UNCHANGED <<mode, exit>>

\* Something is wrong before the first job is submitted.
Abort ==
  /\ exit = "running" /\ exists = {} /\ \A j \in Jobs : outcome[j] = "none"
  /\ exit' = "bad"
  /\ UNCHANGED <<mode, exists, outcome>>

Complete ==
  \/ \A j \in Jobs : outcome[j] # "none"
  \/ mode # "independent" /\ \E j \in Jobs : outcome[j] = "failed"

Finish ==
  /\ exit = "running" /\ Complete
  /\ exit' = IF \A j \in Jobs : outcome[j] = "ok" THEN "good" ELSE "bad"
  /\ UNCHANGED <<mode, exists, outcome>>

Next ==
  \/ \E j \in Jobs : Create(j) \/ Succeed(j) \/ Fail(j)
  \/ Abort
  \/ Finish

Spec == Init /\ [][Next]_vars
=============================================================================

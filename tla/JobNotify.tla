----------------------------- MODULE JobNotify ------------------------------
(***************************************************************************)
(* The run notifications of one job: an Azure ML pipeline whose every step *)
(* is a Kedro session of its own.  The generator designates the announcer  *)
(* and the poster (generator.py, notification_roles); every step then runs *)
(* the plugin's hooks (hooks/mlflow.py, hooks/notify.py), which see each   *)
(* other only through the MLflow tags and statuses of their step runs.     *)
(***************************************************************************)
EXTENDS Integers, FiniteSets

CONSTANTS
  Nodes,       \* the nodes of the filtered pipeline; each is a step
  Edges,       \* the dependencies, <<parent, child>>
  Rank,        \* each node's place in the order by topological group, then name
  Procs,       \* the processes Azure ML launches, several for a distributed step
  StepOf,      \* the step each of them belongs to
  Events,      \* the events of the job's notification definition
  Experiment,  \* whether the job has an experiment name, which turns tagging on
  Mlflow,      \* whether the image has the mlflow extra
  Threaded,    \* whether the transport is the Slack API
  ErrorHooks,  \* the order pluggy calls the on_pipeline_error hooks in
  MaxPolls,    \* wait_timeout, in polls of POLL_INTERVAL_SECONDS
  KillPhases   \* where a process may die without a hook: killed, or a hook raised

Parents(n) == {m \in Nodes : <<m, n>> \in Edges}
Roots == {n \in Nodes : Parents(n) = {}}
Leaves == {n \in Nodes : \A m \in Nodes : <<n, m>> \notin Edges}

ASSUME JobAssumption ==
  /\ Nodes # {} /\ IsFiniteSet(Nodes)
  /\ Edges \subseteq Nodes \X Nodes
  /\ Rank \in [Nodes -> 1..Cardinality(Nodes)]
  /\ \A m, n \in Nodes : Rank[m] = Rank[n] => m = n
  /\ \A e \in Edges : Rank[e[1]] < Rank[e[2]]
  /\ StepOf \in [Procs -> Nodes]
  /\ \A n \in Nodes : \E p \in Procs : StepOf[p] = n
  /\ Events \subseteq {"start", "success", "failure", "warning", "recovered"}
  /\ Experiment \in BOOLEAN /\ Mlflow \in BOOLEAN /\ Threaded \in BOOLEAN
  /\ ErrorHooks \in {<<"notify", "mlflow">>, <<"mlflow", "notify">>}
  /\ MaxPolls \in Nat
  /\ KillPhases \cap {"none", "done", "gone"} = {}

\* notification_roles refuses the job otherwise.
ASSUME RolesAssumption ==
  Cardinality(Leaves) > 1 /\ "success" \in Events => Experiment

\* The announcer is the first root, the poster the last leaf.
Announcer == CHOOSE n \in Roots : \A m \in Roots : Rank[n] <= Rank[m]
Poster == CHOOSE n \in Leaves : \A m \in Leaves : Rank[m] <= Rank[n]

\* Bug: the poster waits for itself as well.
SiblingsAndPoster == Leaves
Siblings == Leaves \ {Poster}

\* _is_mlflow_integration_active, and mlflow importable.
Tagging == Experiment /\ Mlflow

VARIABLES
  status,    \* the status of each step run, in Azure ML and MLflow
  phase,     \* where each process is
  nodeTag,   \* the steps whose run carries kedro.node_name
  errorTag,  \* the steps whose run carries kedro.error
  threadTag, \* whether the root run carries kedro.notify_thread
  wait,      \* what each process of the poster step knows of its siblings
  posts      \* every message handed to the transport

vars == <<status, phase, nodeTag, errorTag, threadTag, wait, posts>>

Phases == {"none", "tagging", "announcing", "recording", "node", "error 1", "error 2",
           "after", "polling", "concluding", "done", "gone"}

Terminal == {"FINISHED", "FAILED"}  \* TERMINAL_RUN_STATUSES; KILLED reads like FAILED

\* The locals of _await_siblings, and polls, the searches left before the deadline.
Waits ==
  [pending : SUBSET (Leaves \ {Poster}), reported : SUBSET (Leaves \ {Poster}),
   unreported : SUBSET (Leaves \ {Poster}), polls : 0..MaxPolls]

NoWait == [pending |-> {}, reported |-> {}, unreported |-> {}, polls |-> 0]

Messages ==
  [proc : Procs, event : {"start", "success", "failure", "unknown"},
   about : SUBSET Nodes, thread : BOOLEAN]

Message(p, event, about, threaded) ==
  [proc |-> p, event |-> event, about |-> about, thread |-> threaded]

ProcsOf(n) == {p \in Procs : StepOf[p] = n}

Init ==
  /\ status = [n \in Nodes |-> "waiting"]
  /\ phase = [p \in Procs |-> "none"]
  /\ nodeTag = {} /\ errorTag = {} /\ threadTag = FALSE
  /\ wait = [p \in Procs |-> NoWait]
  /\ posts = {}

\* Bug: only a failure looks for the thread of the start message.
OutcomeUnthreaded(p, event, about) ==
  posts' = posts \cup {Message(p, event, about, Threaded /\ threadTag /\ event = "failure")}

\* An outcome replies in the start message's thread, if it is on record by now.
Outcome(p, event, about) ==
  posts' = posts \cup {Message(p, event, about, Threaded /\ threadTag)}

Go(p, next) == phase' = [phase EXCEPT ![p] = next]

\* A step finishes with the last of its processes and fails with the first, which
\* takes the others down.
Finish(p) ==
  /\ Go(p, "done")
  /\ status' = [status EXCEPT ![StepOf[p]] =
       IF \A q \in ProcsOf(StepOf[p]) \ {p} : phase[q] = "done" THEN "FINISHED" ELSE @]

Fail(p) ==
  /\ phase' = [q \in Procs |-> IF StepOf[q] = StepOf[p] THEN "gone" ELSE phase[q]]
  /\ status' = [status EXCEPT ![StepOf[p]] = "FAILED"]

-----------------------------------------------------------------------------
\* Azure ML starts a step once the steps it depends on have finished.
StartStep(n) ==
  /\ status[n] = "waiting"
  /\ \A m \in Parents(n) : status[m] = "FINISHED"
  /\ status' = [status EXCEPT ![n] = "running"]
  /\ phase' = [p \in Procs |-> IF StepOf[p] = n THEN "tagging" ELSE phase[p]]
  /\ UNCHANGED <<nodeTag, errorTag, threadTag, wait, posts>>

\* MlflowAzureMLHook.before_pipeline_run tags the step run with its node name.
TagRun(p) ==
  /\ phase[p] = "tagging"
  /\ Go(p, "announcing")
  /\ nodeTag' = IF Tagging THEN nodeTag \cup {StepOf[p]} ELSE nodeTag
  /\ UNCHANGED <<status, errorTag, threadTag, wait, posts>>

Announces(p) == StepOf[p] = Announcer /\ "start" \in Events

\* NotificationHook.before_pipeline_run: the announcer posts start; when Slack
\* answers with a timestamp, the next call records it.
Announce(p) ==
  /\ phase[p] = "announcing"
  /\ IF Announces(p)
     THEN \E acknowledged \in BOOLEAN :
            LET opens == Threaded /\ acknowledged
            IN /\ posts' = posts \cup {Message(p, "start", {}, opens)}
               /\ Go(p, IF opens THEN "recording" ELSE "node")
     ELSE UNCHANGED posts /\ Go(p, "node")
  /\ UNCHANGED <<status, nodeTag, errorTag, threadTag, wait>>

\* _record_thread; a tag that cannot be written is only logged.
RecordThread(p) ==
  /\ phase[p] = "recording"
  /\ Go(p, "node")
  /\ \E written \in BOOLEAN : threadTag' = (threadTag \/ (Mlflow /\ written))
  /\ UNCHANGED <<status, nodeTag, errorTag, wait, posts>>

\* The node function returns or raises.
RunNode(p) ==
  /\ phase[p] = "node"
  /\ \E next \in {"after", "error 1"} : Go(p, next)
  /\ UNCHANGED <<status, nodeTag, errorTag, threadTag, wait, posts>>

\* One on_pipeline_error hook: NotificationHook posts failure, MlflowAzureMLHook
\* tags the run.  After the last the process exits and the step has failed.
ErrorHook(p) ==
  /\ \/ phase[p] = "error 1" /\ Go(p, "error 2") /\ UNCHANGED status
     \/ phase[p] = "error 2" /\ Fail(p)
  /\ LET hook == ErrorHooks[IF phase[p] = "error 1" THEN 1 ELSE 2]
     IN /\ IF hook = "notify" /\ "failure" \in Events
           THEN Outcome(p, "failure", {StepOf[p]}) ELSE UNCHANGED posts
        /\ errorTag' = IF hook = "mlflow" /\ Tagging
                       THEN errorTag \cup {StepOf[p]} ELSE errorTag
  /\ UNCHANGED <<nodeTag, threadTag, wait>>

\* NotificationHook.after_pipeline_run on a step with no outcome to post.
Leave(p) ==
  /\ phase[p] = "after"
  /\ StepOf[p] # Poster \/ Events \cap {"success", "failure", "warning", "recovered"} = {}
  /\ Finish(p)
  /\ UNCHANGED <<nodeTag, errorTag, threadTag, wait, posts>>

\* The poster starts to wait.  Without siblings, or without mlflow, it takes the
\* job for finished at once.
AwaitSiblings(p) ==
  /\ phase[p] = "after"
  /\ StepOf[p] = Poster /\ Events \cap {"success", "failure", "warning", "recovered"} # {}
  /\ IF Siblings = {} \/ ~Mlflow
     THEN Go(p, "concluding") /\ UNCHANGED wait
     ELSE /\ Go(p, "polling")
          /\ wait' = [wait EXCEPT ![p] = [pending |-> Siblings, reported |-> {},
                                          unreported |-> {}, polls |-> MaxPolls]]
  /\ UNCHANGED <<status, nodeTag, errorTag, threadTag, posts>>

\* kedro.error on its run says that a failed sibling posted its own failure.
\* Bug: no failure, or every failure, is taken for a reported one.
ReportedNever(n) == FALSE
ReportedAlways(n) == n \in Nodes
Reported(n) == n \in errorTag

\* Bug: the wait has no cap.
GivesUpNever(w) == w.polls < 0
GivesUp(w) == w.polls = 0

\* One turn of _await_siblings: a search for the step runs, then the deadline.
Poll(p) ==
  LET w == wait[p]
      ended == {n \in w.pending : n \in nodeTag /\ status[n] \in Terminal}
      failed == {n \in ended : status[n] # "FINISHED"}
      pending == w.pending \ ended
  IN /\ phase[p] = "polling"
     /\ wait' = [wait EXCEPT ![p] =
          [pending |-> pending,
           reported |-> w.reported \cup {n \in failed : Reported(n)},
           unreported |-> w.unreported \cup {n \in failed : ~Reported(n)},
           polls |-> IF w.polls = 0 THEN 0 ELSE w.polls - 1]]
     /\ Go(p, IF pending = {} \/ GivesUp(w) THEN "concluding" ELSE "polling")
     /\ UNCHANGED <<status, nodeTag, errorTag, threadTag, posts>>

\* SiblingOutcome.finished.  Bug: a sibling that posted its own failure is
\* forgotten; siblings pending at the cap are.
FinishedButReported(w) == w.pending = {} /\ w.unreported = {}
FinishedSoFar(w) == w.reported = {} /\ w.unreported = {}
Finished(w) == w.pending = {} /\ w.reported = {} /\ w.unreported = {}

\* after_pipeline_run posts what became of the job.  A finished job's degraded
\* runs are the subject of Outage; here a job subscribed to warning may be one.
Conclude(p) ==
  LET w == wait[p]
      degradedRuns == IF "warning" \in Events THEN BOOLEAN ELSE {FALSE}
  IN /\ phase[p] = "concluding"
     /\ \/ /\ Finished(w)
           /\ \E degraded \in degradedRuns :
                IF "success" \in Events /\ ~degraded
                THEN Outcome(p, "success", {}) ELSE UNCHANGED posts
        \/ /\ ~Finished(w) /\ w.pending # {}
           /\ Outcome(p, "unknown", w.pending)
        \/ /\ ~Finished(w) /\ w.pending = {}
           /\ IF w.unreported # {} /\ "failure" \in Events
              THEN Outcome(p, "failure", w.unreported) ELSE UNCHANGED posts
     /\ Finish(p)
     /\ UNCHANGED <<nodeTag, errorTag, threadTag, wait>>

\* A process dies where no error hook runs: killed for memory, preempted,
\* cancelled, or ended by an exception outside the node.
Die(p) ==
  /\ phase[p] \in KillPhases
  /\ Fail(p)
  /\ UNCHANGED <<nodeTag, errorTag, threadTag, wait, posts>>

Hooks(p) ==
  \/ TagRun(p) \/ Announce(p) \/ RecordThread(p) \/ RunNode(p) \/ ErrorHook(p)
  \/ Leave(p) \/ AwaitSiblings(p) \/ Poll(p) \/ Conclude(p)

Next ==
  \/ \E n \in Nodes : StartStep(n)
  \/ \E p \in Procs : Hooks(p) \/ Die(p)

\* A running process keeps running its hooks; whether Azure ML starts a further
\* step once one has failed depends on continue_on_step_failure, so it need not.
Fairness == \A p \in Procs : WF_vars(Hooks(p))

Spec == Init /\ [][Next]_vars /\ Fairness

-----------------------------------------------------------------------------
\* Types: every variable stays in its range; the poster waits for leaves other
\* than itself.
TypeOK ==
  /\ status \in [Nodes -> {"waiting", "running"} \cup Terminal]
  /\ phase \in [Procs -> Phases]
  /\ nodeTag \subseteq Nodes /\ errorTag \subseteq Nodes
  /\ threadTag \in BOOLEAN
  /\ wait \in [Procs -> Waits]
  /\ posts \subseteq Messages

Sent(event) == {m \in posts : m.event = event}

\* success is only ever said of a job all of whose steps finished, the interior
\* ones the poster never asks about included: it looks at the leaves alone
\* (_await_siblings, after_pipeline_run).
SuccessMeansAllFinished ==
  Mlflow /\ Sent("success") # {} => \A n \in Nodes \ {Poster} : status[n] = "FINISHED"

\* The channel never says of one job both that it succeeded and that it failed or
\* is unknown, whichever step speaks (a poster of one process).
OutcomesAgree == Sent("success") = {} \/ Sent("failure") \cup Sent("unknown") = {}

\* A poster that was left to end has not ended in silence: some step posted an
\* outcome, whatever died on the way (the hooks' order decides it: the failure is
\* posted before kedro.error tells the poster that it was).
NeverSilent ==
  /\ {"success", "failure"} \subseteq Events /\ "warning" \notin Events
  /\ status[Poster] = "FINISHED"
  => \E m \in posts : m.event \in {"success", "failure", "unknown"}

\* A leaf that died is in exactly one failure message by the time the poster ends
\* with every sibling accounted for, unless a leaf died between posting its failure
\* and tagging kedro.error, by which _await_siblings tells reported from unreported.
EachDeathToldOnce ==
  \A p \in Procs : /\ "failure" \in Events
                   /\ phase[p] = "done" /\ StepOf[p] = Poster /\ wait[p].pending = {}
                   /\ \A m \in Sent("failure") : StepOf[m.proc] \in Siblings => StepOf[m.proc] \in errorTag
    => \A n \in Siblings : status[n] = "FAILED" =>
         Cardinality({m \in Sent("failure") : n \in m.about}) = 1

\* success replies in the thread of the start message whenever that thread was
\* recorded: it always is by the time the poster concludes, since no step but the
\* announcer records it and no poster succeeds before the announcer finished.
SuccessIsThreaded == threadTag => \A m \in Sent("success") : m.thread

\* Every process that started ends, waiting posters included: the wait has a cap.
EveryStepEnds ==
  \A p \in Procs : phase[p] # "none" ~> phase[p] \in {"done", "gone"}
=============================================================================

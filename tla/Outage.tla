------------------------------- MODULE Outage -------------------------------
(***************************************************************************)
(* The outage report of one job over its successive runs: what the poster  *)
(* step of every finished run does in NotificationHook._report_outage      *)
(* (hooks/notify.py).  Each run is a process of its own, on Azure ML; the  *)
(* runs share nothing but the tags their posters write on their root runs  *)
(* in MLflow, one set_tag call at a time, and read back through            *)
(* search_runs.  Runs may overlap, calls may fail, posters may be killed.  *)
(***************************************************************************)
EXTENDS Integers, FiniteSets

CONSTANTS
  Starts,       \* start times a run may have; a run is named by its start time
  Tables,       \* the tables a step may report as degraded
  Events,       \* the events of the job's notification definition
  Repeat,       \* warning_repeat_hours
  Tolerance,    \* warning_repeat_tolerance_minutes
  Scanned,      \* PREVIOUS_RUNS_SCANNED
  Threaded,     \* whether the transport is the Slack API, which returns a thread
  MaxInFlight,  \* bound: how many runs of the job may be unfinished at once
  Faults,       \* which faults may happen
  MaxFaults     \* bound: how many of them a behaviour has

\* An entry "table:reason:last_data" whose table part is empty.
NoTable == "no table"

\* The entries the steps of a run may leave.
Entries == IF "entry" \in Faults THEN Tables \cup {NoTable} ELSE Tables

ASSUME OutageAssumption ==
  /\ Starts \subseteq Nat \ {0}
  /\ NoTable \notin Tables
  /\ Events \subseteq {"success", "warning", "recovered"}
  /\ Repeat \in Nat /\ Tolerance \in Nat
  /\ \A r \in Starts : r >= Repeat      \* instants are epoch milliseconds
  /\ Scanned \in Nat \ {0}
  /\ Threaded \in BOOLEAN
  /\ MaxInFlight \in Nat \ {0}
  /\ MaxFaults \in Nat
  /\ Faults \subseteq {"entry", "experiment", "marks", "lookup", "post", "tag", "crash"}

VARIABLES
  pc,       \* where each run is
  marks,    \* the kedro.warning entries its steps left
  degraded, \* what _report_outage answers
  dec,      \* the OutageDecision, once taken
  todo,     \* the tags still to write
  tags,     \* the tags on the root run, in MLflow
  posts,    \* every message handed to the transport, delivered or not
  faults,   \* how many faults have happened
  latest    \* history: the run that finished its report last, 0 before the first

vars == <<pc, marks, degraded, dec, todo, tags, posts, faults, latest>>

TagNames == {"job", "state", "since", "lastPost", "tables", "thread"}

\* The order the tags are set in: JOB_NAME_TAG, then decision.state's own order.
Position ==
  [job |-> 1, state |-> 2, since |-> 3, lastPost |-> 4, tables |-> 5, thread |-> 6]

\* A root run nobody wrote to.  An absent instant or thread reads as 0.
NoTags ==
  [job |-> FALSE, state |-> "none", since |-> 0, lastPost |-> 0, tables |-> {}, thread |-> 0]

Tags ==
  [job : BOOLEAN, state : {"none", "clean", "degraded"}, since : Starts \cup {0},
   lastPost : Starts \cup {0}, tables : SUBSET Tables, thread : Starts \cup {0}]

Decisions ==
  [post : {"none", "warning", "recovered"}, reminder : BOOLEAN,
   thread : Starts \cup {0}, state : Tags]

Undecided == [post |-> "none", reminder |-> FALSE, thread |-> 0, state |-> NoTags]

Messages ==
  [run : Starts, event : {"success", "warning", "recovered"}, reminder : BOOLEAN,
   since : Starts \cup {0}, thread : Starts \cup {0}, delivered : BOOLEAN]

Phases == {"absent", "running", "reading", "lookup", "posting", "writing",
           "outcome", "ended", "dead", "raised"}

WarningTables(entries) == entries \ {NoTable}

\* Bug: a run without history is taken for the end of an outage.
WasNotClean(previous) == previous.state # "clean"
WasDegraded(previous) == previous.state = "degraded"

\* Whether warning_repeat_hours have passed since the last message, but for the
\* tolerance.  Bug: the tolerance is forgotten.
DueOnTheHour(previous, start) == start >= previous.lastPost + Repeat
Due(previous, start) == start + Tolerance >= previous.lastPost + Repeat

\* decide_outage: the message and the state of a completed run, from the tags
\* of its previous completed run (NoTags when there is none).
DecideOutage(previous, entries, start) ==
  LET tables == WarningTables(entries)
      wasDegraded == WasDegraded(previous)
      clean == [NoTags EXCEPT !.job = TRUE, !.state = "clean"]
      opened == [NoTags EXCEPT !.job = TRUE, !.state = "degraded", !.since = start,
                               !.lastPost = start, !.tables = tables]
      ongoing == [job |-> TRUE, state |-> "degraded",
                  since |-> IF previous.since = 0 THEN start ELSE previous.since,
                  lastPost |-> previous.lastPost,
                  tables |-> previous.tables \cup tables,
                  thread |-> previous.thread]
      repeated == [ongoing EXCEPT !.lastPost = start]
      news == ~(tables \subseteq previous.tables)
      due == Due(previous, start)
      decide(post, reminder, thread, state) ==
        [post |-> post, reminder |-> reminder, thread |-> thread, state |-> state]
  IN CASE tables = {} /\ wasDegraded ->
            decide("recovered", FALSE, previous.thread, [clean EXCEPT !.since = previous.since])
       [] tables = {} /\ ~wasDegraded -> decide("none", FALSE, 0, clean)
       [] tables # {} /\ ~wasDegraded -> decide("warning", FALSE, 0, opened)
       [] tables # {} /\ wasDegraded /\ news ->
            decide("warning", FALSE, previous.thread, repeated)
       [] tables # {} /\ wasDegraded /\ ~news /\ due ->
            decide("warning", TRUE, previous.thread, repeated)
       [] tables # {} /\ wasDegraded /\ ~news /\ ~due ->
            decide("none", FALSE, 0, ongoing)

-----------------------------------------------------------------------------
InFlight == {r \in Starts : pc[r] \notin {"absent", "ended", "dead", "raised"}}

\* The newest Scanned root runs of the job, and of those the ones that recorded
\* an outage state: what _previous_run_tags goes through for run r.
Window ==
  LET named == {q \in Starts : tags[q].job}
  IN {q \in named : Cardinality({p \in named : p > q}) < Scanned}

Recorded(r) == {q \in Window \ {r} : tags[q].state # "none"}

Init ==
  /\ pc = [r \in Starts |-> "absent"]
  /\ marks = [r \in Starts |-> {}]
  /\ degraded = [r \in Starts |-> FALSE]
  /\ dec = [r \in Starts |-> Undecided]
  /\ todo = [r \in Starts |-> {}]
  /\ tags = [r \in Starts |-> NoTags]
  /\ posts = {}
  /\ faults = 0
  /\ latest = 0

Fault(kind) == kind \in Faults /\ faults < MaxFaults /\ faults' = faults + 1
NoFault == UNCHANGED faults

\* The step's process ends: what it knew is gone, what it wrote stays.
Leave(r, phase) ==
  /\ pc' = [pc EXCEPT ![r] = phase]
  /\ marks' = [marks EXCEPT ![r] = {}]
  /\ degraded' = [degraded EXCEPT ![r] = FALSE]
  /\ dec' = [dec EXCEPT ![r] = Undecided]
  /\ todo' = [todo EXCEPT ![r] = {}]

\* Azure ML starts a run of the job, by a schedule or by hand.
Begin(r) ==
  /\ pc[r] = "absent"
  /\ \A q \in Starts : pc[q] # "absent" => q < r
  /\ Cardinality(InFlight) < MaxInFlight
  /\ pc' = [pc EXCEPT ![r] = "running"]
  /\ NoFault
  /\ UNCHANGED <<marks, degraded, dec, todo, tags, posts, latest>>

\* A step of the run fails or the run is killed: its poster reports no outcome.
FailRun(r) ==
  /\ pc[r] = "running"
  /\ Leave(r, "dead")
  /\ NoFault
  /\ UNCHANGED <<tags, posts, latest>>

\* Every leaf finished, with the entries its steps left as kedro.warning tags;
\* after_pipeline_run reports the outage when the definition asks for it.
Finish(r, entries) ==
  /\ pc[r] = "running"
  /\ marks' = [marks EXCEPT ![r] = entries]
  /\ pc' = [pc EXCEPT ![r] =
              IF Events \cap {"warning", "recovered"} # {} THEN "reading" ELSE "outcome"]
  /\ NoFault
  /\ UNCHANGED <<degraded, dec, todo, tags, posts, latest>>

\* get_experiment_by_name raises: nothing in _report_outage catches it.
ExperimentRaises(r) ==
  /\ pc[r] = "reading"
  /\ Fault("experiment")
  /\ Leave(r, "raised")
  /\ UNCHANGED <<tags, posts, latest>>

\* The step runs of the job are read; a failure answers "not degraded" at once.
ReadMarks(r) ==
  /\ pc[r] = "reading"
  /\ \/ /\ pc' = [pc EXCEPT ![r] = "lookup"]
        /\ degraded' = [degraded EXCEPT ![r] = marks[r] # {}]
        /\ NoFault
     \/ /\ Fault("marks")
        /\ pc' = [pc EXCEPT ![r] = "outcome"]
        /\ UNCHANGED degraded
  /\ UNCHANGED <<marks, dec, todo, tags, posts, latest>>

\* The decision is taken from the tags the lookup returned; they may be stale by
\* the time it is acted on.
Decide(r, previous) ==
  /\ pc[r] = "lookup"
  /\ pc' = [pc EXCEPT ![r] = "posting"]
  /\ dec' = [dec EXCEPT ![r] = DecideOutage(previous, marks[r], r)]
  /\ UNCHANGED <<marks, degraded, todo, tags, posts, latest>>

\* _previous_run_tags: the newest other root run that recorded a state, or no
\* history when there is none.
FindPrevious(r) ==
  /\ \/ Recorded(r) = {} /\ Decide(r, NoTags)
     \/ \E q \in Recorded(r) : (\A p \in Recorded(r) : p <= q) /\ Decide(r, tags[q])
  /\ NoFault

\* The lookup fails, which counts as no history.
LookupFails(r) ==
  /\ Fault("lookup")
  /\ Decide(r, NoTags)

\* Whether the transport delivers a message; an undelivered one is only logged.
Transport(delivered) == IF delivered THEN NoFault ELSE Fault("post")

\* Bug: a job with any outage event gets every decision.
SubscribedToAny(r) == Events \cap {"warning", "recovered"} # {}
Subscribed(r) == dec[r].post \in Events

OutageMessage(r, delivered) ==
  [run |-> r, event |-> dec[r].post, reminder |-> dec[r].reminder,
   since |-> dec[r].state.since, thread |-> dec[r].thread, delivered |-> delivered]

\* Bug: a warning Slack never acknowledged opens the thread; a reply does.
StateWithLostThread(r, delivered) ==
  IF Subscribed(r) /\ dec[r].post = "warning" /\ dec[r].thread = 0 /\ Threaded
  THEN [dec[r].state EXCEPT !.thread = r]
  ELSE dec[r].state
StateRethreaded(r, delivered) ==
  IF Subscribed(r) /\ dec[r].post = "warning" /\ delivered /\ Threaded
  THEN [dec[r].state EXCEPT !.thread = r]
  ELSE dec[r].state

\* A warning that Slack acknowledged at top level is the outage's thread.
StateToWrite(r, delivered) ==
  IF Subscribed(r) /\ dec[r].post = "warning" /\ dec[r].thread = 0 /\ delivered /\ Threaded
  THEN [dec[r].state EXCEPT !.thread = r]
  ELSE dec[r].state

\* The message is posted when the job subscribed to it, and the state is made
\* ready to write, whether or not it was delivered.
Post(r) ==
  /\ pc[r] = "posting"
  /\ pc' = [pc EXCEPT ![r] = "writing"]
  /\ \E delivered \in BOOLEAN :
       /\ IF Subscribed(r)
          THEN Transport(delivered) /\ posts' = posts \cup {OutageMessage(r, delivered)}
          ELSE delivered /\ NoFault /\ UNCHANGED posts
       /\ dec' = [dec EXCEPT ![r].state = StateToWrite(r, delivered)]
       /\ todo' = [todo EXCEPT ![r] = {k \in TagNames : StateToWrite(r, delivered)[k] # NoTags[k]}]
  /\ UNCHANGED <<marks, degraded, tags, latest>>

\* One set_tag call; a call that fails is logged and the next tag is tried.
WriteTag(r) ==
  /\ pc[r] = "writing"
  /\ \E k \in todo[r] :
       /\ \A j \in todo[r] : Position[k] <= Position[j]
       /\ \/ tags' = [tags EXCEPT ![r][k] = dec[r].state[k]] /\ NoFault
          \/ Fault("tag") /\ UNCHANGED tags
       /\ todo' = [todo EXCEPT ![r] = @ \ {k}]
       /\ pc' = [pc EXCEPT ![r] = IF todo[r] = {k} THEN "outcome" ELSE "writing"]
  /\ UNCHANGED <<marks, degraded, dec, posts, latest>>

SuccessMessage(r, delivered) ==
  [run |-> r, event |-> "success", reminder |-> FALSE,
   since |-> 0, thread |-> 0, delivered |-> delivered]

\* after_pipeline_run posts success, unless the run was degraded and the job
\* subscribed to warning.
Outcome(r) ==
  /\ pc[r] = "outcome"
  /\ Leave(r, "ended")
  /\ latest' = r
  /\ IF "success" \in Events /\ ~(degraded[r] /\ "warning" \in Events)
     THEN \E delivered \in BOOLEAN :
            /\ Transport(delivered)
            /\ posts' = posts \cup {SuccessMessage(r, delivered)}
     ELSE NoFault /\ UNCHANGED posts
  /\ UNCHANGED tags

\* The poster is killed between two of its calls.
Crash(r) ==
  /\ pc[r] \in {"reading", "lookup", "posting", "writing", "outcome"}
  /\ Fault("crash")
  /\ Leave(r, "dead")
  /\ UNCHANGED <<tags, posts, latest>>

Next ==
  \E r \in Starts :
    \/ Begin(r) \/ FailRun(r)
    \/ \E entries \in SUBSET Entries : Finish(r, entries)
    \/ ExperimentRaises(r) \/ ReadMarks(r) \/ FindPrevious(r) \/ LookupFails(r)
    \/ Post(r) \/ WriteTag(r) \/ Outcome(r) \/ Crash(r)

Spec == Init /\ [][Next]_vars

-----------------------------------------------------------------------------
\* Types: every variable stays in its range (the tags of a root run included).
TypeOK ==
  /\ pc \in [Starts -> Phases]
  /\ marks \in [Starts -> SUBSET (Tables \cup {NoTable})]
  /\ degraded \in [Starts -> BOOLEAN]
  /\ dec \in [Starts -> Decisions]
  /\ todo \in [Starts -> SUBSET TagNames]
  /\ tags \in [Starts -> Tags]
  /\ posts \subseteq Messages
  /\ faults \in 0..MaxFaults
  /\ latest \in Starts \cup {0}

\* A message is threaded only under a warning that was posted at top level and
\* delivered, whatever overlaps, fails or dies: the thread tag of a root run is
\* never invented (decide_outage and _report_outage).
RepliesHaveParent ==
  \A m \in posts : m.thread # 0 =>
    \E w \in posts : w.run = m.thread /\ w.event = "warning" /\ w.thread = 0 /\ w.delivered

\* Nothing recovers that was not announced: a recovered message is only ever
\* posted after some run of the job posted, or tried to post, a warning, however
\* the tags in between were copied from run to run (_report_outage).
RecoveredFollowsWarning ==
  [][\A m \in posts' \ posts : m.event = "recovered" =>
       \E w \in posts : w.event = "warning"]_posts

\* All delivered messages of one outage are in one thread, the one its first
\* delivered warning opened, also when earlier warnings were lost
\* (decision.thread and OUTAGE_THREAD_TAG).
OneThreadPerOutage ==
  \A m, n \in posts :
    /\ "success" \notin {m.event, n.event} /\ m.delivered /\ n.delivered
    /\ m.since = n.since /\ m.run < n.run
    => n.thread = IF m.thread = 0 THEN m.run ELSE m.thread

\* The runs whose report is out, as a reader of the channel sees it, and the
\* state each of them decided, whether or not its tags are all written yet.
Writing(r) == pc[r] \in {"writing", "outcome"}

Out == {r \in Starts : Writing(r) \/ pc[r] = "ended"}

Decided(r) == IF Writing(r) THEN dec[r].state ELSE tags[r]

\* The outage in force is the one the newest of these runs decided.
InForce == IF Out = {} THEN NoTags ELSE Decided(CHOOSE r \in Out : \A q \in Out : q <= r)

Promise == INSTANCE OutageSpec WITH
  RemindAfter <- Repeat - Tolerance,
  outage <- IF InForce.state = "degraded"
            THEN [degraded |-> TRUE, since |-> InForce.since, last |-> InForce.lastPost,
                  tables |-> InForce.tables]
            ELSE [degraded |-> FALSE, since |-> 0, last |-> 0, tables |-> {}],
  reported <- Out,
  told <- {[run |-> m.run, event |-> m.event, reminder |-> m.reminder, since |-> m.since] :
             m \in {n \in posts : n.event # "success"}}

\* While runs of the job do not overlap and MLflow answers, the tags passed from
\* root run to root run implement the table of decide_outage as one atomic state,
\* lost messages included (_report_outage with _previous_run_tags).
ImplementsOutageSpec == Promise!Spec
=============================================================================

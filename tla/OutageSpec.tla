----------------------------- MODULE OutageSpec -----------------------------
(***************************************************************************)
(* What a job's outage reporting promises, without tags, processes or      *)
(* faults: every finished run reports in one step, and the outage in force *)
(* is a value each report reads and replaces.  It is the table of          *)
(* decide_outage (hooks/notify.py) read as a state machine, and the        *)
(* contract the how-to page notify-on-run-outcomes.md gives its reader.    *)
(***************************************************************************)
EXTENDS Integers

CONSTANTS
  Starts,      \* the start times of the job's runs; a run is named by its start
  Tables,      \* the tables a step may report as degraded
  RemindAfter  \* how long after the last message a degraded run reminds

VARIABLES
  outage,      \* the outage in force, or NoOutage
  reported,    \* the runs that reported
  told         \* the messages they sent

vars == <<outage, reported, told>>

NoOutage == [degraded |-> FALSE, since |-> 0, last |-> 0, tables |-> {}]

Message(r, event, reminder, since) ==
  [run |-> r, event |-> event, reminder |-> reminder, since |-> since]

Init ==
  /\ outage = NoOutage
  /\ reported = {}
  /\ told = {}

Say(message) == told' = told \cup {message}

\* The first degraded run opens the outage with a warning.
Open(r, T) ==
  /\ ~outage.degraded
  /\ outage' = [degraded |-> TRUE, since |-> r, last |-> r, tables |-> T]
  /\ Say(Message(r, "warning", FALSE, r))

\* A degraded run that names a table the outage has not named warns at once.
Widen(r, T) ==
  /\ outage.degraded /\ ~(T \subseteq outage.tables)
  /\ outage' = [outage EXCEPT !.last = r, !.tables = @ \cup T]
  /\ Say(Message(r, "warning", FALSE, outage.since))

Due(r) == r >= outage.last + RemindAfter

\* A degraded run without news reminds once RemindAfter has passed.
Remind(r, T) ==
  /\ outage.degraded /\ T \subseteq outage.tables /\ Due(r)
  /\ outage' = [outage EXCEPT !.last = r]
  /\ Say(Message(r, "warning", TRUE, outage.since))

\* A degraded run without news says nothing before that.
StayQuiet(r, T) ==
  /\ outage.degraded /\ T \subseteq outage.tables /\ ~Due(r)
  /\ UNCHANGED <<outage, told>>

\* The first clean run closes the outage, naming when it started.
Close(r) ==
  /\ outage.degraded
  /\ outage' = NoOutage
  /\ Say(Message(r, "recovered", FALSE, outage.since))

\* A clean run outside an outage says nothing.
StayClean(r) ==
  /\ ~outage.degraded
  /\ UNCHANGED <<outage, told>>

Report(r) ==
  /\ r \notin reported
  /\ reported' = reported \cup {r}
  /\ \/ Close(r) \/ StayClean(r)
     \/ \E T \in (SUBSET Tables) \ {{}} :
          Open(r, T) \/ Widen(r, T) \/ Remind(r, T) \/ StayQuiet(r, T)

Next == \E r \in Starts : Report(r)

Spec == Init /\ [][Next]_vars
=============================================================================

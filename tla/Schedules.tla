----------------------------- MODULE Schedules ------------------------------
(***************************************************************************)
(* `kedro azureml schedule`, with and without --delete (schedule_jobs and  *)
(* delete_schedules in cli/functions.py, scheduler.py): a sequence of      *)
(* commands, one at a time, that deploy and remove the triggers of a       *)
(* workspace, while the user edits azureml.yml between them.  Calls fail,  *)
(* lose their answer, or the user interrupts the command.  The commands    *)
(* keep no record of what they deployed: they find it by its name.         *)
(***************************************************************************)
EXTENDS Integers, Sequences, FiniteSets

CONSTANTS
  Jobs,        \* the job names of azureml.yml
  Named,       \* the entries of its schedules section
  Unknown,     \* a reference that names none of them
  Inline,      \* the inline schedules
  Names,       \* what a trigger may be called; every job name is one
  RefName,     \* RefName[j][ref]: the name "job-ref", which may be another job's
  IndexName,   \* IndexName[j][i]: the name "job-i"
  Lists,       \* the values a job's `schedule` may have; None is the empty list
  Faults,      \* what may fail
  MaxFaults,   \* bound: how often
  MaxEdits,    \* bound: how many jobs the user edits
  MaxCommands  \* bound: how many commands are given

Refs == Named \cup Inline \cup {Unknown}
Nobody == "nobody"

ASSUME SchedulesAssumption ==
  /\ Named \cap Inline = {} /\ Unknown \notin Named \cup Inline
  /\ Jobs \subseteq Names
  /\ Lists \subseteq Seq(Refs)
  /\ \A j \in Jobs, refs \in Lists : \A i \in 1..Len(refs) :
       IF refs[i] \in Inline THEN IndexName[j][i - 1] \in Names ELSE RefName[j][refs[i]] \in Names
  /\ Nobody \notin Jobs
  /\ Faults \subseteq {"call", "reply", "disable", "delete", "interrupt"}
  /\ MaxFaults \in Nat /\ MaxEdits \in Nat /\ MaxCommands \in Nat

VARIABLES
  config,    \* each job's `schedule`, as azureml.yml has it
  deployed,  \* the triggers of the workspace, by name
  command,   \* the command that runs, or ran last
  waiting,   \* the selected jobs it has not come to
  job,       \* the job it is at, or Nobody
  left,      \* the entries of that job still to do
  failed,    \* the jobs it reported as failed
  exit,      \* "idle", "running", "good" or "bad"
  edits, faults, commands

progress == <<waiting, job, left, failed, exit>>
vars == <<config, deployed, command, progress, edits, faults, commands>>

NotThere == [job |-> Nobody, ref |-> Unknown, enabled |-> FALSE]
Triggers == [job : Jobs, ref : Refs, enabled : BOOLEAN]
Commands == [delete : BOOLEAN, dry : BOOLEAN, jobs : SUBSET Jobs]

Init ==
  /\ config \in [Jobs -> Lists]
  /\ deployed = [n \in Names |-> NotThere]
  /\ command = [delete |-> FALSE, dry |-> FALSE, jobs |-> {}]
  /\ waiting = {} /\ job = Nobody /\ left = <<>> /\ failed = {} /\ exit = "idle"
  /\ edits = 0 /\ faults = 0 /\ commands = 0

Fault(kind) ==
  /\ kind \in Faults /\ faults < MaxFaults
  /\ faults' = faults + 1

-----------------------------------------------------------------------------
(* The naming convention that creating and deleting share. *)

EntryName(j, refs, i) ==
  IF Len(refs) = 1 THEN j
  ELSE IF refs[i] \in Inline THEN IndexName[j][i - 1] ELSE RefName[j][refs[i]]

\* _schedule_entries: names with the schedules they refer to.
Entries(j) ==
  [i \in 1..Len(config[j]) |->
     [name |-> EntryName(j, config[j], i), ref |-> config[j][i]]]

\* Bug: delete knows only the name of a single schedule.
BareName(j) == <<[name |-> j, ref |-> Unknown]>>

\* What delete goes through: a job without a schedule may have left one behind.
DeleteEntries(j) == IF config[j] = <<>> THEN BareName(j) ELSE Entries(j)

-----------------------------------------------------------------------------
(* The commands. *)

Running == exit = "running"

Edit(j, refs) ==
  /\ ~Running /\ edits < MaxEdits /\ refs # config[j]
  /\ config' = [config EXCEPT ![j] = refs]
  /\ edits' = edits + 1
  /\ exit' = "idle"
  /\ UNCHANGED <<deployed, command, waiting, job, left, failed, faults, commands>>

\* Without --delete every selected job must have a schedule, or no trigger is touched.
Accepted(c) == c.delete \/ \A j \in c.jobs : config[j] # <<>>

Give(c) ==
  /\ ~Running /\ commands < MaxCommands /\ c.jobs # {}
  /\ commands' = commands + 1
  /\ command' = c
  /\ waiting' = IF Accepted(c) THEN c.jobs ELSE {}
  /\ exit' = IF Accepted(c) THEN "running" ELSE "bad"
  /\ failed' = {}
  /\ UNCHANGED <<config, deployed, job, left, edits, faults>>

TakeJob(j) ==
  /\ Running /\ job = Nobody /\ j \in waiting
  /\ waiting' = waiting \ {j}
  /\ job' = j
  /\ left' = IF command.delete THEN DeleteEntries(j) ELSE Entries(j)
  /\ UNCHANGED <<config, deployed, command, failed, exit, edits, faults, commands>>

\* Bug: a job that failed is not recorded as failed.
ForgetFailure == UNCHANGED failed
MarkFailed == failed' = failed \cup {job}

\* Bug: the loop over the entries goes on where it was.
KeepEntries ==
  /\ MarkFailed
  /\ job' = Nobody
  /\ UNCHANGED <<left, waiting, exit>>

\* An exception abandons the rest of the job; the loop goes on with the next one.
GiveUp ==
  /\ MarkFailed
  /\ job' = Nobody /\ left' = <<>>
  /\ UNCHANGED <<waiting, exit>>

Entry == Head(left)
Advance == left' = Tail(left) /\ UNCHANGED <<waiting, job, failed, exit>>
AtEntry(delete) == Running /\ job # Nobody /\ left # <<>> /\ command.delete = delete

\* resolve_schedule: an inline schedule, or one the schedules section has.
Resolves(ref) == ref \in Named \cup Inline

Deploy == [deployed EXCEPT ![Entry.name] = [job |-> job, ref |-> Entry.ref, enabled |-> TRUE]]

\* Bug: a dry run deploys.
CreateAlways ==
  /\ AtEntry(FALSE) /\ Resolves(Entry.ref)
  /\ deployed' = Deploy
  /\ Advance
  /\ UNCHANGED <<config, command, edits, faults, commands>>

Create ==
  /\ AtEntry(FALSE) /\ Resolves(Entry.ref)
  /\ deployed' = IF command.dry THEN deployed ELSE Deploy
  /\ Advance
  /\ UNCHANGED <<config, command, edits, faults, commands>>

\* The reference does not resolve, or the call fails, before or after it worked.
CreateFails ==
  /\ AtEntry(FALSE)
  /\ \/ ~Resolves(Entry.ref) /\ UNCHANGED <<deployed, faults>>
     \/ Resolves(Entry.ref) /\ ~command.dry /\ Fault("call") /\ UNCHANGED deployed
     \/ Resolves(Entry.ref) /\ ~command.dry /\ Fault("reply") /\ deployed' = Deploy
  /\ GiveUp
  /\ UNCHANGED <<config, command, edits, commands>>

There == deployed[Entry.name] # NotThere
Disabled == [deployed EXCEPT ![Entry.name].enabled = FALSE]
Deleted == [deployed EXCEPT ![Entry.name] = NotThere]

\* The trigger is not there: a warning; or nothing is really done.
SkipDelete ==
  /\ AtEntry(TRUE) /\ (command.dry \/ ~There)
  /\ Advance
  /\ UNCHANGED <<config, deployed, command, edits, faults, commands>>

\* delete_schedule: begin_disable, then begin_delete.  Disabling is idempotent,
\* so the trigger's own state says where the call is.
Disable ==
  /\ AtEntry(TRUE) /\ ~command.dry /\ There /\ deployed[Entry.name].enabled
  /\ deployed' = Disabled
  /\ UNCHANGED <<config, command, progress, edits, faults, commands>>

\* Bug: disabling is taken for deleting.
OnlyDisable ==
  /\ AtEntry(TRUE) /\ ~command.dry /\ There /\ ~deployed[Entry.name].enabled
  /\ Advance
  /\ UNCHANGED <<config, deployed, command, edits, faults, commands>>

Delete ==
  /\ AtEntry(TRUE) /\ ~command.dry /\ There /\ ~deployed[Entry.name].enabled
  /\ deployed' = Deleted
  /\ Advance
  /\ UNCHANGED <<config, command, edits, faults, commands>>

\* The call that is next fails, before or after it worked.
DeleteFails ==
  /\ AtEntry(TRUE) /\ ~command.dry
  /\ LET disabling == There => deployed[Entry.name].enabled IN
     \/ disabling /\ Fault("disable") /\ UNCHANGED deployed
     \/ ~disabling /\ Fault("delete") /\ UNCHANGED deployed
     \/ There /\ disabling /\ Fault("reply") /\ deployed' = Disabled
     \/ There /\ ~disabling /\ Fault("reply") /\ deployed' = Deleted
  /\ GiveUp
  /\ UNCHANGED <<config, command, edits, commands>>

JobDone ==
  /\ Running /\ job # Nobody /\ left = <<>>
  /\ job' = Nobody
  /\ UNCHANGED <<config, deployed, command, waiting, left, failed, exit, edits, faults, commands>>

Finish ==
  /\ Running /\ job = Nobody /\ waiting = {}
  /\ exit' = IF failed = {} THEN "good" ELSE "bad"
  /\ UNCHANGED <<config, deployed, command, waiting, job, left, failed, edits, faults, commands>>

\* KeyboardInterrupt is not an Exception: it ends the command where it is.
Interrupt ==
  /\ Running /\ Fault("interrupt")
  /\ waiting' = {} /\ job' = Nobody /\ left' = <<>> /\ exit' = "bad"
  /\ UNCHANGED <<config, deployed, command, failed, edits, commands>>

Next ==
  \/ \E j \in Jobs, refs \in Lists : Edit(j, refs)
  \/ \E c \in Commands : Give(c)
  \/ \E j \in Jobs : TakeJob(j)
  \/ Create \/ CreateFails
  \/ SkipDelete \/ Disable \/ Delete \/ DeleteFails
  \/ JobDone \/ Finish \/ Interrupt

Spec == Init /\ [][Next]_vars

-----------------------------------------------------------------------------
(* Properties. *)

NamesOf(j) == {EntryName(j, config[j], i) : i \in 1..Len(config[j])}

\* No two jobs, and no two entries of a job, come down to the same trigger name; a
\* job without a schedule counts with the bare name that --delete tries for it.
NoClash ==
  \A j, k \in Jobs : \A a \in DOMAIN DeleteEntries(j), b \in DOMAIN DeleteEntries(k) :
    <<j, a>> # <<k, b>> => DeleteEntries(j)[a].name # DeleteEntries(k)[b].name

TypeOK ==
  /\ config \in [Jobs -> Lists]
  /\ deployed \in [Names -> Triggers \cup {NotThere}]
  /\ command \in Commands
  /\ waiting \subseteq command.jobs /\ failed \subseteq command.jobs \ waiting
  /\ job \in (command.jobs \ waiting) \cup {Nobody}
  /\ left \in Seq([name : Names, ref : Refs])
  /\ job = Nobody => left = <<>>
  /\ exit \in {"idle", "running", "good", "bad"}
  /\ exit # "running" => job = Nobody /\ waiting = {}
  /\ edits \in 0..MaxEdits /\ faults \in 0..MaxFaults /\ commands \in 0..MaxCommands

\* Whatever earlier commands left half done, a schedule command that exits 0 leaves
\* one enabled trigger per entry of every selected job, if no two entries share a
\* name (_create_schedules_from_prepared).
DeployedAsConfigured ==
  NoClash /\ exit = "good" /\ ~command.delete /\ ~command.dry =>
    \A j \in command.jobs : \A i \in 1..Len(config[j]) :
      deployed[EntryName(j, config[j], i)] = [job |-> j, ref |-> config[j][i], enabled |-> TRUE]

\* Whatever earlier commands left half done, a delete command that exits 0 leaves
\* no trigger, enabled or disabled, of any entry of the selected jobs (delete_schedule).
DeletedIsGone ==
  exit = "good" /\ command.delete /\ ~command.dry =>
    \A j \in command.jobs : \A n \in NamesOf(j) : deployed[n] = NotThere

\* As long as azureml.yml is not edited no trigger is orphaned: deleting a job
\* removes every trigger that fires it, under whatever name it was created
\* (_schedule_entries is shared "so the two never drift").
NothingOrphaned ==
  edits = 0 /\ exit = "good" /\ command.delete /\ ~command.dry =>
    \A n \in Names : deployed[n] # NotThere => deployed[n].job \notin command.jobs

\* A command changes a trigger only when it is not a dry run, and never one that
\* azureml.yml gives to a job it was not asked about, if no two entries share a name.
OthersUntouched ==
  [][\A n \in Names : deployed'[n] # deployed[n] =>
       /\ ~command.dry
       /\ NoClash => \A k \in Jobs \ command.jobs : n \notin NamesOf(k)]_vars
=============================================================================

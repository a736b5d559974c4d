--------------------------- MODULE SchedulesProofs ---------------------------
(***************************************************************************)
(* Proofs about Schedules for every set of jobs, schedules and names, any  *)
(* commands and edits, and any failures.                                   *)
(***************************************************************************)
EXTENDS Schedules, TLAPS

-----------------------------------------------------------------------------
(* The entries a command goes through. *)

LEMMA Element ==
  ASSUME NEW S, NEW s \in Seq(S), NEW i \in DOMAIN s PROVE s[i] \in S /\ i \in 1..Len(s) /\ Len(s) \in Nat
  OBVIOUS

LEMMA HeadTail ==
  ASSUME NEW S, NEW s \in Seq(S), s # <<>>
  PROVE  /\ Head(s) \in S /\ Tail(s) \in Seq(S) /\ 1 \in DOMAIN s /\ Head(s) = s[1]
         /\ \A k \in DOMAIN Tail(s) : k + 1 \in DOMAIN s /\ Tail(s)[k] = s[k + 1]
         /\ \A k \in DOMAIN s : k = 1 \/ (k - 1 \in DOMAIN Tail(s) /\ Tail(s)[k - 1] = s[k])
  OBVIOUS

LEMMA FunctionIsSeq ==
  ASSUME NEW S, NEW n \in Nat, NEW f \in [1..n -> S] PROVE f \in Seq(S)
  OBVIOUS

\* The entries of a job have the names of triggers, one for each reference.
LEMMA EntriesTyped ==
  ASSUME TypeOK, NEW j \in Jobs
  PROVE  /\ Entries(j) \in Seq([name : Names, ref : Refs]) /\ DOMAIN Entries(j) = DOMAIN config[j]
         /\ \A i \in DOMAIN Entries(j) :
              Entries(j)[i].name = EntryName(j, config[j], i) /\ Entries(j)[i].ref = config[j][i]
<1>1. config[j] \in Lists /\ config[j] \in Seq(Refs) BY SchedulesAssumption DEF TypeOK
<1>2. ASSUME NEW i \in 1..Len(config[j]) PROVE EntryName(j, config[j], i) \in Names /\ config[j][i] \in Refs
  BY <1>1, SchedulesAssumption DEF EntryName
<1>3. Len(config[j]) \in Nat /\ DOMAIN config[j] = 1..Len(config[j]) BY <1>1
<1>4. [i \in 1..Len(config[j]) |-> [name |-> EntryName(j, config[j], i), ref |-> config[j][i]]]
        \in [1..Len(config[j]) -> [name : Names, ref : Refs]]
  BY <1>2
<1>5. Entries(j) \in [1..Len(config[j]) -> [name : Names, ref : Refs]] BY <1>4 DEF Entries
<1>6. Entries(j) \in Seq([name : Names, ref : Refs]) BY <1>3, <1>5, FunctionIsSeq
<1> QED BY <1>3, <1>5, <1>6 DEF Entries

LEMMA DeleteEntriesTyped ==
  ASSUME TypeOK, NEW j \in Jobs
  PROVE  DeleteEntries(j) \in Seq([name : Names, ref : Refs])
<1>1. <<[name |-> j, ref |-> Unknown]>> \in Seq([name : Names, ref : Refs])
  BY SchedulesAssumption DEF Refs
<1> QED BY <1>1, EntriesTyped DEF DeleteEntries, BareName

-----------------------------------------------------------------------------
(* Types. *)

LEMMA TypeInit == Init => TypeOK
<1> SUFFICES ASSUME Init PROVE TypeOK OBVIOUS
<1>1. deployed \in [Names -> Triggers \cup {NotThere}] BY DEF Init
<1>2. command \in Commands BY DEF Init, Commands
<1> QED BY <1>1, <1>2, SchedulesAssumption DEF Init, TypeOK

LEMMA EntryTyped ==
  ASSUME TypeOK, job # Nobody, left # <<>>
  PROVE  /\ Entry \in [name : Names, ref : Refs] /\ Tail(left) \in Seq([name : Names, ref : Refs])
         /\ job \in command.jobs /\ job \in Jobs /\ job \notin waiting /\ command.jobs \subseteq Jobs
<1>1. Entry \in [name : Names, ref : Refs] /\ Tail(left) \in Seq([name : Names, ref : Refs])
  BY HeadTail DEF TypeOK, Entry
<1>2. job \in command.jobs /\ job \notin waiting /\ command.jobs \subseteq Jobs BY DEF TypeOK, Commands
<1> QED BY <1>1, <1>2

\* A deployment, a removal and a disabling keep the table of triggers.
LEMMA DeployedTyped ==
  ASSUME TypeOK, job # Nobody, left # <<>>
  PROVE  /\ Deploy \in [Names -> Triggers \cup {NotThere}]
         /\ [deployed EXCEPT ![Entry.name] = NotThere] \in [Names -> Triggers \cup {NotThere}]
         /\ There => [deployed EXCEPT ![Entry.name].enabled = FALSE] \in [Names -> Triggers \cup {NotThere}]
<1>0. Entry.name \in Names /\ Entry.ref \in Refs /\ job \in Jobs BY EntryTyped
<1>1. [job |-> job, ref |-> Entry.ref, enabled |-> TRUE] \in Triggers BY <1>0 DEF Triggers
<1>2. deployed \in [Names -> Triggers \cup {NotThere}] BY DEF TypeOK
<1>3. ASSUME There
      PROVE  [deployed EXCEPT ![Entry.name].enabled = FALSE] \in [Names -> Triggers \cup {NotThere}]
  <2> DEFINE old == deployed[Entry.name]
  <2>1. old \in Triggers BY <1>0, <1>2, <1>3 DEF There
  <2>2. [old EXCEPT !.enabled = FALSE] \in Triggers BY <2>1 DEF Triggers
  <2>3. [deployed EXCEPT ![Entry.name].enabled = FALSE] = [deployed EXCEPT ![Entry.name] = [old EXCEPT !.enabled = FALSE]]
    OBVIOUS
  <2> HIDE DEF old
  <2> QED BY <1>0, <1>2, <2>2, <2>3
<1> QED BY <1>0, <1>1, <1>2, <1>3 DEF Deploy

LEMMA TypeStep == TypeOK /\ [Next]_vars => TypeOK'
<1> SUFFICES ASSUME TypeOK, [Next]_vars PROVE TypeOK' OBVIOUS
<1>a. /\ MaxFaults \in Nat /\ MaxEdits \in Nat /\ MaxCommands \in Nat
      /\ edits \in 0..MaxEdits /\ faults \in 0..MaxFaults /\ commands \in 0..MaxCommands
  BY SchedulesAssumption DEF TypeOK
<1>b. command.jobs \subseteq Jobs BY DEF TypeOK, Commands
<1>1. ASSUME NEW j \in Jobs, NEW refs \in Lists, Edit(j, refs) PROVE TypeOK'
  BY <1>1, <1>a DEF TypeOK, Edit, Running
<1>2. ASSUME NEW c \in Commands, Give(c) PROVE TypeOK'
  <2>1. job = Nobody /\ left = <<>> BY <1>2 DEF Give, TypeOK, Running
  <2>2. waiting' \subseteq c.jobs /\ (exit' # "running" => waiting' = {}) /\ exit' \in {"running", "bad"} BY <1>2 DEF Give
  <2> QED BY <1>2, <1>a, <2>1, <2>2 DEF TypeOK, Give
<1>3. ASSUME NEW j \in Jobs, TakeJob(j) PROVE TypeOK'
  <2>1. left' \in Seq([name : Names, ref : Refs])
    BY <1>3, EntriesTyped, DeleteEntriesTyped DEF TakeJob
  <2>2. j # Nobody /\ j \in command.jobs BY <1>3, SchedulesAssumption DEF TakeJob, TypeOK
  <2>3. failed \subseteq command.jobs \ waiting' BY <1>3 DEF TakeJob, TypeOK
  <2> QED BY <1>3, <2>1, <2>2, <2>3 DEF TakeJob, TypeOK, Running
<1>4. CASE Create
  <2>1. deployed' \in [Names -> Triggers \cup {NotThere}] BY <1>4, DeployedTyped DEF Create, AtEntry, TypeOK
  <2>2. left' \in Seq([name : Names, ref : Refs]) BY <1>4, EntryTyped DEF Create, AtEntry, Advance
  <2> QED BY <1>4, <2>1, <2>2 DEF Create, AtEntry, Advance, TypeOK, Running
<1>5. CASE CreateFails
  <2>1. deployed' \in [Names -> Triggers \cup {NotThere}] BY <1>5, DeployedTyped DEF CreateFails, AtEntry, TypeOK
  <2>2. faults' \in 0..MaxFaults BY <1>5, <1>a DEF CreateFails, Fault, TypeOK
  <2>3. failed' \subseteq command.jobs \ waiting BY <1>5, EntryTyped DEF CreateFails, GiveUp, MarkFailed, AtEntry, TypeOK
  <2> QED BY <1>5, <2>1, <2>2, <2>3 DEF CreateFails, AtEntry, GiveUp, TypeOK, Running
<1>6. CASE SkipDelete
  <2>2. left' \in Seq([name : Names, ref : Refs]) BY <1>6, EntryTyped DEF SkipDelete, AtEntry, Advance
  <2> QED BY <1>6, <2>2 DEF SkipDelete, AtEntry, Advance, TypeOK, Running
<1>7. CASE Disable
  <2>1. deployed' \in [Names -> Triggers \cup {NotThere}]
    BY <1>7, DeployedTyped DEF Disable, Disabled, AtEntry, TypeOK
  <2> QED BY <1>7, <2>1 DEF Disable, TypeOK, progress
<1>8. CASE Delete
  <2>1. deployed' \in [Names -> Triggers \cup {NotThere}]
    BY <1>8, DeployedTyped DEF Delete, Deleted, AtEntry, TypeOK
  <2>2. left' \in Seq([name : Names, ref : Refs]) BY <1>8, EntryTyped DEF Delete, AtEntry, Advance
  <2> QED BY <1>8, <2>1, <2>2 DEF Delete, AtEntry, Advance, TypeOK, Running
<1>9. CASE DeleteFails
  <2>1. deployed' \in [Names -> Triggers \cup {NotThere}]
    BY <1>9, DeployedTyped DEF DeleteFails, Disabled, Deleted, AtEntry, TypeOK
  <2>2. faults' \in 0..MaxFaults BY <1>9, <1>a DEF DeleteFails, Fault, TypeOK
  <2>3. failed' \subseteq command.jobs \ waiting BY <1>9, EntryTyped DEF DeleteFails, GiveUp, MarkFailed, AtEntry, TypeOK
  <2> QED BY <1>9, <2>1, <2>2, <2>3 DEF DeleteFails, AtEntry, GiveUp, TypeOK, Running
<1>10. CASE JobDone BY <1>10 DEF JobDone, TypeOK, Running
<1>11. CASE Finish BY <1>11 DEF Finish, TypeOK, Running
<1>12. CASE Interrupt
  <2>2. faults' \in 0..MaxFaults BY <1>12, <1>a DEF Interrupt, Fault, TypeOK
  <2> QED BY <1>12, <2>2 DEF Interrupt, TypeOK, Running
<1>13. CASE UNCHANGED vars BY <1>13 DEF vars, progress, TypeOK
<1> QED BY <1>1, <1>2, <1>3, <1>4, <1>5, <1>6, <1>7, <1>8, <1>9, <1>10, <1>11, <1>12, <1>13 DEF Next

\* The types of the variables, and a command that is not running is at no job.
THEOREM ScheduleTypeCorrect == Spec => []TypeOK
<1>1. Init => TypeOK BY TypeInit
<1>2. TypeOK /\ [Next]_vars => TypeOK' BY TypeStep
<1> QED BY <1>1, <1>2, PTL DEF Spec

-----------------------------------------------------------------------------
(* The inductive invariant, in parts. *)

\* The k-th entry to do is an entry of the job.
Of(j, entry) == \E a \in DOMAIN DeleteEntries(j) : entry.name = DeleteEntries(j)[a].name
OfEntries(j, entry) == \E a \in DOMAIN Entries(j) : entry = Entries(j)[a]

\* What is left to do are entries of the job, and a command that creates
\* was given jobs with a schedule only.
LeftInv ==
  /\ \A k \in DOMAIN left : Of(job, left[k])
  /\ ~command.delete => \A k \in DOMAIN left : OfEntries(job, left[k])
  /\ exit \in {"running", "good"} => Accepted(command)

\* A job the command has come to, and has not reported as failed.
Reached(j) == exit \in {"running", "good"} /\ j \in command.jobs /\ j \notin waiting \cup failed

\* A delete has removed what it has gone through.
DeletedInv ==
  command.delete /\ ~command.dry =>
    \A j \in Jobs : Reached(j) => \A a \in DOMAIN DeleteEntries(j) :
      \/ deployed[DeleteEntries(j)[a].name] = NotThere
      \/ job = j /\ \E k \in DOMAIN left : left[k].name = DeleteEntries(j)[a].name

\* The trigger an entry of a job stands for.
Trigger(j, a) == [job |-> j, ref |-> Entries(j)[a].ref, enabled |-> TRUE]

\* A create has deployed what it has gone through.
CreatedInv ==
  ~command.delete /\ ~command.dry /\ NoClash =>
    \A j \in Jobs : Reached(j) => \A a \in DOMAIN Entries(j) :
      \/ deployed[Entries(j)[a].name] = Trigger(j, a)
      \/ job = j /\ \E k \in DOMAIN left : left[k] = Entries(j)[a]

\* Without edits a trigger has the name of an entry of its job.
Owned(n, j) == \E a \in DOMAIN Entries(j) : n = Entries(j)[a].name
OwnerInv == edits = 0 => \A n \in Names : deployed[n] # NotThere => Owned(n, deployed[n].job)

\* A command that succeeded reported no job.
GoodInv == exit = "good" => failed = {} /\ waiting = {}

IInv == TypeOK /\ LeftInv /\ DeletedInv /\ CreatedInv /\ OwnerInv /\ GoodInv

-----------------------------------------------------------------------------
(* The invariant is inductive. *)

\* Entries and clashes follow from the file.
LEMMA SameEntries ==
  ASSUME config' = config
  PROVE  /\ \A j : Entries(j)' = Entries(j) /\ DeleteEntries(j)' = DeleteEntries(j)
         /\ NoClash' = NoClash
         /\ \A j, entry : (Of(j, entry)' <=> Of(j, entry)) /\ (OfEntries(j, entry)' <=> OfEntries(j, entry))
         /\ \A j, a : Trigger(j, a)' = Trigger(j, a)
<1>1. \A j : Entries(j)' = Entries(j) BY DEF Entries
<1>2. \A j : DeleteEntries(j)' = DeleteEntries(j) BY <1>1 DEF DeleteEntries, BareName
<1>3. NoClash' = NoClash BY <1>2 DEF NoClash
<1>4. \A j, entry : (Of(j, entry)' <=> Of(j, entry)) /\ (OfEntries(j, entry)' <=> OfEntries(j, entry))
  BY <1>1, <1>2 DEF Of, OfEntries
<1>5. \A j, a : Trigger(j, a)' = Trigger(j, a) BY <1>1 DEF Trigger
<1> QED BY <1>1, <1>2, <1>3, <1>4, <1>5

\* An entry of a job with a schedule counts for both commands.
LEMMA EntriesForDelete ==
  ASSUME NEW j PROVE /\ config[j] # <<>> => DeleteEntries(j) = Entries(j)
                     /\ \A a \in DOMAIN Entries(j) : OfEntries(j, Entries(j)[a])
                     /\ \A a \in DOMAIN DeleteEntries(j) : Of(j, DeleteEntries(j)[a])
BY DEF DeleteEntries, Of, OfEntries

\* Going on to the next entry leaves the others to do.
LEMMA RestOf ==
  ASSUME TypeOK, left # <<>>, left' = Tail(left)
  PROVE  /\ \A k \in DOMAIN left' : \E l \in DOMAIN left : left'[k] = left[l]
         /\ \A k \in DOMAIN left : left[k] = Entry \/ \E l \in DOMAIN left' : left'[l] = left[k]
         /\ \E k \in DOMAIN left : left[k] = Entry
BY HeadTail DEF TypeOK, Entry

LEMMA LeftStep == TypeOK /\ LeftInv /\ [Next]_vars => LeftInv'
<1> SUFFICES ASSUME TypeOK, LeftInv, [Next]_vars PROVE LeftInv' OBVIOUS
<1>0. left' = <<>> => \A k \in DOMAIN left' : FALSE OBVIOUS
<1>1. ASSUME NEW j \in Jobs, NEW refs \in Lists, Edit(j, refs) PROVE LeftInv'
  <2>1. left' = <<>> /\ exit' = "idle" BY <1>1 DEF Edit, Running, TypeOK
  <2> QED BY <1>0, <2>1 DEF LeftInv
<1>2. ASSUME NEW c \in Commands, Give(c) PROVE LeftInv'
  <2>1. left' = <<>> BY <1>2 DEF Give, Running, TypeOK
  <2>2. exit' \in {"running", "good"} => Accepted(command)' BY <1>2 DEF Give, Accepted
  <2> QED BY <1>0, <2>1, <2>2 DEF LeftInv
<1>3. ASSUME NEW j \in Jobs, TakeJob(j) PROVE LeftInv'
  <2>1. config' = config /\ command' = command /\ exit' = exit /\ job' = j
        /\ left' = IF command.delete THEN DeleteEntries(j) ELSE Entries(j)
    BY <1>3 DEF TakeJob
  <2>2. \A k \in DOMAIN left' : Of(j, left'[k])
    <3>1. CASE command.delete BY <2>1, <3>1, EntriesForDelete
    <3>2. CASE ~command.delete /\ config[j] # <<>> BY <2>1, <3>2, EntriesForDelete
    <3>3. CASE ~command.delete /\ config[j] = <<>>
      <4>1. DOMAIN Entries(j) = DOMAIN config[j] BY EntriesTyped
      <4> QED BY <2>1, <3>3, <4>1
    <3> QED BY <3>1, <3>2, <3>3
  <2>3. ~command.delete => \A k \in DOMAIN left' : OfEntries(j, left'[k]) BY <2>1, EntriesForDelete
  <2>4. Accepted(command)' <=> Accepted(command) BY <2>1 DEF Accepted
  <2> QED BY <2>1, <2>2, <2>3, <2>4, SameEntries DEF LeftInv
<1>4. ASSUME config' = config, command' = command, job' = job, left # <<>>, left' = Tail(left), exit' = exit
      PROVE  LeftInv'
  <2>1. Accepted(command)' <=> Accepted(command) BY <1>4 DEF Accepted
  <2> QED BY <1>4, <2>1, RestOf, SameEntries DEF LeftInv
<1>5. ASSUME config' = config, command' = command, left' = <<>>, exit' \in {exit, "bad"}
      PROVE  LeftInv'
  <2>1. Accepted(command)' <=> Accepted(command) BY <1>5 DEF Accepted
  <2> QED BY <1>0, <1>5, <2>1 DEF LeftInv
<1>6. CASE Finish
  <2>1. config' = config /\ command' = command /\ left' = <<>> BY <1>6 DEF Finish, TypeOK
  <2>2. Accepted(command)' <=> Accepted(command) BY <2>1 DEF Accepted
  <2> QED BY <1>0, <1>6, <2>1, <2>2 DEF Finish, Running, LeftInv
<1>7. ASSUME config' = config, command' = command, job' = job, left' = left, exit' = exit PROVE LeftInv'
  <2>1. Accepted(command)' <=> Accepted(command) BY <1>7 DEF Accepted
  <2> QED BY <1>7, <2>1, SameEntries DEF LeftInv
<1> QED BY <1>1, <1>2, <1>3, <1>4, <1>5, <1>6, <1>7 DEF Next, vars, progress, Create, CreateFails, SkipDelete,
  Disable, Delete, DeleteFails, JobDone, Interrupt, Advance, GiveUp, AtEntry, Running

\* How a step changes the triggers, if it does.
LEMMA DeployedStep ==
  ASSUME TypeOK, [Next]_vars, deployed' # deployed
  PROVE  /\ job # Nobody /\ left # <<>> /\ ~command.dry /\ Running
         /\ config' = config /\ command' = command /\ edits' = edits
         /\ \/ ~command.delete /\ deployed' = Deploy /\ (Create \/ CreateFails)
            \/ command.delete /\ There /\ deployed' = Disabled /\ (Disable \/ DeleteFails)
            \/ command.delete /\ There /\ deployed' = Deleted /\ (Delete \/ DeleteFails)
<1>1. CASE Create BY <1>1 DEF Create, AtEntry
<1>2. CASE CreateFails BY <1>2 DEF CreateFails, AtEntry
<1>3. CASE Disable BY <1>3 DEF Disable, AtEntry
<1>4. CASE Delete BY <1>4 DEF Delete, AtEntry
<1>5. CASE DeleteFails BY <1>5 DEF DeleteFails, AtEntry
<1> QED BY <1>1, <1>2, <1>3, <1>4, <1>5 DEF Next, vars, Edit, Give, TakeJob, SkipDelete, JobDone, Finish, Interrupt

LEMMA OwnerStep == TypeOK /\ LeftInv /\ OwnerInv /\ [Next]_vars => OwnerInv'
<1> SUFFICES ASSUME TypeOK, LeftInv, OwnerInv, [Next]_vars, edits' = 0,
                    NEW n \in Names, deployed'[n] # NotThere
             PROVE  config' = config /\ Owned(n, deployed'[n].job)
  <2>1. ASSUME config' = config, NEW n, NEW j PROVE Owned(n, j)' <=> Owned(n, j)
    BY <2>1, SameEntries DEF Owned
  <2> QED BY <2>1 DEF OwnerInv
<1>1. edits = 0 /\ config' = config
  <2>1. ASSUME NEW j \in Jobs, NEW refs \in Lists, Edit(j, refs) PROVE FALSE
    <3>1. edits \in 0..MaxEdits /\ edits' = edits + 1 /\ MaxEdits \in Nat
      BY <2>1, SchedulesAssumption DEF TypeOK, Edit
    <3> QED BY <3>1
  <2> QED BY <2>1 DEF Next, vars, Give, TakeJob, Create, CreateFails, SkipDelete, Disable, Delete,
        DeleteFails, JobDone, Finish, Interrupt
<1>3. ASSUME deployed[n] # NotThere, deployed'[n].job = deployed[n].job
      PROVE  config' = config /\ Owned(n, deployed'[n].job)
  BY <1>1, <1>3 DEF OwnerInv
<1>4. CASE deployed' = deployed BY <1>3, <1>4
<1>5. CASE deployed' # deployed
  <2>0. deployed \in [Names -> Triggers \cup {NotThere}] BY DEF TypeOK
  <2>1. CASE ~command.delete /\ deployed' = Deploy
    <3>1. job # Nobody /\ left # <<>> BY <1>5, DeployedStep
    <3>2. PICK k \in DOMAIN left : left[k] = Entry BY <3>1, HeadTail DEF TypeOK, Entry
    <3>3. OfEntries(job, Entry) BY <2>1, <3>2 DEF LeftInv
    <3>4. CASE n = Entry.name
      <4>1. deployed'[n] = [job |-> job, ref |-> Entry.ref, enabled |-> TRUE] BY <2>0, <2>1, <3>4 DEF Deploy
      <4>2. deployed'[n].job = job BY <4>1
      <4> QED BY <1>1, <3>3, <3>4, <4>2 DEF OfEntries, Owned
    <3>5. CASE n # Entry.name
      <4>1. deployed'[n] = deployed[n] BY <2>0, <2>1, <3>5 DEF Deploy
      <4> QED BY <1>3, <4>1
    <3> QED BY <3>4, <3>5
  <2>2. CASE There /\ deployed' = Disabled
    <3>1. deployed[n] # NotThere BY <2>0, <2>2 DEF There, Disabled
    <3>2. deployed[n] \in Triggers BY <2>0, <3>1
    <3>3. deployed'[n].job = deployed[n].job BY <2>0, <2>2, <3>2 DEF Triggers, Disabled
    <3> QED BY <1>3, <3>1, <3>3
  <2>3. CASE deployed' = Deleted
    <3>1. deployed'[n] = deployed[n] BY <2>0, <2>3 DEF Deleted
    <3> QED BY <1>3, <3>1
  <2> QED BY <1>5, <2>1, <2>2, <2>3, DeployedStep
<1> QED BY <1>4, <1>5

LEMMA GoodStep == TypeOK /\ GoodInv /\ [Next]_vars => GoodInv'
BY DEF TypeOK, GoodInv, Next, vars, progress, Edit, Give, TakeJob, Create, CreateFails, SkipDelete, Disable, Delete,
  DeleteFails, JobDone, Finish, Interrupt, Advance, GiveUp, AtEntry, Running

\* A job that is reached after a step was reached before it, or is taken by it.
LEMMA ReachedStep ==
  ASSUME TypeOK, [Next]_vars, NEW j \in Jobs, Reached(j)'
  PROVE  /\ config' = config /\ command' = command
         /\ \/ TakeJob(j)
            \/ Reached(j) /\ deployed' = deployed /\ job' = job /\ left' = left
            \/ Reached(j) /\ deployed' = deployed /\ job # j /\ job' # j
            \/ Reached(j) /\ deployed' = deployed /\ left = <<>>
            \/ Reached(j) /\ (Create \/ SkipDelete \/ Delete \/ Disable)
            \/ Reached(j) /\ job # j /\ (CreateFails \/ DeleteFails)
<1>1. ASSUME NEW k \in Jobs, NEW refs \in Lists, Edit(k, refs) PROVE FALSE BY <1>1 DEF Edit, Reached
<1>2. ASSUME NEW c \in Commands, Give(c) PROVE FALSE BY <1>2 DEF Give, Reached
<1>3. ASSUME NEW k \in Jobs, TakeJob(k), k # j
      PROVE  config' = config /\ command' = command /\ Reached(j) /\ deployed' = deployed /\ job # j /\ job' # j
  BY <1>3, SchedulesAssumption DEF TakeJob, Reached
<1>4. CASE Create BY <1>4 DEF Create, Advance, Reached
<1>5. CASE CreateFails BY <1>5 DEF CreateFails, GiveUp, MarkFailed, Reached
<1>6. CASE SkipDelete BY <1>6 DEF SkipDelete, Advance, Reached
<1>7. CASE Disable BY <1>7 DEF Disable, progress, Reached
<1>8. CASE Delete BY <1>8 DEF Delete, Advance, Reached
<1>9. CASE DeleteFails
  <2>1. Reached(j) /\ job # j BY <1>9 DEF DeleteFails, GiveUp, MarkFailed, Reached
  <2>2. job' # j BY <1>9, SchedulesAssumption DEF DeleteFails, GiveUp
  <2> QED BY <1>9, <2>1, <2>2 DEF DeleteFails
<1>10. CASE JobDone BY <1>10 DEF JobDone, Reached
<1>11. CASE Finish
  <2>1. left = <<>> BY <1>11 DEF Finish, TypeOK
  <2> QED BY <1>11, <2>1 DEF Finish, Reached, Running
<1>12. CASE Interrupt BY <1>12 DEF Interrupt, Reached
<1>13. CASE UNCHANGED vars BY <1>13 DEF vars, progress, Reached
<1>14. ASSUME TakeJob(j) PROVE config' = config /\ command' = command BY <1>14 DEF TakeJob
<1> QED BY <1>1, <1>2, <1>3, <1>4, <1>5, <1>6, <1>7, <1>8, <1>9, <1>10, <1>11, <1>12, <1>13, <1>14 DEF Next

LEMMA DeletedStep == TypeOK /\ LeftInv /\ DeletedInv /\ [Next]_vars => DeletedInv'
<1> SUFFICES ASSUME TypeOK, LeftInv, DeletedInv, [Next]_vars, command'.delete, ~command'.dry,
                    NEW j \in Jobs, Reached(j)', NEW a \in DOMAIN DeleteEntries(j),
                    NEW n, n = DeleteEntries(j)[a].name
             PROVE  deployed'[n] = NotThere \/ (job' = j /\ \E k \in DOMAIN left' : left'[k].name = n)
  <2>1. ASSUME NEW j \in Jobs, Reached(j)', TypeOK, [Next]_vars PROVE DeleteEntries(j)' = DeleteEntries(j)
    BY <2>1, ReachedStep, SameEntries
  <2> QED BY <2>1 DEF DeletedInv
<1>0. command' = command /\ command.delete /\ ~command.dry BY ReachedStep
<1>1. n \in Names /\ deployed \in [Names -> Triggers \cup {NotThere}]
  <2>1. DeleteEntries(j)[a] \in [name : Names, ref : Refs] BY DeleteEntriesTyped, Element
  <2> QED BY <2>1 DEF TypeOK
<1>2. CASE TakeJob(j)
  <2>1. job' = j /\ left' = DeleteEntries(j) BY <1>0, <1>2 DEF TakeJob
  <2> QED BY <2>1
<1>3. ASSUME Reached(j) PROVE deployed[n] = NotThere \/ (job = j /\ \E k \in DOMAIN left : left[k].name = n)
  BY <1>0, <1>3 DEF DeletedInv
<1>4. ASSUME Reached(j), deployed[n] = NotThere PROVE deployed'[n] = NotThere
  <2>1. CASE deployed' = deployed BY <1>4, <2>1
  <2>2. CASE There /\ deployed' = Disabled
    <3>1. n # Entry.name BY <1>4, <2>2 DEF There
    <3> QED BY <1>1, <1>4, <2>2, <3>1 DEF Disabled
  <2>3. CASE deployed' = Deleted BY <1>1, <1>4, <2>3 DEF Deleted
  <2> QED BY <1>0, <2>1, <2>2, <2>3, DeployedStep
<1>5. ASSUME Reached(j), deployed[n] # NotThere, left' = Tail(left), job' = job, left # <<>>,
             Entry.name = n => deployed'[n] = NotThere
      PROVE  deployed'[n] = NotThere \/ (job' = j /\ \E k \in DOMAIN left' : left'[k].name = n)
  <2>1. PICK k \in DOMAIN left : job = j /\ left[k].name = n BY <1>3, <1>5
  <2>2. left[k] = Entry \/ \E l \in DOMAIN left' : left'[l] = left[k] BY <1>5, RestOf
  <2> QED BY <1>5, <2>1, <2>2
<1>6. CASE Reached(j) /\ deployed[n] # NotThere
  <2>1. ~Create /\ ~CreateFails BY <1>0 DEF Create, CreateFails, AtEntry
  <2>2. CASE deployed' = deployed /\ job' = job /\ left' = left BY <1>3, <1>6, <2>2
  <2>3. CASE job # j \/ left = <<>> BY <1>3, <1>6, <2>3
  <2>4. CASE SkipDelete
    <3>1. Entry.name = n => deployed[n] = NotThere BY <1>0, <2>4 DEF SkipDelete, There
    <3> QED BY <1>5, <1>6, <2>4, <3>1 DEF SkipDelete, AtEntry, Advance
  <2>5. CASE Delete
    <3>1. deployed' = [deployed EXCEPT ![Entry.name] = NotThere] BY <2>5 DEF Delete, Deleted
    <3>2. Entry.name = n => deployed'[n] = NotThere BY <1>1, <3>1
    <3> QED BY <1>5, <1>6, <2>5, <3>2 DEF Delete, AtEntry, Advance
  <2>6. CASE Disable BY <1>3, <1>6, <2>6 DEF Disable, progress
  <2> QED BY <1>2, <2>1, <2>2, <2>3, <2>4, <2>5, <2>6, ReachedStep
<1> QED BY <1>2, <1>4, <1>6, ReachedStep

\* The entry a command is at: one of the job it is at, which is to have a trigger.
LEMMA AtEntryOf ==
  ASSUME TypeOK, LeftInv, ~command.delete, job # Nobody, left # <<>>
  PROVE  \E b \in DOMAIN Entries(job) : Entry = Entries(job)[b]
<1>1. PICK k \in DOMAIN left : left[k] = Entry BY HeadTail DEF TypeOK, Entry
<1> QED BY <1>1 DEF LeftInv, OfEntries

\* Entries of different jobs, or different entries, have different names.
LEMMA Apart ==
  ASSUME TypeOK, NoClash, NEW j \in Jobs, NEW k \in Jobs,
         NEW a \in DOMAIN Entries(j), NEW b \in DOMAIN Entries(k), <<j, a>> # <<k, b>>
  PROVE  Entries(j)[a].name # Entries(k)[b].name
<1>1. ASSUME NEW i \in Jobs, NEW c \in DOMAIN Entries(i) PROVE DeleteEntries(i) = Entries(i)
  <2>1. DOMAIN Entries(i) = DOMAIN config[i] BY EntriesTyped
  <2>2. config[i] # <<>> BY <2>1, <1>1
  <2> QED BY <2>2 DEF DeleteEntries
<1>2. DeleteEntries(j) = Entries(j) /\ DeleteEntries(k) = Entries(k) BY <1>1
<1> QED BY <1>2 DEF NoClash

LEMMA CreatedStep == TypeOK /\ LeftInv /\ CreatedInv /\ [Next]_vars => CreatedInv'
<1> SUFFICES ASSUME TypeOK, LeftInv, CreatedInv, [Next]_vars, ~command'.delete, ~command'.dry, NoClash,
                    NEW j \in Jobs, Reached(j)', NEW a \in DOMAIN Entries(j),
                    NEW e, e = Entries(j)[a]
             PROVE  deployed'[e.name] = Trigger(j, a) \/ (job' = j /\ \E k \in DOMAIN left' : left'[k] = e)
  <2>1. ASSUME NEW j \in Jobs, Reached(j)', TypeOK, [Next]_vars
        PROVE  Entries(j)' = Entries(j) /\ (NoClash' <=> NoClash) /\ \A a : Trigger(j, a)' = Trigger(j, a)
    BY <2>1, ReachedStep, SameEntries
  <2> QED BY <2>1 DEF CreatedInv
<1>0. command' = command /\ ~command.delete /\ ~command.dry BY ReachedStep
<1>1. e.name \in Names /\ deployed \in [Names -> Triggers \cup {NotThere}]
  <2>1. Entries(j)[a] \in [name : Names, ref : Refs] BY EntriesTyped, Element
  <2> QED BY <2>1 DEF TypeOK
<1>2. CASE TakeJob(j)
  <2>1. job' = j /\ left' = Entries(j) BY <1>0, <1>2 DEF TakeJob
  <2> QED BY <2>1
<1>3. ASSUME Reached(j) PROVE deployed[e.name] = Trigger(j, a) \/ (job = j /\ \E k \in DOMAIN left : left[k] = e)
  BY <1>0, <1>3 DEF CreatedInv
<1>4. ASSUME deployed' = Deploy, job # Nobody, left # <<>>
      PROVE  /\ deployed'[e.name] \in {deployed[e.name], Trigger(j, a)}
             /\ job = j /\ Entry = e => deployed'[e.name] = Trigger(j, a)
  <2>1. PICK b \in DOMAIN Entries(job) : Entry = Entries(job)[b] BY <1>0, <1>4, AtEntryOf
  <2>2. job \in Jobs BY <1>4, EntryTyped
  <2>3. CASE <<j, a>> = <<job, b>>
    <3>1. Entry = e /\ j = job /\ a = b BY <2>1, <2>3
    <3>2. deployed'[e.name] = [job |-> j, ref |-> e.ref, enabled |-> TRUE] BY <1>1, <1>4, <3>1 DEF Deploy
    <3> QED BY <3>2 DEF Trigger
  <2>4. CASE <<j, a>> # <<job, b>>
    <3>1. Entry.name # e.name BY <2>1, <2>2, <2>4, Apart
    <3> QED BY <1>1, <1>4, <3>1 DEF Deploy
  <2> QED BY <2>3, <2>4
<1>5. CASE Reached(j) /\ deployed[e.name] = Trigger(j, a)
  <2>1. CASE deployed' = deployed BY <1>5, <2>1
  <2>2. CASE deployed' # deployed BY <1>0, <1>4, <1>5, <2>2, DeployedStep
  <2> QED BY <2>1, <2>2
<1>6. CASE Reached(j) /\ deployed[e.name] # Trigger(j, a)
  <2>1. job = j /\ \E k \in DOMAIN left : left[k] = e BY <1>3, <1>6
  <2>2. CASE deployed' = deployed /\ job' = job /\ left' = left BY <2>1, <2>2
  <2>3. CASE job # j \/ left = <<>> BY <2>1, <2>3
  <2>4. ~Delete /\ ~Disable /\ ~SkipDelete BY <1>0 DEF Delete, Disable, SkipDelete, AtEntry
  <2>5. CASE Create
    <3>1. deployed' = Deploy /\ left' = Tail(left) /\ job' = job /\ job # Nobody /\ left # <<>>
      BY <1>0, <2>5 DEF Create, AtEntry, Advance
    <3>2. PICK k \in DOMAIN left : left[k] = e BY <2>1
    <3>3. left[k] = Entry \/ \E l \in DOMAIN left' : left'[l] = left[k] BY <3>1, RestOf
    <3> QED BY <1>4, <2>1, <3>1, <3>2, <3>3
  <2> QED BY <1>2, <1>6, <2>2, <2>3, <2>4, <2>5, ReachedStep
<1> QED BY <1>2, <1>5, <1>6, ReachedStep

-----------------------------------------------------------------------------
(* The theorems. *)

LEMMA InvInit == Init => IInv
<1> SUFFICES ASSUME Init PROVE IInv OBVIOUS
<1>1. TypeOK BY TypeInit
<1>2. left = <<>> /\ exit = "idle" /\ (\A n \in Names : deployed[n] = NotThere) BY DEF Init
<1>3. \A j : ~Reached(j) BY <1>2 DEF Reached
<1>4. \A k \in DOMAIN left : FALSE BY <1>2
<1> QED BY <1>1, <1>2, <1>3, <1>4 DEF IInv, LeftInv, DeletedInv, CreatedInv, OwnerInv, GoodInv

\* Every behaviour keeps the invariant: what a command has gone through is done or
\* reported, what is left to do are entries of the job, and without edits every
\* trigger has the name of an entry of its job.
THEOREM SchedulesInvariant == Spec => []IInv
<1>1. Init => IInv BY InvInit
<1>2. IInv /\ [Next]_vars => IInv'
  BY TypeStep, LeftStep, DeletedStep, CreatedStep, OwnerStep, GoodStep DEF IInv
<1> QED BY <1>1, <1>2, PTL DEF Spec

\* When a command has succeeded every selected job was reached, and nothing is left.
LEMMA AllReached ==
  ASSUME IInv, exit = "good"
  PROVE  /\ \A j \in command.jobs : j \in Jobs /\ Reached(j)
         /\ \A k \in DOMAIN left : FALSE
<1>1. left = <<>> /\ waiting = {} /\ failed = {} BY DEF IInv, TypeOK, GoodInv
<1>2. command.jobs \subseteq Jobs BY DEF IInv, TypeOK, Commands
<1> QED BY <1>1, <1>2 DEF Reached

\* A schedule command that exits 0 leaves one enabled trigger per entry of every
\* selected job, if no two entries share a name (DeployedAsConfigured).
THEOREM GoodDeploys == Spec => []DeployedAsConfigured
<1>1. ASSUME IInv PROVE DeployedAsConfigured
  <2> SUFFICES ASSUME NoClash, exit = "good", ~command.delete, ~command.dry,
                      NEW j \in command.jobs, NEW i \in 1..Len(config[j])
               PROVE  deployed[EntryName(j, config[j], i)] = [job |-> j, ref |-> config[j][i], enabled |-> TRUE]
    BY DEF DeployedAsConfigured
  <2>1. j \in Jobs /\ Reached(j) /\ \A k \in DOMAIN left : FALSE BY <1>1, AllReached
  <2>2. /\ DOMAIN Entries(j) = DOMAIN config[j]
        /\ \A a \in DOMAIN Entries(j) :
             Entries(j)[a].name = EntryName(j, config[j], a) /\ Entries(j)[a].ref = config[j][a]
    BY <1>1, <2>1, EntriesTyped DEF IInv
  <2>3. config[j] \in Seq(Refs) BY <1>1, <2>1, SchedulesAssumption DEF IInv, TypeOK
  <2>4. i \in DOMAIN Entries(j) BY <2>2, <2>3
  <2>5. deployed[Entries(j)[i].name] = Trigger(j, i) BY <1>1, <2>1, <2>4 DEF IInv, CreatedInv
  <2> QED BY <2>2, <2>4, <2>5 DEF Trigger
<1> QED BY <1>1, SchedulesInvariant, PTL

\* A delete command that exits 0 leaves no trigger of any entry of the selected
\* jobs, whatever earlier commands left half done (DeletedIsGone).
THEOREM GoodDeletes == Spec => []DeletedIsGone
<1>1. ASSUME IInv PROVE DeletedIsGone
  <2> SUFFICES ASSUME exit = "good", command.delete, ~command.dry,
                      NEW j \in command.jobs, NEW i \in 1..Len(config[j])
               PROVE  deployed[EntryName(j, config[j], i)] = NotThere
    BY DEF DeletedIsGone, NamesOf
  <2>1. j \in Jobs /\ Reached(j) /\ \A k \in DOMAIN left : FALSE BY <1>1, AllReached
  <2>2. /\ DOMAIN Entries(j) = DOMAIN config[j]
        /\ \A a \in DOMAIN Entries(j) : Entries(j)[a].name = EntryName(j, config[j], a)
    BY <1>1, <2>1, EntriesTyped DEF IInv
  <2>3. config[j] \in Seq(Refs) BY <1>1, <2>1, SchedulesAssumption DEF IInv, TypeOK
  <2>4. i \in DOMAIN Entries(j) /\ config[j] # <<>> BY <2>2, <2>3
  <2>5. DeleteEntries(j) = Entries(j) BY <2>4, EntriesForDelete
  <2>6. deployed[Entries(j)[i].name] = NotThere BY <1>1, <2>1, <2>4, <2>5 DEF IInv, DeletedInv
  <2> QED BY <2>2, <2>4, <2>6
<1> QED BY <1>1, SchedulesInvariant, PTL

\* Without edits, deleting a job removes every trigger that fires it
\* (NothingOrphaned).
THEOREM NoOrphans == Spec => []NothingOrphaned
<1>1. ASSUME IInv PROVE NothingOrphaned
  <2> SUFFICES ASSUME edits = 0, exit = "good", command.delete, ~command.dry,
                      NEW n \in Names, deployed[n] # NotThere, deployed[n].job \in command.jobs
               PROVE  FALSE
    BY DEF NothingOrphaned
  <2> DEFINE j == deployed[n].job
  <2>1. j \in Jobs /\ Reached(j) /\ \A k \in DOMAIN left : FALSE BY <1>1, AllReached
  <2>2. PICK a \in DOMAIN Entries(j) : n = Entries(j)[a].name BY <1>1 DEF IInv, OwnerInv, Owned
  <2>3. DOMAIN Entries(j) = DOMAIN config[j] BY <1>1, <2>1, EntriesTyped DEF IInv
  <2>4. DeleteEntries(j) = Entries(j) BY <2>2, <2>3, EntriesForDelete
  <2>5. deployed[Entries(j)[a].name] = NotThere BY <1>1, <2>1, <2>2, <2>4 DEF IInv, DeletedInv
  <2> QED BY <2>2, <2>5
<1> QED BY <1>1, SchedulesInvariant, PTL

\* A command changes no trigger in a dry run, and none that azureml.yml gives to a
\* job it was not asked about, if no two entries share a name (OthersUntouched).
THEOREM OthersSafe == Spec => OthersUntouched
<1>1. ASSUME IInv, [Next]_vars
      PROVE  [\A n \in Names : deployed'[n] # deployed[n] =>
                /\ ~command.dry
                /\ NoClash => \A k \in Jobs \ command.jobs : n \notin NamesOf(k)]_vars
  <2> SUFFICES ASSUME NEW n \in Names, deployed'[n] # deployed[n]
               PROVE  /\ ~command.dry
                      /\ NoClash => \A k \in Jobs \ command.jobs : n \notin NamesOf(k)
    OBVIOUS
  <2>1. /\ job # Nobody /\ left # <<>> /\ ~command.dry
        /\ \/ deployed' = Deploy
           \/ deployed' = Disabled
           \/ deployed' = Deleted
    BY <1>1, DeployedStep DEF IInv
  <2>2. n = Entry.name BY <1>1, <2>1 DEF IInv, TypeOK, Deploy, Disabled, Deleted
  <2>3. PICK k \in DOMAIN left : left[k] = Entry BY <1>1, <2>1, HeadTail DEF IInv, TypeOK, Entry
  <2>4. PICK b \in DOMAIN DeleteEntries(job) : n = DeleteEntries(job)[b].name
    BY <1>1, <2>2, <2>3 DEF IInv, LeftInv, Of
  <2>5. job \in command.jobs /\ job \in Jobs BY <1>1, <2>1, EntryTyped DEF IInv
  <2>6. ASSUME NoClash, NEW q \in Jobs \ command.jobs, n \in NamesOf(q) PROVE FALSE
    <3>1. PICK i \in 1..Len(config[q]) : n = EntryName(q, config[q], i) BY <2>6 DEF NamesOf
    <3>2. /\ DOMAIN Entries(q) = DOMAIN config[q]
          /\ \A a \in DOMAIN Entries(q) : Entries(q)[a].name = EntryName(q, config[q], a)
      BY <1>1, EntriesTyped DEF IInv
    <3>3. config[q] \in Seq(Refs) BY <1>1, SchedulesAssumption DEF IInv, TypeOK
    <3>4. i \in DOMAIN Entries(q) /\ config[q] # <<>> BY <3>2, <3>3
    <3>5. DeleteEntries(q) = Entries(q) BY <3>4, EntriesForDelete
    <3>6. <<q, i>> # <<job, b>> BY <2>5, <2>6
    <3>7. DeleteEntries(q)[i].name # DeleteEntries(job)[b].name BY <2>4, <2>5, <2>6, <3>4, <3>5, <3>6 DEF NoClash
    <3> QED BY <2>4, <3>1, <3>2, <3>4, <3>5, <3>7
  <2> QED BY <2>1, <2>6
<1>2. Spec => []IInv BY SchedulesInvariant
<1> QED BY <1>1, <1>2, PTL DEF Spec, OthersUntouched
=============================================================================

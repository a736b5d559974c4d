------------------------------- MODULE Config -------------------------------
(***************************************************************************)
(* The validation of azureml.yml and its look-ups (config/models.py).      *)
(* A project is the record `p` of Factory, with the other sections of the  *)
(* file: workspaces (names), compute (name -> entry), notifications (name  *)
(* -> definition) and schedules (name -> the triggers it gives).           *)
(***************************************************************************)
EXTENDS Factory

Default == <<"__default__">>
None == "none"

(* Workspaces and compute. *)

WorkspacesValid(p) == Default \in p.workspaces

\* resolve raises KeyError on a name that is not there; no name is the default.
WorkspaceKnown(p, name) == name # <<>> => name \in p.workspaces

ComputeValid(p) == Default \in DOMAIN p.compute /\ p.compute[Default].cluster_name # None

\* What an entry leaves out it takes from the default.
ResolveCompute(p, tag) ==
  LET default == p.compute[Default] IN
  IF tag \in DOMAIN p.compute
  THEN [field \in DOMAIN default |->
          IF p.compute[tag][field] # None THEN p.compute[tag][field] ELSE default[field]]
  ELSE default

(* Schedules and notifications. *)

ScheduleValid(triggers) == Cardinality(triggers) = 1

\* At least one event; a Slack token goes with a channel; and one transport.
NotificationValid(d) ==
  /\ d.events # {} /\ d.payload # "malformed" /\ d.wait_timeout >= 1
  /\ ("token_env" \in d.transport) <=> ("channel" \in d.transport)
  /\ d.transport # {}

\* Checked on the entries as written, factories included: a job's definition
\* exists, and its wait ends before the step is cancelled (0 is no limit).
ReferencesValid(p) == \A key \in DOMAIN p.jobs : LET job == p.jobs[key] IN
  job.notifications # None =>
    /\ job.notifications \in DOMAIN p.notifications
    /\ job.timeout # 0 => p.notifications[job.notifications].wait_timeout < job.timeout

\* KedroAzureMLConfig.model_validate accepts the file.
Validates(p) ==
  /\ WorkspacesValid(p) /\ ComputeValid(p)
  /\ \A s \in DOMAIN p.schedules : ScheduleValid(p.schedules[s])
  /\ \A n \in DOMAIN p.notifications : NotificationValid(p.notifications[n])
  /\ ReferencesValid(p)
=============================================================================

------------------------------ MODULE Compile ------------------------------
(***************************************************************************)
(* The commands that read azureml.yml and turn its jobs into graphs:       *)
(* `compile`, `compile --check`, `resolve-patterns` and the preparation of *)
(* `run` and `schedule` (cli/commands.py, cli/functions.py), given one     *)
(* after the other while the project is edited.                            *)
(*                                                                         *)
(* What a project defines (Factory, Config) is looked up by an identity,   *)
(* so that a file can be said to be of one project.  How a node becomes a  *)
(* step is Dataflow's subject; here it is translated, or it is not.        *)
(***************************************************************************)
EXTENDS Config

CONSTANTS
  Project,     \* the states of the project that are looked at
  Definition,  \* what each of them defines
  Edits,       \* <<from, to>>: the edits that may be made
  Commands,    \* the commands that may be given: [kind, all, names, workspace, dry]
  MaxCommands, \* bound: commands given
  MaxEdits     \* bound: edits made

ASSUME CompileAssumption ==
  /\ MaxCommands \in Nat /\ MaxEdits \in Nat
  /\ 0 \notin Project /\ Edits \subseteq Project \X Project
  /\ \A c \in Commands :
       /\ c.kind \in {"compile", "check", "prepare", "list"} /\ c.all \in BOOLEAN /\ c.dry \in BOOLEAN
       /\ c.kind = "list" => c.all

\* A project has finitely many entries; their keys are sequences of words, which have
\* a length, and placeholders, and have a place in alphabetical order.
ASSUME KeyAssumption ==
  \A q \in Project : LET keys == DOMAIN Definition[q].jobs IN
    /\ IsFiniteSet(keys)
    /\ \A key \in keys :
         /\ key \in Seq(Range(key)) /\ KeyRank[key] \in Nat
         /\ \A i \in Words(key) : WordLength[key[i].text] \in Nat

VARIABLES
  project,   \* the project as it is in the working directory
  pc,        \* "idle", "given" or "generating"
  command,   \* the last command given
  loaded,    \* the project as that command read it
  pending,   \* the selected jobs not yet attempted
  ok,        \* the selected jobs that were generated
  failures,  \* the jobs --check has found not to compile
  files,     \* the YAML files: which job of which project
  before,    \* the files when the command was given
  verdict,   \* how the last command ended
  checked,   \* the project of the last `compile --check --all` that was good
  listed,    \* the project whose jobs resolve-patterns printed last
  commands, edits

vars == <<project, pc, command, loaded, pending, ok, failures, files, before, verdict,
          checked, listed, commands, edits>>
history == <<checked, listed, edits>>

Nothing == [project |-> 0, name |-> <<>>]
NoCommand == [kind |-> "none", all |-> FALSE, names |-> {}, workspace |-> <<>>, dry |-> FALSE]

\* A file is the output path, or carries the job's name when there are several.
NamesOf(p) == LiteralNames(p) \cup IF EnumerationFails(p) THEN {} ELSE RenderedNames(p)
File == {<<>>} \cup UNION {NamesOf(Definition[q]) : q \in Project}
Content == [project : Project, name : File] \cup {Nothing}

\* A project has finitely many jobs.
ASSUME FileAssumption == IsFiniteSet(File)

Init ==
  /\ project \in Project /\ pc = "idle" /\ command = NoCommand /\ loaded = 0
  /\ pending = {} /\ ok = {} /\ failures = {}
  /\ files = [f \in File |-> Nothing] /\ before = files
  /\ verdict = "none" /\ checked = 0 /\ listed = 0 /\ commands = 0 /\ edits = 0

-----------------------------------------------------------------------------
(* What a job of a project is, and whether it becomes a graph. *)

Loaded == Definition[loaded]
Selection(p, c) == IF c.all THEN EnumerateJobs(p) ELSE ResolveJobs(p, c.names)
Selected == Selection(Loaded, command)
Entry(p, job) == p.jobs[job.key]

\* Pipeline.filter by the rendered node_namespaces, when the entry has any.
Below(n, namespace) == IsPrefix(namespace, n.namespace)
Kept(p, job) == LET templates == Entry(p, job).templates IN
  {n \in p.pipelines[Entry(p, job).pipeline] : templates = <<>> \/
     \E i \in DOMAIN templates :
       Fills(job.values, templates[i]) /\ Below(n, RenderTemplate(templates[i], job.values))}

\* Nodes that no other of them depends on.
Leaves(nodes) == {n \in nodes : \A m \in nodes : n.name \notin m.needs}

\* notification_roles: the poster cannot find the other leaves' runs.
RolesRejected(p, job) == LET entry == Entry(p, job) IN
  /\ entry.notifications # None /\ ~entry.experiment
  /\ "success" \in p.notifications[entry.notifications].events
  /\ Cardinality(Leaves(Kept(p, job))) > 1

\* get_target_resource_from_node_tags: a node with two compute tags.
ResourceTags(p, n) == n.tags \cap DOMAIN p.compute
Overtagged(p, job) == \E n \in Kept(p, job) : Cardinality(ResourceTags(p, n)) > 1

\* The ways generate may end: "error" is an Exception, "config" a ConfigException,
\* which is a BaseException.
Outcomes(p, job) ==
  IF Entry(p, job).pipeline \notin DOMAIN p.pipelines \/ Kept(p, job) = {} THEN {"error"}
  ELSE IF RolesRejected(p, job) THEN {"config"}
  ELSE LET bad == (IF \E n \in Kept(p, job) : n.broken THEN {"error"} ELSE {})
                  \cup (IF Overtagged(p, job) THEN {"config"} ELSE {})
       IN IF bad = {} THEN {"ok"} ELSE bad

Generates(p, job) == Outcomes(p, job) = {"ok"}
WorkspaceOf(p, job, c) ==
  IF c.workspace # <<>> THEN c.workspace
  ELSE IF Entry(p, job).workspace = <<>> THEN <<>> ELSE Render(Entry(p, job).workspace, job.values)
Resolves(job) == WorkspaceKnown(Loaded, WorkspaceOf(Loaded, job, command))

-----------------------------------------------------------------------------
(* The commands. *)

Edit(q) ==
  /\ edits < MaxEdits /\ <<project, q>> \in Edits
  /\ project' = q /\ edits' = edits + 1
  /\ UNCHANGED <<pc, command, loaded, pending, ok, failures, files, before, verdict, checked, listed, commands>>

Give(c) ==
  /\ pc = "idle" /\ commands < MaxCommands
  /\ command' = c /\ pc' = "given" /\ commands' = commands + 1
  /\ verdict' = "none" /\ before' = files /\ loaded' = 0
  /\ pending' = {} /\ ok' = {} /\ failures' = {}
  /\ UNCHANGED <<project, files, history>>

End(v) == pc' = "idle" /\ verdict' = v

\* --all and -j exclude each other, and one is needed, when jobs are compiled.
Misused(c) == c.kind \in {"compile", "check"} /\ (c.all <=> c.names # {})

\* The session opens, azureml.yml is validated, and the jobs are selected.
Refusal(p, c) ==
  IF ~Validates(p) THEN "invalid"
  ELSE IF c.kind # "list" /\ p.jobs = NoValues THEN "no jobs"
  ELSE IF IF c.all THEN EnumerationFails(p) ELSE ~Resolvable(p, c.names) THEN "selection"
  ELSE "none"

Load ==
  /\ pc = "given" /\ loaded' = project
  /\ LET p == Definition[project]
         refusal == IF Misused(command) THEN "usage" ELSE Refusal(p, command)
     IN IF refusal # "none"
        THEN End(refusal) /\ UNCHANGED <<pending, listed>>
        ELSE IF command.kind = "list"
        THEN End("good") /\ listed' = project /\ UNCHANGED pending
        ELSE /\ pc' = "generating" /\ pending' = DOMAIN Selection(p, command)
             /\ UNCHANGED <<verdict, listed>>
  /\ UNCHANGED <<project, command, ok, failures, files, before, checked, commands, edits>>

\* Bug: the file name is the output path, whatever is selected.
OneDest(name) == <<>>

\* Where a compiled job goes: with_stem when several are selected.
Dest(name) == IF Cardinality(DOMAIN Selected) > 1 THEN name ELSE <<>>

Generated(name) ==
  /\ ok' = ok \cup {name} /\ pending' = pending \ {name}
  /\ files' = IF command.kind = "compile"
              THEN [files EXCEPT ![Dest(name)] = [project |-> loaded, name |-> name]] ELSE files
  /\ UNCHANGED <<pc, verdict, failures>>

\* Bug: a job that fails is not recorded.
Forgotten(name) == pending' = pending \ {name} /\ UNCHANGED <<pc, verdict, ok, failures, files>>

\* Bug: a job that fails stays to be attempted.
RecordedAgain(name) == failures' = failures \cup {name} /\ UNCHANGED <<pc, verdict, pending, ok, files>>

\* --check records an Exception and goes on.
Recorded(name) ==
  /\ failures' = failures \cup {name} /\ pending' = pending \ {name}
  /\ UNCHANGED <<pc, verdict, ok, files>>

Aborted(why) == End(why) /\ UNCHANGED <<pending, ok, failures, files>>

\* Only what is going to be submitted has a code_resolver.
HasResolver == command.kind = "prepare" /\ ~command.dry

\* SnapshotRegistrar: the code is staged once and registered once for each
\* workspace, so a workspace that an earlier job had asks for nothing.
Place(job) == LET name == WorkspaceOf(Loaded, job, command) IN IF name = <<>> THEN Default ELSE name
NeedsSnapshot(job) == Loaded.code /\ \A n \in ok : Place(Selected[n]) # Place(job)

\* The next job of the loop.  With a resolver its workspace is looked up first,
\* and staging or registering the code may raise.
Generate(name) ==
  /\ pc = "generating" /\ name \in pending
  /\ LET job == Selected[name] IN
     \/ HasResolver /\ ~Resolves(job) /\ Aborted("workspace")
     \/ HasResolver /\ Resolves(job) /\ NeedsSnapshot(job) /\ Aborted("snapshot")
     \/ /\ HasResolver => Resolves(job)
        /\ \E outcome \in Outcomes(Loaded, job) :
             \/ outcome = "ok" /\ Generated(name)
             \/ outcome = "error" /\ command.kind = "check" /\ Recorded(name)
             \/ outcome = "error" /\ command.kind # "check" /\ Aborted("job")
             \/ outcome = "config" /\ Aborted("job")
  /\ UNCHANGED <<project, command, loaded, before, history, commands>>

Finish ==
  /\ pc = "generating" /\ pending = {}
  /\ End(IF failures # {} THEN "reported" ELSE "good")
  /\ checked' = IF command.kind = "check" /\ command.all /\ failures = {} THEN loaded ELSE checked
  /\ UNCHANGED <<project, command, loaded, pending, ok, failures, files, before, listed, commands, edits>>

\* Ctrl-C, or a runner that is cancelled.
Interrupt ==
  /\ pc # "idle" /\ End("interrupted")
  /\ UNCHANGED <<project, command, loaded, pending, ok, failures, files, before, history, commands>>

Next ==
  \/ \E q \in Project : Edit(q)
  \/ \E c \in Commands : Give(c)
  \/ Load \/ (\E name \in pending : Generate(name)) \/ Finish \/ Interrupt

Spec == Init /\ [][Next]_vars

-----------------------------------------------------------------------------
(* Properties. *)

\* The types of the variables; the jobs of a command are attempted once each.
TypeOK ==
  /\ project \in Project /\ pc \in {"idle", "given", "generating"}
  /\ command \in Commands \cup {NoCommand} /\ {loaded, checked, listed} \subseteq Project \cup {0}
  /\ files \in [File -> Content] /\ before \in [File -> Content]
  /\ commands \in 0..MaxCommands /\ edits \in 0..MaxEdits
  /\ ok \cap failures = {} /\ pending \cap (ok \cup failures) = {}
  /\ pc = "generating" => loaded # 0 /\ pending \cup ok \cup failures = DOMAIN Selected

\* What a command selects, when it gets so far.
Selects == loaded # 0 /\ command.kind # "list" /\ ~Misused(command) /\ Refusal(Loaded, command) = "none"

\* The report of a command is true: a good one generated every selected job, a
\* compile left a file with each of them, however many jobs and earlier files
\* there are; a check names exactly the jobs that cannot be generated; nothing
\* but compile writes, and what it wrote before it was stopped are jobs of the
\* project it read.
ReportIsTrue ==
  pc = "idle" /\ Selects =>
    /\ verdict = "good" => \A n \in DOMAIN Selected :
         Generates(Loaded, Selected[n]) /\
         (command.kind = "compile" => \E f \in File : files[f] = [project |-> loaded, name |-> n])
    /\ verdict = "reported" =>
         /\ command.kind = "check"
         /\ failures = {n \in DOMAIN Selected : ~Generates(Loaded, Selected[n])} /\ failures # {}
    /\ \A f \in File : files[f] # before[f] =>
         command.kind = "compile" /\ files[f] \in {[project |-> loaded, name |-> n] : n \in ok}

\* A project that passed `compile --check --all` can be run and scheduled: every
\* job generates again, whichever are selected.  What is left to fail is what
\* the check does not do: look up the workspace of a job and stage and register
\* the code.  A dry run does neither, and is good.
CheckPredictsRun ==
  pc = "idle" /\ command.kind = "prepare" /\ Selects /\ loaded = checked =>
    \/ verdict \in {"good", "interrupted"}
    \/ verdict = "workspace" /\ ~command.dry /\ \E n \in DOMAIN Selected : ~Resolves(Selected[n])
    \/ verdict = "snapshot" /\ ~command.dry /\ Loaded.code

\* The names resolve-patterns prints are what run and schedule accept, and the
\* job that runs is the job that was printed, although listing renders all the
\* jobs and running looks for literal ones first.
ListedIsRunnable ==
  listed # 0 /\ loaded = listed /\ command.kind = "prepare" /\ ~command.all =>
    LET jobs == EnumerateJobs(Loaded) IN
    /\ verdict = "selection" => ~(command.names \subseteq DOMAIN jobs)
    /\ pc = "generating" => \A n \in DOMAIN Selected : n \in DOMAIN jobs /\ Selected[n] = jobs[n]

\* The entry that configures a job: of the factories that render its name from
\* its placeholders, whatever bindings they derive themselves, none has more
\* literal characters; and a literal entry gives way to none.
MostSpecificWins ==
  pc = "generating" => \A n \in DOMAIN Selected : LET job == Selected[n] IN
    /\ n \in LiteralNames(Loaded) => ~IsFactory(job.key)
    /\ IsFactory(job.key) => \A f \in Factories(Loaded) :
         Fills(job.values, f) /\ Render(f, job.values) = n => LiteralLen(f) <= LiteralLen(job.key)

\* compile --check attempts every job ("does not abort on the first failure").
EveryJobReported ==
  pc = "idle" /\ command.kind = "check" /\ Selects =>
    verdict \in {"good", "reported", "interrupted"}

\* The jobs that run the pipeline of a factory on one of its namespaces.
JobsOn(p, f, values) == {n \in RenderedNames(p) \ LiteralNames(p) :
  LET job == RenderedJob(p, n) IN Entry(p, job).pipeline = p.jobs[f].pipeline /\ job.values = values}

\* "Every distinct namespace becomes exactly one job", unless a literal entry
\* has taken its name.
OneJobPerNamespace ==
  listed # 0 => LET p == Definition[listed] IN
    \A f \in Deriving(p) : \A b \in BindingsOf(p, f) :
      Cardinality(JobsOn(p, f, b.values)) = 1 \/ Canonical(p, b) \in LiteralNames(p)
=============================================================================

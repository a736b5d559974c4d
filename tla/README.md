# kedro-azureml-pipeline: models, checks and proofs

`kedro-azureml-pipeline` compiles a Kedro pipeline to an Azure ML pipeline job: every node becomes a
step, every step runs in a container of its own, and the plugin's command line submits, waits for and
schedules such jobs. This directory holds TLA+ models of the parts of it that are hard to test, the
TLC configurations that check them on small instances, and proofs, checked by TLAPS, that hold for
every value of the constants. Paths below are relative to `src/src/kedro_azureml_pipeline/` unless
they start with `src/`. `PROJECT.json` maps every definition to the lines it stands for.

## Running it

    tlc -workers 2 -config Batch_run.cfg MCBatch      # the module is MC<model> for every cfg
    tlapm BatchProofs.tla                             # and OutageProofs, OutageRefinement, JobNotifyProofs,
                                                      # DataflowProofs, LocalRunProofs, SchedulesProofs,
                                                      # CompileProofs

The longest runs are `LocalRun_run`, `Compile_run` and `JobNotify_run` (about a minute each); the others take seconds to half a minute.

## 1. The system

### Components

| Component | Code | State it keeps | Operations |
|---|---|---|---|
| Graph of steps | `generator.py` | none; it emits a job | `generate`: nodes to commands, inputs to outputs or assets, `notification_roles` |
| Step execution | `runner.py`, `cli/commands.py` (`execute`) | paths of the container | rewire the datasets to the mounted folders, run one node |
| Datasets | `datasets/*.py` | files in a folder, versions of a data asset | `_load`, `_save`, `path`, `root_dir`, registration of a version (local) |
| Distributed steps | `distributed/*.py`, `generator.py` | environment variables of a rank | how many processes are launched, is this the master? |
| Run notifications | `hooks/notify.py` | MLflow tags, threads of the Slack channel | `before_pipeline_run`, `after_pipeline_run`, `on_pipeline_error`, `_await_siblings` |
| Outage report | `hooks/notify.py` | tags of the root run, read by the next run | `decide_outage`, `_report_outage`, `_previous_run_tags` |
| MLflow hook | `hooks/mlflow.py` | tags of the step run | `kedro.node_name` before, `kedro.error` on failure |
| Batch run | `cli/functions.py` (`run_jobs`) | prepared jobs, results, exit status | prepare, submit in order or from a pool, wait |
| Azure ML client | `client.py` | credential, clients per workspace, a lock | `BatchClients.get`, `run`, `stream` |
| Code snapshots | `snapshot.py`, `SnapshotRegistrar` | a staged directory, asset ids per workspace | stage, register, clean up |
| Schedules | `scheduler.py`, `cli/functions.py` | triggers in the workspace | create or update, disable then delete |
| Job factories | `factory.py` | none | derive the bindings of a factory, name and configure each job |
| Compile and check | `cli/functions.py` (`compile_job_pipelines`), `cli/commands.py` | output files | select jobs, compile them, check them, list them |
| Configuration | `config/models.py`, `manager.py` | the parsed `azureml.yml` | validate, cache |
| Local-run hook | `hooks/local_run.py` | workspace and download switch of each asset dataset | set them before a local run |
| Other commands | `cli/commands.py` | none | `init`, listing and resolving patterns |

### How they interact

* The command line calls the generator once per job in its main thread, and the client from one
  thread per job under `--concurrent`. The threads share `BatchClients` (one lock), the code asset
  ids and the results.
* Steps of one job share no memory. They see each other's data through the folders the generator
  wired, and each other's fate through the statuses and tags of their MLflow runs. Nothing is
  transactional: each tag is a call of its own.
* Runs of one job share only the tags their last posters left on their root runs. Two runs can
  overlap: a schedule does not wait for the run before.
* Two commands share only what Azure ML keeps (jobs, code assets, triggers) and the working directory:
  azureml.yml, the pipelines and the compiled files, which are edited between commands and while one runs.
* Local runs share the data directory below `root_dir` with each other, and the versions of the
  assets with every job of the workspace.

### What is hard about it

Samples taken of a moving system (the poster polls the statuses of leaves that keep changing; a run
reads the tags of another run while that one is writing them); orders nobody wrote down (the failure
message precedes the tag that says that it was sent, in a hook order pluggy decides); processes that
are killed where no hook runs; calls that work and lose their answer; a chain that must stop exactly
at the first failure; a lock held while the thing it protects raises; triggers whose names are
recomputed from an edited file; the same name given to two things by sanitising; and ranks that run
the same saves at the same time; and a path that is looked up again at each use while others register
versions. The hazards of `PROJECT.json` list these at their lines, with
the properties that cover them or the reason why none does.

## 2. The models

| Module | What it models | Extended by |
|---|---|---|
| `OutageSpec` | the promise of the outage report: the table of `decide_outage` as one atomic state | |
| `Outage` | the poster of each run of a job, one action per external call | `MCOutage`, `OutageProofs`, `OutageRefinement` |
| `JobNotify` | the hooks of every process of every step of one job | `MCJobNotify`, `JobNotifyProofs` |
| `BatchSpec` | the promise of `kedro azureml run`: which jobs are attempted and what the exit status means | |
| `Batch` | one invocation: the main thread, the pool, the lock, Azure ML | `MCBatch`, `BatchProofs` |
| `Schedules` | a sequence of `schedule` commands, edits and failures over the triggers | `MCSchedules`, `SchedulesProofs` |
| `Distributed` | the processes of a decorated step, their variables, the master test | used by `Dataflow` |
| `Dataflow` | the wiring, the processes of the steps, and where each dataset is loaded and saved | `MCDataflow`, `DataflowProofs` |
| `LocalRun` | local runs over asset datasets while versions are registered | `MCLocalRun`, `LocalRunProofs` |
| `Factory` | the expansion of job factories, as pure operators | `Config` |
| `Config` | the validation of azureml.yml across fields, and its look-ups | `Compile` |
| `Compile` | compile, check, list and prepare, given one after the other while the project is edited | `MCCompile`, `CompileProofs` |

`Outage` implements `OutageSpec` when runs do not overlap, and `Batch` implements `BatchSpec`; both are
checked and proved. `JobNotify` ends where `Outage` begins: it leaves a finished, degraded job to it.

### Outage

A run is named by its start time, so that "newer" is `>`. `pc[r]` is where `_report_outage` of run `r`
is, `marks[r]` the `kedro.warning` entries its steps left, `tags[r]` what MLflow has on its root run,
`posts` the messages, and `latest` a history variable: the run that finished its report last.

| Action | Code |
|---|---|
| `Begin`, `FailRun`, `Finish` | Azure ML; a run with a failed step reports no outage |
| `ReadMarks`, `ExperimentRaises` | the experiment lookup (unguarded) and the search for the step runs |
| `FindPrevious`, `LookupFails` | `_previous_run_tags`, then `decide_outage` on what it returned, which may be stale |
| `Post` | `_send` of a subscribed message; acknowledged or lost |
| `WriteTag` | one `set_tag`, in the order of the code; a failed one is skipped |
| `Outcome`, `Crash` | success unless degraded; the process is killed |

`_previous_run_tags` looks at the newest `Scanned` root runs of the job and takes the newest of
those with a recorded state. `pc = "raised"` is the exception of the experiment lookup, which no one
catches although the docstring says that the report never raises (`hooks/notify.py:487`, `:506`).

### JobNotify

`phase[p]` is where a process is in the order of the hooks, `status[n]` the status of the step's run,
`nodeTag`, `errorTag` and `threadTag` the MLflow tags, `wait[p]` the locals of `_await_siblings`.
`StartStep` and the status of a step with several ranks are Azure ML's: a step is finished with its
last process and fails with its first. `Die` kills a process wherever `KillPhases` allows. `Poll` is
one search followed by the deadline test, which the code makes on the same result. Time is counted in
polls: the code compares a monotonic clock, and how many searches fit is the only effect that the
properties tell apart.

### Batch

`phase` is the main thread and `pc[j]` the submission of a job, by the main thread or one of the pool.
`prep` holds what preparation builds (`stagings`, `registrations`, the code asset each job names),
`pool` the lock, the credential and the clients, and `remote[j]` is Azure ML. `IsNext` says which job
may be taken: the next after good ones in order, or any in the order of the queue while a thread is
free. `create_or_update` may raise before or after Azure ML has the job. Without
`--wait-for-completion` a chain awaits only the submission, which is what `BatchSpec` promises of it.

### Schedules

`config` is the `schedule` of each job in `azureml.yml`, `deployed` the triggers of the workspace,
`left` the entries of the current job that are still to do. `Edit` changes the file between two
commands. `CreateFails`, `DeleteFails` and `Interrupt` leave a command anywhere, in particular between
`begin_disable` and `begin_delete`. A failure while jobs are being prepared, before the first trigger
is touched, looks like an `Interrupt` before the first job. A call that fails may have worked and lost its answer. Trigger names are constants of the model
(`RefName`, `IndexName`) with the rule of `_schedule_entries`, so that names can coincide.

### Dataflow

A project is a catalogue, the sanitised names, `--load-versions`, and whether the snapshot carries the
data of a local run; it is chosen in `Init` and nothing changes it. `AzureInput`, `Upstream` and
`PipelineOutputFolders` are `_connect_commands` and its surroundings; `Place` is where the runner lets
a dataset look, by the kind of its entry: rewired to the mount, or its own `root_dir`. A location is a
folder and a file. `files` holds what was written since submission: `torn` while somebody writes it,
or after its writer died, then `now`. A pinned asset from a pattern is written and then its process fails, in Kedro's
comparison of versions (`EndSave`). Azure ML runs a step when the steps whose outputs it is wired to
have finished. Each process of a step loads every input, then saves its outputs one by one.

Abstracted: parameters are standard datasets that nobody writes; transcoded names, and steps Azure ML
reuses from an earlier job, are left out; standard datasets are stored where every container reaches
them; `@latest` is the same version for the whole job, since Azure ML resolves it at submission; the
asset's file is where its entry says it is.

Which rank saves follows from `Distributed`: the project says which nodes are decorated, `ProcessCount` how
many processes that gives (TensorFlow ignores `processes_per_node`), `Environment` what the launcher sets for each, and
`IsDistributedMasterNode` reads it in the order of the code.

### LocalRun

A run is its plan: a sequence of loads and saves of asset entries, in the order of its nodes; other datasets do not matter.
`newest` is Azure ML's registry, `local` the files below `root_dir/<asset>/<version>`. A load is three actions, because the
code resolves the path three times: `Fetch` (the version of the asset object), `BeginDownload` (the directory it is
written to) and `Opens`. `Register` may come between any two. `Skip` replaces the first two where the hook has
switched the download off, `BeginSave` writes wherever the path now points. Entries are `listed` in the catalogue or come from a
pattern, which `catalog.filter()` of the hook does not see. After a save Kedro compares versions, which asks Azure ML for the newest
one: an entry that is not listed has no workspace to ask, so its `EndSave` fails with the file written.

Downloads and saves write in place, so each has a beginning and an end. `writing` is the place a run is writing; the file
there is `Torn(by)`, which stands for any part or mixture of what the runs `by` were writing. It is whole when a run that
wrote it alone has ended; where several had a hand in it, the last of them may leave it whole or torn. A run that is killed, or whose write fails, leaves
the torn file (`CallFails`). Reading is one action, since a read that a write overlaps is a read of a torn file, which may succeed
(`Opens`) or not (`OpenFails`). `since`, `quiet` and `alone` are history variables of the properties. Standard datasets and a
run's parameters are left out.

### Factory, Config and Compile

A project is one record: the entries of `jobs`, the registered pipelines with the namespaces of their nodes, and the other
sections of azureml.yml. A string is the sequence of the words between its dashes, which is what tells apart the names
that factories make: a suffix, a prefix and a clash of two renderings (`eu-lgbm` and `lgbm` against `eu` and `lgbm-lgbm`) are
all about dashes. `Factory` follows `enumerate_jobs`: bindings are derived from the namespaces at the depth of the first template,
the candidate with most placeholders gives the name, and the most literal factory of that name the configuration. `Config` has the
validators that look at more than one field.

`Compile` gives commands one after the other. `Load` reads the project as it is then and validates, refuses or selects;
`Generate` is one job of the loop, whose end is `ok`, an `Exception`, or a `ConfigException`, which is a `BaseException` and
passes by the `except` of the check. The preparation of a real `run` or `schedule` has a resolver of the code (`HasResolver`): it looks up the workspace of
each job before it generates, and stages and registers the code where that workspace has none yet (`NeedsSnapshot`), and each may raise. A dry run does neither.
`Finish` is the exit status. `Edit` changes the project between and during commands: the
files and the verdict are of the project that was loaded. How a node becomes a step is `Dataflow`'s; here a node is translated,
or is `broken`, or has two compute tags. `--params`, `--load-versions` and `--env`, which feed the generator, are taken to be the same for all
commands.

## 3. The runs

| Run | Question | Instance and bounds |
|---|---|---|
| `Outage_sequential` | do the tags handed from run to run implement the table as one atomic state, and stay in one thread, whatever messages are lost? | four instants, one run at a time, two tables and a malformed entry, `Repeat` 3, `Tolerance` 1, window of 2, two faults among lost messages and failing lookups of the experiment |
| `Outage_faults` | with overlap and faults: no reply without its warning, no recovery that nobody announced | three instants, two runs at once, one table, every fault, any two of them |
| `JobNotify_run` | what the channel says of one job is true, said once, said at all; every process ends | six steps, one of two ranks, the poster polls twice, a death anywhere |
| `Batch_run` | one client and one snapshot each, jobs find their code, exit status and order are right, the command ends | three jobs in two workspaces or one undefined, two threads, all modes, any two faults |
| `Schedules_run` | what does exit status 0 say of the triggers; whose triggers are touched? | two jobs whose names can collide, five schedule lists, three commands, one edit, two faults |
| `Dataflow_run` | does each step read what was written, run in order, and does the job end? | 720 projects over three steps, one of two processes under each framework, one death |
| `LocalRun_run` | does a run read what it wrote, and inputs that are current; does it fail for no reason? | two runs, interchangeable by symmetry, 16 catalogues over one or two assets, two versions, one failing call or write |
| `Compile_run` | are the reports of compile and check true, and do run and list agree with them? | 17 projects, two commands out of 22, one edit |

Why these bounds are enough to be interesting. An outage needs three runs to open, continue and close
and a fourth to see the next one; `Repeat - Tolerance` is 2, so with instants 3 to 6 a reminder is both due
and not due. Two runs at once are the smallest overlap and three runs with two in flight let one be overtaken.
In `JobNotify` the graph `r1 -> m -> x`, `r1 -> y`, `r2 -> z` has a poster with siblings of its own and of
another root, an interior step, and roots that can fail without the poster. Two polls give
a leaf that ends between two searches, one that never ends, and one that ends after the last. Three jobs
and two threads give contention for the lock and a queued job; two of the jobs share a workspace. In
`Schedules` one job's name is the name of the other's nightly trigger; three commands are create,
break off, repair. In `Dataflow` every kind of entry stands in every position where it matters, and the
three frameworks launch the two processes in the three ways they can. Two versions and two local runs are the fewest in which a look-up goes
stale and a run meets another's file; a plan that loads, saves and loads has an input and an intermediate. The
17 projects of `Compile` are one that is right, and one for each thing that can be wrong with or special about it; two
commands are a check and the run it speaks for, or two compiles into the same files. The symmetry of `LocalRun_run` is sound: the two runs are
model values that no definition tells apart, each has its plan from the same set, and the run has no liveness property.

### Fairness

* `JobNotify`: weak fairness of the hooks of every process, since a running process goes on. Azure ML
  need not start a further step once one has failed (`continue_on_step_failure`), so `StartStep`
  has none; that is what makes the end of the waiting poster a property of its cap.
* `Batch`: weak fairness of the main thread, of every job's submission, and of Azure ML ending the jobs it
  has; without the last, `--wait-for-completion` waits by design.
* `Dataflow`: weak fairness of `Advance`, anything but a death. No process works for ever, since each saves each
  of its outputs once.
* `Outage`, `Schedules`, `LocalRun` and `Compile` state safety only: a killed run reports nothing, an interrupted command
  need not be repeated, and a local run or a compile is one loop over a finite list.

### What the runs show

`Outage_sequential`: `ImplementsOutageSpec` and `OneThreadPerOutage`. They need runs that do
not overlap and a lookup that answers. The how-to page says that a finished run "is compared with the last finished
run before it" (`src/docs/pages/how-to/notify-on-run-outcomes.md:94`), without a word on overlap; a run
that overlaps another can be compared with a run before that one, and so announce a recovery late or twice.
`Outage_faults`: `RepliesHaveParent` and `RecoveredFollowsWarning` survive both.

`JobNotify_run`: success is only said of a finished job (`SuccessMeansAllFinished`, though the poster
looks at leaves only), the verdicts agree, success stays in the thread of start, a leaf that died is in exactly
one failure message, and a poster that ended has not ended in silence. `NeverSilent` depends on the
order of the two error hooks: the failure is posted before `kedro.error` tells the poster that it was. A leaf
killed between the two is told about twice, which `EachDeathToldOnce` excludes by name.

`Batch_run`: five invariants, the refinement of `BatchSpec` and one liveness property. `OncePerBatch` is one credential, one
client per workspace, one staging and one registration per workspace whatever the threads do; `ChainConsumesOutputs` that
a job of a waiting chain starts from completed jobs and that exit status 0 says so; `BatchEnds` includes exceptions raised while
the lock is held.

`Schedules_run`: an exit status of 0 is true whatever earlier commands left half done. The properties on
names assume that no two entries come down to one trigger name (`NoClash`): the code cannot tell them
apart. Nothing is orphaned as long as the file is not edited; after an edit something can be.

`Dataflow_run`: consumers read what their producers wrote in this job, in the order of Kedro, in the
version asked for; one rank writes each intermediate, whichever framework launched it; and a project the plugin supports
runs through and ends with its outputs where the job says. `ReadsWhatWasWritten` assumes distinct sanitised names and no
plugin dataset from a pattern.

`LocalRun_run`: a lone run reads what it wrote, or fails: a registration between its save and its load moves the place and
leaves nothing there to be taken for the data (`OwnOrNothing`, for an asset no other entry can meet). Its inputs are
of the version that was the newest at some moment of that load (`InputIsCurrent`). And a run whose needs are met fails only if
something was registered while it ran, a call or a write of it failed, or, with other runs beside it, it opens a torn file that
another has had a hand in (`QuietRunSucceeds`): so whatever earlier runs left in the directory, a killed run's torn files included, makes no
lone run fail. With another run in the same directory the first two are false, and nothing in the repository promises them.

`Compile_run`: a good report covers each selected job, with a file for each when it compiles, and a check that names
failures names exactly those that do not compile (`ReportIsTrue`); after a good `check --all` every job still
generates, so preparing can fail only in what the check does not do, for a workspace of a selected job that is not defined, or in staging or registering the
code, and a dry run's preparation does not fail (`CheckPredictsRun`); run accepts the names that `resolve-patterns`
printed, and runs the same jobs (`ListedIsRunnable`); and of the factories that give a job its name no other is more literal
than the one that configures it (`MostSpecificWins`, stated without the sort of the code).

### Findings

Each of these runs checks one sentence of the repository, which TLC finds violated.

| Run | What the repository says | What the code does |
|---|---|---|
| `Dataflow_pin` | `azureml_version` pins a version of an asset (`how-to/use-data-assets.md:40`) | remote jobs look at `--load-versions` alone and mount the newest |
| `Compile_check` | the check attempts every job and reports which failed (`cli/functions.py:376`) | a `ConfigException` is a `BaseException`: the check stops there, and reports neither this job nor the others |
| `Compile_factories` | "Every distinct namespace becomes exactly one job" (`explanation/job-factories.md:56`) | of two families of one job type on two pipelines the more literal configures the jobs of both: no job runs the other's pipeline on its namespaces |
| `LocalRun_aside` | a local run saves intermediates as a "local version" (`datasets/asset_dataset.py:294`) | `path` never looks at that version: the save replaces the downloaded copy of the newest registered one |

Other disagreements that the models have in their behaviour, without a run of their own:

* A lookup that fails "counts as no history, so it errs toward a warning" (`hooks/notify.py:486`); on a clean run, no history means
  that nothing is said and a clean state is recorded, so an outage can end without `recovered`.
* A leaf killed before its run has `kedro.node_name` is matched by no run: it is waited for until the cap, and
  reported as unknown instead of failed.
* One interior failure below two branches makes two outcomes: its own, and unknown from the poster.
* Datasets that come from a factory pattern are not rewired in the container; their consumers read its own disk.
* Every rank saves an asset: `AzureMLAssetDataset._save` overrides the rank test.
* A rank that does not parse is no master, where the docstring says it is (`distributed/utils.py:55`).
* "Subsequent runs reuse the cached copy" (`src/docs/pages/explanation/data-flow.md:33`): each load downloads again.
* A job's `compute` names an entry of `compute` in the documentation, and is passed on as the name of a cluster (`client.py:289`).

## 4. The proofs

All are checked to the last leaf; each rests on the named assumption of its model (`OutageAssumption`,
`JobAssumption` and `RolesAssumption`, `BatchAssumption`, `SchedulesAssumption`, `DataflowAssumption` and `CatalogAssumption`, `LocalRunAssumption`,
`CompileAssumption`, `KeyAssumption` and `FileAssumption`), which states only what the configuration or Kedro guarantees, or how the constants are
given, and which TLC evaluates in the runs.

**Outage** (any set of instants and tables, any overlap, any faults). `TypeCorrect`. `RepliesThreaded`:
inductive invariant `ThreadsInv`, that every thread kept anywhere (a tag, a decision not yet written,
a message) is 0 or the run of a delivered top-level warning; `RepliesHaveParent` alone says nothing of the
tags that the next message is threaded from. `NoUnannouncedRecovery`, for a job subscribed to `warning`:
`WarnedInv`, that every degraded tag and every decision not about to warn comes after some warning.

`OutageImplements` is the refinement of `OutageSpec`, and `OneThread` says that an outage has one thread, for any number of runs, tables, `Repeat`,
`Tolerance` and window. They assume `Sequential`: one run at a time, no read or write of a tag lost, no poster killed, a job that asks
for `warning` and `recovered`; `OneThread` that there are threads at all. What may still fail is Slack, the experiment
lookup, and the steps of a run. Each hypothesis is needed for the refinement: without any one of them TLC finds a counterexample on the instance of `Outage_sequential`. Two runs that
overlap decide from the same predecessor, a lookup that is lost is taken for no history, and a warning the job does not ask for opens an outage unannounced. The abstract state is `InForce`, what the newest run that wrote anything has decided. Its inductive invariant `SeqInv`
says that one run is in flight and is the newest (`AloneInv`), that there is a newest report (`TopInv`), which tags of a run are written
(`TagsInv`: a run in the middle of its `set_tag` calls has a prefix of its decision, which the next never sees), and that the decision
about to be posted was taken from the outage in force (`PostingInv`), which is what makes the step `Post` a step of the table. The
bounded window of `_previous_run_tags` does not matter then: the newest run with the job's tag has recorded a state, and is in a window of any size
(`PreviousInForce`). `ThreadedInv` adds, for `OneThread`, that every outage is of a run that reported (`ToldInv`), and that what was delivered of the one in force is in the thread its tags carry (`ThreadInv`).

**JobNotify** (any acyclic pipeline, any ranks, any deaths). `JobTypeCorrect`. `SuccessIsTrue`: the
invariant `JobInv` ties what the poster has accounted for to what is true of the leaves
(statuses are stable once terminal), and `InOrder` says that a step has started only
after its parents finished. That the interior finished follows by taking, of the unfinished steps,
the one last in the topological order: it is a leaf, or has a child that started. `OneVerdict`, with mlflow and a
poster of one process: `AgreeInv` says who may have spoken, in which phase.
With several ranks the poster's step can fail after one of its processes spoke. `SuccessInThread`, for the same posters: a success out of
the thread would need the announcer to record its thread later, when it has finished. `PosterSpeaks` and `DeathsToldOnce` assume `NotifyFirst`, that the failure is
posted before `kedro.error` is written, the order the run has too; with the other order the poster can take a failure for
told that never is. `ErrorInv` carries it: whoever is between the two hooks, or has the tag, has posted. `DeathsToldOnce` further assumes mlflow and
leaves of one process, as the ranks of one leaf may each tell of its failure. Its `DeathInv` splits the siblings the
poster is done with into reported, unreported and finished (`DoneAccounts`, `UnreportedInv`), says that a poster that is done has posted the
unreported ones (`DoneTells`), and that a failure message is either a step's own or the poster's (`FailuresInv`); exactly one follows.

**Batch** (any number of jobs, threads, workspaces, faults). `BatchInvariant` proves `IInv` inductive. Its parts
are the lock (`PoolInv`: who is inside `get` holds the lock, and nothing is built twice), the truth of
answers (`WorkInv`), the order of a chain (`ChainInv`), the code ids (`CodeInv`), the staged
directory (`StagingInv`) and the end (`EndInv`). `MadeOnce`, `CodeFound` and `ChainConsumes` follow from it, `DryRunChangesNothing` with
`NothingMade` added, and `BatchImplements` proves the refinement: every step is a step of `BatchSpec` or a stutter.

**Schedules** (any jobs, schedule lists and names, any sequence of commands, edits and faults). `SchedulesInvariant` proves `IInv`
inductive. What an exit status of 0 says is a fact about all the entries that a command has gone through, so the invariant says it
of each while the command runs: an entry it has come to and not reported is deleted (`DeletedInv`) or deployed (`CreatedInv`), or
still to do; what is to do are entries of the job it is at (`LeftInv`), as azureml.yml is not edited while a command runs.
`GoodDeploys` and `GoodDeletes` follow; the first needs that no later entry has the same name. `NoOrphans` adds `OwnerInv`: without
edits each trigger has the name of an entry of the job it fires. `OthersSafe` is an action property, from `LeftInv`.

**Dataflow** (any pipeline, project, ranks, deaths). `DataflowInvariant` proves `FlowInv` inductive: who has
started found the steps it is wired to done (`OrderInv`), a file being written belongs to an output its
process has not saved (`WriteInv`), what a process has saved is complete unless it is being
written again or a rank died (`SavedInv`), who is done has saved all (`DoneInv`), and the record of
saves is right (`RecordInv`). `KeepsOrder` adds that the wiring covers Kedro's dependencies when
names stay apart (`EveryDependencyWired`), `DataArrives` that the consumer looks where the
producer wrote (`SamePlace`), and `OneRankWrites` that two ranks cannot both be the master, by `MasterIsRankZero`: in what each
framework's launcher sets, the master test of the code holds of rank 0 alone. `VersionAskedIsRead` adds `OutputsInv`, that only what the
steps produce is ever written, so the content of an asset that none produces is that of its version; it uses of
`CatalogAssumption` that the versions asked for exist, since Azure ML refuses others. `SupportedRunsThrough` says that of all the ways a
step can fail only death is left: every path it looks up exists (`EveryPathExists`), the entries it needs are reached
(`EntriesReached`) and every file it opens is there (`EveryFileThere`), which `NoFailure` gathers into an invariant.

**LocalRun** (any catalogue, any plans, any number of runs and registrations, any failing calls). `LocalInvariant` proves
`LocalInv` inductive. The data properties say nothing of the files between two uses, hence its parts: nothing lies below a version that
is not registered yet, unless an entry pins it (`FutureInv`), so a place that moves finds nothing; the object that was fetched is of a
version between the start of the load and now (`FetchInv`); an opened input finds that version or nothing (`ReadyInv`);
where a saved entry is now looked for there is the run's own data or nothing (`OwnInv`), since a run that is
alone is the only writer (`AloneInv`); a run inside a download or a save is writing one place its entry reaches, has
a hand in the file there (`WriteInv`), and finds nothing where that place moves to (`MovedInv`); and while nothing is registered the run's file is still there (`KeptInv`). `OwnData` and
`CurrentInput` follow for the read of an `Opens`; `QuietSuccess` is an action property, from the same invariant: while
nothing is registered the three look-ups of a load agree, so what one of them wrote is there for the next, and is whole unless another run
beside it had a hand in it.

**Compile** (any projects, commands and edits). `CompileInvariant` proves `IInv` inductive. `WorkInv` says what has become of the
selected jobs so far: those attempted generate and, compiled, are in their files, which no two share; those recorded do not generate; and
every file that changed holds one of the former. `EndInv` says why a command ended (for its workspace or the code only with a resolver), `CheckedInv` that the jobs of a checked project
all generate. `TrueReports` and `CheckHolds` follow. `ListedRuns` is about the two ways of selecting: a list of names is looked up
in the same function that enumerating gives (`SelectedNames`, `ListedResolves`). What a factory renders is not looked into, so
these hold for any rule of naming. `MostLiteralConfigures` is about that choice: `resolve_target` takes the name from the candidate with
most placeholders, and the configuration from the most literal of those that render that name. Both maxima must be shown to exist, ties included (`MostGeneral`,
`MostLiteral`, from `Greatest`: a measure has a greatest value on a finite set, by well-foundedness of strict inclusion instead of induction); then the
first makes sure that the second has something to choose from (`WinnerIsMostLiteral`).
`KeyAssumption` says that azureml.yml has finitely many entries and that the lengths of their words are numbers.

Only model-checked: liveness (`EveryStepEnds`, `BatchEnds`, `JobEnds`), which with its fairness is out of the prover's reach; every other
property of a passing run has a theorem. The four findings are counterexamples, which are TLC's. The ancestors (`Above`)
of `Dataflow` are a recursive function, and nothing is proved of what it computes. And the hypotheses of a theorem that a run does not share (`NotifyFirst` and one
process per leaf are those of `JobNotify_run`, `Sequential` of `Outage_sequential`) are named above, with what fails without them.

## 5. What is not modelled

* The payload builder and the HTTP call of `_send`, and its wording.
* Time: the cap is counted in polls, the job limit not at all.
* Two invocations of the command line at once; a killed `run`; retries inside the SDK.
* Command line rendering, environments, resources and tags of a step, file filters of the snapshot: no state
  that another operation reads back. `mpi_rank` is for the functions of a user's nodes.
* `init`: it writes a template once. The validation of single fields, which is pydantic's.
* `noxfile.py` and `docs_build/`: they build and test the documentation site and share no state with the plugin, nor
  with each other but files that one command writes for the next.

Assumed throughout: reading the thread tag of the start message does not fail; a message counts as
delivered when Slack acknowledged it; rank variables parse; and Azure ML, MLflow and mounts
behave as their uses in the code suppose.

## 6. Plan

Built, in this order of importance: the notifications (`Outage`, `JobNotify`), whose processes meet only through
tags; the command that submits (`Batch`); the triggers (`Schedules`); the data of a job (`Dataflow`, `Distributed`); the data of a
local run (`LocalRun`); what the commands read (`Factory`, `Config`, `Compile`). To come:

1. Proofs: of the liveness properties the part that is safety, that is, that no process is ever stuck in a state from which
   it has no step, and a measure that each step of a process lowers.
2. The transport `_send` with the outcomes of the payload builder, of which one raises into the pipeline run.
3. Two local runs and a job that trains at once, composed of `LocalRun` and `Dataflow` over one registry.

------------------------------ MODULE Dataflow ------------------------------
(***************************************************************************)
(* How data goes from one step of an Azure ML job to the next.             *)
(*                                                                         *)
(* generator.py turns a Kedro pipeline into a graph of steps and decides   *)
(* which folder each input of a step is mounted from; Azure ML runs a step *)
(* when the steps it is wired to have finished; in the container, `kedro   *)
(* azureml execute` and AzurePipelinesRunner point the datasets of the     *)
(* step at the mounted folders, and the datasets load and save.            *)
(*                                                                         *)
(* A dataset has a file of its own, so a location is a folder and the      *)
(* dataset whose file it is.  A file's content is told apart only as far   *)
(* as the properties need: missing, from before this job, being written,   *)
(* written by this job, or a version of a data asset.  Parameters are      *)
(* standard datasets that no step writes; transcoded names (a@b) are left  *)
(* out, and so are steps that Azure ML reuses from an earlier job.         *)
(***************************************************************************)
EXTENDS Naturals, Sequences, FiniteSets

D == INSTANCE Distributed

CONSTANTS
  Dataset,    \* the dataset names of the pipeline
  Node,       \* its nodes, numbered in topological order
  Ins, Outs,  \* what a node consumes, in order, and what it produces
  Proc,       \* the processes of the steps
  StepOf,     \* the node a process runs
  Rank,       \* its rank: several processes run a @distributed_job step
  Version,    \* the versions of every data asset
  Latest,     \* the newest of them
  Projects,   \* the projects a job may be compiled from
  MaxFaults   \* how many processes may die

\* A dataset has at most one producer, a node names an input once, the ranks of a
\* step are distinct and include 0, and they are those its decorator asks for.
ASSUME DataflowAssumption ==
  /\ Node \subseteq Nat \ {0} /\ StepOf \in [Proc -> Node] /\ Rank \in [Proc -> Nat]
  /\ Ins \in [Node -> Seq(Dataset)] /\ Outs \in [Node -> SUBSET Dataset]
  /\ \A n \in Node : \A i, j \in DOMAIN Ins[n] : Ins[n][i] = Ins[n][j] => i = j
  /\ \A m, n \in Node : m # n => Outs[m] \cap Outs[n] = {}
  /\ \A n \in Node : \E p \in Proc : StepOf[p] = n /\ Rank[p] = 0
  /\ \A p, o \in Proc : StepOf[p] = StepOf[o] /\ Rank[p] = Rank[o] => p = o
  /\ \A q \in Projects : q.distributed \in [Node -> D!Config]
  /\ \A q \in Projects : \A n \in Node :
       {Rank[p] : p \in {o \in Proc : StepOf[o] = n}} = 0..(D!ProcessCount(q.distributed[n]) - 1)
  /\ Latest \in Version /\ MaxFaults \in Nat

VARIABLES
  project,  \* the catalogue, the sanitised names, --load-versions, the decorators, and
            \* whether the code snapshot has the data directory of an earlier local run
  job,      \* "new", "submitted" or "rejected"
  pc,       \* what a process does: waiting, loading, saving, done or failed
  read,     \* what a process loaded, for each of its inputs
  unsaved,  \* the outputs a process has yet to save
  writing,  \* the files being written, and by which process
  saved,    \* the saves that were made: by which process, of which dataset
  files,    \* what the files written since the submission contain
  faults    \* how many processes died
vars == <<project, job, pc, read, unsaved, writing, saved, files, faults>>

(***************************************************************************)
(* The pipeline, as Kedro gives it.                                        *)
(***************************************************************************)
Inputs(n) == {Ins[n][i] : i \in DOMAIN Ins[n]}
Produced == UNION {Outs[n] : n \in Node}
PipelineInputs == (UNION {Inputs(n) : n \in Node}) \ Produced
PipelineOutputs == Produced \ UNION {Inputs(n) : n \in Node}
Producers(d) == {n \in Node : d \in Outs[n]}
NodeDependencies(n) == UNION {Producers(d) : d \in Inputs(n)}

(***************************************************************************)
(* The catalogue.  An entry is a standard dataset, whose storage every     *)
(* container reaches; an AzureMLPipelineDataset; or an                     *)
(* AzureMLAssetDataset, a folder or a file.  It is registered under its    *)
(* name or resolved from a factory pattern, and an asset may be pinned.    *)
(***************************************************************************)
Kind == {"absent", "standard", "pipeline", "uri_folder", "uri_file"}
Entry == [kind : Kind, pattern : BOOLEAN, azureml_version : Version \cup {"none"}]
Catalog(d) == project.catalog[d]
InCatalog(d) == Catalog(d).kind # "absent"
IsAsset(d) == Catalog(d).kind \in {"uri_folder", "uri_file"}
IsPipelineDataset(d) == Catalog(d).kind = "pipeline" \/ IsAsset(d)
Registered(d) == InCatalog(d) /\ ~Catalog(d).pattern

\* A version that is asked for is one the asset has: Azure ML refuses the job otherwise.
\* No version has one of the names that the model gives to what is no version.
ASSUME CatalogAssumption ==
  /\ \A q \in Projects : q.catalog \in [Dataset -> Entry]
  /\ \A q \in Projects : q.load_versions \in [Dataset -> Version \cup {"none", "latest"}]
  /\ {"none", "latest", "missing"} \cap Version = {}

SanitizeParamName(d) == project.names[d]

(***************************************************************************)
(* generator.py: the wiring.                                               *)
(***************************************************************************)
IsParamOrRootNonAsset(d) == d \in PipelineInputs /\ InCatalog(d) /\ ~IsAsset(d)

\* The version of --load-versions, or none, or "latest".
VersionAsked(d) == project.load_versions[d]
\* Mutant: --load-versions is not looked up.
AlwaysLatest(d) == Latest
VersionedName(d) == IF VersionAsked(d) \in Version THEN VersionAsked(d) ELSE Latest

\* Folders: an output of a step, a version of an asset, the data directory of a
\* container, the storage of standard datasets, or none.
Folder(area, node, name, version) ==
  [area |-> area, node |-> node, name |-> name, version |-> version]
OutputFolder(n, key) == Folder("output", n, key, "none")
AssetFolder(d, version) == Folder("asset", 0, d, version)
DataDirectory(n) == Folder("disk", n, "none", "none")
StandardStorage == Folder("storage", 0, "none", "none")
NoFolder == Folder("nowhere", 0, "none", "none")

\* Mutants: the asset goes before the dependency's output; only the datasets that
\* Azure ML mounts are wired.
AssetFirst(d) ==
  IF IsAsset(d) THEN AssetFolder(d, VersionedName(d))
  ELSE IF Producers(d) # {} THEN OutputFolder(CHOOSE m \in Producers(d) : TRUE, SanitizeParamName(d))
  ELSE NoFolder
MountsOnly(d) ==
  IF Producers(d) # {} /\ Catalog(d).kind # "standard"
  THEN OutputFolder(CHOOSE m \in Producers(d) : TRUE, SanitizeParamName(d))
  ELSE IF IsAsset(d) THEN AssetFolder(d, VersionedName(d))
  ELSE NoFolder

\* What one input of a step is connected to: the output of the dependency that
\* produces it, else the asset, else a dummy string.
Connection(d) ==
  IF Producers(d) # {} THEN OutputFolder(CHOOSE m \in Producers(d) : TRUE, SanitizeParamName(d))
  ELSE IF IsAsset(d) THEN AssetFolder(d, VersionedName(d))
  ELSE NoFolder

\* The inputs of a step are a dictionary: of two datasets with one sanitised name
\* the later stays.
LastNamed(n, key) == Ins[n][CHOOSE i \in DOMAIN Ins[n] :
  /\ SanitizeParamName(Ins[n][i]) = key
  /\ \A j \in DOMAIN Ins[n] : SanitizeParamName(Ins[n][j]) = key => j <= i]
AzureInput(n, key) == Connection(LastNamed(n, key))

\* Mutant: the steps that consume a dataset are waited for too.
AllUsers(n) == {m \in Node : Inputs(n) \cap (Inputs(m) \cup Outs[m]) # {}}

\* The steps that a step is wired to, which Azure ML waits for.
Upstream(n) == {m \in Node : \E d \in Inputs(n) :
  LET source == AzureInput(n, SanitizeParamName(d)) IN source.area = "output" /\ source.node = m}

\* A uri_file asset can only be an input of the pipeline.
Misplaced(n) ==
  \/ \E d \in Inputs(n) : Catalog(d).kind = "uri_file" /\ d \notin PipelineInputs
  \/ \E d \in Outs[n] : Catalog(d).kind = "uri_file"

\* Mutant: the consumers of a dataset are searched for its source.
OfAConsumer(key) ==
  {OutputFolder(n, key) : n \in {m \in Node : \E d \in Inputs(m) : SanitizeParamName(d) = key}}

\* Where the job says that an output of the pipeline is.
PipelineOutputFolders(key) ==
  {OutputFolder(n, key) : n \in {m \in Node : \E d \in Outs[m] \cap PipelineOutputs : SanitizeParamName(d) = key}}

(***************************************************************************)
(* execute and AzurePipelinesRunner: where a step finds a dataset.         *)
(***************************************************************************)
DataPath(n, d) ==
  IF d \in Outs[n] THEN OutputFolder(n, SanitizeParamName(d)) ELSE AzureInput(n, SanitizeParamName(d))
HasDataPath(d) == d \in Produced \/ ~IsParamOrRootNonAsset(d)

\* Where an entry looks for its file when nothing rewires it: root_dir.
OwnFolder(n, d) == IF IsPipelineDataset(d) THEN DataDirectory(n) ELSE StandardStorage

\* A registered dataset of the plugin is rewired, one the catalogue does not know is
\* a pickle at the path, and the others, those of a pattern included, stay.
Rewired(d) == HasDataPath(d) /\ (Registered(d) => IsPipelineDataset(d)) /\ (InCatalog(d) => Registered(d))
Place(n, d) == [folder |-> IF Rewired(d) THEN DataPath(n, d) ELSE OwnFolder(n, d), file |-> d]

\* An asset from a pattern is not reached by the hooks: it has no workspace, which it
\* needs to load, and to find its place for a save unless its version is pinned.
CannotLoad(d) == IsAsset(d) /\ ~Registered(d)
CannotSave(d) == CannotLoad(d) /\ Catalog(d).azureml_version = "none"

Content == {"missing", "before", "torn", "now"} \cup Version
FileContent(place) ==
  IF place \in DOMAIN files THEN files[place]
  ELSE IF place.folder.area = "asset" /\ place.folder.name = place.file THEN place.folder.version
  ELSE IF place.folder.area = "storage" \/ (place.folder.area = "disk" /\ project.snapshot_data) THEN "before"
  ELSE "missing"

\* AzureMLPipelineDataset._save is skipped unless the rank is 0; AzureMLAssetDataset
\* overrides it, and a standard dataset knows no rank.
EnvironmentOf(p) == D!Environment(project.distributed[StepOf[p]], Rank[p])
IsMaster(p) == D!IsDistributedEnvironment(EnvironmentOf(p)) => D!IsDistributedMasterNode(EnvironmentOf(p))
SkipsSave(p, d) == Catalog(d).kind \in {"pipeline", "absent"} /\ ~IsMaster(p)

(***************************************************************************)
(* The behaviour.                                                          *)
(***************************************************************************)
Init ==
  /\ project \in Projects
  /\ job = "new"
  /\ pc = [p \in Proc |-> "waiting"]
  /\ read = [p \in Proc |-> [d \in Inputs(StepOf[p]) |-> "missing"]]
  /\ unsaved = [p \in Proc |-> Outs[StepOf[p]]]
  /\ writing = {} /\ saved = {}
  /\ files = [place \in {} |-> "missing"]
  /\ faults = 0

\* generate: every node becomes a command, then the commands are connected.
Generate ==
  /\ job = "new"
  /\ job' = IF \E n \in Node : Misplaced(n) THEN "rejected" ELSE "submitted"
  /\ UNCHANGED <<project, pc, read, unsaved, writing, saved, files, faults>>

\* A @distributed_job step runs as several processes.
Processes(n) == {p \in Proc : StepOf[p] = n}
StepDone(n) == \A p \in Processes(n) : pc[p] = "done"
StepFailed(n) == \E p \in Processes(n) : pc[p] = "failed"

\* execute begins: click refuses an --az-input whose path does not exist.
Execute(p) ==
  /\ job = "submitted" /\ pc[p] = "waiting"
  /\ \A m \in Upstream(StepOf[p]) : StepDone(m)
  /\ pc' = [pc EXCEPT ![p] =
       IF \E d \in Inputs(StepOf[p]) : HasDataPath(d) /\ DataPath(StepOf[p], d) = NoFolder
       THEN "failed" ELSE "loading"]
  /\ UNCHANGED <<project, job, read, unsaved, writing, saved, files, faults>>

\* The node's inputs are loaded and the node runs.
Load(p) ==
  /\ pc[p] = "loading"
  /\ LET found == [d \in Inputs(StepOf[p]) |-> FileContent(Place(StepOf[p], d))]
     IN IF \E d \in Inputs(StepOf[p]) : CannotLoad(d) \/ found[d] = "missing"
        THEN pc' = [pc EXCEPT ![p] = "failed"] /\ UNCHANGED read
        ELSE pc' = [pc EXCEPT ![p] = "saving"] /\ read' = [read EXCEPT ![p] = found]
  /\ UNCHANGED <<project, job, unsaved, writing, saved, files, faults>>

IsWriting(p) == \E w \in writing : w.proc = p
WithFile(place, content) == [q \in DOMAIN files \cup {place} |-> IF q = place THEN content ELSE files[q]]

SkipSave(p, d) ==
  /\ pc[p] = "saving" /\ ~IsWriting(p) /\ d \in unsaved[p] /\ SkipsSave(p, d)
  /\ unsaved' = [unsaved EXCEPT ![p] = @ \ {d}]
  /\ UNCHANGED <<project, job, pc, read, writing, saved, files, faults>>

SaveFails(p, d) ==
  /\ pc[p] = "saving" /\ ~IsWriting(p) /\ d \in unsaved[p] /\ CannotSave(d)
  /\ pc' = [pc EXCEPT ![p] = "failed"]
  /\ UNCHANGED <<project, job, read, unsaved, writing, saved, files, faults>>

BeginSave(p, d) ==
  /\ pc[p] = "saving" /\ ~IsWriting(p) /\ d \in unsaved[p]
  /\ ~SkipsSave(p, d) /\ ~CannotSave(d)
  /\ writing' = writing \cup {[proc |-> p, place |-> Place(StepOf[p], d)]}
  /\ files' = WithFile(Place(StepOf[p], d), "torn")
  /\ UNCHANGED <<project, job, pc, read, unsaved, saved, faults>>

\* Kedro compares the versions after a save, which asks for the newest one: that
\* too needs the workspace, so a pinned asset from a pattern is written in vain.
EndSave(p, w) ==
  /\ pc[p] = "saving" /\ w \in writing /\ w.proc = p
  /\ pc' = IF CannotLoad(w.place.file) THEN [pc EXCEPT ![p] = "failed"] ELSE pc
  /\ writing' = writing \ {w}
  /\ files' = WithFile(w.place, IF \E o \in writing \ {w} : o.place = w.place THEN "torn" ELSE "now")
  /\ unsaved' = [unsaved EXCEPT ![p] = @ \ {w.place.file}]
  /\ saved' = saved \cup {[proc |-> p, dataset |-> w.place.file]}
  /\ UNCHANGED <<project, job, read, faults>>

Finish(p) ==
  /\ pc[p] = "saving" /\ unsaved[p] = {}
  /\ pc' = [pc EXCEPT ![p] = "done"]
  /\ UNCHANGED <<project, job, read, unsaved, writing, saved, files, faults>>

\* Mutant: the file stays open.
DieWriting(p) ==
  /\ pc[p] \in {"loading", "saving"} /\ faults < MaxFaults
  /\ pc' = [pc EXCEPT ![p] = "failed"]
  /\ faults' = faults + 1
  /\ UNCHANGED <<project, job, read, unsaved, writing, saved, files>>

\* The node raises, or the process is killed: what it was writing stays torn.
Die(p) ==
  /\ pc[p] \in {"loading", "saving"} /\ faults < MaxFaults
  /\ pc' = [pc EXCEPT ![p] = "failed"]
  /\ writing' = {w \in writing : w.proc # p}
  /\ faults' = faults + 1
  /\ UNCHANGED <<project, job, read, unsaved, saved, files>>

Works(p) ==
  \/ Execute(p) \/ Load(p) \/ Finish(p)
  \/ \E d \in Dataset : SkipSave(p, d) \/ SaveFails(p, d) \/ BeginSave(p, d)
  \/ \E w \in writing : EndSave(p, w)

Advance == Generate \/ \E p \in Proc : Works(p)
Next == Advance \/ \E p \in Proc : Die(p)

\* Azure ML and the containers go on while something can: no process works for ever.
Fairness == WF_vars(Advance)
Spec == Init /\ [][Next]_vars
FairSpec == Spec /\ Fairness

(***************************************************************************)
(* Properties.                                                             *)
(***************************************************************************)
\* Everything stays in its range, and a process writes one file at a time.
TypeOK ==
  /\ job \in {"new", "submitted", "rejected"}
  /\ pc \in [Proc -> {"waiting", "loading", "saving", "done", "failed"}]
  /\ DOMAIN read = Proc /\ DOMAIN unsaved = Proc
  /\ \A p \in Proc : read[p] \in [Inputs(StepOf[p]) -> Content] /\ unsaved[p] \subseteq Outs[StepOf[p]]
  /\ \A w \in writing : w.proc \in Proc /\ pc[w.proc] = "saving" /\ w.place \in DOMAIN files
  /\ \A w, o \in writing : w.proc = o.proc => w = o
  /\ \A s \in saved : s.proc \in Proc /\ s.dataset \in Outs[StepOf[s.proc]]
  /\ \A place \in DOMAIN files : files[place] \in {"torn", "now"}
  /\ faults \in 0..MaxFaults

\* Two inputs of one node do not share a sanitised name.
NamesApart == \A n \in Node : \A d, e \in Inputs(n) : SanitizeParamName(d) = SanitizeParamName(e) => d = e
\* No dataset of the plugin comes from a pattern.
NoPatterns == \A d \in Dataset : Catalog(d).pattern => ~IsPipelineDataset(d)
\* The pipeline's inputs are somewhere: a standard dataset, or a registered asset.
RootsExist == \A d \in PipelineInputs : InCatalog(d) /\ Catalog(d).kind # "pipeline"
Supported == NamesApart /\ NoPatterns /\ RootsExist

Loaded(p) == pc[p] \in {"saving", "done"}

\* A step that consumes what another step of the job produces loads what that step
\* wrote in this job: no earlier data, no asset version, no half-written file.
\* (_connect_commands prefers the dependency's output to the asset.)
ReadsWhatWasWritten ==
  NamesApart /\ NoPatterns =>
    \A p \in Proc : Loaded(p) => \A d \in Inputs(StepOf[p]) \cap Produced : read[p][d] = "now"

\* A step never runs before the steps it depends on in Kedro have finished, even
\* when the data between them does not go through Azure ML (_connect_commands wires
\* a standard dataset too, though nothing is mounted for it).
OrderPreserved ==
  NamesApart => \A p \in Proc : pc[p] # "waiting" => \A m \in NodeDependencies(StepOf[p]) : StepDone(m)

\* Every step that reads an asset the pipeline does not produce reads the version
\* of --load-versions, else the newest (_get_versioned_azureml_dataset_name).
ReadsVersionAsked ==
  NamesApart /\ NoPatterns =>
    \A p \in Proc : Loaded(p) => \A d \in Inputs(StepOf[p]) \cap PipelineInputs :
      IsAsset(d) => read[p][d] = IF VersionAsked(d) \in {"none", "latest"} THEN Latest ELSE VersionAsked(d)

\* However many ranks run a step, one process writes an AzureMLPipelineDataset or an
\* intermediate the catalogue does not know, and somebody does before the step ends
\* (pipeline_dataset.py:119).
OneWriter ==
  NoPatterns => \A d \in Produced : Catalog(d).kind \in {"pipeline", "absent"} =>
    /\ Cardinality({s \in saved : s.dataset = d}) <= 1
    /\ \A n \in Producers(d) : StepDone(n) => \E s \in saved : s.dataset = d

\* In a project the plugin supports, no step fails unless its node raises or its
\* process is killed: every path exists, every file is there.  And when the job has
\* finished, every output of the pipeline that the plugin stores is where the job
\* says it is, complete (_gather_pipeline_outputs).
RunsThrough ==
  /\ Supported /\ faults = 0 => \A p \in Proc : pc[p] # "failed"
  /\ (\A n \in Node : StepDone(n)) /\ NoPatterns =>
       \A d \in PipelineOutputs : Catalog(d).kind # "standard" =>
         \E folder \in PipelineOutputFolders(SanitizeParamName(d)) : FileContent([folder |-> folder, file |-> d]) = "now"

\* Every submitted job ends: each step finishes, fails, or is below one that failed.
Above[n \in Node] ==
  LET direct == {m \in NodeDependencies(n) : m < n} IN direct \cup UNION {Above[m] : m \in direct}
Blocked(n) == \E m \in Above[n] : StepFailed(m)
JobEnds == job = "submitted" ~>
  \A p \in Proc : pc[p] \in {"done", "failed"} \/ Blocked(StepOf[p])

\* A pinned asset is read at its version (docs/pages/how-to/use-data-assets.md:40).
PinnedVersionRead ==
  NamesApart /\ NoPatterns =>
    \A p \in Proc : Loaded(p) => \A d \in Inputs(StepOf[p]) \cap PipelineInputs :
      IsAsset(d) /\ VersionAsked(d) = "none" /\ Catalog(d).azureml_version # "none"
        => read[p][d] = Catalog(d).azureml_version
=============================================================================

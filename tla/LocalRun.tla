------------------------------ MODULE LocalRun ------------------------------
(***************************************************************************)
(* A project's local runs (`kedro run`) over AzureMLAssetDataset entries:  *)
(* the local-run hook (hooks/local_run.py) decides which entries download  *)
(* and which only write, and every use of the dataset's path               *)
(* (datasets/asset_dataset.py) asks Azure ML for the newest version again. *)
(* Meanwhile jobs register further versions.  A run is its uses of assets, *)
(* in order; one use is several calls, and others may act between them.    *)
(* Files are written in place, so a write has a beginning and an end, and  *)
(* the file is torn in between.                                            *)
(***************************************************************************)
EXTENDS Naturals, Sequences

CONSTANTS
  Run,         \* the `kedro run` commands, each given once
  Entry,       \* the catalogue entries of type AzureMLAssetDataset
  Asset,       \* the assets they name
  Catalogs,    \* the catalogues looked at: Entry -> [asset, pin, listed]
  Plans,       \* the runs looked at: sequences of [op, entry]
  MaxVersion,  \* bound: versions an asset may get
  MaxFaults    \* bound: calls to Azure ML and writes that fail

\* A node runs after the one that makes its input, so what a plan saves it
\* never loads earlier.
ASSUME LocalRunAssumption ==
  /\ MaxVersion \in Nat \ {0} /\ MaxFaults \in Nat
  /\ Catalogs \subseteq [Entry -> [asset : Asset, pin : 0..MaxVersion, listed : BOOLEAN]]
  /\ Plans \subseteq Seq([op : {"load", "save"}, entry : Entry])
  /\ \A p \in Plans : \A i, j \in DOMAIN p :
       p[i].op = "load" /\ p[j].op = "save" /\ p[i].entry = p[j].entry => j < i

Version == 1..MaxVersion

\* The place of a copy: {root_dir}/{asset}/{version}/{filepath}.
Copy == Asset \X Version

\* What a file holds: a registered version's data, what a run made, or a part
\* or a mixture, when a write has not ended or several runs had a hand in it.
Registered(v) == [from |-> "registry", version |-> v]
Made(r) == [from |-> "run", run |-> r]
Torn(by) == [from |-> "torn", by |-> by]
Missing == [from |-> "nowhere"]

VARIABLES
  catalog,    \* the catalogue in use; pin 0 stands for no azureml_version
  workspace,  \* whether azureml.yml gives a default workspace
  newest,     \* the newest registered version of each asset, 0 for none
  local,      \* the files below root_dir
  writing,    \* the place a run is writing: a set of one, or none
  pc,         \* where a run is: between two uses, or inside one
  plan,       \* what the run does
  at,         \* the use it is at
  got,        \* the version of the asset object a load fetched
  since,      \* the newest version when the current load began
  quiet,      \* nothing was registered and no call failed while it ran
  alone,      \* no other run was under way while it ran
  reads,      \* what has been loaded, and which versions were newest meanwhile
  faults

vars == <<catalog, workspace, newest, local, writing, pc, plan, at, got, since, quiet, alone, reads, faults>>
project == <<catalog, workspace>>

Init ==
  /\ catalog \in Catalogs /\ workspace \in BOOLEAN
  /\ newest \in [Asset -> {0, 1}]
  /\ local = [c \in Copy |-> Missing] /\ writing = [r \in Run |-> {}]
  /\ pc = [r \in Run |-> "new"] /\ plan \in [Run -> Plans]
  /\ at = [r \in Run |-> 1] /\ got = [r \in Run |-> 0] /\ since = [r \in Run |-> 0]
  /\ quiet = [r \in Run |-> TRUE] /\ alone = [r \in Run |-> TRUE]
  /\ reads = {} /\ faults = 0

-----------------------------------------------------------------------------
(* The hook and the dataset. *)

Use(r) == plan[r][at[r]]
AssetOf(e) == catalog[e].asset
Pinned(e) == catalog[e].pin # 0

\* Entries a run produces: those of its uses that are not pipeline.inputs().
Produced(r) == {plan[r][i].entry : i \in {j \in DOMAIN plan[r] : plan[r][j].op = "save"}}

\* Bug: the hook gives the workspace only to what the run downloads.
ConfiguredForDownloads(r, e) == workspace /\ catalog[e].listed /\ e \notin Produced(r)

\* catalog.filter() lists the catalogue's entries, not those a pattern gives,
\* and without a default workspace the hook has nothing to hand out.
Configured(r, e) == workspace /\ catalog[e].listed

\* Bug: what the pipeline produces is downloaded like an input.
DownloadsAll(r, e) == TRUE

\* as_local_intermediate switches the download off for what the pipeline makes.
Downloads(r, e) == ~(catalog[e].listed /\ e \in Produced(r))

\* _resolve_azureml_version: the pin, or the newest version at this moment.
Resolved(e) == IF Pinned(e) THEN catalog[e].pin ELSE newest[AssetOf(e)]

\* Bug: an asset that does not exist is taken for version 0.
UnresolvedOffline(r, e) == ~Pinned(e) /\ ~Configured(r, e)

\* It raises without a workspace to ask, or when the asset does not exist.
Unresolved(r, e) == ~Pinned(e) /\ (~Configured(r, e) \/ newest[AssetOf(e)] = 0)

\* path, while the dataset is in local mode.
PathOf(e) == <<AssetOf(e), Resolved(e)>>

-----------------------------------------------------------------------------
(* Steps. *)

Active(r) == pc[r] \in {"next", "fetched", "downloading", "ready", "saving"}

\* A job, or a colleague, registers a version.
Register(a) ==
  /\ newest[a] < MaxVersion
  /\ newest' = [newest EXCEPT ![a] = @ + 1]
  /\ quiet' = [r \in Run |-> quiet[r] /\ ~Active(r)]
  /\ UNCHANGED <<project, local, writing, pc, plan, at, got, since, alone, reads, faults>>

\* The hooks have run, and the first node is reached.
Begin(r) ==
  /\ pc[r] = "new" /\ pc' = [pc EXCEPT ![r] = "next"]
  /\ alone' = IF \E q \in Run : Active(q)
              THEN [q \in Run |-> alone[q] /\ ~Active(q) /\ q # r] ELSE alone
  /\ UNCHANGED <<project, newest, local, writing, plan, at, got, since, quiet, reads, faults>>

Fail(r) == pc' = [pc EXCEPT ![r] = "failed"]

\* The run is at a use that has not begun.
Facing(r, op) == pc[r] = "next" /\ at[r] \in DOMAIN plan[r] /\ Use(r).op = op

\* Bug: a copy that is there already is not downloaded again.
FetchUnlessCached(r) == LET e == Use(r).entry IN
  /\ Facing(r, "load") /\ Downloads(r, e)
  /\ since' = [since EXCEPT ![r] = newest[AssetOf(e)]]
  /\ IF Unresolved(r, e) \/ ~Configured(r, e) \/ Resolved(e) > newest[AssetOf(e)]
     THEN Fail(r) /\ got' = got
     ELSE /\ pc' = [pc EXCEPT ![r] = IF local[PathOf(e)] = Missing THEN "fetched" ELSE "ready"]
          /\ got' = [got EXCEPT ![r] = Resolved(e)]
  /\ UNCHANGED <<project, newest, local, writing, plan, at, quiet, alone, reads, faults>>

\* _get_azureml_dataset: the asset object of the version resolved now.
Fetch(r) == LET e == Use(r).entry IN
  /\ Facing(r, "load") /\ Downloads(r, e)
  /\ since' = [since EXCEPT ![r] = newest[AssetOf(e)]]
  /\ IF Unresolved(r, e) \/ ~Configured(r, e) \/ Resolved(e) > newest[AssetOf(e)]
     THEN Fail(r) /\ got' = got
     ELSE pc' = [pc EXCEPT ![r] = "fetched"] /\ got' = [got EXCEPT ![r] = Resolved(e)]
  /\ UNCHANGED <<project, newest, local, writing, plan, at, quiet, alone, reads, faults>>

\* A write opens the place as it resolves now: what was there is gone, and with
\* another run writing it the file is of both.
Writers(c) == {q \in Run : c \in writing[q]}
StartWrite(r) == LET c == PathOf(Use(r).entry) IN
  /\ local' = [local EXCEPT ![c] = Torn({r} \cup Writers(c))]
  /\ writing' = [writing EXCEPT ![r] = {c}]

\* What a write leaves: its data if no other run had a hand in it, and what
\* there is while another run is still writing.
Left(r, c, data) ==
  IF Writers(c) # {r} THEN {local[c]}
  ELSE IF local[c].by = {r} THEN {data} ELSE {data, local[c]}
EndWrite(r, data) ==
  /\ \E c \in writing[r] : \E f \in Left(r, c, data) : local' = [local EXCEPT ![c] = f]
  /\ writing' = [writing EXCEPT ![r] = {}]

\* The object's data is written below the path.
BeginDownload(r) ==
  /\ pc[r] = "fetched" /\ pc' = [pc EXCEPT ![r] = "downloading"]
  /\ StartWrite(r)
  /\ UNCHANGED <<project, newest, plan, at, got, since, quiet, alone, reads, faults>>

EndDownload(r) ==
  /\ pc[r] = "downloading" /\ pc' = [pc EXCEPT ![r] = "ready"]
  /\ EndWrite(r, Registered(got[r]))
  /\ UNCHANGED <<project, newest, plan, at, got, since, quiet, alone, reads, faults>>

\* An entry that does not download is opened at once.
Skip(r) == LET e == Use(r).entry IN
  /\ Facing(r, "load") /\ ~Downloads(r, e)
  /\ pc' = [pc EXCEPT ![r] = "ready"]
  /\ since' = [since EXCEPT ![r] = newest[AssetOf(e)]]
  /\ UNCHANGED <<project, newest, local, writing, plan, at, got, quiet, alone, reads, faults>>

Read(r) == LET e == Use(r).entry IN
  [run |-> r, entry |-> e, produced |-> e \in Produced(r), data |-> local[PathOf(e)],
   oldest |-> since[r], newest |-> newest[AssetOf(e)], alone |-> alone[r]]

\* _construct_dataset().load(): the path resolves once more, and a torn file
\* may fail to parse.  A read that a write overlaps is one of a torn file.
Opens(r) ==
  /\ pc[r] = "ready"
  /\ ~Unresolved(r, Use(r).entry) /\ local[PathOf(Use(r).entry)] # Missing
  /\ reads' = reads \cup {Read(r)}
  /\ pc' = [pc EXCEPT ![r] = "next"] /\ at' = [at EXCEPT ![r] = @ + 1]
  /\ UNCHANGED <<project, newest, local, writing, plan, got, since, quiet, alone, faults>>

OpenFails(r) ==
  /\ pc[r] = "ready"
  /\ Unresolved(r, Use(r).entry) \/ local[PathOf(Use(r).entry)].from \in {"nowhere", "torn"}
  /\ Fail(r)
  /\ UNCHANGED <<project, newest, local, writing, plan, at, got, since, quiet, alone, reads, faults>>

BeginSave(r) ==
  /\ Facing(r, "save")
  /\ IF Unresolved(r, Use(r).entry) THEN Fail(r) /\ UNCHANGED <<local, writing>>
     ELSE pc' = [pc EXCEPT ![r] = "saving"] /\ StartWrite(r)
  /\ UNCHANGED <<project, newest, plan, at, got, since, quiet, alone, reads, faults>>

\* Kedro compares the versions after a save.  The hook gives a listed entry the
\* version "local"; any other asks for the newest, without a workspace to ask.
EndSave(r) ==
  /\ pc[r] = "saving" /\ EndWrite(r, Made(r))
  /\ IF catalog[Use(r).entry].listed
     THEN pc' = [pc EXCEPT ![r] = "next"] /\ at' = [at EXCEPT ![r] = @ + 1]
     ELSE Fail(r) /\ at' = at
  /\ UNCHANGED <<project, newest, plan, got, since, quiet, alone, reads, faults>>

\* A call to Azure ML raises or a write fails, which no use of the dataset
\* survives, or the run is killed: what it was writing stays as it is.
CallFails(r) ==
  /\ Active(r) /\ at[r] \in DOMAIN plan[r] /\ faults < MaxFaults
  /\ Fail(r) /\ faults' = faults + 1
  /\ writing' = [writing EXCEPT ![r] = {}]
  /\ quiet' = [quiet EXCEPT ![r] = FALSE]
  /\ UNCHANGED <<project, newest, local, plan, at, got, since, alone, reads>>

End(r) ==
  /\ pc[r] = "next" /\ at[r] \notin DOMAIN plan[r]
  /\ pc' = [pc EXCEPT ![r] = "done"]
  /\ UNCHANGED <<project, newest, local, writing, plan, at, got, since, quiet, alone, reads, faults>>

Step(r) ==
  \/ Begin(r) \/ Fetch(r) \/ BeginDownload(r) \/ EndDownload(r) \/ Skip(r)
  \/ Opens(r) \/ OpenFails(r) \/ BeginSave(r) \/ EndSave(r) \/ CallFails(r) \/ End(r)

Next == (\E a \in Asset : Register(a)) \/ (\E r \in Run : Step(r))

Spec == Init /\ [][Next]_vars

-----------------------------------------------------------------------------
(* Properties. *)

Content == {Missing} \cup {Registered(v) : v \in Version} \cup {Made(r) : r \in Run}
           \cup {Torn(W) : W \in SUBSET Run}
Phase == {"new", "next", "fetched", "downloading", "ready", "saving", "done", "failed"}

\* The types of the variables, and where a run can be inside a use.
TypeOK ==
  /\ catalog \in Catalogs /\ workspace \in BOOLEAN /\ faults \in 0..MaxFaults
  /\ newest \in [Asset -> 0..MaxVersion] /\ plan \in [Run -> Plans]
  /\ local \in [Copy -> Content] /\ writing \in [Run -> SUBSET Copy] /\ pc \in [Run -> Phase]
  /\ at \in [Run -> Nat] /\ got \in [Run -> 0..MaxVersion] /\ since \in [Run -> 0..MaxVersion]
  /\ quiet \in [Run -> BOOLEAN] /\ alone \in [Run -> BOOLEAN]
  /\ \A r \in Run :
       /\ at[r] \in 1..(Len(plan[r]) + 1)
       /\ pc[r] \in {"fetched", "downloading", "ready"} =>
            at[r] \in DOMAIN plan[r] /\ Use(r).op = "load"
       /\ pc[r] = "saving" => at[r] \in DOMAIN plan[r] /\ Use(r).op = "save"
       /\ pc[r] \in {"fetched", "downloading"} => got[r] \in Version
       /\ pc[r] \in {"fetched", "downloading", "saving"} => ~Unresolved(r, Use(r).entry)

\* Two entries that may resolve to one place.
MayMeet(e, f) == AssetOf(e) = AssetOf(f) /\ (Pinned(e) /\ Pinned(f) => catalog[e].pin = catalog[f].pin)

\* The entry's asset is named by no other, so nothing else writes its files.
Private(e) == \A f \in Entry \ {e} : ~MayMeet(e, f)

\* A node that loads what an earlier node of its own run saved gets that data
\* or the run fails: never an older run's file and never a registered version,
\* although the place is looked up again at each use and a version registered
\* between the save and the load moves it.  For a run with no other beside it,
\* and an entry no other entry of the catalogue can meet.
OwnOrNothing ==
  \A d \in reads : d.produced /\ d.alone /\ Private(d.entry) => d.data = Made(d.run)

\* No other entry pins a version of the asset, so no run writes the directory
\* of a version that is not registered yet.
Unforeseen(e) == \A f \in Entry : AssetOf(f) = AssetOf(e) => ~Pinned(f)

\* An input that a lone run loads is the pinned version, or a version that was
\* the newest at some moment of that load: the three lookups of one load may
\* disagree, but what comes back is never older than the load itself and never
\* another run's output, even where an intermediate shares the asset.
InputIsCurrent ==
  \A d \in reads : ~d.produced /\ d.alone =>
    /\ Pinned(d.entry) => d.data = Registered(catalog[d.entry].pin)
    /\ Unforeseen(d.entry) => d.data \in {Registered(v) : v \in d.oldest .. d.newest}

\* What a run needs before it starts: a workspace, entries the hook sees, and
\* for each of them an asset with the version it asks for.
Supplied(r) ==
  /\ workspace
  /\ \A i \in DOMAIN plan[r] : LET e == plan[r][i].entry IN
       catalog[e].listed /\ Resolved(e) \in 1..newest[AssetOf(e)]

\* The file a run is about to open is torn, and another run had a hand in it.
Meets(r) == LET f == local[PathOf(Use(r).entry)] IN
  pc[r] = "ready" /\ f.from = "torn" /\ f.by \ {r} # {}

\* A run that is supplied fails only if a call or a write of it failed, a version
\* was registered while it ran, or it opens a torn file that another run had a
\* hand in while others ran beside it.  So nothing that earlier runs left behind,
\* whole, torn or missing, makes a lone run fail.
QuietRunSucceeds ==
  [][\A r \in Run : pc[r] # "failed" /\ pc'[r] = "failed" /\ Supplied(r) =>
       ~quiet'[r] \/ (~alone[r] /\ Meets(r))]_vars

\* What a run makes is kept apart from the copies of registered versions, as
\* the comment in as_local_intermediate says ("saved as a local version").
SavedAside == \A c \in Copy : local[c].from = "run" => c[2] > newest[c[1]]
=============================================================================

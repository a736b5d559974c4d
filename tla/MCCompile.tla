----------------------------- MODULE MCCompile -----------------------------
(* Projects with a general and a specific factory, literal jobs, and what   *)
(* can be wrong with one of them at a time.                                 *)
EXTENDS Compile, TLC

(* Keys. *)
General == <<Token("region"), Token("model"), Word("inference")>>
Specific == <<Word("america"), Token("model"), Word("inference")>>
Train == <<Token("region"), Word("training")>>
Nightly == <<Word("nightly"), Token("region"), Word("training")>>
Bare == <<Token("region")>>
Snapshot == <<Word("snapshot")>>
EuLgbm == <<Word("eu"), Word("lgbm"), Word("inference")>>

MCWordLength == [w \in {"america", "eu", "inference", "lgbm", "nightly", "snapshot", "training"} |->
  CASE w = "eu" -> 2 [] w = "lgbm" -> 4 [] w \in {"america", "nightly"} -> 7
    [] w \in {"snapshot", "training"} -> 8 [] OTHER -> 9]
MCKeyRank == Specific :> 1 @@ EuLgbm :> 2 @@ Nightly :> 3 @@ Snapshot :> 4 @@ General :> 5 @@ Train :> 6 @@ Bare :> 7

(* Pipelines. *)
Node(name, namespace) ==
  [name |-> name, namespace |-> namespace, tags |-> {}, needs |-> {}, broken |-> FALSE]
Eu == <<"eu">>
America == <<"america">>
NorthAmerica == <<"north", "america">>
Lgbm == <<"lgbm">>
Deep == {Node("a", <<Eu, Lgbm>>), Node("b", <<America, Lgbm>>), Node("c", <<America, Lgbm, Eu>>), Node("d", <<>>)}
Flat == {Node("e", <<Eu>>), Node("f", <<NorthAmerica>>)}
One == [Node("g", <<>>) EXCEPT !.tags = {<<"gpu">>, <<"slow">>}]
Two == {One, [Node("h", <<>>) EXCEPT !.needs = {"g"}], Node("i", <<>>)}

(* Entries. *)
RegionModel == <<Token("region"), Token("model")>>
Region == <<Token("region")>>
Job(pipeline, templates) ==
  [pipeline |-> pipeline, templates |-> templates, workspace |-> <<>>, notifications |-> None,
   timeout |-> 0, experiment |-> FALSE]

Base ==
  [workspaces |-> {Default, <<"prod">>, Eu}, code |-> TRUE,
   compute |-> Default :> [cluster_name |-> "cpu", instance_type |-> "small"]
               @@ <<"gpu">> :> [cluster_name |-> None, instance_type |-> "large"],
   schedules |-> [s \in {"nightly"} |-> {"cron"}],
   notifications |-> [n \in {"alerts"} |->
     [events |-> {"failure", "success"}, payload |-> None, wait_timeout |-> 3, transport |-> {"webhook_env"}]],
   pipelines |-> [inference |-> Deep, training |-> Flat, snapshot |-> {One}],
   jobs |-> General :> Job("inference", <<RegionModel>>) @@ Specific :> Job("inference", <<RegionModel>>)
            @@ Snapshot :> Job("snapshot", <<>>)]

\* Base, with one entry or pipeline replaced or added.
With(key, job) == [Base EXCEPT !.jobs = key :> job @@ @]
Only(jobs) == [Base EXCEPT !.jobs = jobs]
Snap == Job("snapshot", <<>>)

MCDefinition == <<
  Base,
  \* a literal job in the place of a derived one, and a snapshot that does not translate
  [With(EuLgbm, Snap) EXCEPT !.pipelines.snapshot = {[One EXCEPT !.broken = TRUE]}],
  \* a node with two compute tags
  [Base EXCEPT !.compute = <<"slow">> :> [cluster_name |-> "slow", instance_type |-> None] @@ @],
  \* several leaves and no experiment, when success is notified
  [With(Snapshot, [Snap EXCEPT !.notifications = "alerts", !.timeout = 5]) EXCEPT !.pipelines.snapshot = Two],
  \* two families of one job type, on two pipelines
  [Only(Train :> Job("training", <<Region>>) @@ Nightly :> Job("inference", <<Region>>)) EXCEPT
     !.pipelines.training = Flat],
  \* a key that ends in a placeholder, and no execution.code_directory
  [Only(Bare :> Job("training", <<Region>>) @@ Snapshot :> Snap) EXCEPT !.code = FALSE],
  \* a placeholder the template does not have
  With(General, Job("inference", <<Region>>)),
  \* namespaces whose dashes make one name of two
  [Base EXCEPT !.pipelines.inference =
     {Node("a", <<<<"eu", "lgbm">>, Lgbm>>), Node("b", <<Eu, <<"lgbm", "lgbm">>>>)}],
  \* a workspace for each region
  With(General, [Job("inference", <<RegionModel>>) EXCEPT !.workspace = Region]),
  \* a pipeline that is not registered, under a factory and under a literal job
  [Base EXCEPT !.jobs = Train :> Job("gone", <<Region>>) @@ Snapshot :> Job("gone", <<>>) @@ @],
  Only(NoValues),
  \* azureml.yml that is refused: the wait outlasts the step, and so on
  With(Snapshot, [Snap EXCEPT !.notifications = "alerts", !.timeout = 3]),
  With(Snapshot, [Snap EXCEPT !.notifications = "pager"]),
  [Base EXCEPT !.compute = Default :> [cluster_name |-> None, instance_type |-> None]],
  [Base EXCEPT !.schedules = [s \in {"nightly"} |-> {"cron", "recurrence"}]],
  [Base EXCEPT !.notifications.alerts.transport = {"webhook_env", "channel"}],
  [Base EXCEPT !.workspaces = {Eu}]
>>
MCProject == DOMAIN MCDefinition
MCEdits == {<<1, 2>>, <<2, 1>>, <<1, 3>>, <<9, 1>>, <<11, 5>>}

SnapshotName == <<"snapshot">>
EuName == <<"eu", "lgbm", "inference">>
Cmd(kind, all, names, workspace) ==
  [kind |-> kind, all |-> all, names |-> names, workspace |-> workspace, dry |-> FALSE]
Dry(c) == [c EXCEPT !.dry = TRUE]
MCCommands ==
  {Cmd(k, a, n, <<>>) : k \in {"check", "compile"}, a \in BOOLEAN, n \in {{}, {EuName}, {EuName, SnapshotName}}}
  \cup {Cmd("prepare", TRUE, {}, w) : w \in {<<>>, <<"prod">>, <<"test">>}}
  \cup {Cmd("prepare", FALSE, n, <<>>) : n \in {{EuName}, {SnapshotName}, {SnapshotName, EuName}, {<<"other">>}}}
  \cup {Dry(Cmd("prepare", TRUE, {}, w)) : w \in {<<>>, <<"test">>}}
  \cup {Cmd("list", TRUE, {}, <<>>)}
=============================================================================

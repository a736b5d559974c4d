---------------------------- MODULE MCDataflow -----------------------------
(***************************************************************************)
(* The instance of Dataflow that TLC checks:                               *)
(*     raw -> 1 -> mid -> 2 -> model -> 3 -> out                           *)
(*     raw -------------------------> 3      2 runs on two ranks           *)
(* Each dataset is given the kinds of entry that matter where it stands,   *)
(* and in some projects raw and model have one sanitised name.             *)
(***************************************************************************)
EXTENDS Dataflow, TLC

MCDataset == {"raw", "mid", "model", "out"}
MCNode == 1..3
MCIns == <<<<"raw">>, <<"mid">>, <<"raw", "model">>>>
MCOuts == <<{"mid"}, {"model"}, {"out"}>>
MCProc == {"one", "two", "two of rank 1", "three"}
MCStepOf == "one" :> 1 @@ "two" :> 2 @@ "two of rank 1" :> 2 @@ "three" :> 3
MCRank == [p \in MCProc |-> IF p = "two of rank 1" THEN 1 ELSE 0]

Own(kind) == [kind |-> kind, pattern |-> FALSE, azureml_version |-> "none"]
Pattern(kind) == [Own(kind) EXCEPT !.pattern = TRUE]
Pinned(kind) == [Own(kind) EXCEPT !.azureml_version = "v1"]

Absent == Own("absent")
RawEntries == {Absent, Own("standard"), Own("pipeline"), Own("uri_file"), Pinned("uri_folder"), Pattern("uri_folder")}
MidEntries == {Absent, Own("standard"), Own("pipeline"), Own("uri_folder"), Own("uri_file"),
               Pattern("standard"), Pattern("pipeline"), [Pinned("uri_folder") EXCEPT !.pattern = TRUE]}
ModelEntries == {Absent, Own("standard"), Own("pipeline"), Own("uri_folder"), Pattern("uri_folder")}
Catalogs == {"raw" :> r @@ "mid" :> i @@ "model" :> l @@ "out" :> Own("pipeline") :
               r \in RawEntries, i \in MidEntries, l \in ModelEntries}

Alike == [d \in MCDataset |-> d]
Every(version) == [d \in MCDataset |-> version]
\* One node of two processes, two nodes of one each, and two nodes of which
\* TensorFlow uses one process each whatever was asked for.
Alone == [framework |-> "none", num_nodes |-> 1, processes_per_node |-> 0]
Twice(f, m, k) == [n \in MCNode |->
  IF n = 2 THEN [framework |-> f, num_nodes |-> m, processes_per_node |-> k] ELSE Alone]

\* A project's own names and the newest versions, or older ones that were asked for,
\* or a clash of names and a code snapshot with the data of a local run.
MCProjects == UNION {{
  [catalog |-> c, names |-> Alike, load_versions |-> Every("none"), snapshot_data |-> FALSE,
   distributed |-> Twice("MPI", 1, 2)],
  [catalog |-> c, names |-> Alike, load_versions |-> Every("v1"), snapshot_data |-> TRUE,
   distributed |-> Twice("TensorFlow", 2, 4)],
  [catalog |-> c, names |-> [Alike EXCEPT !["model"] = "raw"], load_versions |-> Every("none"),
   snapshot_data |-> TRUE, distributed |-> Twice("PyTorch", 2, 0)]} : c \in Catalogs}
=============================================================================

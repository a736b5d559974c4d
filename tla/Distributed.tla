----------------------------- MODULE Distributed -----------------------------
(***************************************************************************)
(* Steps of several processes (distributed/): what Azure ML is asked to    *)
(* launch for a node with @distributed_job (generator.py), the variables   *)
(* each process then finds, and how it tells whether it is the master.     *)
(* An environment is a function on the names of the variables that are     *)
(* set; a rank that is no integer is -1, and a malformed TF_CONFIG has no  *)
(* known task type.                                                        *)
(***************************************************************************)
EXTENDS Integers

Framework == {"PyTorch", "TensorFlow", "MPI"}

\* DistributedNodeConfig; framework "none" is a node without the decorator, and 0
\* stands for a processes_per_node that is not given.
Config == [framework : Framework \cup {"none"}, num_nodes : Nat \ {0}, processes_per_node : Nat]

\* The processes of a step: TensorFlow is launched once on each node.
ProcessCount(c) ==
  IF c.framework = "none" THEN 1
  ELSE IF c.framework = "TensorFlow" \/ c.processes_per_node = 0 THEN c.num_nodes
  ELSE c.num_nodes * c.processes_per_node

\* What the launcher of each framework sets for the process of a rank.
Environment(c, rank) ==
  CASE c.framework = "TensorFlow" -> [v \in {"TF_CONFIG"} |-> [type |-> "worker", index |-> rank]]
    [] c.framework = "MPI" -> [v \in {"OMPI_COMM_WORLD_RANK"} |-> rank]
    [] c.framework = "PyTorch" -> [v \in {"RANK"} |-> rank]
    [] OTHER -> [v \in {} |-> 0]

IsDistributedEnvironment(env) == {"OMPI_COMM_WORLD_RANK", "RANK", "TF_CONFIG"} \cap DOMAIN env # {}

\* Mutant: the rank of Open MPI is not looked at.
GenericRankOnly(env) ==
  IF "TF_CONFIG" \in DOMAIN env THEN env["TF_CONFIG"].index = 0
  ELSE "RANK" \in DOMAIN env => env["RANK"] = 0

\* The variables in the order of RANK_VARS; no variable at all is the master, and
\* one that does not parse is not.
IsDistributedMasterNode(env) ==
  IF "TF_CONFIG" \in DOMAIN env
  THEN \/ env["TF_CONFIG"].type \in {"chief", "master"}
       \/ env["TF_CONFIG"].type = "worker" /\ env["TF_CONFIG"].index = 0
  ELSE IF "OMPI_COMM_WORLD_RANK" \in DOMAIN env THEN env["OMPI_COMM_WORLD_RANK"] = 0
  ELSE "RANK" \in DOMAIN env => env["RANK"] = 0
=============================================================================

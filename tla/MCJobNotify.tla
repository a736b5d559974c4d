---------------------------- MODULE MCJobNotify -----------------------------
(***************************************************************************)
(* Instances of JobNotify for TLC.  The pipeline has two roots, an         *)
(* interior node and three leaves:                                         *)
(*     r1 -> m -> x (the poster)     r1 -> y     r2 -> z                   *)
(* so that a sibling leaf can fail, hang, die or never start while the     *)
(* poster waits, and a root can fail without stopping the poster.          *)
(***************************************************************************)
EXTENDS JobNotify, TLC

CONSTANTS r1, r2, m, x, y, z

MCNodes == {r1, r2, m, x, y, z}
MCEdges == {<<r1, m>>, <<m, x>>, <<r1, y>>, <<r2, z>>}
MCRank == r1 :> 1 @@ r2 :> 2 @@ m :> 3 @@ y :> 4 @@ z :> 5 @@ x :> 6
OneProcessEach == [n \in MCNodes |-> n]

\* m, the interior step, as a distributed step of two ranks.
DistributedProcs == MCNodes \cup {"rank 1"}
DistributedStep == [p \in DistributedProcs |-> IF p = "rank 1" THEN m ELSE p]

NotifyFirst == <<"notify", "mlflow">>

\* Where a process may die silently.
Anywhere == {"tagging", "announcing", "recording", "node", "error 1", "error 2", "after",
             "polling", "concluding"}
BeforeTagging == {"tagging"}
=============================================================================

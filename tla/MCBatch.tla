------------------------------ MODULE MCBatch ------------------------------
(***************************************************************************)
(* Instances of Batch for TLC: three jobs, two of them in one workspace, so *)
(* that clients and code assets are shared and contended for, or with the   *)
(* last job naming a workspace nobody defined.                              *)
(***************************************************************************)
EXTENDS Batch, TLC

CONSTANTS east, west, nowhere

MCWorkspaces == {east, west}
TwoInEast == (1 :> east) @@ (2 :> east) @@ (3 :> west)
LastUndefined == (1 :> east) @@ (2 :> west) @@ (3 :> nowhere)
MCAnyAssignment == {TwoInEast, LastUndefined}
MCEitherWay == BOOLEAN
MCAllModes == {"dry", "serial", "wait", "concurrent"}
MCAllFaults ==
  {"prepare", "credential", "client", "compute", "create", "reply", "callback",
   "network", "job"}
=============================================================================

------------------------------ MODULE MCOutage ------------------------------
(***************************************************************************)
(* Instances of Outage for TLC.  Instants are counted in units such that   *)
(* the epoch is at least Repeat units back; runs start at the instants of  *)
(* Starts that the behaviour picks, so gaps between runs vary too.         *)
(***************************************************************************)
EXTENDS Outage

CONSTANTS a, b

MCTables == {a, b}
MCTable == {a}
MCStarts4 == 3..6
MCStarts3 == 3..5
=============================================================================

---------------------------- MODULE MCSchedules -----------------------------
(***************************************************************************)
(* An instance of Schedules for TLC: the name of one job is also what the  *)
(* other job's nightly trigger is called when it has more than one.        *)
(***************************************************************************)
EXTENDS Schedules, TLC

MCJobs == {"train", "train-nightly"}
MCNamed == {"nightly", "midday"}
MCInline == {"inline"}
MCRefName ==
  "train" :> [ref \in MCNamed \cup {"missing"} |->
    IF ref = "nightly" THEN "train-nightly" ELSE "train-midday"]
  @@ "train-nightly" :> [ref \in MCNamed \cup {"missing"} |->
    IF ref = "nightly" THEN "train-nightly-nightly" ELSE "train-nightly-midday"]
MCIndexName ==
  "train" :> [i \in 0..1 |-> "train-0"] @@ "train-nightly" :> [i \in 0..1 |-> "train-nightly-0"]
MCNames ==
  {"train", "train-nightly", "train-midday", "train-0",
   "train-nightly-nightly", "train-nightly-midday", "train-nightly-0"}
MCLists ==
  {<<>>, <<"nightly">>, <<"nightly", "midday">>, <<"missing">>, <<"inline", "missing">>}
MCFaults == {"call", "reply", "disable", "delete", "interrupt"}
=============================================================================

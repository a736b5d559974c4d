----------------------------- MODULE MCLocalRun -----------------------------
(* A champion that is loaded and a model that is trained, with the alias of  *)
(* one asset, two assets, pins and a pattern entry.                          *)
EXTENDS LocalRun, TLC

CONSTANTS champion, model, a1, a2, r1, r2

Load(e) == [op |-> "load", entry |-> e]
Store(e) == [op |-> "save", entry |-> e]

\* The runs differ in nothing but their names.
MCSymmetry == Permutations({r1, r2})

MCEntry == {champion, model}
On(a, p, l) == [asset |-> a, pin |-> p, listed |-> l]
MCCatalogs ==
  {[e \in MCEntry |-> IF e = champion THEN On(a1, p, TRUE) ELSE On(a, q, l)] :
     p \in {0, 2}, a \in {a1, a2}, q \in {0, 1}, l \in BOOLEAN}
MCPlans == {<<Load(champion), Store(model), Load(model)>>, <<Load(champion), Load(model)>>}
=============================================================================

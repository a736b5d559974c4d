--------------------------- MODULE LocalRunProofs ---------------------------
(***************************************************************************)
(* Proofs about LocalRun, for every set of runs, entries and assets, every *)
(* catalogue and plan, and any number of registrations and failing calls.  *)
(*                                                                         *)
(* A run that is alone is the only one that writes, so no other has a hand *)
(* in its files, and what it saved stays where it was put until a          *)
(* registered version moves the place; and the place it moves to is empty, *)
(* because nothing writes below a version that does not exist unless an    *)
(* entry pins it.  With runs side by side, a file that one of them has     *)
(* written is there from then on, and torn only by the hand of another.    *)
(***************************************************************************)
EXTENDS LocalRun, TLAPS

\* The run has saved the entry at an earlier use.
SavedBy(r, e) ==
  \E j \in DOMAIN plan[r] : j < at[r] /\ plan[r][j].op = "save" /\ plan[r][j].entry = e

\* What is downloaded is an input, in a version from the start of the load on.
Fetched(r, e) ==
  /\ e \notin Produced(r)
  /\ IF Pinned(e) THEN got[r] = catalog[e].pin ELSE got[r] \in since[r]..newest[AssetOf(e)]
FetchInv == \A r \in Run : pc[r] \in {"fetched", "downloading"} => Fetched(r, Use(r).entry)

AloneInv == \A r, q \in Run : alone[r] /\ Active(r) /\ Active(q) => q = r

\* Below a version that is not registered yet there is nothing.
FutureInv ==
  \A a \in Asset : (\A f \in Entry : AssetOf(f) = a => ~Pinned(f)) =>
    \A v \in Version : v > newest[a] => local[<<a, v>>] = Missing

SavedInv == \A r \in Run, e \in Entry : SavedBy(r, e) => Resolved(e) \in Version

\* The place is where the entry is or was looked for.
Reached(e, c) ==
  c[1] = AssetOf(e) /\ IF Pinned(e) THEN c[2] = catalog[e].pin ELSE c[2] <= newest[AssetOf(e)]

\* The place holds a file the run is writing, alone if the run is.
Mine(r, c) == local[c].from = "torn" /\ r \in local[c].by /\ (alone[r] => local[c].by = {r})

InWrite(r) == pc[r] \in {"downloading", "saving"}
WriteInv ==
  \A r \in Run :
    IF InWrite(r) THEN \E c \in Copy : writing[r] = {c} /\ Reached(Use(r).entry, c) /\ Mine(r, c)
    ELSE writing[r] = {}

\* A version registered during a write moves the place to an empty one.
MovedInv ==
  \A r \in Run : InWrite(r) /\ alone[r] /\ Unforeseen(Use(r).entry) =>
    PathOf(Use(r).entry) \in writing[r] \/ local[PathOf(Use(r).entry)] = Missing

OwnInv ==
  \A r \in Run, e \in Entry :
    Active(r) /\ alone[r] /\ Private(e) /\ SavedBy(r, e) =>
      local[PathOf(e)] \in {Made(r), Missing} \/ PathOf(e) \in writing[r]

\* What an opened input finds.
Found(r, e) ==
  /\ Pinned(e) => local[PathOf(e)] = Registered(catalog[e].pin)
  /\ Unforeseen(e) =>
       \/ local[PathOf(e)] = Missing
       \/ \E v \in since[r]..newest[AssetOf(e)] : local[PathOf(e)] = Registered(v)
ReadyInv ==
  \A r \in Run, e \in Entry :
    pc[r] = "ready" /\ alone[r] /\ e = Use(r).entry /\ e \notin Produced(r) => Found(r, e)

\* The file is there, and if it is torn the run is writing it or another run,
\* beside this one, had a hand in it.
Whole(r, c) ==
  /\ local[c] # Missing
  /\ local[c].from = "torn" /\ c \notin writing[r] => ~alone[r] /\ local[c].by \ {r} # {}

\* While nothing is registered, what was written is where it is looked for.
KeptInv ==
  \A r \in Run : quiet[r] /\ Active(r) =>
    /\ \A e \in Entry : SavedBy(r, e) => Whole(r, PathOf(e))
    /\ \A c \in writing[r] : c = PathOf(Use(r).entry)
    /\ pc[r] = "ready" /\ Use(r).entry \notin Produced(r) =>
         Resolved(Use(r).entry) \in Version /\ Whole(r, PathOf(Use(r).entry))

-----------------------------------------------------------------------------
(* What the operators give. *)

LEMMA Element == ASSUME NEW S, NEW s \in Seq(S), NEW i \in DOMAIN s PROVE s[i] \in S /\ i \in 1..Len(s) /\ Len(s) \in Nat
  OBVIOUS

LEMMA UseTyped ==
  ASSUME TypeOK, NEW r \in Run, at[r] \in DOMAIN plan[r]
  PROVE  Use(r).entry \in Entry /\ Use(r).op \in {"load", "save"} /\ at[r] + 1 \in 1..(Len(plan[r]) + 1)
<1>1. plan[r] \in Seq([op : {"load", "save"}, entry : Entry])
  BY LocalRunAssumption DEF TypeOK
<1>2. plan[r][at[r]] \in [op : {"load", "save"}, entry : Entry] /\ at[r] \in 1..Len(plan[r])
  BY <1>1, Element
<1> QED BY <1>2 DEF Use

LEMMA EntryTyped ==
  ASSUME TypeOK, NEW e \in Entry
  PROVE  /\ AssetOf(e) \in Asset /\ catalog[e].pin \in 0..MaxVersion /\ catalog[e].listed \in BOOLEAN
         /\ newest[AssetOf(e)] \in 0..MaxVersion /\ Resolved(e) \in 0..MaxVersion
<1>1. catalog[e] \in [asset : Asset, pin : 0..MaxVersion, listed : BOOLEAN]
  BY LocalRunAssumption DEF TypeOK
<1>2. AssetOf(e) \in Asset /\ catalog[e].pin \in 0..MaxVersion /\ catalog[e].listed \in BOOLEAN
  BY <1>1 DEF AssetOf
<1> QED BY <1>2 DEF TypeOK, Resolved

LEMMA PathTyped ==
  ASSUME TypeOK, NEW r \in Run, NEW e \in Entry, ~Unresolved(r, e)
  PROVE  PathOf(e) \in Copy /\ Resolved(e) \in Version
<1>1. Resolved(e) # 0
  BY DEF Unresolved, Resolved, Pinned
<1>2. Resolved(e) \in Version /\ AssetOf(e) \in Asset
  BY <1>1, EntryTyped, LocalRunAssumption DEF Version
<1> QED BY <1>2 DEF PathOf, Copy

\* The kinds of content differ.
LEMMA Kinds ==
  /\ Missing.from = "nowhere"
  /\ \A v : Registered(v) # Missing /\ Registered(v).from = "registry"
  /\ \A r : Made(r) # Missing /\ Made(r).from = "run"
  /\ \A W : Torn(W) # Missing /\ Torn(W).from = "torn" /\ Torn(W).by = W
<1>1. ASSUME NEW v PROVE Registered(v).from = "registry"
  BY DEF Registered
<1>2. ASSUME NEW r PROVE Made(r).from = "run"
  BY DEF Made
<1>3. ASSUME NEW W PROVE Torn(W).from = "torn" /\ Torn(W).by = W
  BY DEF Torn
<1>4. Missing.from = "nowhere"
  BY DEF Missing
<1>5. ASSUME NEW v PROVE Registered(v) # Missing
  BY <1>1, <1>4
<1>6. ASSUME NEW r PROVE Made(r) # Missing
  BY <1>2, <1>4
<1>7. ASSUME NEW W PROVE Torn(W) # Missing
  BY <1>3, <1>4
<1> QED BY <1>1, <1>2, <1>3, <1>4, <1>5, <1>6, <1>7

\* The phase of a run is one of those a run can be in.
LEMMA Phases ==
  /\ "new" \in Phase /\ "next" \in Phase /\ "fetched" \in Phase /\ "downloading" \in Phase
  /\ "ready" \in Phase /\ "saving" \in Phase /\ "done" \in Phase /\ "failed" \in Phase
  BY DEF Phase

-----------------------------------------------------------------------------
(* Type correctness. *)

\* The last part of TypeOK, one run at a time.
Inside(r) ==
  /\ at[r] \in 1..(Len(plan[r]) + 1)
  /\ pc[r] \in {"fetched", "downloading", "ready"} => at[r] \in DOMAIN plan[r] /\ Use(r).op = "load"
  /\ pc[r] = "saving" => at[r] \in DOMAIN plan[r] /\ Use(r).op = "save"
  /\ pc[r] \in {"fetched", "downloading"} => got[r] \in Version
  /\ pc[r] \in {"fetched", "downloading", "saving"} => ~Unresolved(r, Use(r).entry)

\* A step of one run leaves the place of the others in their plans alone.
LEMMA Others ==
  ASSUME TypeOK, NEW q \in Run, NEW r \in Run, q # r, Step(r)
  PROVE  pc'[q] = pc[q] /\ at'[q] = at[q] /\ got'[q] = got[q] /\ since'[q] = since[q]
         /\ writing'[q] = writing[q]
<1>1. pc'[q] = pc[q] /\ at'[q] = at[q]
  BY DEF Step, Begin, Fetch, BeginDownload, EndDownload, Skip, Opens, OpenFails, BeginSave, EndSave,
         CallFails, End, Fail, TypeOK
<1>2. got'[q] = got[q] /\ since'[q] = since[q]
  BY DEF Step, Begin, Fetch, BeginDownload, EndDownload, Skip, Opens, OpenFails, BeginSave, EndSave,
         CallFails, End, TypeOK
<1>3. writing'[q] = writing[q]
  BY DEF Step, Begin, Fetch, BeginDownload, EndDownload, Skip, Opens, OpenFails, BeginSave, EndSave,
         CallFails, End, StartWrite, EndWrite, TypeOK
<1> QED BY <1>1, <1>2, <1>3

LEMMA SameProject ==
  ASSUME NEW r \in Run, Step(r)
  PROVE  UNCHANGED <<catalog, workspace, plan, newest>>
  BY DEF Step, Begin, Fetch, BeginDownload, EndDownload, Skip, Opens, OpenFails, BeginSave, EndSave,
         CallFails, End, project

LEMMA OthersInside ==
  ASSUME TypeOK, NEW q \in Run, NEW r \in Run, q # r, Step(r)
  PROVE  Inside(q)'
<1>1. Inside(q)
  BY DEF TypeOK, Inside
<1> QED BY <1>1, Others, SameProject DEF Inside, Use, Unresolved, Configured, Pinned, AssetOf

\* What a write does to the files is of their type.
LEMMA WriteTyped ==
  ASSUME TypeOK, NEW r \in Run
  PROVE  /\ PathOf(Use(r).entry) \in Copy /\ StartWrite(r) =>
              local' \in [Copy -> Content] /\ writing' \in [Run -> SUBSET Copy]
         /\ \A d \in Content : EndWrite(r, d) =>
              local' \in [Copy -> Content] /\ writing' \in [Run -> SUBSET Copy]
<1>1. ASSUME PathOf(Use(r).entry) \in Copy, StartWrite(r)
      PROVE  local' \in [Copy -> Content] /\ writing' \in [Run -> SUBSET Copy]
  <2>1. {r} \cup Writers(PathOf(Use(r).entry)) \in SUBSET Run
    BY DEF Writers
  <2>2. Torn({r} \cup Writers(PathOf(Use(r).entry))) \in Content
    BY <2>1 DEF Content
  <2>3. local' \in [Copy -> Content]
    BY <1>1, <2>2 DEF StartWrite, TypeOK
  <2>4. writing' \in [Run -> SUBSET Copy]
    BY <1>1 DEF StartWrite, TypeOK
  <2> QED BY <2>3, <2>4
<1>2. ASSUME NEW d \in Content, EndWrite(r, d)
      PROVE  local' \in [Copy -> Content] /\ writing' \in [Run -> SUBSET Copy]
  <2>1. PICK c \in writing[r] : \E f \in Left(r, c, d) : local' = [local EXCEPT ![c] = f]
    BY <1>2 DEF EndWrite
  <2>2. c \in Copy /\ local[c] \in Content
    BY <2>1 DEF TypeOK
  <2>3. Left(r, c, d) \subseteq Content
    BY <2>2 DEF Left
  <2>4. local' \in [Copy -> Content]
    BY <2>1, <2>2, <2>3 DEF TypeOK
  <2>5. writing' \in [Run -> SUBSET Copy]
    BY <1>2 DEF EndWrite, TypeOK
  <2> QED BY <2>4, <2>5
<1> QED BY <1>1, <1>2

LEMMA TypeStep == TypeOK /\ [Next]_vars => TypeOK'
<1> SUFFICES ASSUME TypeOK, [Next]_vars PROVE TypeOK'
  OBVIOUS
<1>0. ASSUME NEW r \in Run, Step(r), Inside(r)',
             pc' \in [Run -> Phase], at' \in [Run -> Nat],
             got' \in [Run -> 0..MaxVersion], since' \in [Run -> 0..MaxVersion],
             local' \in [Copy -> Content], writing' \in [Run -> SUBSET Copy],
             quiet' \in [Run -> BOOLEAN], alone' \in [Run -> BOOLEAN], faults' \in 0..MaxFaults
      PROVE  TypeOK'
  <2>1. \A q \in Run : Inside(q)'
    BY <1>0, OthersInside
  <2> QED BY <1>0, <2>1, SameProject DEF TypeOK, Inside
<1>1. ASSUME NEW a \in Asset, Register(a) PROVE TypeOK'
  <2>1. newest' \in [Asset -> 0..MaxVersion] /\ \A b \in Asset : newest'[b] >= newest[b]
    BY <1>1, LocalRunAssumption DEF Register, TypeOK
  <2>2. quiet' \in [Run -> BOOLEAN]
    BY <1>1 DEF Register
  <2>3. ASSUME NEW r \in Run PROVE Inside(r)'
    <3>1. Inside(r)
      BY DEF TypeOK, Inside
    <3>2. at[r] \in DOMAIN plan[r] /\ ~Unresolved(r, Use(r).entry) => ~Unresolved(r, Use(r).entry)'
      <4> SUFFICES ASSUME at[r] \in DOMAIN plan[r], ~Unresolved(r, Use(r).entry) PROVE ~Unresolved(r, Use(r).entry)'
        OBVIOUS
      <4>1. AssetOf(Use(r).entry) \in Asset /\ newest[AssetOf(Use(r).entry)] \in Nat
        BY UseTyped, EntryTyped
      <4>2. newest[AssetOf(Use(r).entry)] # 0 => newest'[AssetOf(Use(r).entry)] # 0
        BY <4>1, <2>1
      <4> QED BY <1>1, <4>2 DEF Register, Unresolved, Configured, Pinned, AssetOf, Use, project
    <3> QED BY <1>1, <3>1, <3>2 DEF Register, Inside, Use, project
  <2> QED BY <1>1, <2>1, <2>2, <2>3 DEF Register, TypeOK, Inside, project
<1>2. ASSUME NEW r \in Run, Begin(r) PROVE TypeOK'
  <2>1. Inside(r)'
    BY <1>2 DEF Begin, TypeOK, Inside
  <2>2. alone' \in [Run -> BOOLEAN]
    BY <1>2 DEF Begin, TypeOK
  <2> QED BY <1>0, <1>2, <2>1, <2>2, Phases DEF Begin, Step, TypeOK
<1>3. ASSUME NEW r \in Run, Fetch(r) PROVE TypeOK'
  <2> DEFINE e == Use(r).entry
  <2>1. at[r] \in DOMAIN plan[r] /\ Use(r).op = "load" /\ pc[r] = "next"
    BY <1>3 DEF Fetch, Facing
  <2>2. e \in Entry /\ newest[AssetOf(e)] \in 0..MaxVersion /\ Resolved(e) \in 0..MaxVersion
    BY <2>1, UseTyped, EntryTyped
  <2>3. since' \in [Run -> 0..MaxVersion] /\ got' \in [Run -> 0..MaxVersion] /\ pc' \in [Run -> Phase]
    <3>1. since' \in [Run -> 0..MaxVersion]
      BY <1>3, <2>2 DEF Fetch, TypeOK
    <3>2. got' \in [Run -> 0..MaxVersion]
      BY <1>3, <2>2 DEF Fetch, TypeOK
    <3>3. pc' \in [Run -> Phase]
      BY <1>3, Phases DEF Fetch, Fail, TypeOK
    <3> QED BY <3>1, <3>2, <3>3
  <2>4. Inside(r)'
    <3>1. CASE Fail(r)
      BY <1>3, <2>1, <3>1 DEF Fetch, Fail, TypeOK, Inside
    <3>2. CASE ~Unresolved(r, e) /\ pc' = [pc EXCEPT ![r] = "fetched"] /\ got' = [got EXCEPT ![r] = Resolved(e)]
      <4>1. Resolved(e) \in Version
        BY <2>2, <3>2, PathTyped
      <4>2. ~Unresolved(r, Use(r).entry)'
        BY <1>3, <3>2 DEF Fetch, Unresolved, Configured, Pinned, AssetOf, Use, project
      <4>3. got'[r] \in Version
        BY <3>2, <4>1 DEF TypeOK
      <4> QED BY <1>3, <2>1, <3>2, <4>2, <4>3 DEF Fetch, TypeOK, Inside, Use
    <3> QED BY <1>3, <3>1, <3>2 DEF Fetch
  <2> QED BY <1>0, <1>3, <2>3, <2>4 DEF Fetch, Step, TypeOK
<1>4. ASSUME NEW r \in Run, BeginDownload(r) PROVE TypeOK'
  <2>1. pc[r] = "fetched" /\ Inside(r)
    BY <1>4 DEF BeginDownload, TypeOK, Inside
  <2>2. PathOf(Use(r).entry) \in Copy
    BY <2>1, UseTyped, PathTyped DEF Inside
  <2>3. local' \in [Copy -> Content] /\ writing' \in [Run -> SUBSET Copy]
    BY <1>4, <2>2, WriteTyped DEF BeginDownload
  <2>4. Inside(r)'
    BY <1>4, <2>1 DEF BeginDownload, TypeOK, Inside, Use, Unresolved, Configured, Pinned, AssetOf, project
  <2> QED BY <1>0, <1>4, <2>3, <2>4, Phases DEF BeginDownload, Step, TypeOK
<1>5. ASSUME NEW r \in Run, EndDownload(r) PROVE TypeOK'
  <2>1. pc[r] = "downloading" /\ Inside(r)
    BY <1>5 DEF EndDownload, TypeOK, Inside
  <2>2. Registered(got[r]) \in Content
    BY <2>1 DEF Inside, Content
  <2>3. local' \in [Copy -> Content] /\ writing' \in [Run -> SUBSET Copy]
    BY <1>5, <2>2, WriteTyped DEF EndDownload
  <2>4. Inside(r)'
    BY <1>5, <2>1 DEF EndDownload, TypeOK, Inside, Use
  <2> QED BY <1>0, <1>5, <2>3, <2>4, Phases DEF EndDownload, Step, TypeOK
<1>6. ASSUME NEW r \in Run, Skip(r) PROVE TypeOK'
  <2>1. at[r] \in DOMAIN plan[r] /\ Use(r).op = "load"
    BY <1>6 DEF Skip, Facing
  <2>2. newest[AssetOf(Use(r).entry)] \in 0..MaxVersion
    BY <2>1, UseTyped, EntryTyped
  <2>3. since' \in [Run -> 0..MaxVersion]
    BY <1>6, <2>2 DEF Skip, TypeOK
  <2>4. Inside(r)'
    BY <1>6, <2>1 DEF Skip, TypeOK, Inside, Use
  <2> QED BY <1>0, <1>6, <2>3, <2>4, Phases DEF Skip, Step, TypeOK
<1>7. ASSUME NEW r \in Run, Opens(r) PROVE TypeOK'
  <2>1. at[r] \in DOMAIN plan[r]
    BY <1>7 DEF Opens, TypeOK
  <2>2. at[r] + 1 \in 1..(Len(plan[r]) + 1)
    BY <2>1, UseTyped
  <2>3. Inside(r)'
    BY <1>7, <2>2 DEF Opens, TypeOK, Inside
  <2>4. at' \in [Run -> Nat] /\ pc' \in [Run -> Phase]
    BY <1>7, Phases DEF Opens, TypeOK
  <2> QED BY <1>0, <1>7, <2>3, <2>4 DEF Opens, Step, TypeOK
<1>8. ASSUME NEW r \in Run, OpenFails(r) PROVE TypeOK'
  <2>1. Inside(r)'
    BY <1>8 DEF OpenFails, Fail, TypeOK, Inside
  <2> QED BY <1>0, <1>8, <2>1, Phases DEF OpenFails, Fail, Step, TypeOK
<1>9. ASSUME NEW r \in Run, BeginSave(r) PROVE TypeOK'
  <2>1. at[r] \in DOMAIN plan[r] /\ pc[r] = "next" /\ Use(r).op = "save"
    BY <1>9 DEF BeginSave, Facing
  <2>2. CASE Fail(r) /\ UNCHANGED <<local, writing>>
    <3>1. Inside(r)'
      BY <1>9, <2>2 DEF BeginSave, Fail, TypeOK, Inside
    <3> QED BY <1>0, <1>9, <2>2, <3>1, Phases DEF BeginSave, Fail, Step, TypeOK
  <2>3. CASE ~Unresolved(r, Use(r).entry) /\ pc' = [pc EXCEPT ![r] = "saving"] /\ StartWrite(r)
    <3>1. PathOf(Use(r).entry) \in Copy
      BY <2>1, <2>3, UseTyped, PathTyped
    <3>2. local' \in [Copy -> Content] /\ writing' \in [Run -> SUBSET Copy]
      BY <2>3, <3>1, WriteTyped
    <3>3. ~Unresolved(r, Use(r).entry)' /\ Use(r)' = Use(r)
      BY <1>9, <2>3 DEF BeginSave, Unresolved, Configured, Pinned, AssetOf, Use, project
    <3>4. Inside(r)'
      BY <1>9, <2>1, <2>3, <3>3 DEF BeginSave, TypeOK, Inside
    <3> QED BY <1>0, <1>9, <2>3, <3>2, <3>4, Phases DEF BeginSave, Step, TypeOK
  <2> QED BY <1>9, <2>2, <2>3 DEF BeginSave
<1>10. ASSUME NEW r \in Run, EndSave(r) PROVE TypeOK'
  <2>1. at[r] \in DOMAIN plan[r] /\ pc[r] = "saving"
    BY <1>10 DEF EndSave, TypeOK
  <2>2. at[r] + 1 \in 1..(Len(plan[r]) + 1)
    BY <2>1, UseTyped
  <2>3. Made(r) \in Content
    BY DEF Content
  <2>4. local' \in [Copy -> Content] /\ writing' \in [Run -> SUBSET Copy]
    BY <1>10, <2>3, WriteTyped DEF EndSave
  <2>5. Inside(r)'
    BY <1>10, <2>2 DEF EndSave, Fail, TypeOK, Inside
  <2>6. at' \in [Run -> Nat] /\ pc' \in [Run -> Phase]
    <3>0. at' = at \/ at' = [at EXCEPT ![r] = @ + 1]
      BY <1>10 DEF EndSave
    <3>1. at' \in [Run -> Nat]
      <4>1. at \in [Run -> Nat] /\ at[r] + 1 \in Nat
        BY DEF TypeOK
      <4> QED BY <3>0, <4>1
    <3>2. pc' \in [Run -> Phase]
      BY <1>10, Phases DEF EndSave, Fail, TypeOK
    <3> QED BY <3>1, <3>2
  <2> QED BY <1>0, <1>10, <2>4, <2>5, <2>6 DEF EndSave, Step, TypeOK
<1>11. ASSUME NEW r \in Run, CallFails(r) PROVE TypeOK'
  <2>1. Inside(r)'
    BY <1>11 DEF CallFails, Fail, TypeOK, Inside
  <2>2. faults' \in 0..MaxFaults /\ writing' \in [Run -> SUBSET Copy]
    BY <1>11, LocalRunAssumption DEF CallFails, TypeOK
  <2> QED BY <1>0, <1>11, <2>1, <2>2, Phases DEF CallFails, Fail, Step, TypeOK
<1>12. ASSUME NEW r \in Run, End(r) PROVE TypeOK'
  <2>1. Inside(r)'
    BY <1>12 DEF End, TypeOK, Inside
  <2> QED BY <1>0, <1>12, <2>1, Phases DEF End, Step, TypeOK
<1>13. ASSUME UNCHANGED vars PROVE TypeOK'
  <2>1. \A r \in Run : Inside(r)'
    BY <1>13 DEF TypeOK, vars, Inside, Use, Unresolved, Configured, Pinned, AssetOf
  <2> QED BY <1>13, <2>1 DEF TypeOK, vars, Inside
<1> QED BY <1>1, <1>2, <1>3, <1>4, <1>5, <1>6, <1>7, <1>8, <1>9, <1>10, <1>11, <1>12, <1>13 DEF Next, Step

LEMMA TypeInit == Init => TypeOK
<1> SUFFICES ASSUME Init PROVE TypeOK
  OBVIOUS
<1>1. ASSUME NEW r \in Run PROVE Len(plan[r]) \in Nat
  <2>1. plan[r] \in Seq([op : {"load", "save"}, entry : Entry])
    BY LocalRunAssumption DEF Init
  <2> QED BY <2>1
<1>2. newest \in [Asset -> 0..MaxVersion]
  <2>1. 0 \in 0..MaxVersion /\ 1 \in 0..MaxVersion BY LocalRunAssumption
  <2>2. newest \in [Asset -> {0, 1}] BY DEF Init
  <2> QED BY <2>1, <2>2
<1>3. local \in [Copy -> Content] /\ writing \in [Run -> SUBSET Copy]
  BY DEF Init, Content
<1> QED BY <1>1, <1>2, <1>3, Phases, LocalRunAssumption DEF Init, TypeOK

\* Every variable keeps its type, and a run is inside a use only while its plan
\* has one there.
THEOREM LocalTypeCorrect == Spec => []TypeOK
<1> QED BY TypeInit, TypeStep, PTL DEF Spec

-----------------------------------------------------------------------------
(* What a step can do. *)

\* What no step changes, and what changes in one direction only.
LEMMA Shape ==
  ASSUME TypeOK, [Next]_vars
  PROVE  /\ catalog' = catalog /\ workspace' = workspace /\ plan' = plan
         /\ (\E a \in Asset : Register(a)) \/ newest' = newest
         /\ \A a \in Asset : newest'[a] >= newest[a]
         /\ \A r \in Run : (alone'[r] => alone[r]) /\ (quiet'[r] => quiet[r])
         /\ \A r \in Run : Active(r)' => Active(r) \/ Begin(r)
<1>1. ASSUME NEW a \in Asset, Register(a) PROVE
        /\ catalog' = catalog /\ workspace' = workspace /\ plan' = plan
        /\ \A b \in Asset : newest'[b] >= newest[b]
        /\ \A r \in Run : (alone'[r] => alone[r]) /\ (quiet'[r] => quiet[r])
        /\ \A r \in Run : Active(r)' => Active(r)
  BY <1>1 DEF Register, TypeOK, Active, project
<1>2. ASSUME NEW r \in Run, Step(r), NEW q \in Run, Active(q)' PROVE Active(q) \/ Begin(q)
  <2>1. Begin(r) \/ Active(r)
    BY <1>2 DEF Step, Begin, Fetch, BeginDownload, EndDownload, Skip, Opens, OpenFails, BeginSave, EndSave,
                CallFails, End, Facing, Active
  <2>2. q # r => pc'[q] = pc[q]
    BY <1>2, Others
  <2> QED BY <1>2, <2>1, <2>2 DEF Active
<1>3. ASSUME NEW r \in Run, Step(r), NEW q \in Run PROVE (alone'[q] => alone[q]) /\ (quiet'[q] => quiet[q])
  <2>1. CASE Begin(r)
    BY <2>1 DEF Begin, TypeOK
  <2>2. CASE CallFails(r)
    BY <2>2 DEF CallFails, TypeOK
  <2>3. CASE UNCHANGED <<alone, quiet>>
    BY <2>3
  <2> QED BY <1>3, <2>1, <2>2, <2>3
      DEF Step, Fetch, BeginDownload, EndDownload, Skip, Opens, OpenFails, BeginSave, EndSave, End
<1>4. CASE UNCHANGED vars
  BY <1>4 DEF vars, TypeOK, Active
<1>5. \A a \in Asset : newest[a] \in Nat
  BY DEF TypeOK
<1>6. CASE \E a \in Asset : Register(a)
  BY <1>1, <1>6
<1>7. CASE \E r \in Run : Step(r)
  BY <1>2, <1>3, <1>5, <1>7, SameProject
<1> QED BY <1>4, <1>5, <1>6, <1>7 DEF Next

\* Files change when a write begins and when one ends.
Starts(r) ==
  /\ pc[r] \in {"next", "fetched"} /\ at[r] \in DOMAIN plan[r] /\ ~Unresolved(r, Use(r).entry)
  /\ UNCHANGED <<catalog, workspace, newest, plan, at, got, since, quiet, alone>>
  /\ pc' = [pc EXCEPT ![r] = IF pc[r] = "fetched" THEN "downloading" ELSE "saving"]
  /\ StartWrite(r)

Data(r) == IF pc[r] = "downloading" THEN Registered(got[r]) ELSE Made(r)
Ends(r) ==
  /\ InWrite(r) /\ at[r] \in DOMAIN plan[r]
  /\ UNCHANGED <<catalog, workspace, newest, plan, got, since, quiet, alone>>
  /\ pc'[r] = (IF pc[r] = "downloading" THEN "ready" ELSE IF catalog[Use(r).entry].listed THEN "next" ELSE "failed")
  /\ \A q \in Run \ {r} : pc'[q] = pc[q] /\ at'[q] = at[q]
  /\ pc[r] = "downloading" => at'[r] = at[r]
  /\ EndWrite(r, Data(r))

\* Any other step leaves the files, and every write under way, as they are.
Elsewhere ==
  /\ local' = local
  /\ \A r \in Run : IF InWrite(r)' THEN InWrite(r) /\ pc'[r] = pc[r] /\ at'[r] = at[r] /\ writing'[r] = writing[r]
                    ELSE writing'[r] = {} /\ (Active(r)' => writing[r] = {})

LEMMA EndsSave == ASSUME TypeOK, NEW r \in Run, EndSave(r) PROVE Ends(r)
<1>1. pc[r] = "saving" /\ at[r] \in DOMAIN plan[r]
  BY DEF EndSave, TypeOK
<1>2. pc'[r] = IF catalog[Use(r).entry].listed THEN "next" ELSE "failed"
  <2>1. pc' = [pc EXCEPT ![r] = IF catalog[Use(r).entry].listed THEN "next" ELSE "failed"]
    BY <1>1 DEF EndSave, Fail, TypeOK
  <2> QED BY <2>1 DEF TypeOK
<1>3. \A q \in Run \ {r} : pc'[q] = pc[q] /\ at'[q] = at[q]
  BY Others DEF Step
<1> QED BY <1>1, <1>2, <1>3 DEF Ends, Data, InWrite, EndSave, project

LEMMA EndsDownload == ASSUME TypeOK, NEW r \in Run, EndDownload(r) PROVE Ends(r)
<1>1. pc[r] = "downloading" /\ at[r] \in DOMAIN plan[r]
  BY DEF EndDownload, TypeOK
<1>2. pc'[r] = "ready" /\ \A q \in Run \ {r} : pc'[q] = pc[q]
  BY DEF EndDownload, TypeOK
<1> QED BY <1>1, <1>2 DEF Ends, Data, InWrite, EndDownload, project

LEMMA Actions ==
  ASSUME TypeOK, WriteInv, [Next]_vars
  PROVE  Elsewhere \/ \E r \in Run : Starts(r) \/ Ends(r)
<1>0. \A q \in Run : ~InWrite(q) => writing[q] = {}
  BY DEF WriteInv
<1>1. ASSUME NEW r \in Run, BeginDownload(r) PROVE Starts(r)
  <2>1. pc[r] = "fetched" /\ at[r] \in DOMAIN plan[r] /\ ~Unresolved(r, Use(r).entry)
    BY <1>1 DEF BeginDownload, TypeOK
  <2>2. pc' = [pc EXCEPT ![r] = IF pc[r] = "fetched" THEN "downloading" ELSE "saving"]
    BY <1>1, <2>1 DEF BeginDownload
  <2> QED BY <1>1, <2>1, <2>2 DEF Starts, BeginDownload, project
<1>2. ASSUME NEW r \in Run, BeginSave(r), ~Unresolved(r, Use(r).entry) PROVE Starts(r)
  <2>1. pc[r] = "next" /\ at[r] \in DOMAIN plan[r] /\ StartWrite(r)
    BY <1>2 DEF BeginSave, Facing
  <2>2. pc' = [pc EXCEPT ![r] = IF pc[r] = "fetched" THEN "downloading" ELSE "saving"]
    BY <1>2, <2>1 DEF BeginSave
  <2> QED BY <1>2, <2>1, <2>2 DEF Starts, BeginSave, project
<1>3. ASSUME NEW r \in Run, Step(r), UNCHANGED local,
             IF InWrite(r)' THEN InWrite(r) /\ pc'[r] = pc[r] /\ at'[r] = at[r] /\ writing'[r] = writing[r]
             ELSE writing'[r] = {} /\ (Active(r)' => writing[r] = {})
      PROVE  Elsewhere
  <2>1. ASSUME NEW q \in Run, q # r
        PROVE  IF InWrite(q)' THEN InWrite(q) /\ pc'[q] = pc[q] /\ at'[q] = at[q] /\ writing'[q] = writing[q]
               ELSE writing'[q] = {} /\ (Active(q)' => writing[q] = {})
    BY <1>0, <1>3, <2>1, Others DEF InWrite
  <2> QED BY <1>3, <2>1 DEF Elsewhere
<1>4. ASSUME NEW r \in Run, Begin(r) \/ Fetch(r) \/ Skip(r) \/ Opens(r) \/ OpenFails(r) \/ End(r) PROVE Elsewhere
  <2>1. ~InWrite(r) /\ writing' = writing /\ local' = local
    BY <1>4 DEF Begin, Fetch, Skip, Opens, OpenFails, End, Facing, InWrite
  <2>2. ~InWrite(r)'
    BY <1>4 DEF Begin, Fetch, Skip, Opens, OpenFails, End, Fail, InWrite, TypeOK
  <2> QED BY <1>0, <1>3, <1>4, <2>1, <2>2 DEF Step
<1>5. ASSUME NEW r \in Run, BeginSave(r), Unresolved(r, Use(r).entry) PROVE Elsewhere
  <2>1. ~InWrite(r) /\ writing' = writing /\ local' = local /\ ~InWrite(r)'
    BY <1>5 DEF BeginSave, Facing, Fail, InWrite, TypeOK
  <2> QED BY <1>0, <1>3, <1>5, <2>1 DEF Step
<1>6. ASSUME NEW r \in Run, CallFails(r) PROVE Elsewhere
  <2>1. writing'[r] = {} /\ local' = local /\ ~InWrite(r)' /\ ~Active(r)'
    BY <1>6 DEF CallFails, Fail, InWrite, Active, TypeOK
  <2> QED BY <1>3, <1>6, <2>1 DEF Step
<1>7. CASE (\E a \in Asset : Register(a)) \/ UNCHANGED vars
  <2>1. local' = local /\ writing' = writing /\ pc' = pc /\ at' = at
    BY <1>7 DEF Register, vars
  <2> QED BY <1>0, <2>1 DEF Elsewhere, InWrite
<1> QED BY <1>1, <1>2, <1>4, <1>5, <1>6, <1>7, EndsDownload, EndsSave DEF Next, Step

\* Where a write begins, and what it leaves there.
LEMMA StartsAt ==
  ASSUME TypeOK, NEW r \in Run, Starts(r), NEW c, c = PathOf(Use(r).entry)
  PROVE  /\ c \in Copy /\ Use(r).entry \in Entry /\ Resolved(Use(r).entry) \in Version
         /\ writing'[r] = {c} /\ \A q \in Run \ {r} : writing'[q] = writing[q]
         /\ local'[c] = Torn({r} \cup Writers(c)) /\ \A d \in Copy \ {c} : local'[d] = local[d]
         /\ Use(r)' = Use(r) /\ PathOf(Use(r).entry)' = c
         /\ \A q \in Run \ {r} : pc'[q] = pc[q]
         /\ pc'[r] = IF pc[r] = "fetched" THEN "downloading" ELSE "saving"
<1>1. c \in Copy /\ Use(r).entry \in Entry /\ Resolved(Use(r).entry) \in Version
  BY UseTyped, PathTyped DEF Starts
<1>2. local' = [local EXCEPT ![c] = Torn({r} \cup Writers(c))] /\ writing' = [writing EXCEPT ![r] = {c}]
  BY DEF Starts, StartWrite
<1>3. local'[c] = Torn({r} \cup Writers(c)) /\ \A d \in Copy \ {c} : local'[d] = local[d]
  BY <1>1, <1>2 DEF TypeOK
<1>4. writing'[r] = {c} /\ \A q \in Run \ {r} : writing'[q] = writing[q]
  BY <1>2 DEF TypeOK
<1>5. Use(r)' = Use(r) /\ PathOf(Use(r).entry)' = PathOf(Use(r).entry)
  BY DEF Starts, Use, PathOf, Resolved, AssetOf, Pinned
<1>6. /\ \A q \in Run \ {r} : pc'[q] = pc[q]
      /\ pc'[r] = IF pc[r] = "fetched" THEN "downloading" ELSE "saving"
  BY DEF Starts, TypeOK
<1> QED BY <1>1, <1>3, <1>4, <1>5, <1>6

\* A write under way is at one place, and ends there: with its data if nobody
\* else had a hand in the file, and otherwise perhaps with the torn file.
LEMMA EndsAt ==
  ASSUME TypeOK, WriteInv, NEW r \in Run, Ends(r)
  PROVE  \E c \in Copy :
           /\ writing[r] = {c} /\ Reached(Use(r).entry, c) /\ Mine(r, c)
           /\ writing'[r] = {} /\ \A q \in Run \ {r} : writing'[q] = writing[q]
           /\ \A d \in Copy \ {c} : local'[d] = local[d]
           /\ \/ local'[c] = Data(r) /\ Writers(c) = {r}
              \/ local'[c] = local[c] /\ (Writers(c) # {r} \/ local[c].by # {r})
<1>1. PICK c \in Copy : writing[r] = {c} /\ Reached(Use(r).entry, c) /\ Mine(r, c)
  BY DEF WriteInv, Ends
<1>2. PICK f \in Left(r, c, Data(r)) : local' = [local EXCEPT ![c] = f]
  BY <1>1 DEF Ends, EndWrite
<1>3. writing'[r] = {} /\ \A q \in Run \ {r} : writing'[q] = writing[q]
  BY DEF Ends, EndWrite, TypeOK
<1>4. local'[c] = f /\ \A d \in Copy \ {c} : local'[d] = local[d]
  BY <1>1, <1>2 DEF TypeOK
<1>5. \/ f = Data(r) /\ Writers(c) = {r}
      \/ f = local[c] /\ (Writers(c) # {r} \/ local[c].by # {r})
  BY <1>2 DEF Left
<1> QED BY <1>1, <1>3, <1>4, <1>5

\* A run that writes with no other beside it is the only writer.
LEMMA OnlyWriter ==
  ASSUME TypeOK, WriteInv, AloneInv, NEW r \in Run, alone[r], Active(r), NEW c
  PROVE  Writers(c) \subseteq {r}
<1>1. \A q \in Run : writing[q] # {} => Active(q)
  BY DEF WriteInv, InWrite, Active
<1> QED BY <1>1 DEF AloneInv, Writers

\* So the end of its write leaves its data.
LEMMA EndsAlone ==
  ASSUME TypeOK, WriteInv, AloneInv, NEW r \in Run, Ends(r), alone[r]
  PROVE  \E c \in Copy :
           /\ writing[r] = {c} /\ Reached(Use(r).entry, c)
           /\ local'[c] = Data(r) /\ \A d \in Copy \ {c} : local'[d] = local[d]
<1>1. PICK c \in Copy :
        /\ writing[r] = {c} /\ Reached(Use(r).entry, c) /\ Mine(r, c)
        /\ \A d \in Copy \ {c} : local'[d] = local[d]
        /\ \/ local'[c] = Data(r) /\ Writers(c) = {r}
           \/ local'[c] = local[c] /\ (Writers(c) # {r} \/ local[c].by # {r})
  BY EndsAt
<1>2. Active(r) /\ r \in Writers(c)
  BY <1>1 DEF Ends, InWrite, Active, Writers
<1>3. Writers(c) = {r}
  BY <1>2, OnlyWriter
<1>4. local[c].by = {r}
  BY <1>1 DEF Mine
<1> QED BY <1>1, <1>3, <1>4

\* An entry becomes one the run has saved when a save of it ends.
LEMMA NewlySaved ==
  ASSUME TypeOK, [Next]_vars, NEW r \in Run, NEW e \in Entry, SavedBy(r, e)', ~SavedBy(r, e)
  PROVE  EndSave(r) /\ pc[r] = "saving" /\ Use(r).entry = e /\ pc'[r] = "next"
<1>1. plan' = plan
  BY Shape
<1>2. PICK j \in DOMAIN plan[r] : j < at'[r] /\ plan[r][j].op = "save" /\ plan[r][j].entry = e
  BY <1>1 DEF SavedBy
<1>3. at[r] \in Nat /\ Len(plan[r]) \in Nat /\ DOMAIN plan[r] = 1..Len(plan[r])
  <2>1. plan[r] \in Seq([op : {"load", "save"}, entry : Entry])
    BY LocalRunAssumption DEF TypeOK
  <2> QED BY <2>1 DEF TypeOK
<1>4. at'[r] # at[r]
  BY <1>2 DEF SavedBy
<1>5. CASE Opens(r)
  <2>1. at' = [at EXCEPT ![r] = @ + 1] /\ pc[r] = "ready"
    BY <1>5 DEF Opens
  <2>2. j = at[r]
    BY <1>2, <1>3, <2>1 DEF SavedBy, TypeOK
  <2>3. Use(r).op = "load"
    BY <2>1 DEF TypeOK
  <2> QED BY <1>2, <2>2, <2>3 DEF Use
<1>6. CASE EndSave(r)
  <2>1. at' = [at EXCEPT ![r] = @ + 1] /\ pc[r] = "saving" /\ pc' = [pc EXCEPT ![r] = "next"]
    BY <1>4, <1>6 DEF EndSave
  <2>2. j = at[r]
    BY <1>2, <1>3, <2>1 DEF SavedBy, TypeOK
  <2>3. pc'[r] = "next"
    BY <2>1 DEF TypeOK
  <2> QED BY <1>2, <1>6, <2>1, <2>2, <2>3 DEF Use
<1>7. Opens(r) \/ EndSave(r)
  <2>1. ASSUME NEW q \in Run, Step(q) PROVE Opens(r) \/ EndSave(r) \/ at'[r] = at[r]
    <3>1. CASE q # r
      BY <2>1, <3>1, Others
    <3>2. CASE q = r
      BY <2>1, <3>2 DEF Step, Begin, Fetch, BeginDownload, EndDownload, Skip, OpenFails, BeginSave, CallFails, End
    <3> QED BY <3>1, <3>2
  <2>2. CASE (\E a \in Asset : Register(a)) \/ UNCHANGED vars
    BY <1>4, <2>2 DEF Register, vars
  <2> QED BY <1>4, <2>1, <2>2 DEF Next
<1> QED BY <1>5, <1>6, <1>7

\* Where an entry is looked for does not change with the state's other parts.
LEMMA SamePath ==
  ASSUME NEW e, UNCHANGED <<catalog, newest>>
  PROVE  Resolved(e)' = Resolved(e) /\ PathOf(e)' = PathOf(e) /\ AssetOf(e)' = AssetOf(e)
         /\ Pinned(e)' = Pinned(e)
  BY DEF Resolved, PathOf, AssetOf, Pinned

LEMMA SameCatalog ==
  ASSUME NEW e, catalog' = catalog
  PROVE  Private(e)' = Private(e) /\ Unforeseen(e)' = Unforeseen(e)
         /\ AssetOf(e)' = AssetOf(e) /\ Pinned(e)' = Pinned(e)
  BY DEF Private, MayMeet, Unforeseen, AssetOf, Pinned

\* Entries that cannot meet are never looked for in one place.
LEMMA Apart ==
  ASSUME TypeOK, NEW e \in Entry, NEW f \in Entry, ~MayMeet(e, f), NEW c, Reached(f, c)
  PROVE  PathOf(e) # c
  BY DEF MayMeet, PathOf, Resolved, Pinned, Reached

LEMMA ReachedPath ==
  ASSUME TypeOK, NEW e \in Entry
  PROVE  Reached(e, PathOf(e)) /\ \A c \in Copy : Pinned(e) /\ Reached(e, c) => c = PathOf(e)
<1>1. newest[AssetOf(e)] \in Nat
  BY EntryTyped
<1>2. Reached(e, PathOf(e))
  BY <1>1 DEF Reached, PathOf, Resolved
<1>3. ASSUME NEW c \in Copy, Pinned(e), Reached(e, c) PROVE c = PathOf(e)
  BY <1>3 DEF Reached, PathOf, Resolved, Copy
<1> QED BY <1>2, <1>3

-----------------------------------------------------------------------------
(* The inductive invariant, one part at a time. *)

StartInv == \A r \in Run : pc[r] = "new" => at[r] = 1

LEMMA StartStep == TypeOK /\ StartInv /\ [Next]_vars => StartInv'
<1> SUFFICES ASSUME TypeOK, StartInv, [Next]_vars PROVE StartInv'
  OBVIOUS
<1>1. ASSUME NEW r \in Run, Step(r), NEW q \in Run, pc'[q] = "new" PROVE at'[q] = 1
  <2>1. CASE q # r
    BY <1>1, <2>1, Others DEF StartInv
  <2>2. CASE q = r
    BY <1>1, <2>2 DEF Step, Begin, Fetch, BeginDownload, EndDownload, Skip, Opens, OpenFails, BeginSave, EndSave,
                      CallFails, End, Fail, TypeOK
  <2> QED BY <2>1, <2>2
<1>2. CASE (\E a \in Asset : Register(a)) \/ UNCHANGED vars
  BY <1>2 DEF Register, vars, StartInv
<1> QED BY <1>1, <1>2 DEF Next, StartInv

LEMMA AloneStep == TypeOK /\ AloneInv /\ [Next]_vars => AloneInv'
<1> SUFFICES ASSUME TypeOK, AloneInv, [Next]_vars, NEW r \in Run, NEW q \in Run,
                    alone'[r], Active(r)', Active(q)'
             PROVE  q = r
  BY DEF AloneInv
<1>1. alone[r]
  BY Shape
<1>2. CASE Active(r) /\ Active(q)
  BY <1>1, <1>2 DEF AloneInv
<1>3. ASSUME NEW n \in Run, Begin(n), n = r \/ n = q PROVE q = r
  <2>1. CASE \E o \in Run : Active(o)
    <3>1. alone'[r] = (alone[r] /\ ~Active(r) /\ r # n)
      BY <1>3, <2>1 DEF Begin
    <3>2. r # n /\ ~Active(r)
      BY <3>1
    <3>3. Active(r)' => Active(r)
      BY <1>3, <3>2 DEF Begin, Active, TypeOK
    <3> QED BY <3>2, <3>3
  <2>2. CASE ~\E o \in Run : Active(o)
    <3>1. \A o \in Run : Active(o)' => o = n
      BY <1>3, <2>2 DEF Begin, Active, TypeOK
    <3> QED BY <3>1
  <2> QED BY <2>1, <2>2
<1> QED BY <1>2, <1>3, Shape

LEMMA FetchStep == TypeOK /\ FetchInv /\ [Next]_vars => FetchInv'
<1> SUFFICES ASSUME TypeOK, FetchInv, [Next]_vars, NEW r \in Run, pc'[r] \in {"fetched", "downloading"}
             PROVE  Fetched(r, Use(r).entry)'
  BY DEF FetchInv
<1> DEFINE e == Use(r).entry
<1>1. CASE Fetch(r)
  <2>0. ~Fail(r)
    BY DEF Fail, TypeOK
  <2>1. pc' = [pc EXCEPT ![r] = "fetched"] /\ ~Unresolved(r, e) /\ Configured(r, e) /\ ~(Resolved(e) > newest[AssetOf(e)])
        /\ got' = [got EXCEPT ![r] = Resolved(e)] /\ since' = [since EXCEPT ![r] = newest[AssetOf(e)]]
    BY <1>1, <2>0 DEF Fetch
  <2>2. e \notin Produced(r)
    BY <1>1, <2>1 DEF Fetch, Downloads, Configured
  <2>3. e \in Entry /\ newest[AssetOf(e)] \in Nat
    BY <1>1, UseTyped, EntryTyped DEF Fetch, Facing
  <2>4. Use(r)' = Use(r) /\ Produced(r)' = Produced(r) /\ Pinned(e)' = Pinned(e) /\ AssetOf(e)' = AssetOf(e)
        /\ UNCHANGED <<catalog, newest>>
    BY <1>1 DEF Fetch, Use, Produced, Pinned, AssetOf, project
  <2>5. got'[r] = Resolved(e) /\ since'[r] = newest[AssetOf(e)]
    BY <2>1 DEF TypeOK
  <2> QED BY <2>2, <2>3, <2>4, <2>5 DEF Fetched, Resolved
<1>2. CASE /\ pc[r] \in {"fetched", "downloading"} /\ UNCHANGED <<catalog, plan>>
           /\ at'[r] = at[r] /\ got'[r] = got[r] /\ since'[r] = since[r]
  <2>1. e \in Entry
    BY <1>2, UseTyped DEF TypeOK
  <2>2. newest'[AssetOf(e)] >= newest[AssetOf(e)] /\ newest[AssetOf(e)] \in Nat /\ newest'[AssetOf(e)] \in Nat
    <3>1. AssetOf(e) \in Asset
      BY <2>1, EntryTyped
    <3>2. newest \in [Asset -> 0..MaxVersion] /\ newest' \in [Asset -> 0..MaxVersion]
      BY TypeStep DEF TypeOK
    <3>3. newest'[AssetOf(e)] >= newest[AssetOf(e)]
      BY <3>1, Shape
    <3> QED BY <3>1, <3>2, <3>3, LocalRunAssumption
  <2>3. got[r] \in Nat /\ since[r] \in Nat
    BY DEF TypeOK
  <2>4. Use(r)' = Use(r) /\ Produced(r)' = Produced(r) /\ Pinned(e)' = Pinned(e) /\ AssetOf(e)' = AssetOf(e)
    BY <1>2 DEF Use, Produced, Pinned, AssetOf
  <2> QED BY <1>2, <2>2, <2>3, <2>4 DEF FetchInv, Fetched
<1>3. ASSUME NEW q \in Run, Step(q), ~Fetch(r)
      PROVE  /\ pc[r] \in {"fetched", "downloading"} /\ UNCHANGED <<catalog, plan>>
             /\ at'[r] = at[r] /\ got'[r] = got[r] /\ since'[r] = since[r]
  <2>1. CASE q # r
    BY <1>3, <2>1, Others, SameProject
  <2>2. CASE q = r
    BY <1>3, <2>2 DEF Step, Begin, BeginDownload, EndDownload, Skip, Opens, OpenFails, BeginSave, EndSave,
                      CallFails, End, Fail, TypeOK, project
  <2> QED BY <2>1, <2>2
<1>4. CASE (\E a \in Asset : Register(a)) \/ UNCHANGED vars
  BY <1>2, <1>4 DEF Register, vars, project
<1> QED BY <1>1, <1>2, <1>3, <1>4 DEF Next

\* The newest versions are numbers, and none goes back.
LEMMA Newest ==
  ASSUME TypeOK, [Next]_vars, NEW a \in Asset
  PROVE  newest[a] \in Nat /\ newest'[a] \in Nat /\ newest'[a] >= newest[a]
<1>1. newest \in [Asset -> 0..MaxVersion] /\ newest' \in [Asset -> 0..MaxVersion]
  BY TypeStep DEF TypeOK
<1>2. newest'[a] >= newest[a]
  BY Shape
<1> QED BY <1>1, <1>2, LocalRunAssumption

\* A place that was reached for an entry counts as reached from then on.
LEMMA StillReached ==
  ASSUME TypeOK, [Next]_vars, NEW e \in Entry, NEW c \in Copy, Reached(e, c)
  PROVE  Reached(e, c)'
<1>1. AssetOf(e)' = AssetOf(e) /\ Pinned(e)' = Pinned(e) /\ catalog' = catalog /\ AssetOf(e) \in Asset
  BY Shape, EntryTyped DEF AssetOf, Pinned
<1>2. newest[AssetOf(e)] \in Nat /\ newest'[AssetOf(e)] \in Nat /\ newest'[AssetOf(e)] >= newest[AssetOf(e)]
  BY <1>1, Newest
<1>3. c[2] \in Nat
  BY LocalRunAssumption DEF Copy, Version
<1> QED BY <1>1, <1>2, <1>3 DEF Reached

LEMMA FutureStep == TypeOK /\ WriteInv /\ FutureInv /\ [Next]_vars => FutureInv'
<1> SUFFICES ASSUME TypeOK, WriteInv, FutureInv, [Next]_vars, NEW a \in Asset,
                    \A f \in Entry : AssetOf(f)' = a => ~Pinned(f)',
                    NEW v \in Version, v > newest'[a]
             PROVE  local'[<<a, v>>] = Missing
  BY DEF FutureInv
<1>1. newest'[a] >= newest[a] /\ newest'[a] \in Nat /\ newest[a] \in Nat /\ v \in Nat
  BY Newest, LocalRunAssumption DEF Version
<1>2. v > newest[a] /\ <<a, v>> \in Copy
  BY <1>1 DEF Copy
<1>3. \A f \in Entry : AssetOf(f) = a => ~Pinned(f)
  BY Shape DEF AssetOf, Pinned
<1>4. local[<<a, v>>] = Missing
  BY <1>2, <1>3 DEF FutureInv
<1>5. ASSUME NEW f \in Entry, NEW c \in Copy, Reached(f, c) PROVE c # <<a, v>>
  BY <1>1, <1>2, <1>3, <1>5 DEF Reached
<1>6. ASSUME NEW r \in Run, Starts(r) PROVE local'[<<a, v>>] = local[<<a, v>>]
  <2>0. PICK p : p = PathOf(Use(r).entry)
    OBVIOUS
  <2>1. p \in Copy /\ Use(r).entry \in Entry /\ \A d \in Copy \ {p} : local'[d] = local[d]
    BY <1>6, <2>0, StartsAt
  <2>2. p # <<a, v>>
    BY <1>5, <2>0, <2>1, ReachedPath
  <2> QED BY <1>2, <2>1, <2>2
<1>7. ASSUME NEW r \in Run, Ends(r) PROVE local'[<<a, v>>] = local[<<a, v>>]
  <2>1. PICK c \in Copy : Reached(Use(r).entry, c) /\ \A d \in Copy \ {c} : local'[d] = local[d]
    BY <1>7, EndsAt
  <2>2. Use(r).entry \in Entry
    BY <1>7, UseTyped DEF Ends
  <2> QED BY <1>2, <1>5, <2>1, <2>2
<1>8. CASE Elsewhere
  BY <1>4, <1>8 DEF Elsewhere
<1> QED BY <1>4, <1>6, <1>7, <1>8, Actions

LEMMA WriteStep == TypeOK /\ AloneInv /\ WriteInv /\ [Next]_vars => WriteInv'
<1> SUFFICES ASSUME TypeOK, AloneInv, WriteInv, [Next]_vars, NEW r \in Run
             PROVE  IF InWrite(r)'
                    THEN \E c \in Copy : writing'[r] = {c} /\ Reached(Use(r).entry, c)' /\ Mine(r, c)'
                    ELSE writing'[r] = {}
  BY DEF WriteInv
<1>0. plan' = plan /\ (alone'[r] => alone[r])
  BY Shape
<1>1. ASSUME InWrite(r), InWrite(r)', at'[r] = at[r], writing'[r] = writing[r],
             \A c \in Copy : writing[r] = {c} /\ Mine(r, c) => Mine(r, c)'
      PROVE  \E c \in Copy : writing'[r] = {c} /\ Reached(Use(r).entry, c)' /\ Mine(r, c)'
  <2>1. PICK c \in Copy : writing[r] = {c} /\ Reached(Use(r).entry, c) /\ Mine(r, c)
    BY <1>1 DEF WriteInv
  <2>2. Use(r)' = Use(r) /\ Use(r).entry \in Entry
    BY <1>0, <1>1, UseTyped DEF Use, InWrite, TypeOK
  <2>3. PICK e \in Entry : e = Use(r).entry
    BY <2>2
  <2>4. Reached(e, c)'
    BY <2>1, <2>3, StillReached
  <2>5. Reached(Use(r).entry, c)'
    BY <2>2, <2>3, <2>4 DEF Reached, AssetOf, Pinned
  <2> QED BY <1>1, <2>1, <2>5
<1>2. CASE Elsewhere
  <2>1. ASSUME NEW c, Mine(r, c) PROVE Mine(r, c)'
    BY <1>0, <1>2, <2>1 DEF Elsewhere, Mine
  <2> QED BY <1>1, <1>2, <2>1 DEF Elsewhere
<1>3. ASSUME NEW q \in Run, Starts(q)
      PROVE  IF InWrite(r)'
             THEN \E c \in Copy : writing'[r] = {c} /\ Reached(Use(r).entry, c)' /\ Mine(r, c)'
             ELSE writing'[r] = {}
  <2>0. PICK p : p = PathOf(Use(q).entry)
    OBVIOUS
  <2>1. /\ p \in Copy /\ Use(q).entry \in Entry /\ writing'[q] = {p}
        /\ \A o \in Run \ {q} : writing'[o] = writing[o] /\ pc'[o] = pc[o]
        /\ local'[p] = Torn({q} \cup Writers(p)) /\ \A d \in Copy \ {p} : local'[d] = local[d]
        /\ pc'[q] = IF pc[q] = "fetched" THEN "downloading" ELSE "saving"
    BY <1>3, <2>0, StartsAt
  <2>2. local'[p].from = "torn" /\ local'[p].by = {q} \cup Writers(p)
    BY <2>1, Kinds
  <2>3. Active(q) /\ at' = at
    BY <1>3 DEF Starts, Active
  <2>4. CASE r = q
    <3>1. Writers(p) \subseteq {q} \/ ~alone[q]
      BY <2>3, OnlyWriter
    <3>2. Mine(q, p)'
      BY <1>0, <2>2, <2>4, <3>1 DEF Mine
    <3>3. Reached(Use(q).entry, p)
      BY <2>0, <2>1, ReachedPath
    <3>4. Reached(Use(q).entry, p)'
      BY <1>3, <3>3 DEF Starts, Reached, AssetOf, Pinned, Use
    <3>5. InWrite(q)'
      BY <2>1 DEF InWrite
    <3> QED BY <2>1, <2>4, <3>2, <3>4, <3>5
  <2>5. CASE r # q
    <3>1. ASSUME NEW c \in Copy, writing[r] = {c}, Mine(r, c), InWrite(r) PROVE Mine(r, c)'
      <4>1. CASE c # p
        BY <1>0, <2>1, <3>1, <4>1 DEF Mine
      <4>2. CASE c = p
        <5>1. r \in Writers(p)
          BY <3>1, <4>2 DEF Writers
        <5>2. ~alone[r]
          BY <2>3, <2>5, <3>1 DEF AloneInv, InWrite, Active
        <5> QED BY <1>0, <2>2, <4>2, <5>1, <5>2 DEF Mine
      <4> QED BY <4>1, <4>2
    <3>2. InWrite(r)' = InWrite(r) /\ writing'[r] = writing[r] /\ at'[r] = at[r]
      BY <2>1, <2>3, <2>5 DEF InWrite
    <3>3. CASE ~InWrite(r)
      BY <3>2, <3>3 DEF WriteInv
    <3> QED BY <1>1, <3>1, <3>2, <3>3
  <2> QED BY <2>4, <2>5
<1>4. ASSUME NEW q \in Run, Ends(q)
      PROVE  IF InWrite(r)'
             THEN \E c \in Copy : writing'[r] = {c} /\ Reached(Use(r).entry, c)' /\ Mine(r, c)'
             ELSE writing'[r] = {}
  <2>1. PICK p \in Copy :
          /\ writing[q] = {p} /\ writing'[q] = {} /\ \A o \in Run \ {q} : writing'[o] = writing[o]
          /\ \A d \in Copy \ {p} : local'[d] = local[d]
          /\ local'[p] = local[p] \/ Writers(p) = {q}
    BY <1>4, EndsAt
  <2>2. CASE r = q
    <3>1. ~InWrite(q)'
      BY <1>4 DEF Ends, InWrite
    <3> QED BY <2>1, <2>2, <3>1
  <2>3. CASE r # q
    <3>1. pc'[r] = pc[r] /\ at'[r] = at[r] /\ writing'[r] = writing[r]
      BY <1>4, <2>1, <2>3 DEF Ends
    <3>2. ASSUME NEW c \in Copy, writing[r] = {c}, Mine(r, c) PROVE Mine(r, c)'
      <4>1. c = p => r \in Writers(p)
        BY <3>2 DEF Writers
      <4>2. local'[c] = local[c]
        BY <2>1, <2>3, <4>1
      <4> QED BY <1>0, <3>2, <4>2 DEF Mine
    <3>3. InWrite(r)' = InWrite(r)
      BY <3>1 DEF InWrite
    <3>4. CASE ~InWrite(r)
      BY <3>1, <3>3, <3>4 DEF WriteInv
    <3> QED BY <1>1, <3>1, <3>2, <3>3, <3>4
  <2> QED BY <2>2, <2>3
<1> QED BY <1>2, <1>3, <1>4, Actions

LEMMA SavedStep == TypeOK /\ SavedInv /\ [Next]_vars => SavedInv'
<1> SUFFICES ASSUME TypeOK, SavedInv, [Next]_vars, NEW r \in Run, NEW e \in Entry, SavedBy(r, e)'
             PROVE  Resolved(e)' \in Version
  BY DEF SavedInv
<1>1. Resolved(e) \in Version
  <2>1. CASE SavedBy(r, e)
    BY <2>1 DEF SavedInv
  <2>2. CASE ~SavedBy(r, e)
    <3>1. pc[r] = "saving" /\ Use(r).entry = e
      BY <2>2, NewlySaved
    <3>2. ~Unresolved(r, e)
      BY <3>1 DEF TypeOK
    <3> QED BY <3>2, PathTyped
  <2> QED BY <2>1, <2>2
<1>2. AssetOf(e) \in Asset /\ newest' \in [Asset -> 0..MaxVersion] /\ newest \in [Asset -> 0..MaxVersion]
  BY EntryTyped, TypeStep DEF TypeOK
<1>3. newest'[AssetOf(e)] >= newest[AssetOf(e)] /\ AssetOf(e)' = AssetOf(e) /\ Pinned(e)' = Pinned(e)
      /\ catalog' = catalog
  BY <1>2, Shape DEF AssetOf, Pinned
<1> QED BY <1>1, <1>2, <1>3, LocalRunAssumption DEF Resolved, Version

\* Saved entries are produced ones.
LEMMA SavedProduced ==
  ASSUME NEW r, NEW e, SavedBy(r, e) PROVE e \in Produced(r)
  BY DEF SavedBy, Produced

LEMMA NobodyNew ==
  ASSUME TypeOK, StartInv, [Next]_vars, NEW r \in Run, NEW e \in Entry, Active(r)', SavedBy(r, e)'
  PROVE  Active(r)
<1>1. CASE Begin(r)
  <2>1. at'[r] = 1 /\ plan' = plan
    BY <1>1, Shape DEF Begin, StartInv
  <2>2. plan[r] \in Seq([op : {"load", "save"}, entry : Entry])
    BY LocalRunAssumption DEF TypeOK
  <2>3. \A j \in DOMAIN plan[r] : j \in Nat /\ ~(j < 1)
    BY <2>2
  <2> QED BY <2>1, <2>3 DEF SavedBy
<1> QED BY <1>1, Shape

\* A registration moves the place of an entry that is not pinned to the new
\* version, where nothing is if no entry pins the asset.
LEMMA MovedTo ==
  ASSUME TypeOK, [Next]_vars, FutureInv, NEW e \in Entry, Unforeseen(e), PathOf(e)' # PathOf(e)
  PROVE  local[PathOf(e)'] = Missing
<1>1. \A f \in Entry : AssetOf(f) = AssetOf(e) => ~Pinned(f)
  BY DEF Unforeseen
<1>2. ~Pinned(e) /\ catalog' = catalog /\ AssetOf(e) \in Asset /\ AssetOf(e)' = AssetOf(e) /\ Pinned(e)' = Pinned(e)
  BY <1>1, Shape, EntryTyped DEF AssetOf, Pinned
<1>3. PathOf(e)' = <<AssetOf(e), newest'[AssetOf(e)]>> /\ PathOf(e) = <<AssetOf(e), newest[AssetOf(e)]>>
  BY <1>2 DEF PathOf, Resolved
<1>4. newest[AssetOf(e)] \in Nat /\ newest'[AssetOf(e)] \in Nat /\ newest'[AssetOf(e)] > newest[AssetOf(e)]
  BY <1>2, <1>3, Newest
<1>5. newest'[AssetOf(e)] \in Version
  <2>1. newest' \in [Asset -> 0..MaxVersion]
    BY TypeStep DEF TypeOK
  <2> QED BY <1>2, <1>4, <2>1, LocalRunAssumption DEF Version
<1> QED BY <1>1, <1>2, <1>3, <1>4, <1>5 DEF FutureInv

\* A lone run is the only one that begins or ends a write.
LEMMA LoneStep ==
  ASSUME TypeOK, AloneInv, WriteInv, [Next]_vars, NEW r \in Run, alone[r], Active(r)
  PROVE  Elsewhere \/ Starts(r) \/ Ends(r)
<1>1. ASSUME NEW q \in Run, Starts(q) \/ Ends(q) PROVE q = r
  <2>1. Active(q)
    BY <1>1 DEF Starts, Ends, InWrite, Active
  <2> QED BY <2>1 DEF AloneInv
<1> QED BY <1>1, Actions

LEMMA MovedStep ==
  TypeOK /\ AloneInv /\ FutureInv /\ WriteInv /\ MovedInv /\ [Next]_vars => MovedInv'
<1> SUFFICES ASSUME TypeOK, AloneInv, FutureInv, WriteInv, MovedInv, [Next]_vars,
                    NEW r \in Run, InWrite(r)', alone'[r], Unforeseen(Use(r).entry)'
             PROVE  PathOf(Use(r).entry)' \in writing'[r] \/ local'[PathOf(Use(r).entry)'] = Missing
  BY DEF MovedInv, Missing
<1>e. PICK e : e = Use(r).entry
  OBVIOUS
<1>0. alone[r] /\ catalog' = catalog /\ plan' = plan
  BY Shape
<1>1. ASSUME NEW q \in Run, Starts(q) PROVE PathOf(Use(r).entry)' \in writing'[r]
      \/ local'[PathOf(Use(r).entry)'] = Missing
  <2>1. CASE q = r
    <3>1. PICK p : p = PathOf(Use(r).entry)
      OBVIOUS
    <3>2. writing'[r] = {p} /\ PathOf(Use(r).entry)' = p
      BY <1>1, <2>1, <3>1, StartsAt
    <3> QED BY <3>2
  <2>2. CASE q # r
    <3>1. Active(q) /\ pc'[r] = pc[r]
      BY <1>1, <2>2 DEF Starts, Active, TypeOK
    <3>2. Active(r)
      BY <3>1 DEF InWrite, Active
    <3> QED BY <1>0, <2>2, <3>1, <3>2 DEF AloneInv
  <2> QED BY <2>1, <2>2
<1>2. ASSUME NEW q \in Run, Ends(q) PROVE FALSE
  <2>1. CASE q = r
    BY <1>2, <2>1 DEF Ends, InWrite
  <2>2. CASE q # r
    <3>1. Active(q) /\ pc'[r] = pc[r]
      BY <1>2, <2>2 DEF Ends, InWrite, Active
    <3>2. Active(r)
      BY <3>1 DEF InWrite, Active
    <3> QED BY <1>0, <2>2, <3>1, <3>2 DEF AloneInv
  <2> QED BY <2>1, <2>2
<1>3. CASE Elsewhere
  <2>1. InWrite(r) /\ at'[r] = at[r] /\ writing'[r] = writing[r] /\ local' = local
    BY <1>3 DEF Elsewhere
  <2>2. Use(r)' = Use(r) /\ e \in Entry
    BY <1>e, <1>0, <2>1, UseTyped DEF Use, InWrite, TypeOK
  <2>3. Unforeseen(e) /\ PathOf(Use(r).entry)' = PathOf(e)'
    <3>1. Unforeseen(e)' /\ PathOf(Use(r).entry)' = PathOf(e)'
      BY <1>e, <2>2 DEF Unforeseen, PathOf, Resolved, AssetOf, Pinned
    <3> QED BY <1>0, <3>1, SameCatalog
  <2>4. PathOf(e) \in writing[r] \/ local[PathOf(e)] = Missing
    BY <1>e, <1>0, <2>1, <2>3 DEF MovedInv
  <2>5. PathOf(e)' = PathOf(e) \/ local[PathOf(e)'] = Missing
    BY <2>2, <2>3, MovedTo
  <2> QED BY <2>1, <2>3, <2>4, <2>5
<1> QED BY <1>1, <1>2, <1>3, Actions

\* An entry without a pin that no other can meet has its asset to itself.
LEMMA Sole ==
  ASSUME NEW e \in Entry, Private(e), ~Pinned(e) PROVE Unforeseen(e)
  BY DEF Private, MayMeet, Unforeseen

LEMMA OwnStep ==
  TypeOK /\ StartInv /\ AloneInv /\ FetchInv /\ FutureInv /\ SavedInv /\ WriteInv /\ MovedInv /\ OwnInv
    /\ [Next]_vars => OwnInv'
<1> SUFFICES ASSUME TypeOK, StartInv, AloneInv, FetchInv, FutureInv, SavedInv, WriteInv, MovedInv, OwnInv, [Next]_vars,
                    NEW r \in Run, NEW e \in Entry,
                    Active(r)', alone'[r], Private(e)', SavedBy(r, e)'
             PROVE  local'[PathOf(e)'] \in {Made(r), Missing} \/ PathOf(e)' \in writing'[r]
  BY DEF OwnInv, Made, Missing
<1>1. Active(r) /\ alone[r] /\ Private(e) /\ catalog' = catalog /\ plan' = plan
  BY NobodyNew, Shape, SameCatalog
<1>p. PICK p : p = PathOf(e)
  OBVIOUS
<1>2. ASSUME SavedBy(r, e), Elsewhere
      PROVE  local'[PathOf(e)'] \in {Made(r), Missing} \/ PathOf(e)' \in writing'[r]
  <2>1. local' = local /\ writing'[r] = writing[r]
    BY <1>2 DEF Elsewhere
  <2>2. local[PathOf(e)] \in {Made(r), Missing} \/ PathOf(e) \in writing[r]
    BY <1>1, <1>2 DEF OwnInv
  <2>3. CASE Pinned(e)
    <3>1. PathOf(e)' = PathOf(e)
      BY <1>1, <2>3 DEF PathOf, Resolved, AssetOf, Pinned
    <3> QED BY <2>1, <2>2, <3>1
  <2>4. CASE ~Pinned(e)
    <3>1. PathOf(e)' = PathOf(e) \/ local[PathOf(e)'] = Missing
      BY <1>1, <2>4, Sole, MovedTo
    <3> QED BY <2>1, <2>2, <3>1
  <2> QED BY <2>3, <2>4
<1>3. ASSUME SavedBy(r, e), Starts(r)
      PROVE  local'[PathOf(e)'] \in {Made(r), Missing} \/ PathOf(e)' \in writing'[r]
  <2>0. PICK f : f = Use(r).entry
    OBVIOUS
  <2>1. PICK c : c = PathOf(f)
    OBVIOUS
  <2>2. c \in Copy /\ f \in Entry /\ writing'[r] = {c} /\ \A d \in Copy \ {c} : local'[d] = local[d]
    BY <1>3, <2>0, <2>1, StartsAt
  <2>3. PathOf(e)' = PathOf(e)
    BY <1>3, SamePath DEF Starts
  <2>4. CASE f = e
    BY <2>1, <2>2, <2>3, <2>4
  <2>5. CASE f # e
    <3>1. Reached(f, c) /\ ~MayMeet(e, f)
      BY <1>1, <2>1, <2>2, <2>5, ReachedPath DEF Private
    <3>2. PathOf(e) # c
      BY <2>2, <3>1, Apart
    <3>3. PathOf(e) \in Copy
      BY <1>3, EntryTyped DEF SavedInv, PathOf, Copy
    <3>4. writing[r] = {}
      BY <1>3 DEF Starts, WriteInv, InWrite
    <3>5. local[PathOf(e)] \in {Made(r), Missing}
      BY <1>1, <1>3, <3>4 DEF OwnInv
    <3> QED BY <2>2, <2>3, <3>2, <3>3, <3>5
  <2> QED BY <2>4, <2>5
<1>4. ASSUME SavedBy(r, e), Ends(r)
      PROVE  local'[PathOf(e)'] \in {Made(r), Missing} \/ PathOf(e)' \in writing'[r]
  <2>0. PICK f : f = Use(r).entry
    OBVIOUS
  <2>1. PICK c \in Copy : /\ writing[r] = {c} /\ Reached(f, c) /\ local'[c] = Data(r)
                          /\ \A d \in Copy \ {c} : local'[d] = local[d]
    BY <1>1, <1>4, <2>0, EndsAlone
  <2>2. PathOf(e)' = PathOf(e)
    BY <1>4, SamePath DEF Ends
  <2>3. f \in Entry
    BY <1>4, <2>0, UseTyped DEF Ends
  <2>4. CASE PathOf(e) = c
    <3>1. f = e
      BY <1>1, <2>1, <2>3, <2>4, Apart DEF Private
    <3>2. e \in Produced(r)
      BY <1>4, SavedProduced
    <3>3. pc[r] # "downloading"
      BY <2>0, <3>1, <3>2 DEF FetchInv, Fetched
    <3> QED BY <2>1, <2>2, <2>4, <3>3 DEF Data
  <2>5. CASE PathOf(e) # c
    <3>1. PathOf(e) \in Copy
      BY <1>4, EntryTyped DEF SavedInv, PathOf, Copy
    <3>2. local[PathOf(e)] \in {Made(r), Missing}
      BY <1>1, <1>4, <2>1, <2>5 DEF OwnInv
    <3> QED BY <2>1, <2>2, <2>5, <3>1, <3>2
  <2> QED BY <2>4, <2>5
<1>5. ASSUME ~SavedBy(r, e)
      PROVE  local'[PathOf(e)'] \in {Made(r), Missing} \/ PathOf(e)' \in writing'[r]
  <2>0. EndSave(r) /\ pc[r] = "saving" /\ Use(r).entry = e
    BY <1>5, NewlySaved
  <2>1. Ends(r) /\ InWrite(r) /\ ~Unresolved(r, e)
    BY <2>0, EndsSave DEF InWrite, TypeOK
  <2>2. PICK c \in Copy : /\ writing[r] = {c} /\ Reached(e, c) /\ local'[c] = Data(r)
                          /\ \A d \in Copy \ {c} : local'[d] = local[d]
    BY <1>1, <2>0, <2>1, EndsAlone
  <2>3. PathOf(e)' = PathOf(e) /\ PathOf(e) \in Copy
    BY <2>1, SamePath, PathTyped DEF Ends
  <2>4. CASE PathOf(e) = c
    BY <2>0, <2>2, <2>3, <2>4 DEF Data
  <2>5. CASE PathOf(e) # c
    <3>1. Unforeseen(e)
      BY <1>1, <2>2, <2>5, ReachedPath, Sole
    <3>2. local[PathOf(e)] = Missing
      BY <1>1, <2>0, <2>1, <2>2, <2>5, <3>1 DEF MovedInv
    <3> QED BY <2>2, <2>3, <2>5, <3>2
  <2> QED BY <2>4, <2>5
<1> QED BY <1>1, <1>2, <1>3, <1>4, <1>5, LoneStep

\* How a run comes to the opening of a file.
LEMMA ReadyFrom ==
  ASSUME TypeOK, [Next]_vars, NEW r \in Run, pc'[r] = "ready"
  PROVE  EndDownload(r) \/ Skip(r) \/ (pc[r] = "ready" /\ at'[r] = at[r] /\ since'[r] = since[r])
<1>1. ASSUME NEW q \in Run, Step(q), q # r PROVE pc[r] = "ready" /\ at'[r] = at[r] /\ since'[r] = since[r]
  BY <1>1, Others
<1>2. ASSUME Step(r) PROVE EndDownload(r) \/ Skip(r)
  BY <1>2 DEF Step, Begin, Fetch, BeginDownload, Opens, OpenFails, BeginSave, EndSave, CallFails, End, Fail, TypeOK
<1>3. CASE (\E a \in Asset : Register(a)) \/ UNCHANGED vars
  BY <1>3 DEF Register, vars
<1> QED BY <1>1, <1>2, <1>3 DEF Next

LEMMA ReadyStep ==
  TypeOK /\ AloneInv /\ FetchInv /\ FutureInv /\ WriteInv /\ MovedInv /\ ReadyInv /\ [Next]_vars => ReadyInv'
<1> SUFFICES ASSUME TypeOK, AloneInv, FetchInv, FutureInv, WriteInv, MovedInv, ReadyInv, [Next]_vars,
                    NEW r \in Run, NEW e \in Entry,
                    pc'[r] = "ready", alone'[r], e = Use(r)'.entry, e \notin Produced(r)'
             PROVE  Found(r, e)'
  BY DEF ReadyInv
<1>0. alone[r] /\ catalog' = catalog /\ plan' = plan
  BY Shape
<1>m. AssetOf(e)' = AssetOf(e) /\ Pinned(e)' = Pinned(e) /\ Unforeseen(e)' = Unforeseen(e)
  BY <1>0, SameCatalog
<1>1. CASE pc[r] = "ready" /\ at'[r] = at[r] /\ since'[r] = since[r]
  <2>1. Use(r)' = Use(r) /\ Produced(r)' = Produced(r)
    BY <1>0, <1>1 DEF Use, Produced
  <2>2. Found(r, e) /\ Active(r)
    BY <1>0, <1>1, <2>1 DEF ReadyInv, Active
  <2>3. newest[AssetOf(e)] \in Nat /\ newest'[AssetOf(e)] \in Nat /\ newest'[AssetOf(e)] >= newest[AssetOf(e)]
        /\ since[r] \in Nat
    <3>1. AssetOf(e) \in Asset /\ since[r] \in Nat
      BY <2>2, EntryTyped DEF TypeOK
    <3> QED BY <3>1, Newest
  <2>4. local' = local
    <3>1. ~Starts(r) /\ ~Ends(r)
      BY <1>1 DEF Starts, Ends, InWrite
    <3> QED BY <1>0, <2>2, <3>1, LoneStep DEF Elsewhere
  <2>5. Pinned(e) => PathOf(e)' = PathOf(e)
    BY <1>0, <1>m DEF PathOf, Resolved
  <2>6. Unforeseen(e) => PathOf(e)' = PathOf(e) \/ local[PathOf(e)'] = Missing
    BY <2>2, MovedTo
  <2>7. Pinned(e) => local'[PathOf(e)'] = Registered(catalog'[e].pin)
    BY <1>0, <2>2, <2>4, <2>5 DEF Found
  <2>8. Unforeseen(e) =>
          \/ local'[PathOf(e)'] = Missing
          \/ \E v \in since'[r]..newest'[AssetOf(e)] : local'[PathOf(e)'] = Registered(v)
    BY <1>1, <2>2, <2>3, <2>4, <2>6 DEF Found
  <2> QED BY <1>m, <2>7, <2>8 DEF Found
<1>2. CASE EndDownload(r)
  <2>e. Use(r)' = Use(r)
    BY <1>2 DEF EndDownload, Use
  <2>1. Ends(r) /\ pc[r] = "downloading" /\ InWrite(r) /\ at[r] \in DOMAIN plan[r] /\ ~Unresolved(r, e)
    BY <1>2, <2>e, EndsDownload DEF EndDownload, InWrite, TypeOK
  <2>2. PathOf(e) \in Copy /\ Fetched(r, e)
    BY <2>e, <2>1, PathTyped DEF FetchInv
  <2>3. Use(r)' = Use(r) /\ PathOf(e)' = PathOf(e) /\ newest' = newest /\ since' = since
    BY <1>2, <2>1, SamePath DEF Ends, EndDownload, Use
  <2>4. PICK c \in Copy : /\ writing[r] = {c} /\ Reached(e, c) /\ local'[c] = Registered(got[r])
                          /\ \A d \in Copy \ {c} : local'[d] = local[d]
    BY <1>0, <2>e, <2>1, EndsAlone DEF Data
  <2>5. ASSUME Pinned(e) PROVE local'[PathOf(e)'] = Registered(catalog'[e].pin)
    <3>1. c = PathOf(e)
      BY <2>2, <2>4, <2>5, ReachedPath
    <3>2. got[r] = catalog[e].pin
      BY <2>2, <2>5 DEF Fetched
    <3> QED BY <1>0, <2>3, <2>4, <3>1, <3>2
  <2>6. ASSUME Unforeseen(e)
        PROVE  \/ local'[PathOf(e)'] = Missing
               \/ \E v \in since'[r]..newest'[AssetOf(e)] : local'[PathOf(e)'] = Registered(v)
    <3>1. got[r] \in since[r]..newest[AssetOf(e)]
      BY <2>2, <2>6 DEF Fetched, Unforeseen
    <3>2. CASE PathOf(e) = c
      BY <2>3, <2>4, <3>1, <3>2
    <3>3. CASE PathOf(e) # c
      <4>1. local[PathOf(e)] = Missing
        BY <1>0, <2>e, <2>1, <2>4, <2>6, <3>3 DEF MovedInv
      <4> QED BY <2>2, <2>3, <2>4, <3>3, <4>1
    <3> QED BY <3>2, <3>3
  <2> QED BY <1>m, <2>5, <2>6 DEF Found
<1>3. CASE Skip(r)
  <2>1. e \in Produced(r) /\ Use(r)' = Use(r) /\ Produced(r)' = Produced(r)
    BY <1>0, <1>3 DEF Skip, Downloads, Use, Produced
  <2> QED BY <2>1
<1> QED BY <1>1, <1>2, <1>3, ReadyFrom

\* A file that is whole for a run stays so: others tear it only beside the run.
LEMMA WholeStep ==
  ASSUME TypeOK, AloneInv, WriteInv, [Next]_vars, NEW r \in Run, Active(r), Active(r)', NEW c \in Copy, Whole(r, c)
  PROVE  Whole(r, c)'
<1>0. alone'[r] => alone[r]
  BY Shape
<1>1. ASSUME local'[c] = local[c], c \notin writing'[r] => c \notin writing[r] PROVE Whole(r, c)'
  BY <1>0, <1>1 DEF Whole, Missing
<1>2. CASE Elsewhere
  <2>1. local' = local /\ writing'[r] = writing[r]
    BY <1>2 DEF Elsewhere
  <2> QED BY <1>1, <2>1
<1>3. ASSUME NEW q \in Run, Starts(q) PROVE Whole(r, c)'
  <2>0. PICK p : p = PathOf(Use(q).entry)
    OBVIOUS
  <2>1. /\ p \in Copy /\ writing'[q] = {p} /\ \A o \in Run \ {q} : writing'[o] = writing[o]
        /\ local'[p] = Torn({q} \cup Writers(p)) /\ \A d \in Copy \ {p} : local'[d] = local[d]
    BY <1>3, <2>0, StartsAt
  <2>2. writing[q] = {} /\ Active(q)
    BY <1>3 DEF Starts, WriteInv, InWrite, Active
  <2>3. CASE c # p
    <3>1. local'[c] = local[c]
      BY <2>1, <2>3
    <3>2. c \notin writing'[r] => c \notin writing[r]
      BY <2>1, <2>2
    <3> QED BY <1>1, <3>1, <3>2
  <2>4. CASE c = p
    <3>1. local'[c] # Missing /\ local'[c].by = {q} \cup Writers(p)
      BY <2>1, <2>4, Kinds
    <3>2. CASE q = r
      BY <2>1, <2>4, <3>1, <3>2 DEF Whole, Missing
    <3>3. CASE q # r
      <4>1. ~alone[r]
        BY <2>2, <3>3 DEF AloneInv
      <4>2. q \in local'[c].by \ {r}
        BY <3>1, <3>3
      <4> QED BY <1>0, <3>1, <4>1, <4>2 DEF Whole, Missing
    <3> QED BY <3>2, <3>3
  <2> QED BY <2>3, <2>4
<1>4. ASSUME NEW q \in Run, Ends(q) PROVE Whole(r, c)'
  <2>1. PICK p \in Copy :
          /\ writing[q] = {p} /\ Mine(q, p) /\ writing'[q] = {}
          /\ \A o \in Run \ {q} : writing'[o] = writing[o]
          /\ \A d \in Copy \ {p} : local'[d] = local[d]
          /\ \/ local'[p] = Data(q) /\ Writers(p) = {q}
             \/ local'[p] = local[p] /\ (Writers(p) # {q} \/ local[p].by # {q})
    BY <1>4, EndsAt
  <2>2. CASE c # p
    <3>1. c \notin writing'[r] => c \notin writing[r]
      BY <2>1, <2>2
    <3> QED BY <1>1, <2>1, <2>2, <3>1
  <2>3. CASE c = p /\ local'[p] = Data(q)
    <3>1. local'[c] # Missing /\ local'[c].from # "torn"
      BY <2>3, Kinds DEF Data
    <3> QED BY <3>1 DEF Whole, Missing
  <2>4. CASE c = p /\ q # r /\ local'[p] = local[p]
    BY <1>1, <2>1, <2>4
  <2>5. CASE c = p /\ q = r /\ local'[p] = local[p] /\ (Writers(p) # {q} \/ local[p].by # {q})
    <3>1. local[p].by # {r}
      <4>1. CASE Writers(p) # {r}
        <5>1. r \in Writers(p)
          BY <2>1, <2>5 DEF Writers
        <5>2. PICK o \in Run : o # r /\ p \in writing[o]
          BY <4>1, <5>1 DEF Writers
        <5>3. Mine(o, p)
          BY <5>2 DEF WriteInv
        <5> QED BY <5>2, <5>3 DEF Mine
      <4> QED BY <2>5, <4>1
    <3>2. r \in local[p].by /\ ~alone[r]
      BY <2>1, <2>5, <3>1 DEF Mine
    <3>3. local[p].by \ {r} # {}
      BY <3>1, <3>2
    <3>4. local[p] # Missing
      BY <2>5 DEF Whole
    <3> QED BY <1>0, <2>5, <3>2, <3>3, <3>4 DEF Whole, Missing
  <2> QED BY <2>1, <2>2, <2>3, <2>4, <2>5
<1> QED BY <1>2, <1>3, <1>4, Actions

\* So is the file that a write leaves, for the run that wrote it.
LEMMA WrittenWhole ==
  ASSUME TypeOK, AloneInv, WriteInv, KeptInv, [Next]_vars, NEW r \in Run, quiet[r], InWrite(r), Active(r)'
  PROVE  \E c \in Copy : c = PathOf(Use(r).entry) /\ Whole(r, c)'
<1>1. PICK c \in Copy : writing[r] = {c} /\ Mine(r, c)
  BY DEF WriteInv
<1>2. Active(r) /\ c = PathOf(Use(r).entry)
  BY <1>1 DEF KeptInv, InWrite, Active
<1>3. Whole(r, c)
  BY <1>1, Kinds DEF Whole, Mine
<1>4. Whole(r, c)'
  BY <1>2, <1>3, WholeStep
<1> QED BY <1>2, <1>4

LEMMA KeptStep ==
  TypeOK /\ StartInv /\ AloneInv /\ WriteInv /\ SavedInv /\ KeptInv /\ [Next]_vars => KeptInv'
<1> SUFFICES ASSUME TypeOK, StartInv, AloneInv, WriteInv, SavedInv, KeptInv, [Next]_vars,
                    NEW r \in Run, quiet'[r], Active(r)'
             PROVE  /\ \A e \in Entry : SavedBy(r, e)' => Whole(r, PathOf(e))'
                    /\ \A c \in writing'[r] : c = PathOf(Use(r).entry)'
                    /\ pc'[r] = "ready" /\ (Use(r).entry)' \notin Produced(r)' =>
                         Resolved(Use(r).entry)' \in Version /\ Whole(r, PathOf(Use(r).entry))'
  BY DEF KeptInv
<1>1. quiet[r] /\ catalog' = catalog /\ workspace' = workspace /\ plan' = plan
  BY Shape
<1>2. newest' = newest
  <2>1. ASSUME NEW a \in Asset, Register(a) PROVE FALSE
    <3>1. ~Active(r)
      BY <2>1 DEF Register
    <3> QED BY <2>1, <3>1 DEF Register, Active
  <2> QED BY <2>1, Shape
<1>3. \A e : PathOf(e)' = PathOf(e) /\ Resolved(e)' = Resolved(e)
  BY <1>1, <1>2 DEF PathOf, Resolved, AssetOf, Pinned
<1>4. ASSUME NEW e \in Entry, SavedBy(r, e)' PROVE Whole(r, PathOf(e))'
  <2>0. PICK p : p = PathOf(e)
    OBVIOUS
  <2>1. p = PathOf(e)'
    BY <1>3, <2>0
  <2>2. CASE SavedBy(r, e)
    <3>1. Active(r)
      BY <1>4, NobodyNew
    <3>2. p \in Copy
      BY <2>0, <2>2, EntryTyped DEF SavedInv, PathOf, Copy
    <3>3. Whole(r, p)
      BY <1>1, <2>0, <2>2, <3>1 DEF KeptInv
    <3>4. Whole(r, p)'
      BY <3>1, <3>2, <3>3, WholeStep
    <3> QED BY <2>1, <3>4 DEF Whole, Missing
  <2>3. CASE ~SavedBy(r, e)
    <3>1. EndSave(r) /\ pc[r] = "saving" /\ Use(r).entry = e
      BY <1>4, <2>3, NewlySaved
    <3>2. Whole(r, p)'
      BY <1>1, <2>0, <3>1, WrittenWhole DEF InWrite
    <3> QED BY <2>1, <3>2 DEF Whole, Missing
  <2> QED BY <2>2, <2>3
<1>5. ASSUME NEW c \in writing'[r] PROVE c = PathOf(Use(r).entry)'
  <2>1. CASE InWrite(r) /\ at'[r] = at[r] /\ writing'[r] = writing[r]
    <3>1. c = PathOf(Use(r).entry)
      BY <1>1, <1>5, <2>1 DEF KeptInv, InWrite, Active
    <3> QED BY <1>1, <1>2, <2>1, <3>1 DEF PathOf, Resolved, AssetOf, Pinned, Use
  <2>2. CASE Elsewhere
    BY <1>5, <2>1, <2>2 DEF Elsewhere
  <2>3. ASSUME NEW q \in Run, Starts(q) PROVE c = PathOf(Use(r).entry)'
    <3>0. PICK p : p = PathOf(Use(q).entry)
      OBVIOUS
    <3>1. writing'[q] = {p} /\ PathOf(Use(q).entry)' = p /\ \A o \in Run \ {q} : writing'[o] = writing[o]
      BY <2>3, <3>0, StartsAt
    <3>2. CASE q = r
      BY <1>5, <3>1, <3>2
    <3>3. CASE q # r
      <4>1. writing'[r] = writing[r] /\ at' = at
        BY <2>3, <3>1, <3>3 DEF Starts
      <4>2. InWrite(r)
        BY <1>5, <4>1 DEF WriteInv
      <4> QED BY <2>1, <4>1, <4>2
    <3> QED BY <3>2, <3>3
  <2>4. ASSUME NEW q \in Run, Ends(q) PROVE c = PathOf(Use(r).entry)'
    <3>1. writing'[q] = {} /\ \A o \in Run \ {q} : writing'[o] = writing[o]
      BY <2>4, EndsAt
    <3>2. q # r /\ writing'[r] = writing[r]
      BY <1>5, <3>1
    <3>3. at'[r] = at[r] /\ InWrite(r)
      BY <1>5, <2>4, <3>2 DEF Ends, WriteInv
    <3> QED BY <2>1, <3>2, <3>3
  <2> QED BY <2>2, <2>3, <2>4, Actions
<1>6. ASSUME pc'[r] = "ready", (Use(r).entry)' \notin Produced(r)'
      PROVE  Resolved(Use(r).entry)' \in Version /\ Whole(r, PathOf(Use(r).entry))'
  <2>0. PICK e : e = Use(r).entry
    OBVIOUS
  <2>p. PICK p : p = PathOf(e)
    OBVIOUS
  <2>k. ASSUME Use(r)' = Use(r), Resolved(e) \in Version, Whole(r, p)'
        PROVE  Resolved(Use(r).entry)' \in Version /\ Whole(r, PathOf(Use(r).entry))'
    <3>1. PathOf(Use(r).entry)' = p /\ Resolved(Use(r).entry)' = Resolved(e)
      BY <1>1, <1>2, <2>0, <2>p, <2>k DEF PathOf, Resolved, AssetOf, Pinned
    <3> QED BY <2>k, <3>1 DEF Whole, Missing
  <2>1. CASE EndDownload(r)
    <3>1. pc[r] = "downloading" /\ Use(r)' = Use(r) /\ at[r] \in DOMAIN plan[r] /\ ~Unresolved(r, e)
      BY <1>1, <2>0, <2>1 DEF EndDownload, Use, TypeOK
    <3>2. Resolved(e) \in Version
      BY <2>0, <3>1, UseTyped, PathTyped
    <3>3. Whole(r, p)'
      BY <1>1, <2>0, <2>p, <3>1, WrittenWhole DEF InWrite
    <3> QED BY <2>k, <3>1, <3>2, <3>3
  <2>2. CASE Skip(r)
    <3>1. e \in Produced(r) /\ Use(r)' = Use(r) /\ Produced(r)' = Produced(r)
      BY <1>1, <2>0, <2>2 DEF Skip, Downloads, Use, Produced
    <3> QED BY <1>6, <2>0, <3>1
  <2>3. CASE pc[r] = "ready" /\ at'[r] = at[r]
    <3>1. Use(r)' = Use(r) /\ Produced(r)' = Produced(r) /\ Active(r)
      BY <1>1, <2>3 DEF Use, Produced, Active
    <3>2. Resolved(e) \in Version /\ Whole(r, p) /\ e \in Entry
      BY <1>1, <1>6, <2>0, <2>p, <2>3, <3>1, UseTyped DEF KeptInv, TypeOK
    <3>3. p \in Copy
      BY <2>p, <3>2, EntryTyped DEF PathOf, Copy
    <3>4. Whole(r, p)'
      BY <3>1, <3>2, <3>3, WholeStep
    <3> QED BY <2>k, <3>1, <3>2, <3>4
  <2> QED BY <1>6, <2>1, <2>2, <2>3, ReadyFrom
<1> QED BY <1>4, <1>5, <1>6

-----------------------------------------------------------------------------
(* The theorems. *)

LocalInv ==
  /\ TypeOK /\ StartInv /\ AloneInv /\ FetchInv /\ FutureInv /\ SavedInv /\ WriteInv
  /\ MovedInv /\ OwnInv /\ ReadyInv /\ KeptInv

\* Every behaviour keeps the invariant.
THEOREM LocalInvariant == Spec => []LocalInv
<1>1. Init => LocalInv
  <2> SUFFICES ASSUME Init PROVE LocalInv
    OBVIOUS
  <2>1. TypeOK
    BY TypeInit
  <2>2. \A r \in Run : pc[r] = "new" /\ at[r] = 1 /\ ~Active(r) /\ ~InWrite(r) /\ writing[r] = {}
    BY DEF Init, Active, InWrite
  <2>3. ASSUME NEW r \in Run, NEW e, SavedBy(r, e) PROVE FALSE
    <3>1. plan[r] \in Seq([op : {"load", "save"}, entry : Entry])
      BY <2>1, LocalRunAssumption DEF TypeOK
    <3>2. \A j \in DOMAIN plan[r] : j \in Nat /\ ~(j < 1)
      BY <3>1
    <3> QED BY <2>2, <2>3, <3>2 DEF SavedBy
  <2>4. FutureInv
    BY LocalRunAssumption DEF Init, FutureInv, Copy, Version, Missing
  <2> QED BY <2>1, <2>2, <2>3, <2>4
      DEF LocalInv, StartInv, AloneInv, FetchInv, SavedInv, WriteInv, MovedInv, OwnInv, ReadyInv, KeptInv
<1>2. LocalInv /\ [Next]_vars => LocalInv'
  BY TypeStep, StartStep, AloneStep, FetchStep, FutureStep, SavedStep, WriteStep, MovedStep, OwnStep, ReadyStep,
     KeptStep DEF LocalInv
<1> QED BY <1>1, <1>2, PTL DEF Spec

\* What is loaded is either known already or read by an Opens of this step.
LEMMA NewRead ==
  ASSUME [Next]_vars, NEW d \in reads', d \notin reads
  PROVE  \E r \in Run : Opens(r) /\ pc[r] = "ready" /\ d = Read(r)
           /\ ~Unresolved(r, Use(r).entry) /\ local[PathOf(Use(r).entry)] # Missing
<1>1. ASSUME NEW r \in Run, Step(r)
      PROVE  Opens(r) /\ pc[r] = "ready" /\ d = Read(r)
             /\ ~Unresolved(r, Use(r).entry) /\ local[PathOf(Use(r).entry)] # Missing
  BY <1>1 DEF Step, Begin, Fetch, BeginDownload, EndDownload, Skip, Opens, OpenFails, BeginSave, EndSave,
              CallFails, End
<1> QED BY <1>1 DEF Next, Register, vars

\* A run that is alone loads what it saved itself or nothing, for every catalogue,
\* every plan, and any registrations and runs around it.
THEOREM OwnData == Spec => []OwnOrNothing
<1>1. Init => OwnOrNothing
  BY DEF Init, OwnOrNothing
<1>2. LocalInv /\ OwnOrNothing /\ [Next]_vars => OwnOrNothing'
  <2> SUFFICES ASSUME LocalInv, OwnOrNothing, [Next]_vars,
                      NEW d \in reads', d.produced, d.alone, Private(d.entry)'
               PROVE  d.data = Made(d.run)
    BY DEF OwnOrNothing, Made
  <2>0. TypeOK /\ Private(d.entry)
    BY Shape, SameCatalog DEF LocalInv
  <2>1. CASE d \in reads
    BY <2>0, <2>1 DEF OwnOrNothing
  <2>2. CASE d \notin reads
    <3>1. PICK r \in Run : pc[r] = "ready" /\ d = Read(r) /\ local[PathOf(Use(r).entry)] # Missing
      BY <2>2, NewRead
    <3>2. PICK e : e = Use(r).entry
      OBVIOUS
    <3>3. d.run = r /\ d.entry = e /\ d.data = local[PathOf(e)] /\ e \in Produced(r) /\ alone[r]
      BY <3>1, <3>2 DEF Read
    <3>4. e \in Entry /\ at[r] \in DOMAIN plan[r] /\ Use(r).op = "load"
      BY <2>0, <3>1, <3>2, UseTyped DEF TypeOK
    <3>5. PICK j \in DOMAIN plan[r] : plan[r][j].op = "save" /\ plan[r][j].entry = e
      BY <3>3 DEF Produced
    <3>6. plan[r] \in Plans
      BY <2>0 DEF TypeOK
    <3>7. j < at[r]
      BY <3>2, <3>4, <3>5, <3>6, LocalRunAssumption DEF Use
    <3>8. SavedBy(r, e) /\ Active(r)
      BY <3>1, <3>5, <3>7 DEF SavedBy, Active
    <3>9. local[PathOf(e)] \in {Made(r), Missing}
      <4>1. writing[r] = {}
        BY <3>1 DEF LocalInv, WriteInv, InWrite
      <4> QED BY <2>0, <3>3, <3>4, <3>8, <4>1 DEF LocalInv, OwnInv
    <3> QED BY <3>1, <3>2, <3>3, <3>9
  <2> QED BY <2>1, <2>2
<1> QED BY <1>1, <1>2, LocalInvariant, PTL DEF Spec

\* An input that a run loads alone is the pinned version, or one that was the
\* newest during the load.
THEOREM CurrentInput == Spec => []InputIsCurrent
<1>1. Init => InputIsCurrent
  BY DEF Init, InputIsCurrent
<1>2. LocalInv /\ InputIsCurrent /\ [Next]_vars => InputIsCurrent'
  <2> SUFFICES ASSUME LocalInv, InputIsCurrent, [Next]_vars PROVE InputIsCurrent'
    OBVIOUS
  <2>1. catalog' = catalog /\ workspace' = workspace
    BY Shape DEF LocalInv
  <2>2. \A d \in reads' : Pinned(d.entry)' = Pinned(d.entry) /\ Unforeseen(d.entry)' = Unforeseen(d.entry)
    BY <2>1, SameCatalog DEF Pinned
  <2>3. ASSUME NEW d \in reads', ~d.produced, d.alone
        PROVE  /\ Pinned(d.entry) => d.data = Registered(catalog[d.entry].pin)
               /\ Unforeseen(d.entry) => d.data \in {Registered(v) : v \in d.oldest .. d.newest}
    <3>1. CASE d \in reads
      BY <2>3, <3>1 DEF InputIsCurrent
    <3>2. CASE d \notin reads
      <4>1. PICK r \in Run : pc[r] = "ready" /\ d = Read(r) /\ local[PathOf(Use(r).entry)] # Missing
        BY <3>2, NewRead
      <4>2. PICK e : e = Use(r).entry
        OBVIOUS
      <4>3. /\ d.entry = e /\ d.data = local[PathOf(e)] /\ e \notin Produced(r) /\ alone[r]
            /\ d.oldest = since[r] /\ d.newest = newest[AssetOf(e)]
        BY <2>3, <4>1, <4>2 DEF Read
      <4>4. Found(r, e)
        <5>1. e \in Entry
          BY <4>1, <4>2, UseTyped DEF LocalInv, TypeOK
        <5> QED BY <4>1, <4>2, <4>3, <5>1 DEF LocalInv, ReadyInv
      <4> QED BY <4>1, <4>2, <4>3, <4>4 DEF Found
    <3> QED BY <3>1, <3>2
  <2> QED BY <2>1, <2>2, <2>3 DEF InputIsCurrent, Registered
<1> QED BY <1>1, <1>2, LocalInvariant, PTL DEF Spec

\* A supplied run fails only when a call or a write of it failed, a version was
\* registered while it ran, or another run had a hand in the file it opens.
THEOREM QuietSuccess == Spec => QuietRunSucceeds
<1>1. ASSUME LocalInv, [Next]_vars, NEW r \in Run, pc[r] # "failed", pc'[r] = "failed", Supplied(r)
      PROVE  ~quiet'[r] \/ (~alone[r] /\ Meets(r))
  <2>0. TypeOK
    BY <1>1 DEF LocalInv
  <2>1. ASSUME NEW q \in Run, Step(q), q # r PROVE FALSE
    BY <1>1, <2>0, <2>1, Others
  <2>2. CASE CallFails(r)
    BY <2>0, <2>2 DEF CallFails, TypeOK
  <2>3. ASSUME at[r] \in DOMAIN plan[r]
        PROVE  LET e == Use(r).entry IN
                 /\ e \in Entry /\ ~Unresolved(r, e) /\ Configured(r, e) /\ Resolved(e) \in 1..newest[AssetOf(e)]
                 /\ catalog[e].listed
    <3>1. PICK e : e = Use(r).entry
      OBVIOUS
    <3>2. e \in Entry /\ newest[AssetOf(e)] \in Nat
      BY <2>0, <2>3, <3>1, UseTyped, EntryTyped
    <3>3. workspace /\ catalog[e].listed /\ Resolved(e) \in 1..newest[AssetOf(e)]
      BY <1>1, <2>3, <3>1 DEF Supplied, Use
    <3>4. newest[AssetOf(e)] # 0
      BY <3>2, <3>3
    <3> QED BY <3>1, <3>2, <3>3, <3>4 DEF Unresolved, Configured
  <2>4. CASE Fetch(r)
    <3>1. at[r] \in DOMAIN plan[r] /\ Fail(r)
      BY <1>1, <2>0, <2>4 DEF Fetch, Facing, Fail, TypeOK
    <3>2. PICK e : e = Use(r).entry
      OBVIOUS
    <3>3. ~(Resolved(e) > newest[AssetOf(e)])
      BY <2>0, <2>3, <3>1, <3>2, EntryTyped
    <3>4. pc' = [pc EXCEPT ![r] = "fetched"]
      BY <2>3, <2>4, <3>1, <3>2, <3>3 DEF Fetch
    <3> QED BY <1>1, <2>0, <3>4 DEF TypeOK
  <2>5. CASE BeginSave(r)
    <3>1. at[r] \in DOMAIN plan[r]
      BY <2>5 DEF BeginSave, Facing
    <3>2. pc' = [pc EXCEPT ![r] = "saving"]
      BY <2>3, <2>5, <3>1 DEF BeginSave
    <3> QED BY <1>1, <2>0, <3>2 DEF TypeOK
  <2>6. CASE EndSave(r)
    <3>1. at[r] \in DOMAIN plan[r]
      BY <2>0, <2>6 DEF EndSave, TypeOK
    <3>2. pc' = [pc EXCEPT ![r] = "next"]
      BY <2>3, <2>6, <3>1 DEF EndSave
    <3> QED BY <1>1, <2>0, <3>2 DEF TypeOK
  <2>7. CASE OpenFails(r)
    <3>1. pc[r] = "ready" /\ at[r] \in DOMAIN plan[r] /\ Active(r) /\ Use(r).op = "load"
      BY <2>0, <2>7 DEF OpenFails, TypeOK, Active
    <3>2. PICK e : e = Use(r).entry
      OBVIOUS
    <3>3. e \in Entry /\ ~Unresolved(r, e)
      BY <2>3, <3>1, <3>2
    <3>4. local[PathOf(e)].from \in {"nowhere", "torn"}
      BY <2>7, <3>2, <3>3 DEF OpenFails
    <3>5. SUFFICES ASSUME quiet'[r] PROVE ~alone[r] /\ Meets(r)
      OBVIOUS
    <3>6. quiet[r]
      BY <3>5, <2>7 DEF OpenFails
    <3>7. Whole(r, PathOf(e))
      <4>1. CASE e \notin Produced(r)
        BY <1>1, <3>1, <3>2, <3>6, <4>1 DEF KeptInv, LocalInv
      <4>2. CASE e \in Produced(r)
        <5>1. PICK j \in DOMAIN plan[r] : plan[r][j].op = "save" /\ plan[r][j].entry = e
          BY <4>2 DEF Produced
        <5>2. plan[r] \in Plans
          BY <2>0 DEF TypeOK
        <5>3. SavedBy(r, e)
          BY <3>1, <3>2, <5>1, <5>2, LocalRunAssumption DEF Use, SavedBy
        <5> QED BY <1>1, <3>1, <3>3, <3>6, <5>3 DEF LocalInv, KeptInv
      <4> QED BY <4>1, <4>2
    <3>8. writing[r] = {}
      BY <1>1, <3>1 DEF LocalInv, WriteInv, InWrite
    <3>9. local[PathOf(e)].from = "torn"
      <4>1. PathOf(e) \in Copy
        BY <2>0, <3>3, PathTyped
      <4>2. local[PathOf(e)] \in Content /\ local[PathOf(e)] # Missing
        BY <2>0, <3>7, <4>1 DEF TypeOK, Whole
      <4> QED BY <3>4, <4>2, Kinds DEF Content
    <3> QED BY <3>1, <3>2, <3>7, <3>8, <3>9 DEF Whole, Meets
  <2>8. ASSUME Step(r), ~CallFails(r), ~Fetch(r), ~BeginSave(r), ~EndSave(r), ~OpenFails(r) PROVE FALSE
    BY <1>1, <2>0, <2>8 DEF Step, Begin, BeginDownload, EndDownload, Skip, Opens, End, TypeOK
  <2>9. CASE (\E a \in Asset : Register(a)) \/ UNCHANGED vars
    BY <1>1, <2>9 DEF Register, vars
  <2> QED BY <1>1, <2>1, <2>2, <2>4, <2>5, <2>6, <2>7, <2>8, <2>9 DEF Next
<1>2. LocalInv /\ [Next]_vars =>
        [\A r \in Run : pc[r] # "failed" /\ pc'[r] = "failed" /\ Supplied(r) =>
           ~quiet'[r] \/ (~alone[r] /\ Meets(r))]_vars
  BY <1>1
<1> QED BY <1>2, LocalInvariant, PTL DEF Spec, QuietRunSucceeds
=============================================================================

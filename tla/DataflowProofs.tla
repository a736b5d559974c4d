--------------------------- MODULE DataflowProofs ---------------------------
(***************************************************************************)
(* Proofs about Dataflow for every pipeline, every project and every       *)
(* number of ranks and deaths.                                             *)
(***************************************************************************)
EXTENDS Dataflow, FiniteSetTheorems, TLAPS

-----------------------------------------------------------------------------
(* The inductive invariant, in parts. *)

Typed ==
  /\ project \in Projects
  /\ TypeOK
  /\ read = [p \in Proc |-> read[p]] /\ unsaved = [p \in Proc |-> unsaved[p]]

\* A file being written is the place of an output that its process has yet to save, and
\* does not skip.
WriteInv ==
  \A w \in writing :
    /\ w.place.file \in unsaved[w.proc]
    /\ w.place = Place(StepOf[w.proc], w.place.file)
    /\ ~SkipsSave(w.proc, w.place.file)

\* A step runs only after the steps it is wired to.
OrderInv ==
  \A p \in Proc : pc[p] # "waiting" => \A m \in Upstream(StepOf[p]) : StepDone(m)

\* What a process has saved is there, unless another process of its step is writing
\* it again, or died.
SavedInv ==
  \A p \in Proc : \A d \in Outs[StepOf[p]] \ unsaved[p] :
    ~SkipsSave(p, d) =>
      LET place == Place(StepOf[p], d)
      IN /\ place \in DOMAIN files
         /\ \/ files[place] = "now"
            \/ \E w \in writing : w.place = place
            \/ StepFailed(StepOf[p])

\* A process that is done has nothing left to save.
DoneInv == \A p \in Proc : pc[p] = "done" => unsaved[p] = {}

\* The record of the saves, of which the ranks that skip have none.
RecordInv ==
  /\ \A s \in saved : s = [proc |-> s.proc, dataset |-> s.dataset] /\ ~SkipsSave(s.proc, s.dataset)
  /\ \A p \in Proc : \A d \in Outs[StepOf[p]] \ unsaved[p] :
       ~SkipsSave(p, d) => [proc |-> p, dataset |-> d] \in saved

FlowInv == Typed /\ WriteInv /\ OrderInv /\ SavedInv /\ DoneInv /\ RecordInv

-----------------------------------------------------------------------------
(* What depends on the project alone does not change. *)

\* No step edits the project.
LEMMA SameProject ==
  ASSUME [Next]_vars PROVE project' = project
BY DEF Next, Advance, Works, vars, Generate, Execute, Load, Finish, SkipSave, SaveFails,
  BeginSave, EndSave, Die

\* Where files go, who skips a save and who waits for whom follow from the project.
LEMMA Fixed ==
  ASSUME project' = project
  PROVE  /\ \A n, d : Place(n, d)' = Place(n, d)
         /\ \A p, d : SkipsSave(p, d)' = SkipsSave(p, d)
         /\ \A n : Upstream(n)' = Upstream(n)
<1>1. \A n, d : Place(n, d)' = Place(n, d)
  BY DEF Place, Rewired, HasDataPath, IsParamOrRootNonAsset, Registered, InCatalog, IsAsset,
    IsPipelineDataset, Catalog, DataPath, OwnFolder, AzureInput, Connection, LastNamed,
    SanitizeParamName, VersionedName, VersionAsked
<1>2. \A p, d : SkipsSave(p, d)' = SkipsSave(p, d)
  BY DEF SkipsSave, Catalog, IsMaster, EnvironmentOf
<1>3. \A n : Upstream(n)' = Upstream(n)
  BY DEF Upstream, AzureInput, Connection, LastNamed, SanitizeParamName, IsAsset, Catalog,
    VersionedName, VersionAsked
<1>4. QED BY <1>1, <1>2, <1>3

\* A version that is resolved is one of the versions of the asset.
LEMMA ContentTyped ==
  ASSUME Typed, NEW n \in Node, NEW d \in Inputs(n)
  PROVE  FileContent(Place(n, d)) \in Content
<1> DEFINE place == Place(n, d)
<1>1. CASE place \in DOMAIN files
  BY <1>1 DEF Typed, TypeOK, FileContent, Content
<1>2. CASE place.folder.area = "asset" /\ place.folder.name = place.file
  <2>1. place.folder.version \in Version
    <3>1. \A e : VersionedName(e) \in Version
      BY DataflowAssumption DEF VersionedName
    <3>2. place.folder \in {DataPath(n, d), OwnFolder(n, d)} BY DEF Place
    <3>3. OwnFolder(n, d).area # "asset" BY DEF OwnFolder, DataDirectory, StandardStorage, Folder
    <3>4. place.folder = DataPath(n, d) BY <1>2, <3>2, <3>3
    <3>5. \A m, key : OutputFolder(m, key).area # "asset" BY DEF OutputFolder, Folder
    <3>6. \A key : AzureInput(n, key).area = "asset" =>
             \E e : AzureInput(n, key) = AssetFolder(e, VersionedName(e))
      BY <3>5 DEF AzureInput, Connection, NoFolder, Folder
    <3>7. \E e : place.folder = AssetFolder(e, VersionedName(e))
      BY <1>2, <3>4, <3>5, <3>6 DEF DataPath
    <3>8. QED BY <3>1, <3>7 DEF AssetFolder, Folder
  <2>2. QED BY <1>2, <2>1 DEF FileContent, Content, Typed, TypeOK
<1>3. QED BY <1>1, <1>2 DEF FileContent, Content

\* Every step keeps the types; a process writes one file at a time.
LEMMA TypedStep ==
  ASSUME Typed, WriteInv, [Next]_vars
  PROVE  Typed'
<1> USE DataflowAssumption
<1>1. ASSUME Generate PROVE Typed'
  BY <1>1 DEF Typed, TypeOK, Generate
<1>2. ASSUME NEW p \in Proc, Execute(p) PROVE Typed'
  BY <1>2 DEF Typed, TypeOK, Execute
<1>3. ASSUME NEW p \in Proc, Load(p) PROVE Typed'
  <2> DEFINE found == [d \in Inputs(StepOf[p]) |-> FileContent(Place(StepOf[p], d))]
  <2>1. found \in [Inputs(StepOf[p]) -> Content] BY ContentTyped, DataflowAssumption
  <2>2. CASE pc' = [pc EXCEPT ![p] = "failed"] /\ UNCHANGED read
    BY <1>3, <2>2 DEF Typed, TypeOK, Load
  <2>3. CASE pc' = [pc EXCEPT ![p] = "saving"] /\ read' = [read EXCEPT ![p] = found]
    <3>1. read' = [q \in Proc |-> IF q = p THEN found ELSE read[q]] BY <2>3 DEF Typed
    <3>2. \A q \in Proc : read'[q] \in [Inputs(StepOf[q]) -> Content] BY <2>1, <3>1 DEF Typed, TypeOK
    <3>3. read' = [q \in Proc |-> read'[q]] /\ DOMAIN read' = Proc BY <3>1
    <3> HIDE DEF found
    <3>4. QED BY <1>3, <2>3, <3>2, <3>3 DEF Typed, TypeOK, Load
  <2>4. QED BY <1>3, <2>2, <2>3 DEF Load
<1>4. ASSUME NEW p \in Proc, Finish(p) PROVE Typed'
  BY <1>4 DEF Typed, TypeOK, WriteInv, Finish
<1>5. ASSUME NEW p \in Proc, NEW d \in Dataset, SkipSave(p, d) PROVE Typed'
  <2>1. /\ DOMAIN unsaved' = Proc /\ unsaved' = [q \in Proc |-> unsaved'[q]]
        /\ \A q \in Proc : unsaved'[q] \subseteq Outs[StepOf[q]]
        /\ UNCHANGED <<project, job, pc, read, writing, saved, files, faults>>
    BY <1>5 DEF Typed, TypeOK, SkipSave
  <2>2. QED BY <2>1 DEF Typed, TypeOK
<1>6. ASSUME NEW p \in Proc, NEW d \in Dataset, SaveFails(p, d) PROVE Typed'
  BY <1>6 DEF Typed, TypeOK, IsWriting, SaveFails
<1>7. ASSUME NEW p \in Proc, NEW d \in Dataset, BeginSave(p, d) PROVE Typed'
  <2> DEFINE new == [proc |-> p, place |-> Place(StepOf[p], d)]
  <2>1. writing' = writing \cup {new} /\ UNCHANGED <<project, job, pc, read, unsaved, saved, faults>>
    BY <1>7 DEF BeginSave
  <2>2. \A w \in writing : w.proc # p BY <1>7 DEF BeginSave, IsWriting
  <2>3. new.proc = p /\ new.place = Place(StepOf[p], d) /\ pc[p] = "saving" BY <1>7 DEF BeginSave
  <2>4. files' = WithFile(Place(StepOf[p], d), "torn") BY <1>7 DEF BeginSave
  <2>5. DOMAIN files' = DOMAIN files \cup {Place(StepOf[p], d)} BY <2>4 DEF WithFile
  <2>6. \A q \in DOMAIN files' : files'[q] \in {"torn", "now"}
    BY <2>4 DEF WithFile, Typed, TypeOK
  <2> HIDE DEF new
  <2>7. \A w \in writing' : w.proc \in Proc /\ pc[w.proc] = "saving" /\ w.place \in DOMAIN files'
    BY <2>1, <2>3, <2>5 DEF Typed, TypeOK
  <2>8. \A w, o \in writing' : w.proc = o.proc => w = o
    BY <2>1, <2>2, <2>3 DEF Typed, TypeOK
  <2>9. QED BY <2>1, <2>6, <2>7, <2>8 DEF Typed, TypeOK
<1>8. ASSUME NEW p \in Proc, NEW w \in writing, EndSave(p, w) PROVE Typed'
  <2>1. /\ writing' = writing \ {w} /\ w.proc = p
        /\ saved' = saved \cup {[proc |-> p, dataset |-> w.place.file]}
        /\ unsaved' = [unsaved EXCEPT ![p] = @ \ {w.place.file}]
        /\ pc' \in {pc, [pc EXCEPT ![p] = "failed"]}
        /\ UNCHANGED <<project, job, read, faults>>
    BY <1>8 DEF EndSave
  <2>a. pc' \in [Proc -> {"waiting", "loading", "saving", "done", "failed"}]
    <3>1. pc \in [Proc -> {"waiting", "loading", "saving", "done", "failed"}] BY DEF Typed, TypeOK
    <3>2. QED BY <2>1, <3>1
  <2>b. \A o \in writing' : o.proc # p /\ pc'[o.proc] = pc[o.proc] BY <2>1 DEF Typed, TypeOK
  <2>2. w.place.file \in Outs[StepOf[p]] BY <2>1 DEF WriteInv, Typed, TypeOK
  <2>3. \A s \in saved' : s.proc \in Proc /\ s.dataset \in Outs[StepOf[s.proc]]
    BY <2>1, <2>2 DEF Typed, TypeOK
  <2>4. \E c \in {"torn", "now"} : files' = WithFile(w.place, c) BY <1>8 DEF EndSave
  <2>5. DOMAIN files' = DOMAIN files \cup {w.place} BY <2>4 DEF WithFile
  <2>6. \A q \in DOMAIN files' : files'[q] \in {"torn", "now"}
    BY <2>4 DEF WithFile, Typed, TypeOK
  <2>7. unsaved' = [q \in Proc |-> IF q = p THEN unsaved[p] \ {w.place.file} ELSE unsaved[q]]
    BY <2>1 DEF Typed
  <2>8. /\ unsaved' = [q \in Proc |-> unsaved'[q]] /\ DOMAIN unsaved' = Proc
        /\ \A q \in Proc : unsaved'[q] \subseteq Outs[StepOf[q]]
    BY <2>7 DEF Typed, TypeOK
  <2>9. QED BY <2>1, <2>a, <2>b, <2>3, <2>5, <2>6, <2>8 DEF Typed, TypeOK
<1>9. ASSUME NEW p \in Proc, Die(p) PROVE Typed'
  BY <1>9 DEF Typed, TypeOK, Die
<1>10. CASE UNCHANGED vars
  BY <1>10 DEF Typed, TypeOK, vars
<1>11. QED BY <1>1, <1>2, <1>3, <1>4, <1>5, <1>6, <1>7, <1>8, <1>9, <1>10 DEF Next, Advance, Works

\* A file being written stays the place of an unsaved output of its process.
LEMMA WriteStep ==
  ASSUME Typed, WriteInv, [Next]_vars
  PROVE  WriteInv'
<1>0. /\ \A n, d : Place(n, d)' = Place(n, d)
      /\ \A p, d : SkipsSave(p, d)' = SkipsSave(p, d)
  BY SameProject, Fixed
<1>1. ASSUME Generate PROVE WriteInv'
  BY <1>1, <1>0 DEF WriteInv, Generate
<1>2. ASSUME NEW p \in Proc, Execute(p) PROVE WriteInv'
  BY <1>2, <1>0 DEF WriteInv, Execute
<1>3. ASSUME NEW p \in Proc, Load(p) PROVE WriteInv'
  BY <1>3, <1>0 DEF WriteInv, Load
<1>4. ASSUME NEW p \in Proc, Finish(p) PROVE WriteInv'
  BY <1>4, <1>0 DEF WriteInv, Finish
<1>5. ASSUME NEW p \in Proc, NEW d \in Dataset, SkipSave(p, d) PROVE WriteInv'
  BY <1>5, <1>0 DEF WriteInv, Typed, TypeOK, IsWriting, SkipSave
<1>6. ASSUME NEW p \in Proc, NEW d \in Dataset, SaveFails(p, d) PROVE WriteInv'
  BY <1>6, <1>0 DEF WriteInv, SaveFails
<1>7. ASSUME NEW p \in Proc, NEW d \in Dataset, BeginSave(p, d) PROVE WriteInv'
  <2> DEFINE new == [proc |-> p, place |-> Place(StepOf[p], d)]
  <2>1. writing' = writing \cup {new} /\ unsaved' = unsaved /\ d \in unsaved[p] /\ ~SkipsSave(p, d)
    BY <1>7 DEF BeginSave
  <2>2. new.proc = p /\ new.place = Place(StepOf[p], d) /\ new.place.file = d BY DEF Place
  <2> HIDE DEF new
  <2>3. QED BY <2>1, <2>2, <1>0 DEF WriteInv
<1>8. ASSUME NEW p \in Proc, NEW w \in writing, EndSave(p, w) PROVE WriteInv'
  <2>1. writing' = writing \ {w} /\ w.proc = p /\ unsaved' = [unsaved EXCEPT ![p] = @ \ {w.place.file}]
    BY <1>8 DEF EndSave
  <2>2. \A o \in writing' : o.proc # p BY <2>1 DEF Typed, TypeOK
  <2>3. \A o \in writing' : unsaved'[o.proc] = unsaved[o.proc] BY <2>1, <2>2 DEF Typed, TypeOK
  <2>4. QED BY <2>1, <2>3, <1>0 DEF WriteInv
<1>9. ASSUME NEW p \in Proc, Die(p) PROVE WriteInv'
  BY <1>9, <1>0 DEF WriteInv, Die
<1>10. CASE UNCHANGED vars
  BY <1>10, <1>0 DEF WriteInv, vars
<1>11. QED BY <1>1, <1>2, <1>3, <1>4, <1>5, <1>6, <1>7, <1>8, <1>9, <1>10 DEF Next, Advance, Works

\* Once a step has run its upstream steps stay done.
LEMMA OrderStep ==
  ASSUME Typed, OrderInv, [Next]_vars
  PROVE  OrderInv'
<1>0. \A n : Upstream(n)' = Upstream(n) BY SameProject, Fixed
<1>20. \A q \in Proc : pc[q] = "done" => pc'[q] = "done"
  BY DEF Typed, TypeOK, Next, Advance, Works, vars, Generate, Execute, Load, Finish, SkipSave,
    SaveFails, BeginSave, EndSave, Die
<1>21. \A m \in Node : StepDone(m) => StepDone(m)' BY <1>20 DEF StepDone, Processes
<1>22. \A n : Upstream(n) \subseteq Node BY DEF Upstream
<1>23. \A q \in Proc : pc'[q] # "waiting" => pc[q] # "waiting" \/ Execute(q)
  BY DEF Typed, TypeOK, Next, Advance, Works, vars, Generate, Execute, Load, Finish, SkipSave,
    SaveFails, BeginSave, EndSave, Die
<1>24. \A q \in Proc : Execute(q) => \A m \in Upstream(StepOf[q]) : StepDone(m) BY DEF Execute
<1>25. QED BY <1>0, <1>21, <1>22, <1>23, <1>24 DEF OrderInv

\* What a process saved stays there: a write is torn only while a process of the same
\* step writes, or after one died.
LEMMA SavedStep ==
  ASSUME Typed, WriteInv, SavedInv, [Next]_vars
  PROVE  SavedInv'
<1>0. /\ \A n, d : Place(n, d)' = Place(n, d)
      /\ \A p, d : SkipsSave(p, d)' = SkipsSave(p, d)
  BY SameProject, Fixed
<1>20. \A n : StepFailed(n) => StepFailed(n)'
  <2>1. \A q \in Proc : pc[q] = "failed" => pc'[q] = "failed"
    BY DEF Typed, TypeOK, Next, Advance, Works, vars, Generate, Execute, Load, Finish, SkipSave,
      SaveFails, BeginSave, EndSave, Die
  <2>2. QED BY <2>1 DEF StepFailed, Processes
<1>30. ASSUME UNCHANGED <<unsaved, writing, files>> PROVE SavedInv'
  BY <1>0, <1>20, <1>30 DEF SavedInv
<1>1. ASSUME Generate PROVE SavedInv'
  BY <1>1, <1>30 DEF Generate
<1>2. ASSUME NEW p \in Proc, Execute(p) PROVE SavedInv'
  BY <1>2, <1>30 DEF Execute
<1>3. ASSUME NEW p \in Proc, Load(p) PROVE SavedInv'
  BY <1>3, <1>30 DEF Load
<1>4. ASSUME NEW p \in Proc, Finish(p) PROVE SavedInv'
  BY <1>4, <1>30 DEF Finish
<1>5. ASSUME NEW p \in Proc, NEW d \in Dataset, SkipSave(p, d) PROVE SavedInv'
  <2>1. \A q \in Proc : \A e \in Outs[StepOf[q]] \ unsaved'[q] :
          e \in Outs[StepOf[q]] \ unsaved[q] \/ SkipsSave(q, e)
    BY <1>5 DEF SkipSave, Typed, TypeOK
  <2>2. UNCHANGED <<writing, files>> BY <1>5 DEF SkipSave
  <2>3. QED BY <2>1, <2>2, <1>0, <1>20 DEF SavedInv
<1>6. ASSUME NEW p \in Proc, NEW d \in Dataset, SaveFails(p, d) PROVE SavedInv'
  BY <1>6, <1>30 DEF SaveFails
<1>7. ASSUME NEW p \in Proc, NEW d \in Dataset, BeginSave(p, d) PROVE SavedInv'
  <2> DEFINE new == [proc |-> p, place |-> Place(StepOf[p], d)]
  <2>1. /\ writing' = writing \cup {new} /\ unsaved' = unsaved
        /\ files' = WithFile(new.place, "torn")
    BY <1>7 DEF BeginSave
  <2>2. \A place : place \in DOMAIN files => place \in DOMAIN files' /\ (place = new.place \/ files'[place] = files[place])
    BY <2>1 DEF WithFile
  <2>3. \A place : (\E w \in writing : w.place = place) => \E w \in writing' : w.place = place
    BY <2>1
  <2>4. \E w \in writing' : w.place = new.place BY <2>1
  <2> HIDE DEF new
  <2>5. QED BY <2>1, <2>2, <2>3, <2>4, <1>0, <1>20 DEF SavedInv
<1>8. ASSUME NEW p \in Proc, NEW w \in writing, EndSave(p, w) PROVE SavedInv'
  <2>1. /\ writing' = writing \ {w} /\ w.proc = p
        /\ unsaved' = [unsaved EXCEPT ![p] = @ \ {w.place.file}]
        /\ files' = WithFile(w.place, IF \E o \in writing \ {w} : o.place = w.place THEN "torn" ELSE "now")
    BY <1>8 DEF EndSave
  <2>2. \A place : place \in DOMAIN files \cup {w.place} =>
          place \in DOMAIN files' /\ (place = w.place \/ files'[place] = files[place])
    BY <2>1 DEF WithFile
  <2>3. \/ files'[w.place] = "now"
        \/ \E o \in writing' : o.place = w.place
    BY <2>1 DEF WithFile
  <2>4. \A place : place # w.place /\ (\E o \in writing : o.place = place) => \E o \in writing' : o.place = place
    BY <2>1
  <2>5. w.place = Place(StepOf[p], w.place.file) BY <2>1 DEF WriteInv
  <2>6. \A q \in Proc : \A e \in Outs[StepOf[q]] \ unsaved'[q] :
          e \in Outs[StepOf[q]] \ unsaved[q] \/ (q = p /\ e = w.place.file)
    BY <2>1 DEF Typed, TypeOK
  <2>7. SUFFICES ASSUME NEW q \in Proc, NEW e \in Outs[StepOf[q]] \ unsaved'[q], ~SkipsSave(q, e)
                 PROVE  /\ Place(StepOf[q], e) \in DOMAIN files'
                        /\ \/ files'[Place(StepOf[q], e)] = "now"
                           \/ \E o \in writing' : o.place = Place(StepOf[q], e)
                           \/ StepFailed(StepOf[q])'
    BY <1>0 DEF SavedInv
  <2>8. CASE Place(StepOf[q], e) = w.place BY <2>2, <2>3, <2>8
  <2>9. CASE Place(StepOf[q], e) # w.place
    <3>1. e \in Outs[StepOf[q]] \ unsaved[q] BY <2>5, <2>6, <2>9
    <3>2. QED BY <3>1, <2>2, <2>4, <2>7, <2>9, <1>20 DEF SavedInv
  <2>10. QED BY <2>8, <2>9
<1>9. ASSUME NEW p \in Proc, Die(p) PROVE SavedInv'
  <2>1. /\ writing' = {w \in writing : w.proc # p} /\ UNCHANGED <<unsaved, files>>
        /\ pc' = [pc EXCEPT ![p] = "failed"]
    BY <1>9 DEF Die
  <2>2. StepFailed(StepOf[p])' BY <2>1 DEF StepFailed, Processes, Typed, TypeOK
  <2>3. \A q \in Proc : \A e \in Outs[StepOf[q]] : \A w \in writing :
          w.place = Place(StepOf[q], e) /\ w.proc = p => StepOf[q] = StepOf[p]
    <3> SUFFICES ASSUME NEW q \in Proc, NEW e \in Outs[StepOf[q]], NEW w \in writing,
                        w.place = Place(StepOf[q], e), w.proc = p
                 PROVE  StepOf[q] = StepOf[p]
      OBVIOUS
    <3>1. w.place.file = e BY DEF Place
    <3>2. e \in Outs[StepOf[p]] BY <3>1 DEF WriteInv, Typed, TypeOK
    <3>3. QED BY <3>2, DataflowAssumption
  <2>4. SUFFICES ASSUME NEW q \in Proc, NEW e \in Outs[StepOf[q]] \ unsaved[q], ~SkipsSave(q, e)
                 PROVE  /\ Place(StepOf[q], e) \in DOMAIN files
                        /\ \/ files[Place(StepOf[q], e)] = "now"
                           \/ \E o \in writing' : o.place = Place(StepOf[q], e)
                           \/ StepFailed(StepOf[q])'
    BY <2>1, <1>0 DEF SavedInv
  <2>5. CASE \E w \in writing : w.place = Place(StepOf[q], e) /\ w.proc = p
    BY <2>2, <2>3, <2>4, <2>5 DEF SavedInv
  <2>6. CASE \A w \in writing : w.place = Place(StepOf[q], e) => w.proc # p
    BY <2>1, <2>4, <2>6, <1>20 DEF SavedInv
  <2>7. QED BY <2>5, <2>6
<1>10. CASE UNCHANGED vars
  BY <1>10, <1>30 DEF vars
<1>11. QED BY <1>1, <1>2, <1>3, <1>4, <1>5, <1>6, <1>7, <1>8, <1>9, <1>10 DEF Next, Advance, Works

\* A process is done only when all is saved.
LEMMA DoneStep ==
  ASSUME Typed, DoneInv, [Next]_vars
  PROVE  DoneInv'
<1>1. ASSUME Generate PROVE DoneInv'
  BY <1>1 DEF DoneInv, Typed, TypeOK, Generate
<1>2. ASSUME NEW p \in Proc, Execute(p) PROVE DoneInv'
  BY <1>2 DEF DoneInv, Typed, TypeOK, Execute
<1>3. ASSUME NEW p \in Proc, Load(p) PROVE DoneInv'
  BY <1>3 DEF DoneInv, Typed, TypeOK, Load
<1>4. ASSUME NEW p \in Proc, Finish(p) PROVE DoneInv'
  BY <1>4 DEF DoneInv, Typed, TypeOK, Finish
<1>5. ASSUME NEW p \in Proc, NEW d \in Dataset, SkipSave(p, d) PROVE DoneInv'
  BY <1>5 DEF DoneInv, Typed, TypeOK, SkipSave
<1>6. ASSUME NEW p \in Proc, NEW d \in Dataset, SaveFails(p, d) PROVE DoneInv'
  BY <1>6 DEF DoneInv, Typed, TypeOK, SaveFails
<1>7. ASSUME NEW p \in Proc, NEW d \in Dataset, BeginSave(p, d) PROVE DoneInv'
  BY <1>7 DEF DoneInv, Typed, TypeOK, BeginSave
<1>8. ASSUME NEW p \in Proc, NEW w \in writing, EndSave(p, w) PROVE DoneInv'
  BY <1>8 DEF DoneInv, Typed, TypeOK, EndSave
<1>9. ASSUME NEW p \in Proc, Die(p) PROVE DoneInv'
  BY <1>9 DEF DoneInv, Typed, TypeOK, Die
<1>10. CASE UNCHANGED vars
  BY <1>10 DEF DoneInv, Typed, TypeOK, vars
<1>11. QED BY <1>1, <1>2, <1>3, <1>4, <1>5, <1>6, <1>7, <1>8, <1>9, <1>10 DEF Next, Advance, Works

\* Every save is recorded, and no save of a rank that skips.
LEMMA RecordStep ==
  ASSUME Typed, WriteInv, RecordInv, [Next]_vars
  PROVE  RecordInv'
<1>0. \A p, d : SkipsSave(p, d)' = SkipsSave(p, d)
  BY SameProject, Fixed
<1>30. ASSUME UNCHANGED <<unsaved, saved>> PROVE RecordInv'
  BY <1>0, <1>30 DEF RecordInv
<1>1. ASSUME Generate PROVE RecordInv'
  BY <1>1, <1>30 DEF Generate
<1>2. ASSUME NEW p \in Proc, Execute(p) PROVE RecordInv'
  BY <1>2, <1>30 DEF Execute
<1>3. ASSUME NEW p \in Proc, Load(p) PROVE RecordInv'
  BY <1>3, <1>30 DEF Load
<1>4. ASSUME NEW p \in Proc, Finish(p) PROVE RecordInv'
  BY <1>4, <1>30 DEF Finish
<1>5. ASSUME NEW p \in Proc, NEW d \in Dataset, SkipSave(p, d) PROVE RecordInv'
  <2>1. \A q \in Proc : \A e \in Outs[StepOf[q]] \ unsaved'[q] :
          e \in Outs[StepOf[q]] \ unsaved[q] \/ SkipsSave(q, e)
    BY <1>5 DEF SkipSave, Typed, TypeOK
  <2>2. UNCHANGED saved BY <1>5 DEF SkipSave
  <2>3. QED BY <2>1, <2>2, <1>0 DEF RecordInv
<1>6. ASSUME NEW p \in Proc, NEW d \in Dataset, SaveFails(p, d) PROVE RecordInv'
  BY <1>6, <1>30 DEF SaveFails
<1>7. ASSUME NEW p \in Proc, NEW d \in Dataset, BeginSave(p, d) PROVE RecordInv'
  BY <1>7, <1>30 DEF BeginSave
<1>8. ASSUME NEW p \in Proc, NEW w \in writing, EndSave(p, w) PROVE RecordInv'
  <2> DEFINE new == [proc |-> p, dataset |-> w.place.file]
  <2>1. w.proc = p /\ saved' = saved \cup {new} /\ unsaved' = [unsaved EXCEPT ![p] = @ \ {w.place.file}]
    BY <1>8 DEF EndSave
  <2>2. ~SkipsSave(p, w.place.file) BY <2>1 DEF WriteInv
  <2>3. \A q \in Proc : \A e \in Outs[StepOf[q]] \ unsaved'[q] :
          e \in Outs[StepOf[q]] \ unsaved[q] \/ (q = p /\ e = w.place.file)
    BY <2>1 DEF Typed, TypeOK
  <2>4. new.proc = p /\ new.dataset = w.place.file OBVIOUS
  <2>5. \A s \in saved' : s = [proc |-> s.proc, dataset |-> s.dataset] /\ ~SkipsSave(s.proc, s.dataset)
    BY <2>1, <2>2, <2>4 DEF RecordInv
  <2>6. \A q \in Proc : \A e \in Outs[StepOf[q]] \ unsaved'[q] :
          ~SkipsSave(q, e) => [proc |-> q, dataset |-> e] \in saved'
    BY <2>1, <2>3 DEF RecordInv
  <2>7. QED BY <2>5, <2>6, <1>0 DEF RecordInv
<1>9. ASSUME NEW p \in Proc, Die(p) PROVE RecordInv'
  BY <1>9, <1>30 DEF Die
<1>10. CASE UNCHANGED vars
  BY <1>10, <1>30 DEF vars
<1>11. QED BY <1>1, <1>2, <1>3, <1>4, <1>5, <1>6, <1>7, <1>8, <1>9, <1>10 DEF Next, Advance, Works

-----------------------------------------------------------------------------
(* The invariant holds in every reachable state. *)

LEMMA FlowInit ==
  ASSUME Init PROVE FlowInv
<1> USE DataflowAssumption
<1>1. Typed
  <2>1. \A p \in Proc : read[p] \in [Inputs(StepOf[p]) -> Content] BY DEF Init, Content
  <2>2. QED BY <2>1 DEF Init, Typed, TypeOK
<1>2. WriteInv BY DEF Init, WriteInv
<1>3. OrderInv BY DEF Init, OrderInv
<1>4. SavedInv BY DEF Init, SavedInv
<1>5. DoneInv BY DEF Init, DoneInv
<1>6. RecordInv BY DEF Init, RecordInv
<1>7. QED BY <1>1, <1>2, <1>3, <1>4, <1>5, <1>6 DEF FlowInv

LEMMA FlowStep ==
  ASSUME FlowInv, [Next]_vars PROVE FlowInv'
BY TypedStep, WriteStep, OrderStep, SavedStep, DoneStep, RecordStep DEF FlowInv

\* The inductive invariant of a job holds for every pipeline, project and distribution.
THEOREM DataflowInvariant == Spec => []FlowInv
<1>1. Init => FlowInv BY FlowInit
<1>2. FlowInv /\ [Next]_vars => FlowInv' BY FlowStep
<1>3. QED BY <1>1, <1>2, PTL DEF Spec

\* Type correctness: every variable stays in its range, and a process writes one file
\* at a time (TypeOK).
THEOREM DataflowTypeCorrect == Spec => []TypeOK
<1>1. FlowInv => TypeOK BY DEF FlowInv, Typed
<1>2. QED BY <1>1, DataflowInvariant, PTL

-----------------------------------------------------------------------------
(* The wiring, when no two inputs of a node share a sanitised name. *)

\* The input of a step is connected to the dataset it is named for.
LEMMA WiredToItself ==
  ASSUME NamesApart, NEW n \in Node, NEW d \in Inputs(n)
  PROVE  AzureInput(n, SanitizeParamName(d)) = Connection(d)
<1>1. PICK i \in DOMAIN Ins[n] : Ins[n][i] = d BY DEF Inputs
<1>2. \A j \in DOMAIN Ins[n] : SanitizeParamName(Ins[n][j]) = SanitizeParamName(d) <=> j = i
  <2>1. SUFFICES ASSUME NEW j \in DOMAIN Ins[n], SanitizeParamName(Ins[n][j]) = SanitizeParamName(d)
                 PROVE  j = i
    BY <1>1
  <2>2. Ins[n][j] \in Inputs(n) BY DEF Inputs
  <2>3. Ins[n][j] = d BY <2>1, <2>2 DEF NamesApart
  <2>4. QED BY <1>1, <2>3, DataflowAssumption
<1>3. i <= i
  <2>1. i \in Nat BY DataflowAssumption
  <2>2. QED BY <2>1
<1>4. LastNamed(n, SanitizeParamName(d)) = d BY <1>1, <1>2, <1>3 DEF LastNamed
<1>5. QED BY <1>4 DEF AzureInput

\* A node is wired to each of the nodes it depends on in Kedro.
LEMMA EveryDependencyWired ==
  ASSUME NamesApart, NEW n \in Node, NEW d \in Inputs(n), NEW m \in Producers(d)
  PROVE  m \in Upstream(n) /\ Connection(d) = OutputFolder(m, SanitizeParamName(d))
<1>1. \A k \in Producers(d) : k = m BY DataflowAssumption DEF Producers
<1>2. Connection(d) = OutputFolder(m, SanitizeParamName(d)) BY <1>1 DEF Connection
<1>3. AzureInput(n, SanitizeParamName(d)) = OutputFolder(m, SanitizeParamName(d))
  BY <1>2, WiredToItself
<1>4. m \in Node BY DEF Producers
<1>5. OutputFolder(m, SanitizeParamName(d)).area = "output" /\ OutputFolder(m, SanitizeParamName(d)).node = m
  BY DEF OutputFolder, Folder
<1>6. m \in Upstream(n) BY <1>3, <1>4, <1>5 DEF Upstream
<1>7. QED BY <1>2, <1>6

\* No step runs before the steps it depends on in Kedro have finished, however their
\* data is stored (OrderPreserved), for every pipeline.
THEOREM KeepsOrder == Spec => []OrderPreserved
<1>1. FlowInv => OrderPreserved
  <2>1. SUFFICES ASSUME FlowInv, NamesApart, NEW p \in Proc, pc[p] # "waiting",
                        NEW m \in NodeDependencies(StepOf[p])
                 PROVE  StepDone(m)
    BY DEF OrderPreserved
  <2>2. PICK d \in Inputs(StepOf[p]) : m \in Producers(d) BY DEF NodeDependencies
  <2>3. StepOf[p] \in Node BY DataflowAssumption
  <2>4. m \in Upstream(StepOf[p]) BY <2>1, <2>2, <2>3, EveryDependencyWired
  <2>5. QED BY <2>1, <2>4 DEF FlowInv, OrderInv
<1>2. QED BY <1>1, DataflowInvariant, PTL

-----------------------------------------------------------------------------
(* The data. *)

\* Whatever framework launches a step, its master is the process of rank 0.
LEMMA MasterIsRankZero ==
  ASSUME Typed, NEW p \in Proc PROVE IsMaster(p) <=> Rank[p] = 0
<1> DEFINE c == project.distributed[StepOf[p]]
<1>1. StepOf[p] \in Node /\ Rank[p] \in Nat /\ c.framework \in D!Framework \cup {"none"}
  BY DataflowAssumption DEF Typed, D!Config
<1>2. c.framework = "none" => Rank[p] = 0
  <2>1. {Rank[q] : q \in {o \in Proc : StepOf[o] = StepOf[p]}} = 0..(D!ProcessCount(c) - 1)
    BY <1>1, DataflowAssumption DEF Typed
  <2>2. Rank[p] \in {Rank[q] : q \in {o \in Proc : StepOf[o] = StepOf[p]}} OBVIOUS
  <2>3. c.framework = "none" => D!ProcessCount(c) = 1 BY DEF D!ProcessCount
  <2>4. QED BY <2>1, <2>2, <2>3, <1>1
<1>3. QED BY <1>1, <1>2 DEF IsMaster, EnvironmentOf, D!Environment, D!IsDistributedEnvironment,
        D!IsDistributedMasterNode, D!Framework

\* Of a step that is done the process of rank 0 is done.
LEMMA MasterDone ==
  ASSUME Typed, NEW n \in Node, StepDone(n)
  PROVE  \E p \in Proc : StepOf[p] = n /\ IsMaster(p) /\ pc[p] = "done"
BY DataflowAssumption, MasterIsRankZero DEF StepDone, Processes

\* A rank that is 0 skips nothing.
LEMMA MasterSaves ==
  ASSUME NEW p, NEW d, IsMaster(p) PROVE ~SkipsSave(p, d)
BY DEF SkipsSave

\* What a finished step produces is complete.
LEMMA DoneStepsWrote ==
  ASSUME FlowInv, NEW m \in Node, StepDone(m), NEW d \in Outs[m]
  PROVE  Place(m, d) \in DOMAIN files /\ files[Place(m, d)] = "now"
<1>1. PICK p \in Proc : StepOf[p] = m /\ IsMaster(p) /\ pc[p] = "done" BY MasterDone DEF FlowInv
<1>2. d \in Outs[StepOf[p]] \ unsaved[p] BY <1>1 DEF FlowInv, DoneInv
<1>3. ~SkipsSave(p, d) BY <1>1, MasterSaves
<1>4. /\ Place(m, d) \in DOMAIN files
      /\ \/ files[Place(m, d)] = "now"
         \/ \E w \in writing : w.place = Place(m, d)
         \/ StepFailed(m)
  BY <1>1, <1>2, <1>3 DEF FlowInv, SavedInv
<1>5. ~StepFailed(m) BY DEF StepFailed, StepDone
<1>6. ASSUME NEW w \in writing PROVE w.place # Place(m, d)
  <2>1. SUFFICES ASSUME w.place = Place(m, d) PROVE FALSE OBVIOUS
  <2>2. w.place.file = d BY <2>1 DEF Place
  <2>3. d \in Outs[StepOf[w.proc]] /\ w.proc \in Proc /\ pc[w.proc] = "saving"
    BY <2>2 DEF FlowInv, WriteInv, Typed, TypeOK
  <2>4. StepOf[w.proc] = m BY <2>3, DataflowAssumption
  <2>5. QED BY <2>3, <2>4 DEF StepDone, Processes
<1>7. QED BY <1>4, <1>5, <1>6

\* The consumer looks where the producer wrote, whatever kind of entry the dataset has,
\* unless a pattern gives it.
LEMMA SamePlace ==
  ASSUME NamesApart, NoPatterns, NEW n \in Node, NEW d \in Inputs(n), NEW m \in Producers(d),
         d \in Dataset
  PROVE  Place(n, d) = Place(m, d)
<1>1. d \in Outs[m] /\ m \in Node BY DEF Producers
<1>2. CASE Rewired(d)
  <2>1. DataPath(m, d) = OutputFolder(m, SanitizeParamName(d)) BY <1>1 DEF DataPath
  <2>2. AzureInput(n, SanitizeParamName(d)) = OutputFolder(m, SanitizeParamName(d))
    BY EveryDependencyWired, WiredToItself
  <2>3. d \in Outs[n] => n = m BY <1>1, DataflowAssumption
  <2>4. DataPath(n, d) = DataPath(m, d) BY <2>1, <2>2, <2>3 DEF DataPath
  <2>5. QED BY <1>2, <2>4 DEF Place
<1>3. CASE ~Rewired(d)
  <2>1. HasDataPath(d) BY <1>1 DEF HasDataPath, Produced
  <2>2. ~IsPipelineDataset(d) BY <1>3, <2>1 DEF Rewired, NoPatterns, Registered
  <2>3. OwnFolder(n, d) = OwnFolder(m, d) BY <2>2 DEF OwnFolder
  <2>4. QED BY <1>3, <2>3 DEF Place
<1>4. QED BY <1>2, <1>3

\* A step that consumes what another step of the job produces loads what that step wrote
\* in this job (ReadsWhatWasWritten), whatever the ranks and the deaths.
THEOREM DataArrives == Spec => []ReadsWhatWasWritten
<1>1. Init => ReadsWhatWasWritten BY DEF Init, ReadsWhatWasWritten, Loaded
<1>2. ASSUME FlowInv, ReadsWhatWasWritten, [Next]_vars PROVE ReadsWhatWasWritten'
  <2>0. /\ project' = project /\ (NamesApart' <=> NamesApart) /\ (NoPatterns' <=> NoPatterns)
    BY <1>2, SameProject DEF NamesApart, NoPatterns, SanitizeParamName, Catalog, IsPipelineDataset, IsAsset
  <2>1. SUFFICES ASSUME NamesApart, NoPatterns, NEW p \in Proc, Loaded(p)',
                        NEW d \in Inputs(StepOf[p]) \cap Produced
                 PROVE  read'[p][d] = "now"
    BY <1>2, <2>0 DEF ReadsWhatWasWritten, Inputs, Produced
  <2>2. CASE Load(p)
    <3>1. CASE pc'[p] = "failed" BY <2>1, <3>1 DEF Loaded
    <3>2. CASE read' = [read EXCEPT ![p] = [e \in Inputs(StepOf[p]) |-> FileContent(Place(StepOf[p], e))]]
      <4>1. read'[p][d] = FileContent(Place(StepOf[p], d)) BY <1>2, <3>2 DEF FlowInv, Typed, TypeOK
      <4>2. PICK m \in Node : m \in Producers(d) BY DEF Produced, Producers
      <4>3. StepOf[p] \in Node /\ d \in Dataset /\ d \in Outs[m]
        BY <4>2, DataflowAssumption DEF Producers
      <4>4. m \in Upstream(StepOf[p]) BY <2>1, <4>2, <4>3, EveryDependencyWired
      <4>5. StepDone(m) BY <1>2, <2>2, <4>4 DEF FlowInv, OrderInv, Load
      <4>6. files[Place(m, d)] = "now" /\ Place(m, d) \in DOMAIN files BY <1>2, <4>3, <4>5, DoneStepsWrote
      <4>7. Place(StepOf[p], d) = Place(m, d) BY <2>1, <4>2, <4>3, SamePlace
      <4>8. QED BY <4>1, <4>6, <4>7 DEF FileContent
    <3>3. pc' = [pc EXCEPT ![p] = "failed"] => pc'[p] = "failed" BY <1>2 DEF FlowInv, Typed, TypeOK
    <3>4. QED BY <2>2, <3>1, <3>2, <3>3 DEF Load
  <2>3. CASE ~Load(p)
    <3>1. Loaded(p) /\ read'[p] = read[p]
      BY <1>2, <2>1, <2>3 DEF Loaded, FlowInv, Typed, TypeOK, Next, Advance, Works, vars, Generate,
        Execute, Load, Finish, SkipSave, SaveFails, BeginSave, EndSave, Die
    <3>2. QED BY <1>2, <2>1, <3>1 DEF ReadsWhatWasWritten
  <2>4. QED BY <2>2, <2>3
<1>3. QED BY <1>1, <1>2, DataflowInvariant, PTL DEF Spec

\* One process writes an intermediate that is not an asset, and somebody has before its
\* step ends, however many ranks run it (OneWriter).
THEOREM OneRankWrites == Spec => []OneWriter
<1>1. ASSUME FlowInv PROVE OneWriter
  <2>1. SUFFICES ASSUME NEW d \in Produced, Catalog(d).kind \in {"pipeline", "absent"}
                 PROVE  /\ Cardinality({s \in saved : s.dataset = d}) <= 1
                        /\ \A n \in Producers(d) : StepDone(n) => \E s \in saved : s.dataset = d
    BY DEF OneWriter
  <2> DEFINE writers == {s \in saved : s.dataset = d}
  <2>2. \A s \in writers : IsMaster(s.proc) /\ s.proc \in Proc /\ d \in Outs[StepOf[s.proc]]
                          /\ s = [proc |-> s.proc, dataset |-> d]
    BY <1>1, <2>1 DEF FlowInv, RecordInv, Typed, TypeOK, SkipsSave
  <2>3. \A s, t \in writers : StepOf[s.proc] = StepOf[t.proc] BY <2>2, DataflowAssumption
  <2>4. \A s, t \in writers : s.proc = t.proc BY <1>1, <2>2, <2>3, DataflowAssumption, MasterIsRankZero DEF FlowInv
  <2>5. \A s, t \in writers : s = t BY <2>2, <2>4
  <2>6. Cardinality(writers) <= 1
    <3>1. CASE writers = {}
      <4>1. Cardinality(writers) = 0 BY <3>1, FS_EmptySet
      <4>2. QED BY <4>1
    <3>2. CASE writers # {}
      <4>1. PICK x : x \in writers BY <3>2
      <4>2. writers = {x} BY <2>5, <4>1
      <4>3. Cardinality({x}) = 1 BY FS_Singleton
      <4> HIDE DEF writers
      <4>4. QED BY <4>2, <4>3
    <3>3. QED BY <3>1, <3>2
  <2>7. ASSUME NEW n \in Producers(d), StepDone(n) PROVE \E s \in saved : s.dataset = d
    <3>1. n \in Node /\ d \in Outs[n] BY DEF Producers
    <3>2. PICK p \in Proc : StepOf[p] = n /\ IsMaster(p) /\ pc[p] = "done"
      BY <1>1, <2>7, <3>1, MasterDone DEF FlowInv
    <3>3. d \in Outs[StepOf[p]] \ unsaved[p] /\ ~SkipsSave(p, d)
      BY <1>1, <3>1, <3>2, MasterSaves DEF FlowInv, DoneInv
    <3>4. [proc |-> p, dataset |-> d] \in saved BY <1>1, <3>3 DEF FlowInv, RecordInv
    <3>5. [proc |-> p, dataset |-> d].dataset = d OBVIOUS
    <3>6. QED BY <3>4, <3>5
  <2>8. QED BY <2>6, <2>7
<1>2. QED BY <1>1, DataflowInvariant, PTL

-----------------------------------------------------------------------------
(* The assets, and what the failure of a step takes. *)

\* An input of a step is an input of the pipeline or a product of a step.
LEMMA RootInput ==
  ASSUME NEW m \in Node, NEW d \in Inputs(m)
  PROVE  d \in Dataset /\ (d \in PipelineInputs <=> d \notin Produced)
<1>1. PICK i \in DOMAIN Ins[m] : d = Ins[m][i] BY DEF Inputs
<1>2. Ins[m] \in Seq(Dataset) BY DataflowAssumption
<1>3. d \in Dataset BY <1>1, <1>2
<1> DEFINE consumed == UNION {Inputs(n) : n \in Node}
<1>4. d \in consumed OBVIOUS
<1>5. PipelineInputs = consumed \ Produced BY DEF PipelineInputs
<1> HIDE DEF consumed
<1>6. QED BY <1>3, <1>4, <1>5

\* The files of a job are those of what its steps produce.
OutputsInv == \A place \in DOMAIN files : place.file \in Produced

\* What the steps produce is the pipeline's, and constant.
LEMMA SameProducts == Produced' = Produced
BY DEF Produced

\* Only a step writes a file, and only of a dataset it produces.
LEMMA OutputsStep ==
  ASSUME FlowInv, OutputsInv, [Next]_vars PROVE OutputsInv'
<1> USE DataflowAssumption
<1>1. ASSUME NEW p \in Proc, NEW d \in Dataset, BeginSave(p, d) PROVE OutputsInv'
  <2>1. DOMAIN files' = DOMAIN files \cup {Place(StepOf[p], d)} BY <1>1 DEF BeginSave, WithFile
  <2>2. Place(StepOf[p], d).file = d BY DEF Place
  <2>3. d \in Outs[StepOf[p]] /\ StepOf[p] \in Node BY <1>1 DEF BeginSave, FlowInv, Typed, TypeOK
  <2>4. d \in Produced BY <2>3 DEF Produced
  <2>5. QED BY <2>1, <2>2, <2>4, SameProducts DEF OutputsInv
<1>2. ASSUME NEW p \in Proc, NEW w \in writing, EndSave(p, w) PROVE OutputsInv'
  <2>1. DOMAIN files' = DOMAIN files \cup {w.place} BY <1>2 DEF EndSave, WithFile
  <2>2. w.place \in DOMAIN files BY DEF FlowInv, Typed, TypeOK
  <2>3. \A place \in DOMAIN files' : place \in DOMAIN files BY <2>1, <2>2
  <2>4. \A place \in DOMAIN files : place.file \in Produced BY DEF OutputsInv
  <2>5. QED BY <2>3, <2>4, SameProducts DEF OutputsInv
<1>3. ASSUME UNCHANGED files PROVE OutputsInv'
  BY <1>3, SameProducts DEF OutputsInv
<1>4. \/ UNCHANGED files
      \/ \E p \in Proc : \/ \E d \in Dataset : BeginSave(p, d)
                         \/ \E w \in writing : EndSave(p, w)
  BY DEF Next, Advance, Works, vars, Generate, Execute, Load, Finish, SkipSave, SaveFails, Die
<1>5. QED BY <1>1, <1>2, <1>3, <1>4

\* No step of a job writes over an input of its pipeline.
LEMMA OnlyOutputsWritten == Spec => []OutputsInv
<1>1. Init => OutputsInv BY DEF Init, OutputsInv
<1>2. FlowInv /\ OutputsInv /\ [Next]_vars => OutputsInv' BY OutputsStep
<1>3. QED BY <1>1, <1>2, DataflowInvariant, PTL DEF Spec

\* What an entry of the catalogue is.
LEMMA EntryTyped ==
  ASSUME Typed, NEW d \in Dataset
  PROVE  /\ Catalog(d).kind \in Kind
         /\ VersionAsked(d) \in Version \cup {"none", "latest"}
         /\ VersionedName(d) \in Version
<1>1. project.catalog \in [Dataset -> Entry] /\ project.load_versions \in [Dataset -> Version \cup {"none", "latest"}]
  BY CatalogAssumption DEF Typed
<1>2. project.catalog[d] \in Entry BY <1>1
<1>3. QED BY <1>1, <1>2, DataflowAssumption DEF Catalog, Entry, VersionAsked, VersionedName

\* An asset that no step produces is read in the folder of the version that was asked for.
LEMMA AssetContent ==
  ASSUME FlowInv, OutputsInv, NamesApart, NoPatterns, NEW n \in Node,
         NEW d \in Inputs(n) \cap PipelineInputs, d \in Dataset, IsAsset(d)
  PROVE  FileContent(Place(n, d)) = VersionedName(d)
<1>1. d \notin Produced BY RootInput
<1>2. Producers(d) = {} /\ d \notin Outs[n] BY <1>1 DEF Producers, Produced
<1>3. AzureInput(n, SanitizeParamName(d)) = AssetFolder(d, VersionedName(d))
  BY <1>2, WiredToItself DEF Connection
<1>4. Rewired(d)
  BY DEF Rewired, HasDataPath, IsParamOrRootNonAsset, NoPatterns, Registered, IsPipelineDataset, IsAsset, InCatalog
<1>5. Place(n, d) = [folder |-> AssetFolder(d, VersionedName(d)), file |-> d]
  BY <1>2, <1>3, <1>4 DEF Place, DataPath
<1>6. /\ Place(n, d).file = d
      /\ Place(n, d).folder.area = "asset"
      /\ Place(n, d).folder.name = d
      /\ Place(n, d).folder.version = VersionedName(d)
  BY <1>5 DEF AssetFolder, Folder
<1>7. Place(n, d) \notin DOMAIN files BY <1>1, <1>6 DEF OutputsInv
<1>8. QED BY <1>6, <1>7 DEF FileContent

\* What a process has loaded it keeps, and it loads once.
LEMMA LoadedOnce ==
  ASSUME Typed, [Next]_vars, NEW p \in Proc, Loaded(p)'
  PROVE  \/ Loaded(p) /\ read'[p] = read[p]
         \/ /\ Load(p)
            /\ read'[p] = [e \in Inputs(StepOf[p]) |-> FileContent(Place(StepOf[p], e))]
<1>1. CASE Load(p)
  <2>1. pc' = [pc EXCEPT ![p] = "failed"] => pc'[p] = "failed" BY DEF Typed, TypeOK
  <2>2. read' = [read EXCEPT ![p] = [e \in Inputs(StepOf[p]) |-> FileContent(Place(StepOf[p], e))]]
    BY <1>1, <2>1 DEF Load, Loaded
  <2>3. QED BY <1>1, <2>2 DEF Typed, TypeOK
<1>2. CASE ~Load(p)
  BY <1>2 DEF Loaded, Typed, TypeOK, Next, Advance, Works, vars, Generate, Execute, Load, Finish,
    SkipSave, SaveFails, BeginSave, EndSave, Die
<1>3. QED BY <1>1, <1>2

\* Every step that reads an asset the pipeline does not produce reads the version of
\* --load-versions, else the newest (ReadsVersionAsked), whichever steps share it, and
\* whatever the others write in the meantime.
THEOREM VersionAskedIsRead == Spec => []ReadsVersionAsked
<1> DEFINE Asked(d) == IF VersionAsked(d) \in {"none", "latest"} THEN Latest ELSE VersionAsked(d)
<1>1. Init => ReadsVersionAsked BY DEF Init, ReadsVersionAsked, Loaded
<1>2. ASSUME FlowInv, OutputsInv, ReadsVersionAsked, [Next]_vars PROVE ReadsVersionAsked'
  <2>1. project' = project BY <1>2, SameProject
  <2>2. SUFFICES ASSUME NamesApart, NoPatterns, NEW p \in Proc, Loaded(p)',
                        NEW d \in Inputs(StepOf[p]) \cap PipelineInputs, IsAsset(d)
                 PROVE  read'[p][d] = Asked(d)
    BY <2>1 DEF ReadsVersionAsked, NamesApart, NoPatterns, SanitizeParamName, Catalog, IsPipelineDataset,
      IsAsset, VersionAsked, PipelineInputs, Inputs, Produced
  <2>3. StepOf[p] \in Node /\ d \in Dataset BY DataflowAssumption, RootInput
  <2>4. CASE Loaded(p) /\ read'[p] = read[p] BY <1>2, <2>2, <2>4 DEF ReadsVersionAsked
  <2>5. CASE read'[p] = [e \in Inputs(StepOf[p]) |-> FileContent(Place(StepOf[p], e))]
    <3>1. read'[p][d] = FileContent(Place(StepOf[p], d)) BY <2>5
    <3>2. read'[p][d] = VersionedName(d) BY <1>2, <2>2, <2>3, <3>1, AssetContent
    <3>3. VersionedName(d) = Asked(d)
      BY <1>2, <2>3, EntryTyped, CatalogAssumption DEF FlowInv, VersionedName
    <3>4. QED BY <3>2, <3>3
  <2>6. QED BY <1>2, <2>2, <2>4, <2>5, LoadedOnce DEF FlowInv
<1>3. QED BY <1>1, <1>2, DataflowInvariant, OnlyOutputsWritten, PTL DEF Spec

\* In a project the plugin supports, a step that may run has a path for each input.
LEMMA EveryPathExists ==
  ASSUME Supported, NEW n \in Node, NEW d \in Inputs(n), HasDataPath(d)
  PROVE  DataPath(n, d) # NoFolder
<1>1. \A m, key : OutputFolder(m, key) # NoFolder
  <2>1. \A m, key : OutputFolder(m, key).area = "output" BY DEF OutputFolder, Folder
  <2>2. NoFolder.area = "nowhere" BY DEF NoFolder, Folder
  <2>3. QED BY <2>1, <2>2
<1>2. \A e, v : AssetFolder(e, v) # NoFolder
  <2>1. \A e, v : AssetFolder(e, v).area = "asset" BY DEF AssetFolder, Folder
  <2>2. NoFolder.area = "nowhere" BY DEF NoFolder, Folder
  <2>3. QED BY <2>1, <2>2
<1>3. CASE d \in Outs[n] BY <1>1, <1>3 DEF DataPath
<1>4. CASE d \notin Outs[n]
  <2>1. DataPath(n, d) = Connection(d) BY <1>4, WiredToItself DEF DataPath, Supported
  <2>2. CASE Producers(d) # {} BY <1>1, <2>1, <2>2 DEF Connection
  <2>3. CASE Producers(d) = {}
    <3>1. d \notin Produced BY <2>3 DEF Produced, Producers
    <3>2. d \in PipelineInputs BY <3>1, RootInput
    <3>3. IsAsset(d) BY <3>1, <3>2 DEF HasDataPath, IsParamOrRootNonAsset, Supported, RootsExist
    <3>4. QED BY <1>2, <2>1, <2>3, <3>3 DEF Connection
  <2>4. QED BY <2>2, <2>3
<1>5. QED BY <1>3, <1>4

\* In a project the plugin supports, no entry needs the workspace it was never given.
LEMMA EntriesReached ==
  ASSUME NoPatterns, NEW d \in Dataset PROVE ~CannotLoad(d) /\ ~CannotSave(d)
BY DEF NoPatterns, CannotLoad, CannotSave, IsAsset, IsPipelineDataset, Registered, InCatalog

\* In a project the plugin supports, a step that may run finds each of its inputs.
LEMMA EveryFileThere ==
  ASSUME FlowInv, OutputsInv, Supported, NEW n \in Node, NEW d \in Inputs(n), d \in Dataset,
         \A m \in Upstream(n) : StepDone(m)
  PROVE  FileContent(Place(n, d)) # "missing"
<1>0. NamesApart /\ NoPatterns /\ RootsExist BY DEF Supported
<1>1. CASE d \in Produced
  <2>1. PICK m \in Node : m \in Producers(d) BY <1>1 DEF Produced, Producers
  <2>2. m \in Upstream(n) /\ d \in Outs[m] BY <1>0, <2>1, EveryDependencyWired DEF Producers
  <2>3. Place(m, d) \in DOMAIN files /\ files[Place(m, d)] = "now" BY <2>2, DoneStepsWrote
  <2>4. Place(n, d) = Place(m, d) BY <1>0, <2>1, SamePlace
  <2>5. QED BY <2>3, <2>4 DEF FileContent
<1>2. CASE d \notin Produced
  <2>1. d \in PipelineInputs BY <1>2, RootInput
  <2>2. InCatalog(d) /\ Catalog(d).kind \in Kind \ {"absent", "pipeline"}
    BY <1>0, <2>1, EntryTyped DEF RootsExist, InCatalog, FlowInv
  <2>3. CASE IsAsset(d)
    <3>1. FileContent(Place(n, d)) = VersionedName(d) BY <1>0, <2>1, <2>3, AssetContent
    <3>2. QED BY <3>1, EntryTyped, CatalogAssumption DEF FlowInv
  <2>4. CASE Catalog(d).kind = "standard"
    <3>1. ~IsPipelineDataset(d) /\ ~HasDataPath(d)
      BY <1>2, <2>1, <2>2, <2>4 DEF IsPipelineDataset, IsAsset, HasDataPath, IsParamOrRootNonAsset
    <3>2. Place(n, d).folder = StandardStorage BY <3>1 DEF Place, Rewired, OwnFolder
    <3>3. Place(n, d).folder.area = "storage" BY <3>2 DEF StandardStorage, Folder
    <3>4. Place(n, d) \in DOMAIN files => files[Place(n, d)] # "missing"
      BY DEF FlowInv, Typed, TypeOK
    <3>5. QED BY <3>3, <3>4 DEF FileContent
  <2>5. QED BY <2>2, <2>3, <2>4 DEF Kind, IsAsset
<1>3. QED BY <1>1, <1>2

\* While nobody dies, no step fails.
NoFailure == Supported /\ faults = 0 => \A p \in Proc : pc[p] # "failed"

\* Of the ways a step can fail, a supported project leaves only death.
LEMMA NoFailureStep ==
  ASSUME FlowInv, OutputsInv, NoFailure, [Next]_vars PROVE NoFailure'
<1>1. project' = project BY SameProject
<1>2. Supported' <=> Supported
  BY <1>1 DEF Supported, NamesApart, NoPatterns, RootsExist, SanitizeParamName, Catalog, IsPipelineDataset,
    IsAsset, InCatalog, PipelineInputs, Inputs, Produced
<1>3. SUFFICES ASSUME Supported, faults' = 0, NEW p \in Proc, pc'[p] = "failed" PROVE FALSE
  BY <1>2 DEF NoFailure
<1>4. faults \in Nat /\ pc \in [Proc -> {"waiting", "loading", "saving", "done", "failed"}]
  BY DataflowAssumption DEF FlowInv, Typed, TypeOK
<1>5. faults = 0
  BY <1>3, <1>4 DEF Next, Advance, Works, vars, Generate, Execute, Load, Finish, SkipSave, SaveFails,
    BeginSave, EndSave, Die
<1>6. pc[p] # "failed" BY <1>3, <1>5 DEF NoFailure
<1>7. StepOf[p] \in Node /\ \A d \in Inputs(StepOf[p]) : d \in Dataset BY DataflowAssumption, RootInput
<1>8. NoPatterns BY <1>3 DEF Supported
<1>9. ~Die(p) BY <1>3, <1>4, <1>5 DEF Die
<1>10. ~Execute(p)
  <2>1. \A d \in Inputs(StepOf[p]) : HasDataPath(d) => DataPath(StepOf[p], d) # NoFolder
    BY <1>3, <1>7, EveryPathExists
  <2>2. Execute(p) => pc' = [pc EXCEPT ![p] = "loading"] BY <2>1 DEF Execute
  <2>3. QED BY <1>3, <1>4, <2>2
<1>11. ~Load(p)
  <2> DEFINE found == [d \in Inputs(StepOf[p]) |-> FileContent(Place(StepOf[p], d))]
  <2>1. SUFFICES ASSUME Load(p) PROVE FALSE OBVIOUS
  <2>2. \A m \in Upstream(StepOf[p]) : StepDone(m) BY <2>1 DEF Load, FlowInv, OrderInv
  <2>3. \A d \in Inputs(StepOf[p]) : FileContent(Place(StepOf[p], d)) # "missing"
    BY <1>3, <1>7, <2>2, EveryFileThere
  <2>4. \A d \in Inputs(StepOf[p]) : ~CannotLoad(d) BY <1>7, <1>8, EntriesReached
  <2>5. \A d \in Inputs(StepOf[p]) : found[d] # "missing" BY <2>3
  <2> HIDE DEF found
  <2>6. pc' = [pc EXCEPT ![p] = "saving"] BY <2>1, <2>4, <2>5 DEF Load, found
  <2>7. QED BY <1>3, <1>4, <2>6
<1>12. \A d \in Dataset : ~SaveFails(p, d) BY <1>8, EntriesReached DEF SaveFails
<1>13. \A w \in writing : ~EndSave(p, w)
  <2>1. SUFFICES ASSUME NEW w \in writing, EndSave(p, w) PROVE FALSE OBVIOUS
  <2>2. w.place.file \in Dataset
    <3>1. w.proc \in Proc /\ w.place.file \in unsaved[w.proc] BY DEF FlowInv, WriteInv, Typed, TypeOK
    <3>2. unsaved[w.proc] \subseteq Outs[StepOf[w.proc]] BY <3>1 DEF FlowInv, Typed, TypeOK
    <3>3. QED BY <3>1, <3>2, DataflowAssumption
  <2>3. pc' = pc BY <2>1, <2>2, <1>8, EntriesReached DEF EndSave
  <2>4. QED BY <1>3, <1>6, <2>3
<1>14. ASSUME NEW q \in Proc, Works(q), q # p PROVE FALSE
  BY <1>3, <1>4, <1>6, <1>14 DEF Works, Execute, Load, Finish, SkipSave, SaveFails, BeginSave, EndSave
<1>15. ~Works(p)
  BY <1>3, <1>4, <1>6, <1>10, <1>11, <1>12, <1>13 DEF Works, Finish, SkipSave, BeginSave
<1>16. QED
  BY <1>3, <1>5, <1>6, <1>9, <1>14, <1>15 DEF Next, Advance, vars, Generate, Die

\* In a project the plugin supports, no step fails unless a process dies; and when all
\* the steps are done, every output of the pipeline that the plugin stores is complete
\* where the job says it is (RunsThrough).
THEOREM SupportedRunsThrough == Spec => []RunsThrough
<1>1. Init => NoFailure BY DEF Init, NoFailure
<1>2. FlowInv /\ OutputsInv /\ NoFailure /\ [Next]_vars => NoFailure' BY NoFailureStep
<1>3. ASSUME FlowInv, \A n \in Node : StepDone(n), NoPatterns, NEW d \in PipelineOutputs,
             Catalog(d).kind # "standard"
      PROVE  \E folder \in PipelineOutputFolders(SanitizeParamName(d)) :
               FileContent([folder |-> folder, file |-> d]) = "now"
  <2>1. PICK m \in Node : d \in Outs[m] BY DEF PipelineOutputs, Produced
  <2>2. d \in Dataset BY <2>1, DataflowAssumption
  <2>3. Catalog(d).kind \in Kind BY <1>3, <2>2, EntryTyped DEF FlowInv
  <2>4. Rewired(d)
    BY <1>3, <2>1, <2>2, <2>3 DEF Rewired, HasDataPath, Produced, Registered, InCatalog, NoPatterns,
      IsPipelineDataset, IsAsset, Kind
  <2> DEFINE folder == OutputFolder(m, SanitizeParamName(d))
  <2>5. Place(m, d) = [folder |-> folder, file |-> d] BY <2>1, <2>4 DEF Place, DataPath
  <2>6. folder \in PipelineOutputFolders(SanitizeParamName(d)) BY <2>1 DEF PipelineOutputFolders
  <2>7. FileContent(Place(m, d)) = "now" BY <1>3, <2>1, DoneStepsWrote DEF FileContent
  <2> HIDE DEF folder
  <2>8. QED BY <2>5, <2>6, <2>7
<1>4. FlowInv /\ NoFailure => RunsThrough BY <1>3 DEF RunsThrough, NoFailure
<1>5. QED BY <1>1, <1>2, <1>4, DataflowInvariant, OnlyOutputsWritten, PTL DEF Spec

=============================================================================

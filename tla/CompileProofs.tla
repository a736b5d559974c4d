---------------------------- MODULE CompileProofs ----------------------------
(***************************************************************************)
(* Proofs about Compile for all projects, commands and edits.  Up to the   *)
(* last theorem what the jobs of a project are is not looked into, only    *)
(* that the commands that ask for them get the same ones; the last is      *)
(* about how a factory is chosen.                                          *)
(***************************************************************************)
EXTENDS Compile, FiniteSetTheorems, TLAPS

-----------------------------------------------------------------------------
(* What the commands select and generate. *)

\* A job that ends in no other way generates.
LEMMA Outcome ==
  ASSUME NEW p, NEW j
  PROVE  /\ "ok" \in Outcomes(p, j) => Generates(p, j)
         /\ "error" \in Outcomes(p, j) \/ "config" \in Outcomes(p, j) => ~Generates(p, j)
BY DEF Outcomes, Generates

\* Enumerating gives the literal and the rendered names.
LEMMA Enumerated ==
  ASSUME NEW p PROVE DOMAIN EnumerateJobs(p) = LiteralNames(p) \cup RenderedNames(p)
BY DEF EnumerateJobs

\* A selection that is not refused is one of the project's jobs, and each job is
\* the one that enumerating gives.
LEMMA Selects1 ==
  ASSUME NEW p, NEW c, IF c.all THEN ~EnumerationFails(p) ELSE Resolvable(p, c.names)
  PROVE  /\ DOMAIN Selection(p, c) \subseteq NamesOf(p)
         /\ DOMAIN Selection(p, c) \subseteq DOMAIN EnumerateJobs(p)
         /\ \A n \in DOMAIN Selection(p, c) : Selection(p, c)[n] = EnumerateJobs(p)[n]
         /\ c.all => Selection(p, c) = EnumerateJobs(p)
<1>1. CASE c.all
  BY <1>1, Enumerated DEF Selection, NamesOf
<1>2. CASE ~c.all
  <2>1. Selection(p, c) = ResolveJobs(p, c.names) BY <1>2 DEF Selection
  <2>2. DOMAIN ResolveJobs(p, c.names) = c.names BY DEF ResolveJobs
  <2>3. \A n \in c.names : n \in LiteralNames(p) \/ (n \in RenderedNames(p) /\ ~EnumerationFails(p))
    BY <1>2 DEF Resolvable
  <2>4. c.names \subseteq NamesOf(p) BY <2>3 DEF NamesOf
  <2>5. c.names \subseteq DOMAIN EnumerateJobs(p) BY <2>3, Enumerated
  <2>6. \A n \in c.names : ResolveJobs(p, c.names)[n] = EnumerateJobs(p)[n]
    BY <2>5 DEF ResolveJobs, EnumerateJobs
  <2> QED BY <1>2, <2>1, <2>2, <2>4, <2>5, <2>6
<1> QED BY <1>1, <1>2

\* Looking names up accepts what enumerating gives.
LEMMA ListedResolves ==
  ASSUME NEW p, NEW names, ~EnumerationFails(p), names \subseteq LiteralNames(p) \cup RenderedNames(p)
  PROVE  Resolvable(p, names)
<1> DEFINE rest == names \ LiteralNames(p)
<1>1. rest \subseteq RenderedNames(p) OBVIOUS
<1>2. ASSUME rest # {} PROVE Factories(p) # {}
  <2>1. DerivedBindings(p) # {} BY <1>1, <1>2 DEF RenderedNames
  <2>2. Deriving(p) # {} BY <2>1 DEF DerivedBindings
  <2> QED BY <2>2 DEF Deriving
<1> QED BY <1>1, <1>2 DEF Resolvable

\* What a command selects has names of files, and a file for each.
LEMMA SelectedNames ==
  ASSUME loaded \in Project, Selects
  PROVE  /\ DOMAIN Selected \subseteq File /\ IsFiniteSet(DOMAIN Selected)
         /\ \A n \in DOMAIN Selected : Dest(n) \in File
         /\ \A m, n \in DOMAIN Selected : Dest(m) = Dest(n) => m = n
         /\ \A n \in DOMAIN Selected : n \in DOMAIN EnumerateJobs(Loaded) /\ Selected[n] = EnumerateJobs(Loaded)[n]
         /\ command.all => Selected = EnumerateJobs(Loaded) /\ ~EnumerationFails(Loaded)
<1>1. IF command.all THEN ~EnumerationFails(Loaded) ELSE Resolvable(Loaded, command.names)
  BY DEF Selects, Refusal
<1>2. /\ DOMAIN Selected \subseteq NamesOf(Loaded)
      /\ \A n \in DOMAIN Selected : n \in DOMAIN EnumerateJobs(Loaded) /\ Selected[n] = EnumerateJobs(Loaded)[n]
      /\ command.all => Selected = EnumerateJobs(Loaded)
  BY <1>1, Selects1 DEF Selected
<1>3. NamesOf(Loaded) \subseteq File BY DEF File, Loaded
<1>4. IsFiniteSet(DOMAIN Selected) BY <1>2, <1>3, FileAssumption, FS_Subset
<1>5. \A n \in DOMAIN Selected : Dest(n) \in File BY <1>2, <1>3 DEF Dest, File
<1>6. ASSUME NEW m \in DOMAIN Selected, NEW n \in DOMAIN Selected, Dest(m) = Dest(n) PROVE m = n
  <2>1. CASE Cardinality(DOMAIN Selected) > 1 BY <1>6, <2>1 DEF Dest
  <2>2. CASE ~(Cardinality(DOMAIN Selected) > 1)
    <3>1. {m, n} \subseteq DOMAIN Selected OBVIOUS
    <3>2. Cardinality({m, n}) <= Cardinality(DOMAIN Selected) BY <1>4, <3>1, FS_Subset
    <3>3. SUFFICES ASSUME m # n PROVE FALSE OBVIOUS
    <3>4. Cardinality({m, n}) = 2
      <4>1. IsFiniteSet({m}) /\ Cardinality({m}) = 1 BY FS_Singleton
      <4>2. n \notin {m} BY <3>3
      <4>3. Cardinality({m} \cup {n}) = 2 BY <4>1, <4>2, FS_AddElement
      <4>4. {m} \cup {n} = {m, n} OBVIOUS
      <4> QED BY <4>3, <4>4
    <3>5. Cardinality(DOMAIN Selected) \in Nat BY <1>4, FS_CardinalityType
    <3> QED BY <2>2, <3>2, <3>4, <3>5
  <2> QED BY <2>1, <2>2
<1> QED BY <1>1, <1>2, <1>3, <1>4, <1>5, <1>6

-----------------------------------------------------------------------------
(* The inductive invariant, in parts. *)

\* A command that has not read the project has done nothing.
GivenInv ==
  /\ pc = "given" => loaded = 0 /\ files = before /\ verdict = "none"
  /\ loaded = 0 => pending = {} /\ ok = {} /\ failures = {}

\* The loop is reached with a selection only.
StartedInv == pc = "generating" => Selects

\* The file of a job that this command wrote.
FileOf(n) == [project |-> loaded, name |-> n]

\* What has become of the selected jobs so far.
WorkInv ==
  Selects =>
    /\ pending \cup ok \cup failures = DOMAIN Selected
    /\ \A n \in ok : /\ Generates(Loaded, Selected[n])
                     /\ command.kind = "compile" => files[Dest(n)] = FileOf(n)
    /\ \A n \in failures : ~Generates(Loaded, Selected[n]) /\ command.kind = "check"
    /\ \A f \in File : files[f] # before[f] =>
         command.kind = "compile" /\ \E n \in ok : files[f] = FileOf(n)

\* Why a command that had a selection ended.
EndInv ==
  /\ pc = "idle" /\ Selects =>
       /\ verdict \in {"good", "reported", "workspace", "snapshot", "job", "interrupted"}
       /\ verdict = "good" => pending = {} /\ failures = {}
       /\ verdict = "reported" => pending = {} /\ failures # {}
       /\ verdict = "job" => \E n \in DOMAIN Selected : ~Generates(Loaded, Selected[n])
       /\ verdict = "workspace" => HasResolver /\ \E n \in DOMAIN Selected : ~Resolves(Selected[n])
       /\ verdict = "snapshot" => HasResolver /\ Loaded.code
  /\ loaded # 0 /\ verdict = "selection" /\ ~command.all => ~Resolvable(Loaded, command.names)

\* The jobs of a project that the check was good for all generate.
CheckedInv ==
  checked # 0 =>
    \A n \in DOMAIN EnumerateJobs(Definition[checked]) :
      Generates(Definition[checked], EnumerateJobs(Definition[checked])[n])

\* A project whose jobs were listed has them.
ListedInv == listed # 0 => ~EnumerationFails(Definition[listed])

IInv == TypeOK /\ GivenInv /\ StartedInv /\ WorkInv /\ EndInv /\ CheckedInv /\ ListedInv

-----------------------------------------------------------------------------
(* The invariant is inductive. *)

\* What is selected follows from the command and the project it read.
LEMMA SameSelection ==
  ASSUME loaded' = loaded, command' = command
  PROVE  /\ Loaded' = Loaded /\ Selected' = Selected /\ (Selects' <=> Selects)
         /\ \A n : Dest(n)' = Dest(n) /\ FileOf(n)' = FileOf(n)
         /\ (HasResolver' <=> HasResolver) /\ \A j : Resolves(j)' <=> Resolves(j)
<1>1. Loaded' = Loaded BY DEF Loaded
<1>2. Selected' = Selected BY <1>1 DEF Selected
<1>3. Selects' <=> Selects BY <1>1 DEF Selects
<1>4. HasResolver' <=> HasResolver BY DEF HasResolver
<1>5. \A j : Resolves(j)' <=> Resolves(j) BY <1>1 DEF Resolves, WorkspaceOf
<1> QED BY <1>1, <1>2, <1>3, <1>4, <1>5 DEF Dest, FileOf

LEMMA NoSelection == ASSUME loaded = 0 PROVE ~Selects BY DEF Selects

LEMMA InvInit == Init => IInv
<1> SUFFICES ASSUME Init PROVE IInv OBVIOUS
<1>1. ~Selects BY NoSelection DEF Init
<1>2. files \in [File -> Content] BY DEF Init, Content
<1>3. TypeOK BY <1>2, CompileAssumption DEF Init, TypeOK
<1> QED BY <1>1, <1>3 DEF IInv, Init, GivenInv, StartedInv, WorkInv, EndInv, CheckedInv, ListedInv

LEMMA EditStep ==
  ASSUME IInv, NEW q \in Project, Edit(q) PROVE IInv'
<1>1. loaded' = loaded /\ command' = command /\ project' \in Project
      /\ UNCHANGED <<pc, pending, ok, failures, files, before, verdict, checked, listed, commands>>
  BY DEF Edit
<1>2. edits' \in 0..MaxEdits BY CompileAssumption DEF Edit, IInv, TypeOK
<1>3. TypeOK' BY <1>1, <1>2, SameSelection DEF IInv, TypeOK
<1>4. WorkInv' BY <1>1, SameSelection DEF IInv, WorkInv
<1>5. GivenInv' /\ StartedInv' /\ EndInv' /\ CheckedInv' /\ ListedInv'
  BY <1>1, SameSelection DEF IInv, GivenInv, StartedInv, EndInv, CheckedInv, ListedInv
<1> QED BY <1>3, <1>4, <1>5 DEF IInv

LEMMA GiveStep ==
  ASSUME IInv, NEW c \in Commands, Give(c) PROVE IInv'
<1>1. loaded' = 0 /\ ~Selects'
  <2>1. loaded' = 0 BY DEF Give
  <2> QED BY <2>1 DEF Selects
<1>2. commands' \in 0..MaxCommands BY CompileAssumption DEF Give, IInv, TypeOK
<1>3. TypeOK' BY <1>1, <1>2 DEF IInv, TypeOK, Give, history
<1> QED BY <1>1, <1>3 DEF Give, history, IInv, GivenInv, StartedInv, WorkInv, EndInv, CheckedInv, ListedInv

\* What a command finds when it reads the project.
LEMMA LoadStep ==
  ASSUME IInv, Load PROVE IInv'
<1>1. /\ project \in Project /\ loaded' = project /\ loaded' # 0 /\ command' = command
      /\ UNCHANGED <<project, ok, failures, files, before, checked, commands, edits>>
      /\ pending = {} /\ ok = {} /\ failures = {} /\ files = before
  BY CompileAssumption DEF Load, IInv, TypeOK, GivenInv
<1> DEFINE p == Definition[project]
<1>2. Loaded' = p /\ Selected' = Selection(p, command) BY <1>1 DEF Loaded, Selected
<1>3. command \in Commands \cup {NoCommand} BY DEF IInv, TypeOK
<1>4. CASE Misused(command) \/ Refusal(p, command) # "none"
  <2>1. ~Selects' BY <1>1, <1>2, <1>4 DEF Selects
  <2>2. /\ pc' = "idle" /\ UNCHANGED <<pending, listed>>
        /\ verdict' = IF Misused(command) THEN "usage" ELSE Refusal(p, command)
    BY <1>4 DEF Load, End
  <2>3. TypeOK' BY <1>1, <2>2 DEF IInv, TypeOK
  <2>4. verdict' = "selection" /\ ~command.all => ~Resolvable(p, command.names)
    BY <2>2 DEF Refusal
  <2>5. EndInv' BY <1>1, <1>2, <2>1, <2>4 DEF EndInv
  <2>6. GivenInv' /\ StartedInv' /\ WorkInv' /\ CheckedInv' /\ ListedInv'
    BY <1>1, <2>1, <2>2 DEF IInv, GivenInv, StartedInv, WorkInv, CheckedInv, ListedInv
  <2> QED BY <2>3, <2>5, <2>6 DEF IInv
<1>5. CASE ~Misused(command) /\ Refusal(p, command) = "none" /\ command.kind = "list"
  <2>1. ~Selects' BY <1>1, <1>5 DEF Selects
  <2>2. pc' = "idle" /\ pending' = pending /\ listed' = project /\ verdict' = "good"
    BY <1>5 DEF Load, End
  <2>3. TypeOK' BY <1>1, <2>2 DEF IInv, TypeOK
  <2>4. command.all BY <1>3, <1>5, CompileAssumption DEF NoCommand
  <2>5. ~EnumerationFails(p) BY <1>5, <2>4 DEF Refusal
  <2>6. GivenInv' /\ StartedInv' /\ WorkInv' /\ EndInv' /\ CheckedInv' /\ ListedInv'
    BY <1>1, <2>1, <2>2, <2>5 DEF IInv, GivenInv, StartedInv, WorkInv, EndInv, CheckedInv, ListedInv
  <2> QED BY <2>3, <2>6 DEF IInv
<1>6. CASE ~Misused(command) /\ Refusal(p, command) = "none" /\ command.kind # "list"
  <2>1. /\ pc' = "generating" /\ pending' = DOMAIN Selection(p, command) /\ UNCHANGED <<verdict, listed>>
    BY <1>6 DEF Load
  <2>2. Selects' BY <1>1, <1>2, <1>6 DEF Selects
  <2>3. TypeOK' BY <1>1, <1>2, <2>1 DEF IInv, TypeOK
  <2>4. verdict = "none" BY DEF Load, IInv, GivenInv
  <2>5. GivenInv' /\ StartedInv' /\ WorkInv' /\ EndInv' /\ CheckedInv' /\ ListedInv'
    BY <1>1, <1>2, <2>1, <2>2, <2>4 DEF IInv, GivenInv, StartedInv, WorkInv, EndInv, CheckedInv, ListedInv
  <2> QED BY <2>3, <2>5 DEF IInv
<1> QED BY <1>4, <1>5, <1>6

\* A job of the loop that was generated, when it is compiled into its file.
LEMMA GeneratedStep ==
  ASSUME IInv, NEW name \in pending, pc = "generating", Generates(Loaded, Selected[name]), Generated(name),
         UNCHANGED <<project, command, loaded, before, history, commands>>
  PROVE  IInv'
<1>1. Selects /\ loaded \in Project /\ name \in DOMAIN Selected
  BY NoSelection DEF IInv, StartedInv, WorkInv, TypeOK
<1>2. ok' = ok \cup {name} /\ pending' = pending \ {name} /\ UNCHANGED <<pc, verdict, failures>> BY DEF Generated
<1>3. FileOf(name) \in Content /\ Dest(name) \in File
  BY <1>1, SelectedNames DEF FileOf, Content
<1>4. files \in [File -> Content] /\ before \in [File -> Content] BY DEF IInv, TypeOK
<1>5. files' \in [File -> Content] BY <1>3, <1>4 DEF Generated, FileOf
<1>6. TypeOK'
  <2>1. ok' \cap failures = {} /\ pending' \cap (ok' \cup failures) = {} /\ pending' \cup ok' \cup failures = pending \cup ok \cup failures
    BY <1>2 DEF IInv, TypeOK
  <2> QED BY <1>2, <1>5, <2>1, SameSelection DEF IInv, TypeOK, history
<1>7. \A n \in ok' : /\ Generates(Loaded, Selected[n])
                     /\ command.kind = "compile" => files'[Dest(n)] = FileOf(n)
  <2>1. CASE command.kind # "compile" BY <1>1, <1>2, <2>1 DEF IInv, WorkInv
  <2>2. CASE command.kind = "compile"
    <3>1. files' = [files EXCEPT ![Dest(name)] = FileOf(name)] BY <2>2 DEF Generated, FileOf
    <3>2. files'[Dest(name)] = FileOf(name) BY <1>3, <1>4, <3>1
    <3>3. ASSUME NEW n \in ok PROVE files'[Dest(n)] = FileOf(n)
      <4>1. n \in DOMAIN Selected /\ n # name BY <1>1 DEF IInv, WorkInv, TypeOK
      <4>2. Dest(n) # Dest(name) /\ Dest(n) \in File BY <1>1, <4>1, SelectedNames
      <4>3. files[Dest(n)] = FileOf(n) BY <1>1, <2>2 DEF IInv, WorkInv
      <4> QED BY <1>4, <3>1, <4>2, <4>3
    <3> QED BY <1>1, <1>2, <3>2, <3>3 DEF IInv, WorkInv
  <2> QED BY <2>1, <2>2
<1>8. ASSUME NEW f \in File, files'[f] # before[f]
      PROVE  command.kind = "compile" /\ \E n \in ok' : files'[f] = FileOf(n)
  <2>1. CASE files'[f] = files[f] BY <1>1, <1>2, <1>8, <2>1 DEF IInv, WorkInv
  <2>2. CASE files'[f] # files[f]
    <3>1. command.kind = "compile" /\ files' = [files EXCEPT ![Dest(name)] = FileOf(name)]
      BY <2>2 DEF Generated, FileOf
    <3>2. files'[f] = FileOf(name) BY <1>4, <2>2, <3>1
    <3> QED BY <1>2, <3>1, <3>2
  <2> QED BY <2>1, <2>2
<1>9. WorkInv'
  <2>1. pending' \cup ok' \cup failures' = DOMAIN Selected BY <1>1, <1>2 DEF IInv, WorkInv
  <2>2. \A n \in failures' : ~Generates(Loaded, Selected[n]) /\ command.kind = "check"
    BY <1>1, <1>2 DEF IInv, WorkInv
  <2> QED BY <1>1, <1>7, <1>8, <2>1, <2>2, SameSelection DEF WorkInv
<1>10. GivenInv' /\ StartedInv' /\ EndInv' /\ CheckedInv' /\ ListedInv'
  BY <1>1, <1>2, NoSelection, SameSelection DEF IInv, GivenInv, StartedInv, EndInv, CheckedInv, ListedInv, history
<1> QED BY <1>6, <1>9, <1>10 DEF IInv

\* A job of a check that failed.
LEMMA RecordedStep ==
  ASSUME IInv, NEW name \in pending, pc = "generating", ~Generates(Loaded, Selected[name]), command.kind = "check",
         Recorded(name), UNCHANGED <<project, command, loaded, before, history, commands>>
  PROVE  IInv'
<1>1. Selects BY DEF IInv, StartedInv
<1>2. failures' = failures \cup {name} /\ pending' = pending \ {name} /\ UNCHANGED <<pc, verdict, ok, files>>
  BY DEF Recorded
<1>3. TypeOK'
  <2>1. ok \cap failures' = {} /\ pending' \cap (ok \cup failures') = {} /\ pending' \cup ok \cup failures' = pending \cup ok \cup failures
    BY <1>2 DEF IInv, TypeOK
  <2> QED BY <1>2, <2>1, SameSelection DEF IInv, TypeOK, history
<1>4. WorkInv'
  <2>1. pending' \cup ok' \cup failures' = DOMAIN Selected BY <1>1, <1>2 DEF IInv, WorkInv
  <2>2. \A n \in failures' : ~Generates(Loaded, Selected[n]) /\ command.kind = "check"
    BY <1>1, <1>2 DEF IInv, WorkInv
  <2>3. \A n \in ok' : /\ Generates(Loaded, Selected[n])
                       /\ command.kind = "compile" => files'[Dest(n)] = FileOf(n)
    BY <1>1, <1>2 DEF IInv, WorkInv
  <2>4. \A f \in File : files'[f] # before[f] => command.kind = "compile" /\ \E n \in ok' : files'[f] = FileOf(n)
    BY <1>1, <1>2 DEF IInv, WorkInv
  <2> QED BY <2>1, <2>2, <2>3, <2>4, SameSelection DEF WorkInv
<1>5. GivenInv' /\ StartedInv' /\ EndInv' /\ CheckedInv' /\ ListedInv'
  BY <1>1, <1>2, NoSelection, SameSelection DEF IInv, GivenInv, StartedInv, EndInv, CheckedInv, ListedInv, history
<1> QED BY <1>3, <1>4, <1>5 DEF IInv

\* A command that ends without having done more.
LEMMA StopStep ==
  ASSUME IInv, pc # "idle", pc' = "idle", verdict' \in {"workspace", "snapshot", "job", "interrupted", "good", "reported"},
         UNCHANGED <<project, command, loaded, pending, ok, failures, files, before, listed, commands, edits>>,
         pc = "given" => loaded = 0,
         verdict' = "good" => pending = {} /\ failures = {},
         verdict' = "reported" => pending = {} /\ failures # {},
         verdict' = "job" => \E n \in DOMAIN Selected : ~Generates(Loaded, Selected[n]),
         verdict' = "workspace" => HasResolver /\ \E n \in DOMAIN Selected : ~Resolves(Selected[n]),
         verdict' = "snapshot" => HasResolver /\ Loaded.code,
         checked' \in {checked, loaded}, CheckedInv'
  PROVE  IInv'
<1>1. TypeOK' BY SameSelection DEF IInv, TypeOK
<1>2. WorkInv' BY SameSelection DEF IInv, WorkInv
<1>3. GivenInv' /\ StartedInv' /\ ListedInv' BY DEF IInv, GivenInv, StartedInv, ListedInv
<1>4. EndInv' BY SameSelection DEF EndInv
<1> QED BY <1>1, <1>2, <1>3, <1>4 DEF IInv

\* The next job is generated, or recorded, or ends the command.
LEMMA GenerateStep ==
  ASSUME IInv, NEW name \in pending, Generate(name) PROVE IInv'
<1> DEFINE job == Selected[name]
           frame == UNCHANGED <<project, command, loaded, before, history, commands>>
           unchanged == UNCHANGED <<project, command, loaded, pending, ok, failures, files, before, listed, commands, edits>>
<1>1. pc = "generating" /\ frame BY DEF Generate
<1>2. Selects /\ name \in DOMAIN Selected BY <1>1 DEF IInv, StartedInv, WorkInv
<1>3. ASSUME NEW why \in {"workspace", "snapshot", "job"}, Aborted(why),
             why = "job" => ~Generates(Loaded, job),
             why = "workspace" => HasResolver /\ ~Resolves(job),
             why = "snapshot" => HasResolver /\ Loaded.code
      PROVE  IInv'
  <2>1. pc' = "idle" /\ verdict' = why /\ UNCHANGED <<pending, ok, failures, files>> BY <1>3 DEF Aborted, End
  <2>2. unchanged /\ checked' = checked BY <1>1, <2>1 DEF history
  <2>3. CheckedInv' BY <2>2 DEF IInv, CheckedInv
  <2>4. verdict' = "job" => \E n \in DOMAIN Selected : ~Generates(Loaded, Selected[n]) BY <1>2, <1>3, <2>1
  <2>5. verdict' = "workspace" => HasResolver /\ \E n \in DOMAIN Selected : ~Resolves(Selected[n])
    BY <1>2, <1>3, <2>1
  <2>6. verdict' = "snapshot" => HasResolver /\ Loaded.code BY <1>3, <2>1
  <2> QED BY <1>1, <1>3, <2>1, <2>2, <2>3, <2>4, <2>5, <2>6, StopStep
<1>4. CASE HasResolver /\ ~Resolves(job) /\ Aborted("workspace")
  BY <1>3, <1>4
<1>5. CASE HasResolver /\ NeedsSnapshot(job) /\ Aborted("snapshot")
  <2>1. Loaded.code BY <1>5 DEF NeedsSnapshot
  <2> QED BY <1>3, <1>5, <2>1
<1>6. ASSUME ~(HasResolver /\ ~Resolves(job) /\ Aborted("workspace")),
             ~(HasResolver /\ NeedsSnapshot(job) /\ Aborted("snapshot"))
      PROVE  IInv'
  <2>1. PICK outcome \in Outcomes(Loaded, job) :
          \/ outcome = "ok" /\ Generated(name)
          \/ outcome = "error" /\ command.kind = "check" /\ Recorded(name)
          \/ outcome = "error" /\ command.kind # "check" /\ Aborted("job")
          \/ outcome = "config" /\ Aborted("job")
    BY <1>6 DEF Generate
  <2>2. CASE outcome = "ok" /\ Generated(name)
    <3>1. Generates(Loaded, Selected[name]) BY <2>2, Outcome
    <3> QED BY <1>1, <2>2, <3>1, GeneratedStep
  <2>3. CASE outcome = "error" /\ command.kind = "check" /\ Recorded(name)
    <3>1. ~Generates(Loaded, Selected[name]) BY <2>3, Outcome
    <3> QED BY <1>1, <2>3, <3>1, RecordedStep
  <2>4. CASE outcome \in {"error", "config"} /\ Aborted("job")
    <3>1. ~Generates(Loaded, job) BY <2>4, Outcome
    <3> QED BY <1>3, <2>4, <3>1
  <2> QED BY <2>1, <2>2, <2>3, <2>4
<1> QED BY <1>4, <1>5, <1>6

\* The loop ends: a check of all the jobs that recorded none attempted them all.
LEMMA FinishStep ==
  ASSUME IInv, Finish PROVE IInv'
<1>1. /\ pc = "generating" /\ pending = {} /\ pc' = "idle"
      /\ verdict' = IF failures # {} THEN "reported" ELSE "good"
      /\ UNCHANGED <<project, command, loaded, pending, ok, failures, files, before, listed, commands, edits>>
  BY DEF Finish, End
<1>2. checked' = IF command.kind = "check" /\ command.all /\ failures = {} THEN loaded ELSE checked
  BY DEF Finish
<1>3. Selects /\ loaded \in Project BY <1>1, NoSelection DEF IInv, StartedInv, TypeOK
<1>4. CheckedInv'
  <2>1. CASE command.kind = "check" /\ command.all /\ failures = {}
    <3>1. Selected = EnumerateJobs(Loaded) BY <1>3, <2>1, SelectedNames
    <3>2. ok = DOMAIN Selected BY <1>1, <1>3, <2>1 DEF IInv, WorkInv
    <3>3. \A n \in DOMAIN Selected : Generates(Loaded, Selected[n]) BY <1>3, <3>2 DEF IInv, WorkInv
    <3>4. checked' = loaded BY <1>2, <2>1
    <3> QED BY <3>1, <3>3, <3>4 DEF CheckedInv, Loaded
  <2>2. CASE ~(command.kind = "check" /\ command.all /\ failures = {})
    BY <1>2, <2>2 DEF IInv, CheckedInv
  <2> QED BY <2>1, <2>2
<1>5. checked' \in {checked, loaded} BY <1>2
<1> QED BY <1>1, <1>4, <1>5, StopStep

LEMMA InterruptStep ==
  ASSUME IInv, Interrupt PROVE IInv'
<1>1. /\ pc # "idle" /\ pc' = "idle" /\ verdict' = "interrupted"
      /\ UNCHANGED <<project, command, loaded, pending, ok, failures, files, before, listed, commands, edits>>
      /\ checked' = checked
  BY DEF Interrupt, End, history
<1>2. CheckedInv' BY <1>1 DEF IInv, CheckedInv
<1>3. pc = "given" => loaded = 0 BY DEF IInv, GivenInv
<1> QED BY <1>1, <1>2, <1>3, StopStep

LEMMA StutterStep ==
  ASSUME IInv, UNCHANGED vars PROVE IInv'
<1>1. TypeOK' /\ WorkInv' BY SameSelection DEF vars, IInv, TypeOK, WorkInv
<1>2. GivenInv' /\ StartedInv' /\ EndInv' /\ CheckedInv' /\ ListedInv'
  BY SameSelection DEF vars, IInv, GivenInv, StartedInv, EndInv, CheckedInv, ListedInv
<1> QED BY <1>1, <1>2 DEF IInv

-----------------------------------------------------------------------------
(* The theorems. *)

\* The invariant that the properties rest on: what has become of each selected
\* job (WorkInv) and why a command ended (EndInv), in every state of every
\* sequence of commands and edits (the loops of compile, prepare and --check).
THEOREM CompileInvariant == Spec => []IInv
<1>1. Init => IInv BY InvInit
<1>2. IInv /\ [Next]_vars => IInv'
  <2> SUFFICES ASSUME IInv, [Next]_vars PROVE IInv' OBVIOUS
  <2>1. CASE \E q \in Project : Edit(q) BY <2>1, EditStep
  <2>2. CASE \E c \in Commands : Give(c) BY <2>2, GiveStep
  <2>3. CASE Load BY <2>3, LoadStep
  <2>4. CASE \E name \in pending : Generate(name) BY <2>4, GenerateStep
  <2>5. CASE Finish BY <2>5, FinishStep
  <2>6. CASE Interrupt BY <2>6, InterruptStep
  <2>7. CASE UNCHANGED vars BY <2>7, StutterStep
  <2> QED BY <2>1, <2>2, <2>3, <2>4, <2>5, <2>6, <2>7 DEF Next
<1> QED BY <1>1, <1>2, PTL DEF Spec

\* The variables keep their types, and the jobs of a command are attempted once
\* each, whatever the names of the jobs.
THEOREM CompileTypeCorrect == Spec => []TypeOK
<1>1. IInv => TypeOK BY DEF IInv
<1> QED BY <1>1, CompileInvariant, PTL

\* The report of compile and of --check is true, for any number of jobs: with
\* the output paths of with_stem no job writes over another's file, and what a
\* check names are the jobs that cannot be generated.
THEOREM TrueReports == Spec => []ReportIsTrue
<1>1. IInv => ReportIsTrue
  <2> SUFFICES ASSUME IInv, pc = "idle", Selects
      PROVE /\ verdict = "good" => \A n \in DOMAIN Selected :
                 Generates(Loaded, Selected[n]) /\
                 (command.kind = "compile" => \E f \in File : files[f] = [project |-> loaded, name |-> n])
            /\ verdict = "reported" =>
                 /\ command.kind = "check"
                 /\ failures = {n \in DOMAIN Selected : ~Generates(Loaded, Selected[n])} /\ failures # {}
            /\ \A f \in File : files[f] # before[f] =>
                 command.kind = "compile" /\ files[f] \in {[project |-> loaded, name |-> n] : n \in ok}
    BY DEF ReportIsTrue
  <2>1. WorkInv /\ EndInv BY DEF IInv
  <2>2. loaded \in Project BY NoSelection DEF IInv, TypeOK
  <2>3. ASSUME verdict = "good", NEW n \in DOMAIN Selected
        PROVE  Generates(Loaded, Selected[n]) /\
               (command.kind = "compile" => \E f \in File : files[f] = [project |-> loaded, name |-> n])
    <3>1. n \in ok BY <2>1, <2>3 DEF WorkInv, EndInv
    <3>2. Dest(n) \in File BY <2>2, SelectedNames
    <3> QED BY <2>1, <3>1, <3>2 DEF WorkInv, FileOf
  <2>4. ASSUME verdict = "reported"
        PROVE  /\ command.kind = "check"
               /\ failures = {n \in DOMAIN Selected : ~Generates(Loaded, Selected[n])} /\ failures # {}
    <3>1. pending = {} /\ failures # {} BY <2>1, <2>4 DEF EndInv
    <3>2. ok \cup failures = DOMAIN Selected BY <2>1, <3>1 DEF WorkInv
    <3>3. /\ \A n \in ok : Generates(Loaded, Selected[n])
          /\ \A n \in failures : ~Generates(Loaded, Selected[n]) /\ command.kind = "check"
      BY <2>1 DEF WorkInv
    <3> QED BY <3>1, <3>2, <3>3
  <2>5. ASSUME NEW f \in File, files[f] # before[f]
        PROVE  command.kind = "compile" /\ files[f] \in {[project |-> loaded, name |-> n] : n \in ok}
    BY <2>1, <2>5 DEF WorkInv, FileOf
  <2> QED BY <2>3, <2>4, <2>5
<1> QED BY <1>1, CompileInvariant, PTL

\* A project that passed `compile --check --all` is prepared by run and schedule
\* without an error but an unknown workspace of a selected job or a failure to
\* stage or register its code, and by their dry runs without any, however many
\* commands and edits lie between.
THEOREM CheckHolds == Spec => []CheckPredictsRun
<1>1. IInv => CheckPredictsRun
  <2> SUFFICES ASSUME IInv, pc = "idle", command.kind = "prepare", Selects, loaded = checked
      PROVE \/ verdict \in {"good", "interrupted"}
            \/ verdict = "workspace" /\ ~command.dry /\ \E n \in DOMAIN Selected : ~Resolves(Selected[n])
            \/ verdict = "snapshot" /\ ~command.dry /\ Loaded.code
    BY DEF CheckPredictsRun
  <2>1. loaded \in Project /\ checked # 0 BY NoSelection DEF IInv, TypeOK
  <2>2. /\ verdict \in {"good", "reported", "workspace", "snapshot", "job", "interrupted"}
        /\ verdict = "workspace" => ~command.dry /\ \E n \in DOMAIN Selected : ~Resolves(Selected[n])
        /\ verdict = "snapshot" => ~command.dry /\ Loaded.code
    BY DEF IInv, EndInv, HasResolver
  <2>3. verdict # "reported" BY DEF IInv, EndInv, WorkInv
  <2>4. \A n \in DOMAIN Selected : Generates(Loaded, Selected[n])
    <3>1. \A n \in DOMAIN EnumerateJobs(Loaded) : Generates(Loaded, EnumerateJobs(Loaded)[n])
      BY <2>1 DEF IInv, CheckedInv, Loaded
    <3> QED BY <2>1, <3>1, SelectedNames
  <2>5. verdict # "job" BY <2>4 DEF IInv, EndInv
  <2> QED BY <2>2, <2>3, <2>5
<1> QED BY <1>1, CompileInvariant, PTL

\* What resolve-patterns lists is what run and schedule accept and prepare: the
\* two ways of selecting (enumerate_jobs, resolve_jobs) agree on every project
\* that can be listed.
THEOREM ListedRuns == Spec => []ListedIsRunnable
<1>1. IInv => ListedIsRunnable
  <2> SUFFICES ASSUME IInv, listed # 0, loaded = listed, command.kind = "prepare", ~command.all
      PROVE /\ verdict = "selection" => ~(command.names \subseteq DOMAIN EnumerateJobs(Loaded))
            /\ pc = "generating" => \A n \in DOMAIN Selected :
                 n \in DOMAIN EnumerateJobs(Loaded) /\ Selected[n] = EnumerateJobs(Loaded)[n]
    BY DEF ListedIsRunnable
  <2>1. loaded \in Project /\ loaded # 0 BY DEF IInv, TypeOK
  <2>2. ASSUME verdict = "selection", command.names \subseteq DOMAIN EnumerateJobs(Loaded) PROVE FALSE
    <3>1. ~Resolvable(Loaded, command.names) BY <2>1, <2>2 DEF IInv, EndInv
    <3>2. ~EnumerationFails(Loaded) BY DEF IInv, ListedInv, Loaded
    <3>3. command.names \subseteq LiteralNames(Loaded) \cup RenderedNames(Loaded) BY <2>2, Enumerated
    <3> QED BY <3>1, <3>2, <3>3, ListedResolves
  <2>3. ASSUME pc = "generating"
        PROVE \A n \in DOMAIN Selected : n \in DOMAIN EnumerateJobs(Loaded) /\ Selected[n] = EnumerateJobs(Loaded)[n]
    BY <2>1, <2>3, SelectedNames DEF IInv, StartedInv
  <2> QED BY <2>2, <2>3
<1> QED BY <1>1, CompileInvariant, PTL

-----------------------------------------------------------------------------
(* The order of the keys: which factory names a job and which configures it. *)

\* Of finitely many things that are measured, one has the greatest measure.
LEMMA Greatest ==
  ASSUME NEW S, IsFiniteSet(S), S # {}, NEW m \in [S -> Int]
  PROVE  \E x \in S : \A y \in S : m[y] <= m[x]
<1> DEFINE Over(x) == {y \in S : m[y] > m[x]}
           T == {Over(x) : x \in S}
<1>1. \A x \in S : Over(x) \in FiniteSubsetsOf(S) BY FS_Subset DEF FiniteSubsetsOf
<1>2. T \subseteq FiniteSubsetsOf(S) /\ T # {}
  <2> HIDE DEF Over
  <2>1. T \subseteq FiniteSubsetsOf(S) BY <1>1
  <2>2. PICK x : x \in S OBVIOUS
  <2>3. Over(x) \in T BY <2>2
  <2> QED BY <2>1, <2>3
<1>3. IsWellFoundedOn(StrictSubsetOrdering(S), FiniteSubsetsOf(S)) BY FS_StrictSubsetOrderingWellFounded
<1> HIDE DEF T
<1>4. PICK A \in T : \A B \in T : ~(<<B, A>> \in StrictSubsetOrdering(S)) BY <1>2, <1>3, WFMin
<1>5. PICK x \in S : A = Over(x) BY DEF T
<1>6. ASSUME NEW y \in S, m[y] > m[x] PROVE FALSE
  <2>1. Over(y) \subseteq Over(x)
    <3>1. \A z \in S : m[z] \in Int OBVIOUS
    <3> QED BY <1>6, <3>1
  <2>2. y \in Over(x) /\ y \notin Over(y)
    <3>1. m[y] \in Int OBVIOUS
    <3> QED BY <1>6, <3>1
  <2>3. Over(y) \in T /\ Over(x) \in SUBSET S /\ Over(y) \in SUBSET S BY DEF T
  <2> HIDE DEF Over
  <2>4. <<Over(y), Over(x)>> \in StrictSubsetOrdering(S) BY <2>1, <2>2, <2>3 DEF StrictSubsetOrdering
  <2> QED BY <1>4, <1>5, <2>3, <2>4
<1>7. \A y \in S : ~(m[y] > m[x]) BY <1>6
<1>8. \A y \in S : m[y] \in Int OBVIOUS
<1> QED BY <1>7, <1>8

\* What the keys are ordered by are numbers.
LEMMA KeyMeasured ==
  ASSUME NEW q \in Project, NEW key \in DOMAIN Definition[q].jobs
  PROVE  LiteralLen(key) \in Int /\ KeyRank[key] \in Int /\ Cardinality(Tokens(key)) \in Int
<1>1. /\ key \in Seq(Range(key)) /\ KeyRank[key] \in Nat
      /\ \A i \in Words(key) : WordLength[key[i].text] \in Nat
  BY KeyAssumption
<1>2. Len(key) \in Nat /\ DOMAIN key = 1..Len(key) BY <1>1
<1>3. IsFiniteSet(DOMAIN key) BY <1>2, FS_Interval
<1>4. LiteralLen(key) \in Int
  <2> DEFINE Of(i) == {i} \X (1..WordLength[key[i].text])
             parts == {Of(i) : i \in Words(key)}
             f == [i \in Words(key) |-> Of(i)]
  <2>1. IsFiniteSet(Words(key))
    <3>1. Words(key) \in SUBSET DOMAIN key BY DEF Words
    <3> QED BY <1>3, <3>1, FS_Subset
  <2>2. IsFiniteSet(parts)
    <3>1. f \in Surjection(Words(key), parts) BY DEF Surjection
    <3> HIDE DEF f, parts
    <3> QED BY <2>1, <3>1, FS_Surjection
  <2>3. ASSUME NEW i \in Words(key) PROVE IsFiniteSet(Of(i))
    <3> DEFINE length == WordLength[key[i].text]
    <3>1. IsFiniteSet({i}) BY FS_Singleton
    <3>2. length \in Int BY <1>1
    <3> HIDE DEF length
    <3>3. IsFiniteSet(1..length) BY <3>2, FS_Interval
    <3>4. IsFiniteSet({i} \X (1..length)) BY <3>1, <3>3, FS_Product
    <3> QED BY <3>4 DEF length
  <2>4. \A part \in parts : IsFiniteSet(part) BY <2>3
  <2> HIDE DEF parts
  <2>5. Cardinality(UNION parts) \in Nat BY <2>2, <2>4, FS_UNION, FS_CardinalityType
  <2>6. LiteralLen(key) = Cardinality(UNION parts) + Len(key) - 1 BY DEF LiteralLen, parts
  <2> QED BY <1>2, <2>5, <2>6
<1>5. Cardinality(Tokens(key)) \in Int
  <2> DEFINE places == {i \in DOMAIN key : key[i].kind = "token"}
             f == [i \in places |-> key[i].text]
  <2>1. IsFiniteSet(places)
    <3>1. places \in SUBSET DOMAIN key OBVIOUS
    <3> HIDE DEF places
    <3> QED BY <1>3, <3>1, FS_Subset
  <2>2. \A t : t \in Tokens(key) <=> \E i \in places : key[i].text = t BY DEF Tokens, Range
  <2>3. f \in Surjection(places, Tokens(key)) BY <2>2 DEF Surjection
  <2> HIDE DEF f, places
  <2> QED BY <2>1, <2>3, FS_Surjection, FS_CardinalityType
<1> QED BY <1>1, <1>4, <1>5

\* Of some keys of a project one is the most literal, ties going to the last in the
\* alphabet.
LEMMA MostLiteral ==
  ASSUME NEW q \in Project, NEW S \in SUBSET DOMAIN Definition[q].jobs, S # {}
  PROVE  \E f \in S : \A g \in S : MoreLiteral(f, g)
<1>1. IsFiniteSet(S) BY KeyAssumption, FS_Subset
<1> DEFINE length == [f \in S |-> LiteralLen(f)]
<1>2. length \in [S -> Int] BY KeyMeasured
<1>3. PICK x \in S : \A y \in S : length[y] <= length[x]
  <2> HIDE DEF length
  <2> QED BY <1>1, <1>2, Greatest
<1> DEFINE T == {y \in S : LiteralLen(y) = LiteralLen(x)}
           rank == [f \in T |-> KeyRank[f]]
<1>4. IsFiniteSet(T) /\ T # {} BY <1>1, FS_Subset
<1>5. rank \in [T -> Int] BY KeyMeasured
<1>6. PICK f \in T : \A g \in T : rank[g] <= rank[f]
  <2> HIDE DEF rank, T
  <2> QED BY <1>4, <1>5, Greatest
<1>7. f \in S /\ LiteralLen(f) = LiteralLen(x) OBVIOUS
<1>8. ASSUME NEW g \in S PROVE MoreLiteral(f, g)
  <2>1. LiteralLen(g) \in Int /\ LiteralLen(f) \in Int /\ KeyRank[g] \in Int /\ KeyRank[f] \in Int
    BY <1>7, KeyMeasured
  <2>2. LiteralLen(g) <= LiteralLen(f) BY <1>3, <1>7
  <2>3. LiteralLen(g) = LiteralLen(f) => KeyRank[g] <= KeyRank[f] BY <1>6, <1>7
  <2> QED BY <2>1, <2>2, <2>3 DEF MoreLiteral
<1> QED BY <1>7, <1>8

\* Of some keys of a project one is the most general.
LEMMA MostGeneral ==
  ASSUME NEW q \in Project, NEW S \in SUBSET DOMAIN Definition[q].jobs, S # {}
  PROVE  \E f \in S : \A g \in S : MoreGeneral(f, g)
<1>1. IsFiniteSet(S) BY KeyAssumption, FS_Subset
<1> DEFINE count == [f \in S |-> Cardinality(Tokens(f))]
<1>2. count \in [S -> Int] BY KeyMeasured
<1>3. PICK x \in S : \A y \in S : count[y] <= count[x]
  <2> HIDE DEF count
  <2> QED BY <1>1, <1>2, Greatest
<1> DEFINE T == {y \in S : Cardinality(Tokens(y)) = Cardinality(Tokens(x))}
<1>4. T \in SUBSET DOMAIN Definition[q].jobs /\ T # {} OBVIOUS
<1>5. PICK f \in T : \A g \in T : MoreLiteral(f, g)
  <2> HIDE DEF T
  <2> QED BY <1>4, MostLiteral
<1>6. f \in S /\ Cardinality(Tokens(f)) = Cardinality(Tokens(x)) OBVIOUS
<1>7. ASSUME NEW g \in S PROVE MoreGeneral(f, g)
  <2>1. Cardinality(Tokens(g)) \in Int /\ Cardinality(Tokens(f)) \in Int BY <1>6, KeyMeasured
  <2>2. Cardinality(Tokens(g)) <= Cardinality(Tokens(f)) BY <1>3, <1>6
  <2>3. Cardinality(Tokens(g)) = Cardinality(Tokens(f)) => MoreLiteral(f, g) BY <1>5, <1>6
  <2> QED BY <2>1, <2>2, <2>3 DEF MoreGeneral
<1> QED BY <1>6, <1>7

\* The name of a binding that has candidates is one that a candidate renders, and of
\* the candidates that render it the winner is the most literal.
LEMMA WinnerIsMostLiteral ==
  ASSUME NEW q \in Project, NEW b, Candidates(Definition[q], b) # {}
  PROVE  /\ MatchesJobType(Canonical(Definition[q], b), b.job)
         /\ \A f \in Candidates(Definition[q], b) :
              Render(f, b.values) = Canonical(Definition[q], b)
                => MoreLiteral(Winner(Definition[q], b), f)
         /\ Winner(Definition[q], b) \in Candidates(Definition[q], b)
<1> DEFINE p == Definition[q]
           applicable == {f \in Candidates(p, b) : Render(f, b.values) = Canonical(p, b)}
<1>1. Candidates(p, b) \in SUBSET DOMAIN p.jobs BY DEF Candidates, Factories
<1>2. \E f \in Candidates(p, b) : \A g \in Candidates(p, b) : MoreGeneral(f, g) BY <1>1, MostGeneral
<1>3. CanonicalKey(p, b) \in Candidates(p, b) BY <1>2 DEF CanonicalKey
<1>4. MatchesJobType(Canonical(p, b), b.job) BY <1>3 DEF Canonical, Candidates
<1>5. applicable # {} /\ applicable \in SUBSET DOMAIN p.jobs BY <1>1, <1>3 DEF Canonical
<1>6. \E f \in applicable : \A g \in applicable : MoreLiteral(f, g)
  <2> HIDE DEF applicable
  <2> QED BY <1>5, MostLiteral
<1>7. Winner(p, b) = CHOOSE f \in applicable : \A g \in applicable : MoreLiteral(f, g) BY DEF Winner
<1>8. Winner(p, b) \in applicable /\ \A g \in applicable : MoreLiteral(Winner(p, b), g)
  <2> HIDE DEF applicable
  <2> QED BY <1>6, <1>7
<1> QED BY <1>4, <1>8

\* The entry that configures a job is the most literal of those that render its name,
\* and a literal entry gives way to none (MostSpecificWins: factory.py's choice of the
\* body, after another factory has given the name).
THEOREM MostLiteralConfigures == Spec => []MostSpecificWins
<1>1. IInv => MostSpecificWins
  <2> SUFFICES ASSUME IInv, pc = "generating", NEW n \in DOMAIN Selected
      PROVE  /\ n \in LiteralNames(Loaded) => ~IsFactory(Selected[n].key)
             /\ IsFactory(Selected[n].key) => \A f \in Factories(Loaded) :
                  Fills(Selected[n].values, f) /\ Render(f, Selected[n].values) = n
                    => LiteralLen(f) <= LiteralLen(Selected[n].key)
    BY DEF MostSpecificWins
  <2>1. Selects /\ loaded \in Project BY NoSelection DEF IInv, StartedInv, TypeOK
  <2>2. n \in DOMAIN EnumerateJobs(Loaded) /\ Selected[n] = EnumerateJobs(Loaded)[n]
    BY <2>1, SelectedNames
  <2>3. CASE n \in LiteralNames(Loaded)
    <3>1. Selected[n] = LiteralJob(Loaded, n) BY <2>2, <2>3 DEF EnumerateJobs
    <3>2. \E k \in Literals(Loaded) : Render(k, NoValues) = n BY <2>3 DEF LiteralNames
    <3>3. Selected[n].key \in Literals(Loaded) BY <3>1, <3>2 DEF LiteralJob, JobOf
    <3>4. ~IsFactory(Selected[n].key) BY <3>3 DEF Literals, Factories
    <3> QED BY <3>4
  <2>4. CASE n \notin LiteralNames(Loaded)
    <3>1. n \in RenderedNames(Loaded) /\ Selected[n] = RenderedJob(Loaded, n)
      BY <2>2, <2>4 DEF EnumerateJobs
    <3>2. ~EnumerationFails(Loaded)
      <4>1. CASE command.all BY <2>1, <4>1, SelectedNames
      <4>2. CASE ~command.all
        <5>1. Resolvable(Loaded, command.names) BY <2>1, <4>2 DEF Selects, Refusal
        <5>2. n \in command.names BY <4>2 DEF Selected, Selection, ResolveJobs
        <5> QED BY <2>4, <5>1, <5>2 DEF Resolvable
      <4> QED BY <4>1, <4>2
    <3> DEFINE b == CHOOSE d \in DerivedBindings(Loaded) : Canonical(Loaded, d) = n
    <3>3. b \in DerivedBindings(Loaded) /\ Canonical(Loaded, b) = n BY <3>1 DEF RenderedNames
    <3>4. Selected[n] = JobOf(Winner(Loaded, b), b.values) BY <3>1 DEF RenderedJob
    <3> HIDE DEF b
    <3>5. Selected[n].key = Winner(Loaded, b) /\ Selected[n].values = b.values BY <3>4 DEF JobOf
    <3>6. Candidates(Loaded, b) # {} BY <3>2, <3>3 DEF EnumerationFails
    <3>7. /\ MatchesJobType(n, b.job)
          /\ \A f \in Candidates(Loaded, b) : Render(f, b.values) = n => MoreLiteral(Winner(Loaded, b), f)
          /\ Winner(Loaded, b) \in Candidates(Loaded, b)
      BY <2>1, <3>3, <3>6, WinnerIsMostLiteral DEF Loaded
    <3>8. ASSUME NEW f \in Factories(Loaded), Fills(b.values, f), Render(f, b.values) = n
          PROVE  LiteralLen(f) <= LiteralLen(Winner(Loaded, b))
      <4>1. MoreLiteral(Winner(Loaded, b), f) BY <3>7, <3>8 DEF Candidates
      <4>2. f \in DOMAIN Loaded.jobs /\ Winner(Loaded, b) \in DOMAIN Loaded.jobs
        BY <3>7 DEF Candidates, Factories
      <4>3. LiteralLen(f) \in Int /\ LiteralLen(Winner(Loaded, b)) \in Int
        BY <2>1, <4>2, KeyMeasured DEF Loaded
      <4> QED BY <4>1, <4>3 DEF MoreLiteral
    <3> QED BY <2>4, <3>5, <3>8
  <2> QED BY <2>3, <2>4
<1> QED BY <1>1, CompileInvariant, PTL
=============================================================================

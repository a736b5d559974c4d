-------------------------- MODULE JobNotifyProofs ---------------------------
(***************************************************************************)
(* Proofs about JobNotify for every pipeline, every assignment of          *)
(* processes to steps, every death and every order of the steps.           *)
(***************************************************************************)
EXTENDS JobNotify, WellFoundedInduction, FiniteSetTheorems, TLAPS

\* The nodes the operators name are nodes, and the poster waits for other leaves.
LEMMA StepsAreNodes ==
  /\ \A p \in Procs : StepOf[p] \in Nodes
  /\ Siblings \subseteq Nodes
  /\ \A n \in Nodes : Parents(n) \subseteq Nodes
  BY JobAssumption DEF Siblings, Leaves, Parents

\* What the proofs use of the constants.
LEMMA ConstantTypes ==
  /\ MaxPolls \in Nat
  /\ Threaded \in BOOLEAN /\ Mlflow \in BOOLEAN
  /\ ErrorHooks[1] \in {"notify", "mlflow"} /\ ErrorHooks[2] \in {"notify", "mlflow"}
  BY JobAssumption

LEMMA MessageType ==
  ASSUME NEW p \in Procs, NEW event \in {"start", "success", "failure", "unknown"},
         NEW about \in SUBSET Nodes, NEW threaded \in BOOLEAN
  PROVE  Message(p, event, about, threaded) \in Messages
  BY DEF Message, Messages

\* An outcome keeps the channel well typed.
LEMMA OutcomeType ==
  ASSUME TypeOK, NEW p \in Procs, NEW event \in {"success", "failure", "unknown"},
         NEW about \in SUBSET Nodes, Outcome(p, event, about)
  PROVE  posts' \subseteq Messages
<1>1. (Threaded /\ threadTag) \in BOOLEAN
  OBVIOUS
<1>2. Message(p, event, about, Threaded /\ threadTag) \in Messages
  BY <1>1, MessageType
<1> QED
  BY <1>2 DEF Outcome, TypeOK

\* What a poster knows of its siblings stays well typed.
LEMMA WaitType ==
  ASSUME NEW pending \in SUBSET Siblings, NEW reported \in SUBSET Siblings,
         NEW unreported \in SUBSET Siblings, NEW polls \in 0..MaxPolls
  PROVE  [pending |-> pending, reported |-> reported, unreported |-> unreported,
          polls |-> polls] \in Waits
  BY DEF Waits, Siblings

\* The wait starts with all its searches.
LEMMA PollsBound == MaxPolls \in 0..MaxPolls
<1>1. \A k \in Nat : k \in 0..k
  OBVIOUS
<1> QED
  BY <1>1, ConstantTypes

\* The searches left never leave their range.
LEMMA PollsType ==
  ASSUME NEW k \in 0..MaxPolls
  PROVE  (IF k = 0 THEN 0 ELSE k - 1) \in 0..MaxPolls
  BY ConstantTypes

\* The variables start in their ranges.
LEMMA JobInitType == Init => TypeOK
<1>1. NoWait \in Waits
  BY ConstantTypes DEF NoWait, Waits
<1> QED
  BY <1>1 DEF Init, TypeOK, Phases

\* Every step keeps every variable in its range.
LEMMA JobStepType == TypeOK /\ [Next]_vars => TypeOK'
<1> SUFFICES ASSUME TypeOK, [Next]_vars PROVE TypeOK'
  OBVIOUS
<1> USE DEF TypeOK, Phases
<1>1. ASSUME NEW n \in Nodes, StartStep(n) PROVE TypeOK'
  BY <1>1 DEF StartStep
<1>2. ASSUME NEW p \in Procs, TagRun(p) PROVE TypeOK'
  BY <1>2, StepsAreNodes DEF TagRun, Go
<1>3. ASSUME NEW p \in Procs, Announce(p) PROVE TypeOK'
  <2>1. posts' \subseteq Messages
    <3>1. CASE posts' = posts
      BY <3>1
    <3>2. ASSUME NEW acknowledged \in BOOLEAN,
                 posts' = posts \cup {Message(p, "start", {}, Threaded /\ acknowledged)}
          PROVE  posts' \subseteq Messages
      <4>1. (Threaded /\ acknowledged) \in BOOLEAN
        OBVIOUS
      <4> QED
        BY <3>2, <4>1, MessageType
    <3> QED
      BY <1>3, <3>1, <3>2 DEF Announce
  <2> QED
    BY <1>3, <2>1 DEF Announce, Go
<1>4. ASSUME NEW p \in Procs, RecordThread(p) PROVE TypeOK'
  <2>1. threadTag' \in BOOLEAN
    BY <1>4, ConstantTypes DEF RecordThread
  <2> QED
    BY <1>4, <2>1 DEF RecordThread, Go
<1>5. ASSUME NEW p \in Procs, RunNode(p) PROVE TypeOK'
  BY <1>5 DEF RunNode, Go
<1>6. ASSUME NEW p \in Procs, ErrorHook(p) PROVE TypeOK'
  <2>1. status' \in [Nodes -> {"waiting", "running"} \cup Terminal]
    BY <1>6 DEF ErrorHook, Fail, Terminal
  <2>2. phase' \in [Procs -> {"none", "tagging", "announcing", "recording", "node",
                     "error 1", "error 2", "after", "polling", "concluding", "done", "gone"}]
    BY <1>6 DEF ErrorHook, Fail, Go
  <2>3. errorTag' \subseteq Nodes
    BY <1>6, StepsAreNodes DEF ErrorHook
  <2>4. posts' \subseteq Messages
    <3>1. posts' = posts \/ Outcome(p, "failure", {StepOf[p]})
      BY <1>6 DEF ErrorHook
    <3>2. {StepOf[p]} \in SUBSET Nodes
      BY StepsAreNodes
    <3>3. CASE Outcome(p, "failure", {StepOf[p]})
      BY <3>2, <3>3, OutcomeType
    <3> QED
      BY <3>1, <3>3
  <2> QED
    BY <1>6, <2>1, <2>2, <2>3, <2>4 DEF ErrorHook
<1>7. ASSUME NEW p \in Procs, Leave(p) PROVE TypeOK'
  BY <1>7 DEF Leave, Finish, Go, Terminal
<1>8. ASSUME NEW p \in Procs, AwaitSiblings(p) PROVE TypeOK'
  <2>1. [pending |-> Siblings, reported |-> {}, unreported |-> {}, polls |-> MaxPolls] \in Waits
    <3>1. {} \in SUBSET Siblings /\ Siblings \in SUBSET Siblings
      OBVIOUS
    <3>2. MaxPolls \in 0..MaxPolls
      BY PollsBound
    <3> QED
      BY <3>1, <3>2, WaitType, Zenon
  <2> QED
    BY <1>8, <2>1 DEF AwaitSiblings, Go
<1>9. ASSUME NEW p \in Procs, Poll(p) PROVE TypeOK'
  <2>1. wait[p] \in Waits
    OBVIOUS
  <2>2. /\ wait[p].pending \in SUBSET Siblings /\ wait[p].reported \in SUBSET Siblings
        /\ wait[p].unreported \in SUBSET Siblings /\ wait[p].polls \in 0..MaxPolls
    BY <2>1 DEF Waits, Siblings
  <2>3. wait' \in [Procs -> Waits]
    <3> DEFINE w == wait[p]
               ended == {n \in w.pending : n \in nodeTag /\ status[n] \in Terminal}
               failed == {n \in ended : status[n] # "FINISHED"}
               new == [pending |-> w.pending \ ended,
                       reported |-> w.reported \cup {n \in failed : Reported(n)},
                       unreported |-> w.unreported \cup {n \in failed : ~Reported(n)},
                       polls |-> IF w.polls = 0 THEN 0 ELSE w.polls - 1]
    <3>1. new \in Waits
      <4>1. /\ w.pending \ ended \in SUBSET Siblings
            /\ w.reported \cup {n \in failed : Reported(n)} \in SUBSET Siblings
            /\ w.unreported \cup {n \in failed : ~Reported(n)} \in SUBSET Siblings
        BY <2>2
      <4>2. (IF w.polls = 0 THEN 0 ELSE w.polls - 1) \in 0..MaxPolls
        BY <2>2, PollsType
      <4> QED
        BY <4>1, <4>2, WaitType
    <3>2. wait' = [wait EXCEPT ![p] = new]
      BY <1>9 DEF Poll
    <3> QED
      BY <3>1, <3>2
  <2>4. phase' \in [Procs -> {"none", "tagging", "announcing", "recording", "node",
                     "error 1", "error 2", "after", "polling", "concluding", "done", "gone"}]
    BY <1>9 DEF Poll, Go
  <2> QED
    BY <1>9, <2>3, <2>4 DEF Poll
<1>10. ASSUME NEW p \in Procs, Conclude(p) PROVE TypeOK'
  <2>1. status' \in [Nodes -> {"waiting", "running"} \cup Terminal]
    BY <1>10 DEF Conclude, Finish, Terminal
  <2>2. phase' \in [Procs -> {"none", "tagging", "announcing", "recording", "node",
                     "error 1", "error 2", "after", "polling", "concluding", "done", "gone"}]
    BY <1>10 DEF Conclude, Finish, Go
  <2>3. wait[p].pending \subseteq Nodes /\ wait[p].unreported \subseteq Nodes
    BY DEF Waits, Leaves
  <2>4. posts' \subseteq Messages
    <3>1. \/ posts' = posts \/ Outcome(p, "success", {})
          \/ Outcome(p, "unknown", wait[p].pending) \/ Outcome(p, "failure", wait[p].unreported)
      BY <1>10 DEF Conclude
    <3>2. CASE Outcome(p, "success", {})
      <4>1. {} \in SUBSET Nodes
        OBVIOUS
      <4> QED
        BY <3>2, <4>1, OutcomeType
    <3>3. CASE Outcome(p, "unknown", wait[p].pending)
      BY <2>3, <3>3, OutcomeType
    <3>4. CASE Outcome(p, "failure", wait[p].unreported)
      BY <2>3, <3>4, OutcomeType
    <3> QED
      BY <3>1, <3>2, <3>3, <3>4
  <2> QED
    BY <1>10, <2>1, <2>2, <2>4 DEF Conclude
<1>11. ASSUME NEW p \in Procs, Die(p) PROVE TypeOK'
  BY <1>11 DEF Die, Fail, Terminal
<1>12. CASE UNCHANGED vars
  BY <1>12 DEF vars
<1> QED
  BY <1>1, <1>2, <1>3, <1>4, <1>5, <1>6, <1>7, <1>8, <1>9, <1>10, <1>11, <1>12
     DEF Next, Hooks

\* Every variable keeps its type.
THEOREM JobTypeCorrect == Spec => []TypeOK
  BY JobInitType, JobStepType, PTL DEF Spec

-----------------------------------------------------------------------------
\* The steps run in the order of the dependencies.
InOrder ==
  \A n \in Nodes : status[n] # "waiting" => \A m \in Parents(n) : status[m] = "FINISHED"

Ended == {"none", "done", "gone"}

\* A process that has hooks to run belongs to a step that has not ended.
RunningSteps ==
  \A p \in Procs : phase[p] \notin Ended => status[StepOf[p]] = "running"

\* A waiting poster has lost sight of no sibling but the finished ones.
Accounted(p) ==
  \A n \in Siblings :
    \/ n \in wait[p].pending \cup wait[p].reported \cup wait[p].unreported
    \/ status[n] = "FINISHED"

PosterWaits ==
  \A p \in Procs : phase[p] \in {"polling", "concluding"} =>
    StepOf[p] = Poster /\ (Mlflow => Accounted(p))

\* What success says, of the leaves the poster looked at.
SuccessMeansLeavesFinished ==
  Mlflow /\ Sent("success") # {} =>
    status[Poster] # "waiting" /\ \A n \in Siblings : status[n] = "FINISHED"

\* The inductive invariant behind SuccessMeansAllFinished: it says of the leaves
\* what the poster checked and of the interior what the order of the steps implies.
JobInv ==
  TypeOK /\ InOrder /\ RunningSteps /\ PosterWaits /\ SuccessMeansLeavesFinished

\* A step that ended stays as it is, and one that started has started.
LEMMA StatusMonotonic ==
  ASSUME TypeOK, RunningSteps, [Next]_vars
  PROVE  \A n \in Nodes :
           /\ status[n] \in Terminal => status'[n] = status[n]
           /\ status[n] # "waiting" => status'[n] # "waiting"
<1> USE DEF TypeOK, Terminal
<1>1. ASSUME NEW p \in Procs, Finish(p), phase[p] \notin Ended
      PROVE  \A n \in Nodes : /\ status[n] \in Terminal => status'[n] = status[n]
                              /\ status[n] # "waiting" => status'[n] # "waiting"
  BY <1>1, StepsAreNodes DEF Finish, RunningSteps
<1>2. ASSUME NEW p \in Procs, Fail(p), phase[p] \notin Ended
      PROVE  \A n \in Nodes : /\ status[n] \in Terminal => status'[n] = status[n]
                              /\ status[n] # "waiting" => status'[n] # "waiting"
  BY <1>2, StepsAreNodes DEF Fail, RunningSteps
<1>3. CASE \E n \in Nodes : StartStep(n)
  BY <1>3 DEF StartStep
<1>4. ASSUME NEW p \in Procs, Hooks(p) \/ Die(p)
      PROVE  \/ status' = status
             \/ Finish(p) /\ phase[p] \notin Ended
             \/ Fail(p) /\ phase[p] \notin Ended
  BY <1>4, JobAssumption
     DEF Hooks, TagRun, Announce, RecordThread, RunNode, ErrorHook, Leave, AwaitSiblings,
         Poll, Conclude, Die, Ended
<1>5. CASE UNCHANGED vars
  BY <1>5 DEF vars
<1> QED
  BY <1>1, <1>2, <1>3, <1>4, <1>5 DEF Next

\* No node is out of order: a started step's parents are finished, and stay so.
LEMMA OrderPreserved ==
  ASSUME TypeOK, RunningSteps, InOrder, [Next]_vars
  PROVE  InOrder'
<1> DEFINE Kept == \A n \in Nodes : status'[n] # "waiting" =>
                      status[n] # "waiting" \/ \A m \in Parents(n) : status[m] = "FINISHED"
<1>1. Kept
  <2>1. CASE \E n \in Nodes : StartStep(n)
    BY <2>1 DEF StartStep, TypeOK
  <2>2. ASSUME NEW p \in Procs, Hooks(p) \/ Die(p)
        PROVE  status' = status \/ Finish(p) \/ Fail(p)
    BY <2>2 DEF Hooks, TagRun, Announce, RecordThread, RunNode, ErrorHook, Leave,
                AwaitSiblings, Poll, Conclude, Die
  <2>3. ASSUME NEW p \in Procs, phase[p] \notin Ended, Finish(p) \/ Fail(p)
        PROVE  Kept
    BY <2>3, StepsAreNodes DEF Finish, Fail, TypeOK, RunningSteps
  <2>4. ASSUME NEW p \in Procs, Hooks(p) \/ Die(p)
        PROVE  status' = status \/ phase[p] \notin Ended
    BY <2>4, JobAssumption
       DEF Hooks, TagRun, Announce, RecordThread, RunNode, ErrorHook, Leave, AwaitSiblings,
           Poll, Conclude, Die, Ended
  <2>5. CASE UNCHANGED vars
    BY <2>5 DEF vars
  <2> QED
    BY <2>1, <2>2, <2>3, <2>4, <2>5 DEF Next
<1>2. \A n \in Nodes : status[n] = "FINISHED" => status'[n] = "FINISHED"
  BY StatusMonotonic DEF Terminal
<1> QED
  BY <1>1, <1>2, StepsAreNodes DEF InOrder

\* What a hook, or a death, does to its process: it moves on, or its step ends.
LEMMA Moves ==
  ASSUME TypeOK, NEW p \in Procs, Hooks(p) \/ Die(p)
  PROVE  /\ phase[p] \notin Ended
         /\ \/ status' = status /\ \E next \in Phases : Go(p, next)
            \/ Finish(p)
            \/ Fail(p)
<1> USE DEF Ended, Phases
<1>1. CASE TagRun(p) \/ Announce(p) \/ RecordThread(p) \/ RunNode(p)
  BY <1>1 DEF TagRun, Announce, RecordThread, RunNode
<1>2. CASE ErrorHook(p) \/ Leave(p) \/ AwaitSiblings(p) \/ Conclude(p)
  BY <1>2 DEF ErrorHook, Leave, AwaitSiblings, Conclude
<1>3. CASE Poll(p)
  <2>1. Go(p, "concluding") \/ Go(p, "polling")
    BY <1>3 DEF Poll, Go
  <2> QED
    BY <1>3, <2>1 DEF Poll
<1>4. CASE Die(p)
  BY <1>4, JobAssumption DEF Die
<1> QED
  BY <1>1, <1>2, <1>3, <1>4 DEF Hooks

\* Whoever has hooks to run is in a running step.
LEMMA RunningPreserved ==
  ASSUME TypeOK, RunningSteps, [Next]_vars
  PROVE  RunningSteps'
<1> USE DEF TypeOK, RunningSteps, Ended
<1>1. ASSUME NEW n \in Nodes, StartStep(n) PROVE RunningSteps'
  BY <1>1, StepsAreNodes DEF StartStep
<1>2. ASSUME NEW p \in Procs, Hooks(p) \/ Die(p) PROVE RunningSteps'
  <2>0. phase[p] \notin Ended
    BY <1>2, Moves
  <2>1. ASSUME status' = status, NEW next \in Phases, Go(p, next) PROVE RunningSteps'
    BY <2>0, <2>1 DEF Go
  <2>2. CASE Finish(p)
    <3> SUFFICES ASSUME NEW q \in Procs, phase'[q] \notin Ended
                 PROVE  status'[StepOf[q]] = "running"
      OBVIOUS
    <3>1. q # p /\ phase[q] \notin Ended
      BY <2>2 DEF Finish, Go
    <3>2. CASE StepOf[q] = StepOf[p]
      <4>1. ~(\A o \in ProcsOf(StepOf[p]) \ {p} : phase[o] = "done")
        BY <3>1, <3>2 DEF ProcsOf
      <4> QED
        BY <2>2, <3>1, <3>2, <4>1, StepsAreNodes DEF Finish
    <3>3. CASE StepOf[q] # StepOf[p]
      BY <2>2, <3>1, <3>3, StepsAreNodes DEF Finish
    <3> QED
      BY <3>2, <3>3
  <2>3. CASE Fail(p)
    BY <2>3, StepsAreNodes DEF Fail
  <2> QED
    BY <1>2, <2>1, <2>2, <2>3, Moves
<1>3. CASE UNCHANGED vars
  BY <1>3 DEF vars
<1> QED
  BY <1>1, <1>2, <1>3 DEF Next

\* A process that neither starts nor stops to wait knows of its siblings what it
\* knew, and finished siblings stay so.
LEMMA AccountedPreserved ==
  ASSUME TypeOK, RunningSteps, [Next]_vars, NEW p \in Procs, Accounted(p), wait'[p] = wait[p]
  PROVE  Accounted(p)'
<1>1. \A n \in Siblings : status[n] = "FINISHED" => status'[n] = "FINISHED"
  BY StatusMonotonic, StepsAreNodes DEF Terminal
<1> QED
  BY <1>1 DEF Accounted

\* Only the poster waits, and it loses sight of no sibling.
LEMMA PosterPreserved ==
  ASSUME TypeOK, RunningSteps, PosterWaits, [Next]_vars
  PROVE  PosterWaits'
<1> SUFFICES ASSUME NEW p \in Procs, phase'[p] \in {"polling", "concluding"}
             PROVE  StepOf[p] = Poster /\ (Mlflow => Accounted(p)')
  BY DEF PosterWaits
<1>1. ASSUME phase[p] \in {"polling", "concluding"}, wait'[p] = wait[p]
      PROVE  StepOf[p] = Poster /\ (Mlflow => Accounted(p)')
  BY <1>1, AccountedPreserved DEF PosterWaits
<1>2. ASSUME NEW n \in Nodes, StartStep(n)
      PROVE  StepOf[p] = Poster /\ (Mlflow => Accounted(p)')
  BY <1>1, <1>2 DEF StartStep, TypeOK
<1>3. ASSUME NEW q \in Procs, Hooks(q) \/ Die(q)
      PROVE  StepOf[p] = Poster /\ (Mlflow => Accounted(p)')
  <2>1. CASE AwaitSiblings(q) /\ p = q
    <3>1. CASE Siblings = {}
      BY <2>1, <3>1 DEF AwaitSiblings, Accounted
    <3>2. CASE Siblings # {} /\ Mlflow
      BY <2>1, <3>2 DEF AwaitSiblings, Accounted, TypeOK
    <3> QED
      BY <2>1, <3>1, <3>2 DEF AwaitSiblings
  <2>2. CASE Poll(q) /\ p = q
    <3>1. StepOf[p] = Poster /\ (Mlflow => Accounted(p))
      BY <2>2 DEF Poll, PosterWaits
    <3>2. ASSUME NEW n \in Siblings, n \in wait[p].pending
          PROVE  \/ n \in wait'[p].pending \cup wait'[p].reported \cup wait'[p].unreported
                 \/ status'[n] = "FINISHED"
      BY <2>2, <3>2 DEF Poll, TypeOK
    <3>3. ASSUME NEW n \in Siblings, n \in wait[p].reported \cup wait[p].unreported
          PROVE  n \in wait'[p].reported \cup wait'[p].unreported
      BY <2>2, <3>3 DEF Poll, TypeOK
    <3>4. UNCHANGED status
      BY <2>2 DEF Poll
    <3> QED
      BY <3>1, <3>2, <3>3, <3>4 DEF Accounted
  <2>3. CASE ~(AwaitSiblings(q) /\ p = q) /\ ~(Poll(q) /\ p = q)
    <3>1. wait'[p] = wait[p]
      BY <1>3, <2>3 DEF Hooks, TagRun, Announce, RecordThread, RunNode, ErrorHook, Leave,
                       AwaitSiblings, Poll, Conclude, Die, TypeOK
    <3>2. phase[p] \in {"polling", "concluding"}
      <4>1. CASE p # q
        <5>1. phase'[p] = phase[p] \/ phase'[p] = "gone"
          BY <1>3, <4>1, Moves DEF Go, Finish, Fail, TypeOK
        <5> QED
          BY <5>1
      <4>2. CASE p = q
        BY <1>3, <2>3, <4>2 DEF Hooks, TagRun, Announce, RecordThread, RunNode, ErrorHook,
                               Leave, Conclude, Die, Finish, Fail, Go, TypeOK
      <4> QED
        BY <4>1, <4>2
    <3> QED
      BY <1>1, <3>1, <3>2
  <2> QED
    BY <2>1, <2>2, <2>3
<1>4. CASE UNCHANGED vars
  BY <1>1, <1>4 DEF vars
<1> QED
  BY <1>2, <1>3, <1>4 DEF Next

\* Any nonempty set of nodes has a last one in the order of notification_roles.
LEMMA LastNode ==
  ASSUME NEW T \in SUBSET Nodes, T # {}
  PROVE  \E n \in T : \A m \in T : Rank[m] <= Rank[n]
<1> DEFINE size == Cardinality(Nodes)
           fromEnd == {size - Rank[n] : n \in T}
<1>1. size \in Nat /\ \A n \in Nodes : Rank[n] \in 1..size
  BY JobAssumption, FS_CardinalityType
<1>2. fromEnd \subseteq Nat /\ fromEnd # {}
  <2>1. \A n \in T : size - Rank[n] \in Nat
    BY <1>1
  <2> QED
    BY <2>1
<1>3. PICK k \in fromEnd : \A j \in fromEnd : ~(<<j, k>> \in OpToRel(<, Nat))
  <2> HIDE DEF fromEnd
  <2> QED
    BY <1>2, NatLessThanWellFounded, WFMin
<1>4. \A j \in fromEnd : k <= j
  <2>1. ASSUME NEW j \in fromEnd PROVE k <= j
    <3>1. j \in Nat /\ k \in Nat
      BY <1>2, <1>3
    <3>2. <<j, k>> \notin {ss \in Nat \X Nat : ss[1] < ss[2]}
      BY <1>3 DEF OpToRel
    <3> QED
      BY <3>1, <3>2
  <2> HIDE DEF fromEnd
  <2> QED
    BY <2>1
<1>5. PICK n \in T : k = size - Rank[n]
  BY <1>3
<1>6. ASSUME NEW m \in T PROVE Rank[m] <= Rank[n]
  <2>1. size - Rank[n] <= size - Rank[m]
    BY <1>4, <1>5
  <2> QED
    BY <1>1, <2>1
<1> QED
  BY <1>5, <1>6

\* The poster is a leaf: a finite graph without cycles has one.
LEMMA PosterIsNode == Poster \in Leaves /\ Poster \in Nodes
<1>1. PICK last \in Nodes : \A m \in Nodes : Rank[m] <= Rank[last]
  BY LastNode, JobAssumption
<1>2. last \in Leaves
  <2>1. ASSUME NEW m \in Nodes, <<last, m>> \in Edges PROVE FALSE
    <3>1. Rank[last] < Rank[m]
      BY <2>1, JobAssumption
    <3>2. Rank[last] \in Int /\ Rank[m] \in Int
      BY JobAssumption
    <3> QED
      BY <1>1, <3>1, <3>2
  <2> QED
    BY <2>1 DEF Leaves
<1>3. Leaves \in SUBSET Nodes
  BY DEF Leaves
<1>4. \E n \in Leaves : \A m \in Leaves : Rank[m] <= Rank[n]
  BY <1>2, <1>3, LastNode
<1>5. Poster \in Leaves
  BY <1>4 DEF Poster
<1> QED
  BY <1>3, <1>5

\* success is posted by a poster that has every sibling finished.
LEMMA SuccessPreserved ==
  ASSUME TypeOK, RunningSteps, PosterWaits, SuccessMeansLeavesFinished, [Next]_vars
  PROVE  SuccessMeansLeavesFinished'
<1> DEFINE Leaves1 == status[Poster] # "waiting" /\ \A n \in Siblings : status[n] = "FINISHED"
<1>1. ASSUME Leaves1 PROVE SuccessMeansLeavesFinished'
  <2>1. status'[Poster] # "waiting" /\ \A n \in Siblings : status'[n] = "FINISHED"
    BY <1>1, StatusMonotonic, StepsAreNodes, PosterIsNode DEF Terminal
  <2> QED
    BY <2>1 DEF SuccessMeansLeavesFinished
<1>2. ASSUME NEW p \in Procs, Conclude(p), Finished(wait[p]), Mlflow PROVE Leaves1
  <2>1. StepOf[p] = Poster /\ Accounted(p) /\ status[StepOf[p]] = "running"
    BY <1>2 DEF Conclude, PosterWaits, RunningSteps, Ended
  <2> QED
    BY <1>2, <2>1 DEF Finished, Accounted
<1>3. ASSUME ~(\E p \in Procs : Conclude(p) /\ Finished(wait[p]))
      PROVE  Sent("success")' \subseteq Sent("success")
  <2>1. ASSUME NEW p \in Procs, Hooks(p) \/ Die(p)
        PROVE  posts' \subseteq posts \cup {m \in posts' : m.event # "success"}
    <3>1. CASE Announce(p)
      BY <3>1 DEF Announce, Message
    <3>0. ASSUME NEW event \in {"failure", "unknown"}, NEW about, Outcome(p, event, about)
          PROVE  posts' \subseteq posts \cup {m \in posts' : m.event # "success"}
      BY <3>0 DEF Outcome, Message
    <3>2. CASE ErrorHook(p)
      <4>1. posts' = posts \/ Outcome(p, "failure", {StepOf[p]})
        BY <3>2 DEF ErrorHook
      <4> QED
        BY <3>0, <4>1
    <3>3. CASE Conclude(p)
      <4>1. \/ posts' = posts \/ Outcome(p, "unknown", wait[p].pending)
            \/ Outcome(p, "failure", wait[p].unreported)
        BY <1>3, <3>3 DEF Conclude
      <4> QED
        BY <3>0, <4>1
    <3> QED
      BY <2>1, <3>1, <3>2, <3>3
         DEF Hooks, TagRun, RecordThread, RunNode, Leave, AwaitSiblings, Poll, Die
  <2>2. posts' \subseteq posts \cup {m \in posts' : m.event # "success"}
    BY <2>1 DEF Next, StartStep, vars
  <2> QED
    BY <2>2 DEF Sent
<1> QED
  BY <1>1, <1>2, <1>3 DEF SuccessMeansLeavesFinished

\* Once a poster has seen every other leaf finish, every other step has: the last
\* unfinished one would have a child, which cannot have started.
LEMMA LeavesSpeakForAll ==
  ASSUME TypeOK, InOrder, status[Poster] # "waiting",
         \A n \in Siblings : status[n] = "FINISHED"
  PROVE  \A n \in Nodes \ {Poster} : status[n] = "FINISHED"
<1> DEFINE unfinished == {n \in Nodes \ {Poster} : status[n] # "FINISHED"}
<1>1. SUFFICES ASSUME unfinished # {} PROVE FALSE
  OBVIOUS
<1>2. PICK n \in unfinished : \A m \in unfinished : Rank[m] <= Rank[n]
  <2>1. unfinished \in SUBSET Nodes
    OBVIOUS
  <2> HIDE DEF unfinished
  <2> QED
    BY <1>1, <2>1, LastNode
<1>3. n \notin Leaves
  BY <1>2 DEF Siblings
<1>4. PICK c \in Nodes : <<n, c>> \in Edges
  BY <1>2, <1>3 DEF Leaves
<1>5. Rank[n] < Rank[c] /\ Rank[n] \in Int /\ Rank[c] \in Int
  BY <1>2, <1>4, JobAssumption
<1>6. c \notin unfinished
  BY <1>2, <1>5
<1>7. status[c] # "waiting"
  BY <1>4, <1>6
<1>8. status[n] = "FINISHED"
  BY <1>2, <1>4, <1>7 DEF InOrder, Parents
<1> QED
  BY <1>2, <1>8

\* JobInv holds of the first state and survives every step.
LEMMA JobInvariant == Spec => []JobInv
<1>1. Init => JobInv
  <2>1. Init => InOrder /\ RunningSteps /\ PosterWaits /\ SuccessMeansLeavesFinished
    BY StepsAreNodes
       DEF Init, InOrder, RunningSteps, PosterWaits, SuccessMeansLeavesFinished, Sent, Ended
  <2> QED
    BY <2>1, JobInitType DEF JobInv
<1>2. JobInv /\ [Next]_vars => JobInv'
  BY JobStepType, OrderPreserved, RunningPreserved, PosterPreserved, SuccessPreserved DEF JobInv
<1> QED
  BY <1>1, <1>2, PTL DEF Spec

\* success is only said of a job all of whose other steps finished, for every
\* pipeline and every death on the way.
THEOREM SuccessIsTrue == Spec => []SuccessMeansAllFinished
<1>1. JobInv => SuccessMeansAllFinished
  BY LeavesSpeakForAll DEF JobInv, SuccessMeansLeavesFinished, SuccessMeansAllFinished
<1> QED
  BY <1>1, JobInvariant, PTL

-----------------------------------------------------------------------------
\* What is left to say that the outcomes agree is who said what, and where that
\* process is now.  A step that waits has no process.
WaitingSteps == \A p \in Procs : status[StepOf[p]] = "waiting" => phase[p] = "none"

GoneHaveFailed == \A p \in Procs : phase[p] = "gone" => status[StepOf[p]] = "FAILED"

\* Only the poster that ended says success or unknown; failure is said by a step
\* that raised, or by the poster that ended.
Speaker(m) ==
  /\ m.event \in {"success", "unknown"} => StepOf[m.proc] = Poster /\ phase[m.proc] = "done"
  /\ m.event = "failure" =>
       \/ phase[m.proc] \in {"error 2", "gone"}
       \/ StepOf[m.proc] = Poster /\ phase[m.proc] = "done"

Speakers == \A m \in posts : Speaker(m)

\* A process says one thing.
OneVoice ==
  \A m, n \in posts : m.proc = n.proc /\ "start" \notin {m.event, n.event} => m.event = n.event

AgreeInv == WaitingSteps /\ GoneHaveFailed /\ Speakers /\ OneVoice

OneProcess(n) == \A p, q \in Procs : StepOf[p] = n /\ StepOf[q] = n => p = q

\* A process that is gone stays gone, one in its last error hook may only go, and
\* one that is done is moved only by the failure of another process of its step.
LEMMA EndedStay ==
  ASSUME TypeOK, RunningSteps, WaitingSteps, [Next]_vars, NEW p \in Procs
  PROVE  /\ phase[p] = "gone" => phase'[p] = "gone"
         /\ phase[p] = "done" /\ OneProcess(StepOf[p]) => phase'[p] = "done"
         /\ phase[p] = "error 2" => phase'[p] \in {"error 2", "gone"}
<1> USE DEF TypeOK, WaitingSteps
<1>1. ASSUME NEW n \in Nodes, StartStep(n)
      PROVE  StepOf[p] = n => phase[p] = "none"
  BY <1>1 DEF StartStep
<1>2. CASE \E n \in Nodes : StartStep(n)
  BY <1>1, <1>2 DEF StartStep
<1>3. ASSUME NEW q \in Procs, Hooks(q) \/ Die(q), q # p
      PROVE  phase'[p] = phase[p] \/ (phase'[p] = "gone" /\ StepOf[p] = StepOf[q])
  BY <1>3, Moves DEF Go, Finish, Fail
<1>4. CASE Hooks(p) \/ Die(p)
  <2>1. phase[p] \notin {"done", "gone"}
    BY <1>4, Moves DEF Ended
  <2>2. ASSUME phase[p] = "error 2" PROVE phase'[p] = "gone"
    BY <1>4, <2>2 DEF Hooks, TagRun, Announce, RecordThread, RunNode, ErrorHook, Leave,
                      AwaitSiblings, Poll, Conclude, Die, Fail
  <2> QED
    BY <2>1, <2>2
<1>5. CASE UNCHANGED vars
  BY <1>5 DEF vars
<1> QED
  BY <1>2, <1>3, <1>4, <1>5 DEF Next, OneProcess

\* Waiting steps have no process, and the steps of gone processes have failed.
LEMMA EndsPreserved ==
  ASSUME TypeOK, RunningSteps, WaitingSteps, GoneHaveFailed, [Next]_vars
  PROVE  WaitingSteps' /\ GoneHaveFailed'
<1> USE DEF TypeOK, WaitingSteps, GoneHaveFailed
<1>0. /\ \A n \in Nodes : status[n] = "FAILED" => status'[n] = "FAILED"
      /\ \A n \in Nodes : status'[n] = "waiting" => status[n] = "waiting"
  BY StatusMonotonic DEF Terminal
<1>1. ASSUME NEW n \in Nodes, StartStep(n) PROVE WaitingSteps' /\ GoneHaveFailed'
  BY <1>1, StepsAreNodes DEF StartStep
<1>2. ASSUME NEW p \in Procs, Hooks(p) \/ Die(p) PROVE WaitingSteps' /\ GoneHaveFailed'
  <2>1. status[StepOf[p]] = "running"
    BY <1>2, Moves DEF RunningSteps
  <2>2. ASSUME NEW next \in Phases, Go(p, next), status' = status, next # "gone"
        PROVE  WaitingSteps' /\ GoneHaveFailed'
    BY <2>1, <2>2, StepsAreNodes DEF Go
  <2>3. CASE Finish(p)
    BY <1>0, <2>1, <2>3, StepsAreNodes DEF Finish, Go
  <2>4. CASE Fail(p)
    BY <2>1, <2>4, StepsAreNodes DEF Fail
  <2>5. \/ status' = status /\ \E next \in Phases \ {"gone"} : Go(p, next)
        \/ Finish(p) \/ Fail(p)
    <3>1. CASE Poll(p)
      <4>1. Go(p, "concluding") \/ Go(p, "polling")
        BY <3>1 DEF Poll, Go
      <4> QED
        BY <3>1, <4>1 DEF Poll, Phases
    <3> QED
      BY <1>2, <3>1 DEF Hooks, TagRun, Announce, RecordThread, RunNode, ErrorHook, Leave,
                        AwaitSiblings, Conclude, Die, Phases
  <2> QED
    BY <2>2, <2>3, <2>4, <2>5
<1>3. CASE UNCHANGED vars
  BY <1>3 DEF vars
<1> QED
  BY <1>1, <1>2, <1>3 DEF Next

\* Every new message is a start, or an outcome of a process that had said none and
\* whose next phase is one Speaker allows.
LEMMA NewMessages ==
  ASSUME TypeOK, PosterWaits, Speakers, [Next]_vars, NEW m \in posts', m \notin posts
  PROVE  /\ m.proc \in Procs
         /\ \/ m.event = "start"
            \/ /\ m.event \in {"success", "unknown", "failure"}
               /\ phase[m.proc] = "concluding"
               /\ StepOf[m.proc] = Poster /\ phase'[m.proc] = "done"
            \/ /\ m.event = "failure"
               /\ phase[m.proc] \in {"error 1", "error 2"}
               /\ phase'[m.proc] \in {"error 2", "gone"}
<1> USE DEF TypeOK
<1>1. PICK p \in Procs : Announce(p) \/ ErrorHook(p) \/ Conclude(p)
  BY DEF Next, Hooks, StartStep, TagRun, RecordThread, RunNode, Leave, AwaitSiblings, Poll,
         Die, vars
<1>2. CASE Announce(p)
  <2>1. \E opens : posts' = posts \cup {Message(p, "start", {}, opens)}
    BY <1>2 DEF Announce
  <2>2. m.proc = p /\ m.event = "start"
    BY <2>1 DEF Message
  <2> QED
    BY <2>2
<1>3. CASE ErrorHook(p)
  <2>1. Outcome(p, "failure", {StepOf[p]})
    BY <1>3 DEF ErrorHook
  <2>2. m.proc = p /\ m.event = "failure"
    BY <2>1 DEF Outcome, Message
  <2> QED
    BY <1>3, <2>2 DEF ErrorHook, Go, Fail
<1>4. CASE Conclude(p)
  <2>1. \E event \in {"success", "unknown", "failure"} : \E about : Outcome(p, event, about)
    BY <1>4 DEF Conclude
  <2>2. m.proc = p /\ m.event \in {"success", "unknown", "failure"}
    BY <2>1 DEF Outcome, Message
  <2> QED
    BY <1>4, <2>2 DEF Conclude, Finish, Go, PosterWaits
<1> QED
  BY <1>1, <1>2, <1>3, <1>4

\* A step posts one kind of message.
LEMMA OneNewEvent ==
  ASSUME [Next]_vars, NEW m \in posts', NEW n \in posts', m \notin posts, n \notin posts
  PROVE  m.event = n.event
<1>1. PICK p \in Procs : Announce(p) \/ ErrorHook(p) \/ Conclude(p)
  BY DEF Next, Hooks, StartStep, TagRun, RecordThread, RunNode, Leave, AwaitSiblings, Poll,
         Die, vars
<1>2. CASE Announce(p)
  BY <1>2 DEF Announce, Message
<1>3. CASE ErrorHook(p)
  <2>1. Outcome(p, "failure", {StepOf[p]})
    BY <1>3 DEF ErrorHook
  <2> QED
    BY <2>1 DEF Outcome
<1>4. CASE Conclude(p)
  <2>1. \E event \in {"success", "unknown", "failure"} : \E about : Outcome(p, event, about)
    BY <1>4 DEF Conclude
  <2> QED
    BY <2>1 DEF Outcome
<1> QED
  BY <1>1, <1>2, <1>3, <1>4

\* Speakers and OneVoice survive every step.
LEMMA VoicesPreserved ==
  ASSUME OneProcess(Poster), TypeOK, RunningSteps, PosterWaits, AgreeInv, [Next]_vars
  PROVE  Speakers' /\ OneVoice'
<1> USE DEF AgreeInv
<1>1. ASSUME NEW m \in posts PROVE Speaker(m)' /\ m.proc \in Procs
  <2>1. m.proc \in Procs
    BY DEF TypeOK, Messages
  <2> QED
    BY <2>1, EndedStay DEF Speakers, Speaker
<1>2. ASSUME NEW m \in posts', m \notin posts PROVE Speaker(m)'
  BY <1>2, NewMessages DEF Speaker
<1>3. ASSUME NEW m \in posts', NEW n \in posts', m \notin posts, m.proc = n.proc,
             "start" \notin {m.event, n.event}
      PROVE  m.event = n.event
  <2>1. CASE n \in posts
    <3>1. n.event \in {"success", "unknown", "failure"}
      BY <1>3, <2>1 DEF TypeOK, Messages
    <3>2. Speaker(n)
      BY <2>1 DEF Speakers
    <3> QED
      BY <1>3, <3>1, <3>2, NewMessages DEF Speaker
  <2>2. CASE n \notin posts
    BY <1>3, <2>2, OneNewEvent
  <2> QED
    BY <2>1, <2>2
<1>4. Speakers'
  BY <1>1, <1>2 DEF Speakers
<1>5. OneVoice'
  BY <1>3 DEF OneVoice
<1> QED
  BY <1>4, <1>5

LEMMA AgreeInvariant ==
  ASSUME OneProcess(Poster) PROVE Spec => []AgreeInv
<1>1. Init => AgreeInv
  BY StepsAreNodes DEF Init, AgreeInv, WaitingSteps, GoneHaveFailed, Speakers, OneVoice
<1>2. JobInv /\ AgreeInv /\ [Next]_vars => AgreeInv'
  BY EndsPreserved, VoicesPreserved DEF JobInv, AgreeInv
<1> QED
  BY <1>1, <1>2, JobInvariant, PTL DEF Spec

\* Of a job whose poster is one process, the channel never reads both that it
\* succeeded and that it failed or is unknown, however many processes its other
\* steps have.
THEOREM OneVerdict ==
  ASSUME Mlflow, OneProcess(Poster)
  PROVE  Spec => []OutcomesAgree
<1>1. JobInv /\ AgreeInv => OutcomesAgree
  <2> SUFFICES ASSUME JobInv, AgreeInv,
                      NEW m \in posts, m.event = "success",
                      NEW n \in posts, n.event \in {"failure", "unknown"}
               PROVE  FALSE
    BY DEF OutcomesAgree, Sent
  <2>1. m.proc \in Procs /\ n.proc \in Procs
    BY DEF JobInv, TypeOK, Messages
  <2>2. StepOf[m.proc] = Poster /\ phase[m.proc] = "done"
    BY DEF AgreeInv, Speakers, Speaker
  <2>3. m.proc # n.proc
    BY DEF AgreeInv, OneVoice
  <2>4. StepOf[n.proc] # Poster
    BY <2>1, <2>2, <2>3 DEF OneProcess
  <2>5. phase[n.proc] \in {"error 2", "gone"}
    BY <2>4 DEF AgreeInv, Speakers, Speaker
  <2>6. status[StepOf[n.proc]] \in {"running", "FAILED"}
    BY <2>1, <2>5 DEF AgreeInv, GoneHaveFailed, JobInv, RunningSteps, Ended
  <2>7. status[StepOf[n.proc]] = "FINISHED"
    <3>1. SuccessMeansAllFinished
      BY LeavesSpeakForAll DEF JobInv, SuccessMeansLeavesFinished, SuccessMeansAllFinished
    <3> QED
      BY <2>1, <2>4, <3>1, StepsAreNodes, Mlflow DEF SuccessMeansAllFinished, Sent
  <2> QED
    BY <2>6, <2>7
<1> QED
  BY <1>1, AgreeInvariant, JobInvariant, PTL

-----------------------------------------------------------------------------
\* The thread tag is there for a reason, and only an announcer writes it.
ThreadInv ==
  /\ threadTag => Threaded
  /\ \A p \in Procs : phase[p] = "recording" => StepOf[p] = Announcer /\ Threaded
  /\ SuccessIsThreaded

\* A recording process is one of the announcer's.
LEMMA RecordingPreserved ==
  ASSUME TypeOK, ThreadInv, [Next]_vars
  PROVE  \A p \in Procs : phase'[p] = "recording" => StepOf[p] = Announcer /\ Threaded
<1> SUFFICES ASSUME NEW p \in Procs, phase'[p] = "recording", phase[p] # "recording"
             PROVE  StepOf[p] = Announcer /\ Threaded
  BY DEF ThreadInv
<1>1. ~(\E n \in Nodes : StartStep(n))
  BY DEF StartStep, TypeOK
<1>2. PICK q \in Procs : Hooks(q) \/ Die(q)
  BY <1>1 DEF Next, vars
<1>3. p = q
  BY <1>2, Moves DEF Go, Finish, Fail, TypeOK
<1>4. Announce(p)
  BY <1>2, <1>3 DEF Hooks, TagRun, RecordThread, RunNode, ErrorHook, Leave, AwaitSiblings, Poll,
                    Conclude, Die, Go, Finish, Fail, TypeOK
<1>5. CASE Announces(p)
  <2>1. PICK acknowledged \in BOOLEAN :
          Go(p, IF Threaded /\ acknowledged THEN "recording" ELSE "node")
    BY <1>4, <1>5 DEF Announce
  <2>2. Threaded
    BY <2>1 DEF Go, TypeOK
  <2> QED
    BY <1>5, <2>2 DEF Announces
<1>6. CASE ~Announces(p)
  BY <1>4, <1>6 DEF Announce, Go, TypeOK
<1> QED
  BY <1>5, <1>6

\* success, which waits for every other step, comes after the thread was recorded.
LEMMA ThreadPreserved ==
  ASSUME OneProcess(Poster), JobInv, AgreeInv, ThreadInv, [Next]_vars
  PROVE  ThreadInv'
<1> USE DEF JobInv
<1>1. \A p \in Procs : phase'[p] = "recording" => StepOf[p] = Announcer /\ Threaded
  BY RecordingPreserved
<1>2. \/ threadTag' = threadTag
      \/ \E p \in Procs : RecordThread(p) /\ Mlflow
  BY ConstantTypes DEF Next, Hooks, StartStep, TagRun, Announce, RecordThread, RunNode, ErrorHook,
         Leave, AwaitSiblings, Poll, Conclude, Die, vars, TypeOK
<1>3. threadTag' => Threaded
  BY <1>2 DEF ThreadInv, RecordThread
<1>4. ASSUME NEW m \in posts', m \notin posts, m.event = "success", threadTag'
      PROVE  m.thread
  <2>1. PICK p \in Procs : Announce(p) \/ ErrorHook(p) \/ Conclude(p)
    BY <1>4 DEF Next, Hooks, StartStep, TagRun, RecordThread, RunNode, Leave, AwaitSiblings, Poll,
           Die, vars
  <2>2. CASE Announce(p)
    BY <1>4, <2>2 DEF Announce, Message
  <2>3. CASE ErrorHook(p)
    <3>1. Outcome(p, "failure", {StepOf[p]})
      BY <1>4, <2>3 DEF ErrorHook
    <3> QED
      BY <1>4, <3>1 DEF Outcome, Message
  <2>4. CASE Conclude(p)
    <3>1. threadTag /\ Threaded
      BY <1>3, <1>4, <2>4 DEF Conclude
    <3>2. PICK event, about : Outcome(p, event, about)
      BY <1>4, <2>4 DEF Conclude
    <3>3. m = Message(p, event, about, Threaded /\ threadTag)
      BY <1>4, <3>2 DEF Outcome
    <3>4. Message(p, event, about, Threaded /\ threadTag).thread = (Threaded /\ threadTag)
      BY DEF Message
    <3> QED
      BY <3>1, <3>3, <3>4
  <2> QED
    BY <2>1, <2>2, <2>3, <2>4
<1>5. ASSUME NEW m \in posts, m.event = "success" PROVE threadTag' = threadTag
  <2> SUFFICES ASSUME NEW p \in Procs, RecordThread(p), Mlflow PROVE FALSE
    BY <1>2
  <2>1. m.proc \in Procs /\ StepOf[m.proc] = Poster /\ phase[m.proc] = "done"
    BY <1>5 DEF AgreeInv, Speakers, Speaker, TypeOK, Messages
  <2>2. status[StepOf[p]] = "running" /\ phase[p] = "recording"
    BY DEF RecordThread, RunningSteps, Ended
  <2>3. StepOf[p] # Poster
    BY <2>1, <2>2 DEF OneProcess
  <2>4. SuccessMeansAllFinished
    BY LeavesSpeakForAll DEF SuccessMeansLeavesFinished, SuccessMeansAllFinished
  <2> QED
    BY <1>5, <2>2, <2>3, <2>4, StepsAreNodes DEF SuccessMeansAllFinished, Sent
<1>6. SuccessIsThreaded'
  BY <1>4, <1>5 DEF ThreadInv, SuccessIsThreaded, Sent
<1> QED
  BY <1>1, <1>3, <1>6 DEF ThreadInv

\* success replies in the start message's thread whenever there is one on record,
\* for every pipeline whose poster is one process, whatever dies on the way.
THEOREM SuccessInThread ==
  ASSUME OneProcess(Poster) PROVE Spec => []SuccessIsThreaded
<1>1. Init => ThreadInv
  BY DEF Init, ThreadInv, SuccessIsThreaded, Sent
<1>2. JobInv /\ AgreeInv /\ ThreadInv /\ [Next]_vars => ThreadInv'
  BY ThreadPreserved
<1>3. ThreadInv => SuccessIsThreaded
  BY DEF ThreadInv
<1> QED
  BY <1>1, <1>2, <1>3, AgreeInvariant, JobInvariant, PTL DEF Spec

-----------------------------------------------------------------------------
\* The order of the hooks in which the failure is posted before kedro.error tells
\* the poster that it was.
NotifyFirst == ErrorHooks[1] = "notify"

\* What the two hooks of a step that raised do, in that order.
LEMMA HookCases ==
  ASSUME NotifyFirst, TypeOK, NEW p \in Procs, ErrorHook(p)
  PROVE  /\ UNCHANGED wait
         /\ \/ /\ phase[p] = "error 1" /\ Go(p, "error 2") /\ UNCHANGED <<status, errorTag>>
               /\ IF "failure" \in Events THEN Outcome(p, "failure", {StepOf[p]}) ELSE UNCHANGED posts
            \/ /\ phase[p] = "error 2" /\ Fail(p) /\ UNCHANGED posts
               /\ errorTag' = IF Tagging THEN errorTag \cup {StepOf[p]} ELSE errorTag
<1>1. ErrorHooks[1] = "notify" /\ ErrorHooks[2] = "mlflow"
  BY JobAssumption DEF NotifyFirst
<1> QED
  BY <1>1 DEF ErrorHook

\* A step moves one process, and may take the others of its step down.
LEMMA OneMoves ==
  ASSUME TypeOK, NEW p \in Procs, NEW q \in Procs, Hooks(q) \/ Die(q),
         phase'[p] # phase[p], phase'[p] # "gone"
  PROVE  p = q
<1>1. \A next \in Phases : Go(q, next) => p = q
  BY DEF Go, TypeOK
<1>2. Finish(q) => p = q
  BY DEF Finish, Go, TypeOK
<1>3. ~Fail(q)
  BY DEF Fail
<1> QED
  BY <1>1, <1>2, <1>3, Moves

LEMMA OutcomePosted ==
  ASSUME NEW p \in Procs, NEW event, NEW about, Outcome(p, event, about)
  PROVE  \E m \in posts' : m.proc = p /\ m.event = event /\ m.about = about
<1> DEFINE m == Message(p, event, about, Threaded /\ threadTag)
<1>1. m \in posts'
  BY DEF Outcome
<1>2. m.proc = p /\ m.event = event /\ m.about = about
  BY DEF Message
<1> QED
  BY <1>1, <1>2

\* Only a process that awaits or polls learns something.
LEMMA WaitMoves ==
  ASSUME TypeOK, [Next]_vars, NEW p \in Procs
  PROVE  wait'[p] = wait[p] \/ AwaitSiblings(p) \/ Poll(p)
<1>1. ASSUME NEW q \in Procs, AwaitSiblings(q), q # p PROVE wait'[p] = wait[p]
  BY <1>1 DEF AwaitSiblings, TypeOK
<1>2. ASSUME NEW q \in Procs, Poll(q), q # p PROVE wait'[p] = wait[p]
  BY <1>2 DEF Poll, TypeOK
<1>3. CASE \A q \in Procs : ~AwaitSiblings(q) /\ ~Poll(q)
  <2>1. wait' = wait
    BY <1>3 DEF Next, Hooks, StartStep, TagRun, Announce, RecordThread, RunNode, ErrorHook, Leave,
                Conclude, Die, vars
  <2> QED
    BY <2>1
<1> QED
  BY <1>1, <1>2, <1>3

LEMMA WaitKept ==
  ASSUME TypeOK, [Next]_vars, NEW p \in Procs, phase[p] \notin {"after", "polling"}
  PROVE  wait'[p] = wait[p]
BY WaitMoves DEF AwaitSiblings, Poll

LEMMA PostsGrow == ASSUME [Next]_vars PROVE posts \subseteq posts'
BY DEF Next, Hooks, StartStep, TagRun, Announce, RecordThread, RunNode, ErrorHook, Leave,
       AwaitSiblings, Poll, Conclude, Die, vars, Outcome

\* kedro.error is written once, by a step that is still running.
LEMMA ErrorTagGrows ==
  ASSUME NotifyFirst, TypeOK, RunningSteps, [Next]_vars
  PROVE  /\ errorTag \subseteq errorTag'
         /\ \A n \in errorTag' \ errorTag :
              status[n] = "running" /\ \E p \in Procs : StepOf[p] = n /\ phase[p] = "error 2"
<1>1. ASSUME NEW p \in Procs, ErrorHook(p)
      PROVE  /\ errorTag \subseteq errorTag'
             /\ \A n \in errorTag' \ errorTag :
                  status[n] = "running" /\ \E q \in Procs : StepOf[q] = n /\ phase[q] = "error 2"
  <2>1. CASE phase[p] = "error 2"
    <3>1. errorTag' = IF Tagging THEN errorTag \cup {StepOf[p]} ELSE errorTag
      BY <1>1, <2>1, HookCases
    <3>2. status[StepOf[p]] = "running"
      BY <2>1 DEF RunningSteps, Ended
    <3> QED
      BY <2>1, <3>1, <3>2
  <2>2. CASE phase[p] # "error 2"
    <3>1. errorTag' = errorTag
      BY <1>1, <2>2, HookCases
    <3> QED
      BY <3>1
  <2> QED
    BY <2>1, <2>2
<1>2. ASSUME ~(\E p \in Procs : ErrorHook(p)) PROVE errorTag' = errorTag
  BY <1>2 DEF Next, Hooks, StartStep, TagRun, Announce, RecordThread, RunNode, Leave, AwaitSiblings,
              Poll, Conclude, Die, vars
<1> QED
  BY <1>1, <1>2

\* What a turn of the wait adds to what the poster knows.
LEMMA WaitLearns ==
  ASSUME TypeOK, [Next]_vars, NEW p \in Procs
  PROVE  /\ wait'[p].reported \subseteq wait[p].reported \cup errorTag
         /\ \A n \in wait'[p].unreported :
              n \in wait[p].unreported \/ (status[n] = "FAILED" /\ status'[n] = "FAILED" /\ n \notin errorTag')
<1>1. CASE Poll(p)
  <2> DEFINE w == wait[p]
             ended == {n \in w.pending : n \in nodeTag /\ status[n] \in Terminal}
             failed == {n \in ended : status[n] # "FINISHED"}
             new == [pending |-> w.pending \ ended,
                     reported |-> w.reported \cup {n \in failed : Reported(n)},
                     unreported |-> w.unreported \cup {n \in failed : ~Reported(n)},
                     polls |-> IF w.polls = 0 THEN 0 ELSE w.polls - 1]
  <2>1. wait'[p] = new /\ UNCHANGED <<status, errorTag>>
    BY <1>1 DEF Poll, TypeOK
  <2>2. /\ new.reported = w.reported \cup {n \in failed : Reported(n)}
        /\ new.unreported = w.unreported \cup {n \in failed : ~Reported(n)}
    OBVIOUS
  <2> QED
    BY <2>1, <2>2 DEF Reported, Terminal
<1>2. CASE AwaitSiblings(p)
  BY <1>2 DEF AwaitSiblings, TypeOK
<1>3. CASE ~Poll(p) /\ ~AwaitSiblings(p)
  <2>1. wait'[p] = wait[p]
    BY <1>3, WaitMoves
  <2> QED
    BY <2>1
<1> QED
  BY <1>1, <1>2, <1>3

-----------------------------------------------------------------------------
Posted(p, about) ==
  \E m \in posts : m.event = "failure" /\ m.proc = p /\ m.about = about

\* Whoever is tagged as failed, or about to be, has posted its failure; what the
\* poster takes for reported is tagged.
ErrorInv ==
  /\ \A p \in Procs : phase[p] = "error 2" => Posted(p, {StepOf[p]})
  /\ \A n \in errorTag : \E p \in Procs : StepOf[p] = n /\ Posted(p, {n})
  /\ \A p \in Procs : wait[p].reported \subseteq errorTag

LEMMA ErrorPreserved ==
  ASSUME NotifyFirst, "failure" \in Events, TypeOK, RunningSteps, ErrorInv, [Next]_vars
  PROVE  ErrorInv'
<1>0. posts \subseteq posts' /\ errorTag \subseteq errorTag'
  BY PostsGrow, ErrorTagGrows
<1>1. ASSUME NEW p \in Procs, phase'[p] = "error 2" PROVE Posted(p, {StepOf[p]})'
  <2>1. CASE phase[p] = "error 2"
    BY <1>0, <2>1 DEF ErrorInv, Posted
  <2>2. CASE phase[p] # "error 2"
    <3>1. ~(\E n \in Nodes : StartStep(n))
      BY <1>1, <2>2 DEF StartStep, TypeOK
    <3>2. PICK q \in Procs : Hooks(q) \/ Die(q)
      BY <1>1, <2>2, <3>1 DEF Next, vars
    <3>3. p = q
      BY <1>1, <2>2, <3>2, OneMoves
    <3>4. ErrorHook(p)
      <4>1. ~Poll(p) /\ ~Announce(p)
        BY <1>1 DEF Poll, Announce, Go, TypeOK
      <4> QED
        BY <1>1, <3>2, <3>3, <4>1 DEF Hooks, TagRun, RecordThread, RunNode, Leave, AwaitSiblings,
                                      Conclude, Die, Go, Finish, Fail, TypeOK
    <3>5. Outcome(p, "failure", {StepOf[p]})
      BY <2>2, <3>4, HookCases
    <3> QED
      BY <3>5, OutcomePosted DEF Posted
  <2> QED
    BY <2>1, <2>2
<1>2. ASSUME NEW n \in errorTag' PROVE \E p \in Procs : StepOf[p] = n /\ Posted(p, {n})'
  <2>1. PICK p \in Procs : StepOf[p] = n /\ Posted(p, {n})
    BY <1>2, ErrorTagGrows DEF ErrorInv
  <2> QED
    BY <1>0, <2>1 DEF Posted
<1>3. ASSUME NEW p \in Procs PROVE wait'[p].reported \subseteq errorTag'
  BY <1>0, WaitLearns DEF ErrorInv
<1> QED
  BY <1>1, <1>2, <1>3 DEF ErrorInv

LEMMA ErrorInvariant ==
  ASSUME NotifyFirst, "failure" \in Events PROVE Spec => []ErrorInv
<1>1. Init => ErrorInv
  BY DEF Init, ErrorInv, NoWait
<1>2. JobInv /\ ErrorInv /\ [Next]_vars => ErrorInv'
  BY ErrorPreserved DEF JobInv
<1> QED
  BY <1>1, <1>2, JobInvariant, PTL DEF Spec

\* A poster that was left to end has not ended in silence, for every pipeline, any
\* number of processes and every death on the way, where the failure is posted
\* before kedro.error is written.
THEOREM PosterSpeaks ==
  ASSUME NotifyFirst PROVE Spec => []NeverSilent
<1>1. CASE ~({"success", "failure"} \subseteq Events /\ "warning" \notin Events)
  <2>1. NeverSilent
    BY <1>1 DEF NeverSilent
  <2> QED
    BY <2>1, PTL
<1>2. CASE {"success", "failure"} \subseteq Events /\ "warning" \notin Events
  <2>1. Init => NeverSilent
    BY PosterIsNode DEF Init, NeverSilent
  <2>2. JobInv /\ ErrorInv /\ NeverSilent /\ [Next]_vars => NeverSilent'
    <3> SUFFICES ASSUME JobInv, ErrorInv, NeverSilent, [Next]_vars, status'[Poster] = "FINISHED"
                 PROVE  \E m \in posts' : m.event \in {"success", "failure", "unknown"}
      BY DEF NeverSilent
    <3>1. CASE status[Poster] = "FINISHED"
      BY <1>2, <3>1, PostsGrow DEF NeverSilent
    <3>2. CASE status[Poster] # "FINISHED"
      <4>1. PICK p \in Procs : (Leave(p) \/ Conclude(p)) /\ Finish(p) /\ StepOf[p] = Poster
        BY <3>2, PosterIsNode
           DEF Next, Hooks, StartStep, TagRun, Announce, RecordThread, RunNode, ErrorHook, Leave,
               AwaitSiblings, Poll, Conclude, Die, Fail, Finish, vars, JobInv, TypeOK
      <4>2. Conclude(p)
        BY <1>2, <4>1 DEF Leave
      <4>3. ASSUME NEW event \in {"success", "failure", "unknown"}, NEW about, Outcome(p, event, about)
            PROVE  \E m \in posts' : m.event \in {"success", "failure", "unknown"}
        BY <4>3, OutcomePosted
      <4>4. CASE Finished(wait[p])
        <5>1. Outcome(p, "success", {})
          BY <1>2, <4>2, <4>4 DEF Conclude
        <5> QED
          BY <4>3, <5>1
      <4>5. CASE wait[p].pending # {}
        <5>1. Outcome(p, "unknown", wait[p].pending)
          BY <4>2, <4>5 DEF Conclude, Finished
        <5> QED
          BY <4>3, <5>1
      <4>6. CASE wait[p].pending = {} /\ wait[p].unreported # {}
        <5>1. Outcome(p, "failure", wait[p].unreported)
          BY <1>2, <4>2, <4>6 DEF Conclude, Finished
        <5> QED
          BY <4>3, <5>1
      <4>7. CASE wait[p].pending = {} /\ wait[p].unreported = {} /\ wait[p].reported # {}
        <5>1. PICK n \in errorTag : TRUE
          BY <4>7 DEF ErrorInv
        <5> QED
          BY <5>1, PostsGrow DEF ErrorInv, Posted
      <4> QED
        BY <4>4, <4>5, <4>6, <4>7 DEF Finished
    <3> QED
      BY <3>1, <3>2
  <2>3. Spec => []ErrorInv
    BY <1>2, ErrorInvariant
  <2> QED
    BY <2>1, <2>2, <2>3, JobInvariant, PTL DEF Spec
<1> QED
  BY <1>1, <1>2

-----------------------------------------------------------------------------
Failures == Sent("failure")

\* A poster that ended still accounts for its siblings.
DoneAccounts == \A p \in Procs : phase[p] = "done" /\ StepOf[p] = Poster => Accounted(p)

\* What it found failed and unreported has failed, and was never reported.
UnreportedInv ==
  \A p \in Procs, n \in Nodes :
    n \in wait[p].unreported => status[n] = "FAILED" /\ n \notin errorTag

\* If it lost no sibling, it told what it found unreported.
DoneTells ==
  \A p \in Procs :
    /\ phase[p] = "done" /\ StepOf[p] = Poster
    /\ wait[p].pending = {} /\ wait[p].unreported # {}
    => Posted(p, wait[p].unreported)

\* A failure is told by the step it is about, or by the poster that ended.
OwnFailure(m) == m.about = {StepOf[m.proc]} /\ phase[m.proc] \in {"error 2", "gone"}
PosterFailure(m) ==
  StepOf[m.proc] = Poster /\ phase[m.proc] = "done" /\ m.about = wait[m.proc].unreported

FailuresInv ==
  /\ \A m \in Failures : OwnFailure(m) \/ PosterFailure(m)
  /\ \A m, n \in Failures : m.proc = n.proc => m = n

DeathInv == DoneAccounts /\ UnreportedInv /\ DoneTells /\ FailuresInv

LEMMA UnreportedPreserved ==
  ASSUME NotifyFirst, TypeOK, RunningSteps, UnreportedInv, [Next]_vars
  PROVE  UnreportedInv'
<1> SUFFICES ASSUME NEW p \in Procs, NEW n \in Nodes, n \in wait'[p].unreported
             PROVE  status'[n] = "FAILED" /\ n \notin errorTag'
  BY DEF UnreportedInv
<1>1. CASE n \in wait[p].unreported
  <2>1. status[n] = "FAILED" /\ n \notin errorTag
    BY <1>1 DEF UnreportedInv
  <2>2. status'[n] = "FAILED"
    BY <2>1, StatusMonotonic DEF Terminal
  <2> QED
    BY <2>1, <2>2, ErrorTagGrows
<1>2. CASE n \notin wait[p].unreported
  BY <1>2, WaitLearns
<1> QED
  BY <1>1, <1>2

\* How a process of the poster gets to its end.
LEMMA PosterEnds ==
  ASSUME "failure" \in Events, TypeOK, [Next]_vars, NEW p \in Procs,
         StepOf[p] = Poster, phase'[p] = "done", phase[p] # "done"
  PROVE  Conclude(p)
<1>1. ~(\E n \in Nodes : StartStep(n))
  BY DEF StartStep, TypeOK
<1>2. PICK q \in Procs : Hooks(q) \/ Die(q)
  BY <1>1 DEF Next, vars
<1>3. p = q
  BY <1>2, OneMoves
<1>4. ~Poll(p) /\ ~Announce(p) /\ ~Leave(p)
  BY DEF Poll, Announce, Go, TypeOK, Leave
<1> QED
  BY <1>2, <1>3, <1>4 DEF Hooks, TagRun, RecordThread, RunNode, ErrorHook, AwaitSiblings,
                          Die, Go, Fail, TypeOK

LEMMA DonePreserved ==
  ASSUME Mlflow, "failure" \in Events, TypeOK, RunningSteps, PosterWaits, DoneAccounts, DoneTells,
         [Next]_vars
  PROVE  DoneAccounts' /\ DoneTells'
<1> SUFFICES ASSUME NEW p \in Procs, phase'[p] = "done", StepOf[p] = Poster
             PROVE  /\ Accounted(p)'
                    /\ wait'[p].pending = {} /\ wait'[p].unreported # {} =>
                         Posted(p, wait[p].unreported)' /\ wait'[p] = wait[p]
  BY DEF DoneAccounts, DoneTells, Posted
<1>1. CASE phase[p] = "done"
  <2>1. wait'[p] = wait[p]
    BY <1>1, WaitKept
  <2>2. Accounted(p)'
    BY <1>1, <2>1, AccountedPreserved DEF DoneAccounts
  <2> QED
    BY <1>1, <2>1, <2>2, PostsGrow DEF DoneTells, Posted
<1>2. CASE phase[p] # "done"
  <2>1. Conclude(p)
    BY <1>2, PosterEnds
  <2>2. wait'[p] = wait[p] /\ Accounted(p)
    BY <2>1 DEF Conclude, PosterWaits
  <2>3. Accounted(p)'
    BY <2>2, AccountedPreserved
  <2>4. ASSUME wait[p].pending = {}, wait[p].unreported # {}
        PROVE  \E m \in posts' : m.proc = p /\ m.event = "failure" /\ m.about = wait[p].unreported
    <3>1. Outcome(p, "failure", wait[p].unreported)
      BY <2>1, <2>4 DEF Conclude, Finished
    <3> QED
      BY <3>1, OutcomePosted
  <2> QED
    BY <2>2, <2>3, <2>4 DEF Posted
<1> QED
  BY <1>1, <1>2

\* Every new failure is the first of its process.
LEMMA NewFailure ==
  ASSUME NotifyFirst, TypeOK, PosterWaits, [Next]_vars,
         NEW m \in posts', m \notin posts, m.event = "failure"
  PROVE  /\ m.proc \in Procs /\ wait' = wait
         /\ posts' = posts \cup {m}
         /\ \/ phase[m.proc] = "error 1" /\ phase'[m.proc] = "error 2" /\ m.about = {StepOf[m.proc]}
            \/ /\ phase[m.proc] = "concluding" /\ phase'[m.proc] = "done"
               /\ StepOf[m.proc] = Poster /\ m.about = wait[m.proc].unreported
<1>1. PICK p \in Procs : Announce(p) \/ ErrorHook(p) \/ Conclude(p)
  BY DEF Next, Hooks, StartStep, TagRun, RecordThread, RunNode, Leave, AwaitSiblings, Poll,
         Die, vars
<1>2. CASE Announce(p)
  <2>1. \E opens : posts' = posts \cup {Message(p, "start", {}, opens)}
    BY <1>2 DEF Announce
  <2>2. m.event = "start"
    BY <2>1 DEF Message
  <2> QED
    BY <2>2
<1>3. CASE ErrorHook(p)
  <2>1. phase[p] = "error 1" /\ Go(p, "error 2") /\ Outcome(p, "failure", {StepOf[p]}) /\ wait' = wait
    BY <1>3, HookCases
  <2>2. posts' = posts \cup {m}
    BY <2>1 DEF Outcome
  <2>3. m.proc = p /\ m.about = {StepOf[p]}
    <3>1. m = Message(p, "failure", {StepOf[p]}, Threaded /\ threadTag)
      BY <2>1 DEF Outcome
    <3> QED
      BY <3>1 DEF Message
  <2> QED
    BY <2>1, <2>2, <2>3 DEF Go, TypeOK
<1>4. CASE Conclude(p)
  <2>1. phase[p] = "concluding" /\ Go(p, "done") /\ wait' = wait /\ StepOf[p] = Poster
    BY <1>4 DEF Conclude, Finish, PosterWaits
  <2>2. PICK event \in {"success", "unknown", "failure"}, about \in {{}, wait[p].pending, wait[p].unreported} :
          Outcome(p, event, about) /\ (event = "failure" => about = wait[p].unreported)
    BY <1>4 DEF Conclude
  <2>3. posts' = posts \cup {m}
    BY <2>2 DEF Outcome
  <2>4. m.proc = p /\ m.event = event /\ m.about = about
    BY <2>2 DEF Outcome, Message
  <2> QED
    BY <2>1, <2>2, <2>3, <2>4 DEF Go, TypeOK
<1> QED
  BY <1>1, <1>2, <1>3, <1>4

LEMMA FailuresPreserved ==
  ASSUME NotifyFirst, OneProcess(Poster), TypeOK, RunningSteps, PosterWaits, WaitingSteps,
         FailuresInv, [Next]_vars
  PROVE  FailuresInv'
<1>1. ASSUME NEW m \in posts, m.event = "failure"
      PROVE  (OwnFailure(m) \/ PosterFailure(m))' /\ phase[m.proc] \in {"error 2", "gone", "done"}
  <2>1. m.proc \in Procs
    BY DEF TypeOK, Messages
  <2>2. CASE OwnFailure(m)
    BY <2>1, <2>2, EndedStay DEF OwnFailure
  <2>3. CASE PosterFailure(m)
    BY <2>1, <2>3, EndedStay, WaitKept DEF PosterFailure
  <2> QED
    BY <1>1, <2>2, <2>3 DEF FailuresInv, Failures, Sent, OwnFailure, PosterFailure
<1>2. ASSUME NEW m \in posts', m \notin posts, m.event = "failure"
      PROVE  (OwnFailure(m) \/ PosterFailure(m))'
  BY <1>2, NewFailure DEF OwnFailure, PosterFailure
<1>3. ASSUME NEW m \in posts', m \notin posts, m.event = "failure",
             NEW n \in posts', n.event = "failure", m.proc = n.proc
      PROVE  m = n
  BY <1>1, <1>3, NewFailure
<1>4. \A m, n \in posts : m.event = "failure" /\ n.event = "failure" /\ m.proc = n.proc => m = n
  BY DEF FailuresInv, Failures, Sent
<1>5. \A m \in posts' : m.event = "failure" => (OwnFailure(m) \/ PosterFailure(m))'
  BY <1>1, <1>2
<1>6. \A m, n \in posts' : m.event = "failure" /\ n.event = "failure" /\ m.proc = n.proc => m = n
  BY <1>3, <1>4
<1> QED
  BY <1>5, <1>6 DEF FailuresInv, Failures, Sent

LEMMA DeathInvariant ==
  ASSUME NotifyFirst, Mlflow, OneProcess(Poster), "failure" \in Events
  PROVE  Spec => []DeathInv
<1>1. Init => DeathInv
  BY DEF Init, DeathInv, DoneAccounts, UnreportedInv, DoneTells, FailuresInv, Failures, Sent, NoWait
<1>2. JobInv /\ AgreeInv /\ DeathInv /\ [Next]_vars => DeathInv'
  BY UnreportedPreserved, DonePreserved, FailuresPreserved DEF JobInv, AgreeInv, DeathInv
<1> QED
  BY <1>1, <1>2, AgreeInvariant, JobInvariant, PTL DEF Spec

\* A leaf that died is told of exactly once, by itself or by the poster, for every
\* pipeline whose leaves are one process each and every death but the one between
\* the two hooks of a leaf.
THEOREM DeathsToldOnce ==
  ASSUME NotifyFirst, Mlflow, \A n \in Leaves : OneProcess(n)
  PROVE  Spec => []EachDeathToldOnce
<1>0. OneProcess(Poster)
  BY PosterIsNode
<1>1. CASE "failure" \notin Events
  <2>1. EachDeathToldOnce
    BY <1>1 DEF EachDeathToldOnce
  <2> QED
    BY <2>1, PTL
<1>2. CASE "failure" \in Events
  <2>1. JobInv /\ ErrorInv /\ DeathInv => EachDeathToldOnce
    <3> SUFFICES ASSUME JobInv, ErrorInv, DeathInv, NEW p \in Procs,
                        phase[p] = "done", StepOf[p] = Poster, wait[p].pending = {},
                        \A m \in Failures : StepOf[m.proc] \in Siblings => StepOf[m.proc] \in errorTag,
                        NEW n \in Siblings, status[n] = "FAILED"
                 PROVE  Cardinality({m \in Failures : n \in m.about}) = 1
      BY DEF EachDeathToldOnce, Failures
    <3>1. n \in Leaves /\ n \in Nodes /\ n # Poster
      BY StepsAreNodes DEF Siblings
    <3>2. \A m \in Failures : m \in posts /\ m.event = "failure" /\ m.proc \in Procs
      BY DEF Failures, Sent, JobInv, TypeOK, Messages
    <3>3. \A m \in Failures : n \in m.about =>
            \/ StepOf[m.proc] = n
            \/ m.proc = p /\ n \in wait[p].unreported
      <4> SUFFICES ASSUME NEW m \in Failures, n \in m.about
                   PROVE  StepOf[m.proc] = n \/ (m.proc = p /\ n \in wait[p].unreported)
        OBVIOUS
      <4>1. CASE OwnFailure(m)
        BY <4>1 DEF OwnFailure
      <4>2. CASE PosterFailure(m)
        <5>1. m.proc = p
          BY <4>2, <3>2, <1>0 DEF PosterFailure, OneProcess
        <5> QED
          BY <4>2, <5>1 DEF PosterFailure
      <4> QED
        BY <4>1, <4>2 DEF DeathInv, FailuresInv
    <3>4. \E m \in Failures : \A o \in Failures : n \in o.about <=> o = m
      <4>1. CASE n \in errorTag
        <5>1. PICK q \in Procs : StepOf[q] = n /\ Posted(q, {n})
          BY <4>1 DEF ErrorInv
        <5>2. PICK m \in Failures : m.proc = q /\ m.about = {n}
          BY <5>1 DEF Posted, Failures, Sent
        <5>3. n \notin wait[p].unreported
          BY <3>1, <4>1 DEF DeathInv, UnreportedInv
        <5>4. ASSUME NEW o \in Failures, n \in o.about PROVE o = m
          <6>1. StepOf[o.proc] = n
            BY <3>3, <5>3, <5>4
          <6>2. o.proc = q
            BY <3>1, <3>2, <5>1, <6>1 DEF OneProcess
          <6> QED
            BY <5>2, <6>2 DEF DeathInv, FailuresInv
        <5> QED
          BY <5>2, <5>4
      <4>2. CASE n \notin errorTag
        <5>1. n \in wait[p].unreported
          <6>1. Accounted(p) /\ wait[p].reported \subseteq errorTag
            BY DEF DeathInv, DoneAccounts, ErrorInv
          <6> QED
            BY <4>2, <6>1 DEF Accounted
        <5>2. PICK m \in Failures : m.proc = p /\ m.about = wait[p].unreported
          BY <5>1 DEF DeathInv, DoneTells, Posted, Failures, Sent
        <5>3. ASSUME NEW o \in Failures, n \in o.about PROVE o = m
          <6>1. o.proc = p
            BY <3>3, <4>2, <5>3
          <6> QED
            BY <5>2, <6>1 DEF DeathInv, FailuresInv
        <5> QED
          BY <5>1, <5>2, <5>3
      <4> QED
        BY <4>1, <4>2
    <3>5. PICK m \in Failures : {o \in Failures : n \in o.about} = {m}
      BY <3>4
    <3> QED
      BY <3>5, FS_Singleton
  <2>2. Spec => []ErrorInv
    BY <1>2, ErrorInvariant
  <2>3. Spec => []DeathInv
    BY <1>0, <1>2, DeathInvariant
  <2> QED
    BY <2>1, <2>2, <2>3, JobInvariant, PTL
<1> QED
  BY <1>1, <1>2
=============================================================================

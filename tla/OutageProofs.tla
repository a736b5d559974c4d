---------------------------- MODULE OutageProofs ----------------------------
(***************************************************************************)
(* Proofs about Outage for every set of start times and tables, every      *)
(* overlap of runs and every fault.                                        *)
(***************************************************************************)
EXTENDS Outage, TLAPS

\* The decision is well typed: its tags are instants of runs, or 0.
LEMMA DecisionType ==
  ASSUME NEW previous \in Tags, NEW entries \in SUBSET (Tables \cup {NoTable}), NEW r \in Starts
  PROVE  DecideOutage(previous, entries, r) \in Decisions
  BY OutageAssumption DEF DecideOutage, WasDegraded, Due, Decisions, Tags, NoTags, WarningTables

\* What is decided from a clean or missing history never recovers, and what is
\* decided without a warning keeps the history's state: the facts about the table
\* of decide_outage that the invariants rest on.
LEMMA DecisionFacts ==
  ASSUME NEW previous \in Tags, NEW entries \in SUBSET (Tables \cup {NoTable}), NEW r \in Starts,
         NEW d, d = DecideOutage(previous, entries, r)
  PROVE  /\ d.post = "recovered" => previous.state = "degraded"
         /\ d.state.state = "degraded" /\ d.post # "warning" => previous.state = "degraded"
         /\ d.thread \in {0, previous.thread}
         /\ d.state.thread \in {0, previous.thread}
  BY DEF DecideOutage, WasDegraded, Due, Tags, NoTags, WarningTables

LEMMA NoTagsType == NoTags \in Tags
  BY DEF NoTags, Tags

LEMMA UndecidedType == Undecided \in Decisions
  BY NoTagsType DEF Undecided, Decisions

-----------------------------------------------------------------------------
\* Every variable keeps its type.
THEOREM TypeCorrect == Spec => []TypeOK
<1>1. Init => TypeOK
  BY OutageAssumption, NoTagsType, UndecidedType DEF Init, TypeOK, Phases
<1>2. TypeOK /\ [Next]_vars => TypeOK'
  <2> SUFFICES ASSUME TypeOK, [Next]_vars PROVE TypeOK'
    OBVIOUS
  <2> USE DEF TypeOK, Phases
  <2>1. ASSUME NEW r \in Starts, NEW phase \in Phases, Leave(r, phase)
        PROVE  /\ pc' \in [Starts -> Phases]
               /\ marks' \in [Starts -> SUBSET (Tables \cup {NoTable})]
               /\ degraded' \in [Starts -> BOOLEAN]
               /\ dec' \in [Starts -> Decisions]
               /\ todo' \in [Starts -> SUBSET TagNames]
    BY <2>1, UndecidedType DEF Leave
  <2>2. ASSUME NoFault \/ \E kind \in Faults : Fault(kind)
        PROVE  faults' \in 0..MaxFaults
    BY <2>2, OutageAssumption DEF NoFault, Fault
  <2>3. ASSUME NEW r \in Starts, Begin(r) PROVE TypeOK'
    BY <2>3, <2>2 DEF Begin
  <2>4. ASSUME NEW r \in Starts, FailRun(r) PROVE TypeOK'
    BY <2>4, <2>1, <2>2 DEF FailRun
  <2>5. ASSUME NEW r \in Starts, NEW entries \in SUBSET Entries, Finish(r, entries) PROVE TypeOK'
    BY <2>5, <2>2 DEF Finish, Entries
  <2>6. ASSUME NEW r \in Starts, ExperimentRaises(r) PROVE TypeOK'
    BY <2>6, <2>1, <2>2 DEF ExperimentRaises, Fault
  <2>7. ASSUME NEW r \in Starts, ReadMarks(r) PROVE TypeOK'
    BY <2>7, <2>2 DEF ReadMarks, Fault
  <2>8. ASSUME NEW r \in Starts, NEW previous \in Tags, Decide(r, previous),
               NoFault \/ \E kind \in Faults : Fault(kind)
        PROVE  TypeOK'
    BY <2>8, <2>2, DecisionType DEF Decide
  <2>9. ASSUME NEW r \in Starts, FindPrevious(r) PROVE TypeOK'
    BY <2>9, <2>8, NoTagsType DEF FindPrevious, Recorded, Window
  <2>10. ASSUME NEW r \in Starts, LookupFails(r) PROVE TypeOK'
    BY <2>10, <2>8, NoTagsType DEF LookupFails, Fault
  <2>11. ASSUME NEW r \in Starts, Post(r) PROVE TypeOK'
    <3>1. PICK delivered \in BOOLEAN :
            /\ IF Subscribed(r)
               THEN Transport(delivered) /\ posts' = posts \cup {OutageMessage(r, delivered)}
               ELSE delivered /\ NoFault /\ UNCHANGED posts
            /\ dec' = [dec EXCEPT ![r].state = StateToWrite(r, delivered)]
            /\ todo' = [todo EXCEPT ![r] = {k \in TagNames : StateToWrite(r, delivered)[k] # NoTags[k]}]
      BY <2>11 DEF Post
    <3>2. dec[r] \in Decisions
      OBVIOUS
    <3>3. StateToWrite(r, delivered) \in Tags
      BY <3>2 DEF StateToWrite, Decisions, Tags
    <3>4. dec' \in [Starts -> Decisions]
      BY <3>1, <3>2, <3>3 DEF Decisions
    <3>5. Subscribed(r) => OutageMessage(r, delivered) \in Messages
      BY <3>2, OutageAssumption DEF OutageMessage, Subscribed, Decisions, Tags, Messages
    <3>6. posts' \subseteq Messages
      BY <3>1, <3>5
    <3>7. todo' \in [Starts -> SUBSET TagNames]
      BY <3>1
    <3>8. faults' \in 0..MaxFaults
      BY <3>1, <2>2 DEF Transport, Fault
    <3> QED
      BY <2>11, <3>4, <3>6, <3>7, <3>8 DEF Post
  <2>12. ASSUME NEW r \in Starts, WriteTag(r) PROVE TypeOK'
    <3>1. PICK k \in todo[r] :
            /\ \/ tags' = [tags EXCEPT ![r][k] = dec[r].state[k]] /\ NoFault
               \/ Fault("tag") /\ UNCHANGED tags
            /\ todo' = [todo EXCEPT ![r] = @ \ {k}]
            /\ pc' = [pc EXCEPT ![r] = IF todo[r] = {k} THEN "outcome" ELSE "writing"]
      BY <2>12 DEF WriteTag
    <3>2. /\ k \in TagNames
          /\ tags[r] \in Tags
          /\ dec[r].state \in Tags
      BY DEF Decisions
    <3>3. [tags[r] EXCEPT ![k] = dec[r].state[k]] \in Tags
      BY <3>2 DEF TagNames, Tags
    <3>4. tags' \in [Starts -> Tags]
      BY <3>1, <3>3
    <3>5. todo' \in [Starts -> SUBSET TagNames]
      BY <3>1
    <3>6. pc' \in [Starts -> Phases]
      BY <3>1
    <3>7. faults' \in 0..MaxFaults
      BY <3>1, <2>2 DEF Fault
    <3> QED
      BY <2>12, <3>4, <3>5, <3>6, <3>7 DEF WriteTag
  <2>13. ASSUME NEW r \in Starts, Outcome(r) PROVE TypeOK'
    <3>0. \/ posts' = posts
          \/ \E delivered \in BOOLEAN : posts' = posts \cup {SuccessMessage(r, delivered)}
      BY <2>13 DEF Outcome
    <3>1. posts' \subseteq Messages
      <4>1. ASSUME NEW delivered \in BOOLEAN PROVE SuccessMessage(r, delivered) \in Messages
        BY DEF SuccessMessage, Messages
      <4> QED
        BY <3>0, <4>1
    <3>2. faults' \in 0..MaxFaults
      BY <2>13, <2>2 DEF Outcome, Transport, Fault
    <3> QED
      BY <2>13, <2>1, <3>1, <3>2 DEF Outcome
  <2>14. ASSUME NEW r \in Starts, Crash(r) PROVE TypeOK'
    BY <2>14, <2>1, <2>2 DEF Crash, Fault
  <2>15. CASE UNCHANGED vars
    BY <2>15 DEF vars
  <2>16. QED
    BY <2>3, <2>4, <2>5, <2>6, <2>7, <2>9, <2>10, <2>11, <2>12, <2>13, <2>14, <2>15 DEF Next
<1>3. QED
  BY <1>1, <1>2, PTL DEF Spec

-----------------------------------------------------------------------------
\* The runs whose delivered top-level warning opened a thread.
Roots == {r \in Starts : \E w \in posts :
            w.run = r /\ w.event = "warning" /\ w.thread = 0 /\ w.delivered}

\* A thread, wherever it is kept (a tag, a decision not written yet, a message),
\* is the root of one of them.
ThreadsInv ==
  /\ \A r \in Starts : /\ tags[r].thread \in Roots \cup {0}
                       /\ dec[r].thread \in Roots \cup {0}
                       /\ dec[r].state.thread \in Roots \cup {0}
  /\ \A m \in posts : m.thread \in Roots \cup {0}

LEMMA RootsMonotonic ==
  ASSUME TypeOK, [Next]_vars PROVE Roots \subseteq Roots'
<1>1. posts \subseteq posts'
  BY DEF Next, vars, Begin, FailRun, Finish, ExperimentRaises, ReadMarks, FindPrevious,
         LookupFails, Decide, Post, WriteTag, Outcome, Crash
<1> QED
  BY <1>1 DEF Roots

\* Replies are threaded under a delivered top-level warning, for every overlap of
\* runs and every fault.
THEOREM RepliesThreaded == Spec => []RepliesHaveParent
<1>1. Init => ThreadsInv
  BY DEF Init, ThreadsInv, NoTags, Undecided
<1>2. TypeOK /\ ThreadsInv /\ [Next]_vars => ThreadsInv'
  <2> SUFFICES ASSUME TypeOK, ThreadsInv, [Next]_vars PROVE ThreadsInv'
    OBVIOUS
  <2>1. Roots \subseteq Roots'
    BY RootsMonotonic
  <2>2. ASSUME UNCHANGED <<tags, dec, posts>> PROVE ThreadsInv'
    BY <2>2, <2>1 DEF ThreadsInv
  <2>3. ASSUME NEW r \in Starts, NEW phase, Leave(r, phase), UNCHANGED tags,
               posts' = posts \/ \E delivered \in BOOLEAN : posts' = posts \cup {SuccessMessage(r, delivered)}
        PROVE ThreadsInv'
    <3>1. \A m \in posts' : m.thread \in Roots' \cup {0}
      BY <2>3, <2>1 DEF ThreadsInv, SuccessMessage
    <3>2. \A q \in Starts : dec'[q].thread \in Roots' \cup {0} /\ dec'[q].state.thread \in Roots' \cup {0}
      BY <2>3, <2>1 DEF ThreadsInv, TypeOK, Leave, Undecided, NoTags
    <3> QED
      BY <2>3, <2>1, <3>1, <3>2 DEF ThreadsInv
  <2>4. ASSUME NEW r \in Starts, NEW previous \in Tags, Decide(r, previous),
               previous.thread \in Roots \cup {0}
        PROVE ThreadsInv'
    <3>1. dec' = [dec EXCEPT ![r] = DecideOutage(previous, marks[r], r)]
      BY <2>4 DEF Decide
    <3>2. /\ DecideOutage(previous, marks[r], r).thread \in Roots \cup {0}
          /\ DecideOutage(previous, marks[r], r).state.thread \in Roots \cup {0}
      BY <2>4, DecisionFacts DEF TypeOK
    <3>3. \A q \in Starts : dec'[q].thread \in Roots' \cup {0} /\ dec'[q].state.thread \in Roots' \cup {0}
      BY <3>1, <3>2, <2>1 DEF ThreadsInv, TypeOK
    <3> QED
      BY <2>4, <2>1, <3>3 DEF ThreadsInv, Decide
  <2>5. ASSUME NEW r \in Starts, FindPrevious(r) PROVE ThreadsInv'
    BY <2>5, <2>4, NoTagsType DEF FindPrevious, Recorded, Window, ThreadsInv, TypeOK, NoTags
  <2>6. ASSUME NEW r \in Starts, LookupFails(r) PROVE ThreadsInv'
    BY <2>6, <2>4, NoTagsType DEF LookupFails, NoTags
  <2>7. ASSUME NEW r \in Starts, Post(r) PROVE ThreadsInv'
    <3>1. PICK delivered \in BOOLEAN :
            /\ IF Subscribed(r)
               THEN Transport(delivered) /\ posts' = posts \cup {OutageMessage(r, delivered)}
               ELSE delivered /\ NoFault /\ UNCHANGED posts
            /\ dec' = [dec EXCEPT ![r].state = StateToWrite(r, delivered)]
      BY <2>7 DEF Post
    <3>2. dec[r] \in Decisions /\ dec[r].state \in Tags
      BY DEF TypeOK, Decisions
    <3>3. \A m \in posts' : m.thread \in Roots' \cup {0}
      BY <3>1, <2>1 DEF ThreadsInv, OutageMessage
    <3>4. StateToWrite(r, delivered).thread \in Roots' \cup {0}
      <4>1. CASE Subscribed(r) /\ dec[r].post = "warning" /\ dec[r].thread = 0 /\ delivered /\ Threaded
        <5>1. StateToWrite(r, delivered).thread = r
          BY <4>1, <3>2 DEF StateToWrite, Tags
        <5>2. OutageMessage(r, delivered) \in posts'
          BY <4>1, <3>1
        <5>3. r \in Roots'
          BY <4>1, <5>2 DEF Roots, OutageMessage
        <5> QED
          BY <5>1, <5>3
      <4>2. CASE ~(Subscribed(r) /\ dec[r].post = "warning" /\ dec[r].thread = 0 /\ delivered /\ Threaded)
        BY <4>2, <2>1 DEF StateToWrite, ThreadsInv
      <4> QED
        BY <4>1, <4>2
    <3>5. \A q \in Starts : dec'[q].thread \in Roots' \cup {0} /\ dec'[q].state.thread \in Roots' \cup {0}
      BY <3>1, <3>2, <3>4, <2>1 DEF ThreadsInv, TypeOK, Decisions
    <3> QED
      BY <2>7, <2>1, <3>3, <3>5 DEF ThreadsInv, Post
  <2>8. ASSUME NEW r \in Starts, WriteTag(r) PROVE ThreadsInv'
    <3>1. PICK k \in todo[r] : tags' = [tags EXCEPT ![r][k] = dec[r].state[k]] \/ UNCHANGED tags
      BY <2>8 DEF WriteTag
    <3>2. \A q \in Starts : tags[q] \in Tags
      BY DEF TypeOK
    <3>3. k \in TagNames
      BY DEF TypeOK
    <3>4. \A q \in Starts : tags'[q].thread \in {tags[q].thread, dec[q].state.thread}
      BY <3>1, <3>2, <3>3 DEF TypeOK, Tags, TagNames
    <3> QED
      BY <2>8, <2>1, <3>4 DEF ThreadsInv, WriteTag
  <2>9. ASSUME NEW r \in Starts, Outcome(r) PROVE ThreadsInv'
    <3>1. posts' = posts \/ \E delivered \in BOOLEAN : posts' = posts \cup {SuccessMessage(r, delivered)}
      BY <2>9 DEF Outcome
    <3> QED
      BY <2>9, <2>3, <3>1 DEF Outcome
  <2>10. QED
    BY <2>2, <2>3, <2>5, <2>6, <2>7, <2>8, <2>9
    DEF Next, vars, Begin, FailRun, Finish, ExperimentRaises, ReadMarks, Crash
<1>3. TypeOK /\ ThreadsInv => RepliesHaveParent
  BY DEF ThreadsInv, RepliesHaveParent, Roots
<1>4. QED
  BY <1>1, <1>2, <1>3, TypeCorrect, PTL DEF Spec

-----------------------------------------------------------------------------
Warned == \E w \in posts : w.event = "warning"

\* A run that is degraded on record, or is about to record or to end an outage,
\* comes after a warning; only the run that is about to post one does not.
WarnedInv ==
  \A r \in Starts :
    /\ tags[r].state = "degraded" => Warned
    /\ dec[r].post = "recovered" => Warned
    /\ dec[r].state.state = "degraded" /\ ~(pc[r] = "posting" /\ dec[r].post = "warning") => Warned

LEMMA WarnedMonotonic ==
  ASSUME TypeOK, [Next]_vars, Warned PROVE Warned'
  BY DEF Warned, Next, vars, Begin, FailRun, Finish, ExperimentRaises, ReadMarks, FindPrevious,
         LookupFails, Decide, Post, WriteTag, Outcome, Crash

LEMMA WarnedInvariant ==
  ASSUME "warning" \in Events PROVE Spec => []WarnedInv
<1>1. Init => WarnedInv
  BY DEF Init, WarnedInv, NoTags, Undecided
<1>2. TypeOK /\ WarnedInv /\ [Next]_vars => WarnedInv'
  <2> SUFFICES ASSUME TypeOK, WarnedInv, [Next]_vars PROVE WarnedInv'
    OBVIOUS
  <2>1. Warned => Warned'
    BY WarnedMonotonic
  <2>2. ASSUME UNCHANGED <<tags, dec>>, NEW r \in Starts, NEW phase,
               pc[r] # "posting", pc' = [pc EXCEPT ![r] = phase]
        PROVE WarnedInv'
    BY <2>2, <2>1 DEF WarnedInv, TypeOK
  <2>3. ASSUME NEW r \in Starts, NEW phase, Leave(r, phase), UNCHANGED tags PROVE WarnedInv'
    BY <2>3, <2>1 DEF WarnedInv, TypeOK, Leave, Undecided, NoTags
  <2>4. ASSUME NEW r \in Starts, NEW previous \in Tags, Decide(r, previous),
               previous.state = "degraded" => Warned
        PROVE WarnedInv'
    <3>1. /\ dec' = [dec EXCEPT ![r] = DecideOutage(previous, marks[r], r)]
          /\ pc' = [pc EXCEPT ![r] = "posting"]
          /\ UNCHANGED tags
      BY <2>4 DEF Decide
    <3>2. /\ DecideOutage(previous, marks[r], r).post = "recovered" => Warned'
          /\ /\ DecideOutage(previous, marks[r], r).state.state = "degraded"
             /\ DecideOutage(previous, marks[r], r).post # "warning"
             => Warned'
      BY <2>4, <2>1, DecisionFacts DEF TypeOK
    <3> QED
      BY <3>1, <3>2, <2>1 DEF WarnedInv, TypeOK
  <2>5. ASSUME NEW r \in Starts, FindPrevious(r) PROVE WarnedInv'
    BY <2>5, <2>4, NoTagsType DEF FindPrevious, Recorded, Window, WarnedInv, TypeOK, NoTags
  <2>6. ASSUME NEW r \in Starts, LookupFails(r) PROVE WarnedInv'
    BY <2>6, <2>4, NoTagsType DEF LookupFails, NoTags
  <2>7. ASSUME NEW r \in Starts, Post(r) PROVE WarnedInv'
    <3>1. PICK delivered \in BOOLEAN :
            /\ IF Subscribed(r)
               THEN Transport(delivered) /\ posts' = posts \cup {OutageMessage(r, delivered)}
               ELSE delivered /\ NoFault /\ UNCHANGED posts
            /\ dec' = [dec EXCEPT ![r].state = StateToWrite(r, delivered)]
      BY <2>7 DEF Post
    <3>2. dec[r] \in Decisions /\ dec[r].state \in Tags
      BY DEF TypeOK, Decisions
    <3>3. dec[r].post = "warning" => Warned'
      <4> SUFFICES ASSUME dec[r].post = "warning" PROVE Warned'
        OBVIOUS
      <4>1. OutageMessage(r, delivered) \in posts'
        BY <3>1 DEF Subscribed
      <4>2. OutageMessage(r, delivered).event = "warning"
        BY DEF OutageMessage
      <4> QED
        BY <4>1, <4>2 DEF Warned
    <3>4. StateToWrite(r, delivered).state = dec[r].state.state
      BY <3>2 DEF StateToWrite, Tags
    <3>5. \A q \in Starts : /\ dec'[q].post = dec[q].post
                            /\ dec'[q].state.state = dec[q].state.state
      BY <3>1, <3>2, <3>4 DEF TypeOK, Decisions
    <3> QED
      BY <2>7, <2>1, <3>3, <3>5 DEF Post, WarnedInv, TypeOK
  <2>8. ASSUME NEW r \in Starts, WriteTag(r) PROVE WarnedInv'
    <3>1. PICK k \in todo[r] : tags' = [tags EXCEPT ![r][k] = dec[r].state[k]] \/ UNCHANGED tags
      BY <2>8 DEF WriteTag
    <3>2. \A q \in Starts : tags[q] \in Tags
      BY DEF TypeOK
    <3>3. k \in TagNames
      BY DEF TypeOK
    <3>4. tags'[r].state \in {tags[r].state, dec[r].state.state}
      BY <3>1, <3>2, <3>3 DEF TypeOK, Tags, TagNames
    <3>5. \A q \in Starts \ {r} : tags'[q] = tags[q]
      BY <3>1 DEF TypeOK
    <3>6. pc[r] = "writing" /\ UNCHANGED dec
      BY <2>8 DEF WriteTag
    <3>7. pc[r] = "writing" /\ \A q \in Starts \ {r} : pc'[q] = pc[q]
      BY <2>8 DEF WriteTag, TypeOK
    <3> QED
      BY <2>1, <3>4, <3>5, <3>6, <3>7 DEF WarnedInv
  <2>9. CASE UNCHANGED vars
    BY <2>9, <2>1 DEF vars, WarnedInv
  <2>10. QED
    BY <2>2, <2>3, <2>5, <2>6, <2>7, <2>8, <2>9
    DEF Next, Begin, FailRun, Finish, ExperimentRaises, ReadMarks, Outcome, Crash
<1>3. QED
  BY <1>1, <1>2, TypeCorrect, PTL DEF Spec

\* A job subscribed to warning never posts recovered before it posted, or tried to
\* post, a warning, for every overlap of runs and every fault.
THEOREM NoUnannouncedRecovery ==
  ASSUME "warning" \in Events PROVE Spec => RecoveredFollowsWarning
<1>1. WarnedInv /\ TypeOK /\ [Next]_vars =>
        [\A m \in posts' \ posts : m.event = "recovered" => \E w \in posts : w.event = "warning"]_posts
  <2> SUFFICES ASSUME WarnedInv, TypeOK, [Next]_vars, NEW m \in posts' \ posts, m.event = "recovered"
               PROVE  \E w \in posts : w.event = "warning"
    OBVIOUS
  <2>1. PICK r \in Starts : Post(r) \/ Outcome(r)
    BY DEF Next, vars, Begin, FailRun, Finish, ExperimentRaises, ReadMarks, FindPrevious,
           LookupFails, Decide, WriteTag, Crash
  <2>2. CASE Post(r)
    BY <2>2 DEF Post, OutageMessage, WarnedInv, Warned
  <2>3. CASE Outcome(r)
    BY <2>3 DEF Outcome, SuccessMessage
  <2> QED
    BY <2>1, <2>2, <2>3
<1> QED
  BY <1>1, WarnedInvariant, TypeCorrect, PTL DEF Spec, RecoveredFollowsWarning
=============================================================================

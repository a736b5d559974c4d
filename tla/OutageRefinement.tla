-------------------------- MODULE OutageRefinement --------------------------
(***************************************************************************)
(* Proof that the tags handed from run to run implement OutageSpec, for    *)
(* any number of runs and tables, when runs of the job do not overlap and  *)
(* MLflow answers; lost messages, failed runs and malformed entries        *)
(* included.                                                               *)
(***************************************************************************)
EXTENDS OutageProofs, FiniteSetTheorems

\* One run at a time, no poster killed, no read or write of a tag lost; the job
\* asks for warnings and recoveries.
Sequential ==
  /\ MaxInFlight = 1
  /\ Faults \subseteq {"entry", "experiment", "post"}
  /\ {"warning", "recovered"} \subseteq Events

-----------------------------------------------------------------------------
(* The inductive invariant, in parts. *)

\* One run is in flight, and it is the newest that was started.
AloneInv ==
  /\ \A p, q \in InFlight : p = q
  /\ \A r \in InFlight, q \in Starts : pc[q] # "absent" => q <= r

\* There is a newest report.
TopInv == Out # {} => \E top \in Out : \A q \in Out : q <= top

\* Where a run has written nothing.
Untouched == {"absent", "running", "reading", "lookup", "posting", "dead", "raised"}

\* The tags of a run are those of its decision, as far as they are written.
TagsInv ==
  \A r \in Starts :
    /\ pc[r] \in Untouched => tags[r] = NoTags
    /\ pc[r] = "writing" => \A k \in TagNames :
         tags[r][k] = IF k \in todo[r] THEN NoTags[k] ELSE dec[r].state[k]
    /\ pc[r] = "outcome" => tags[r] = dec[r].state
    /\ r \in Out => Decided(r).job /\ Decided(r).state # "none"

\* The decision that is about to be posted was taken from the outage in force.
PostingInv == \A r \in Starts : pc[r] = "posting" => dec[r] = DecideOutage(InForce, marks[r], r)

\* An outage in force has a beginning.
SinceInv == InForce.state = "degraded" => InForce.since # 0

SeqInv == TypeOK /\ AloneInv /\ TopInv /\ TagsInv /\ PostingInv /\ SinceInv

-----------------------------------------------------------------------------
(* The outage in force. *)

LEMMA OutStarted ==
  ASSUME TypeOK, NEW r \in Starts
  PROVE  /\ r \in Out <=> pc[r] \notin Untouched
         /\ r \in Out => r \in Starts /\ pc[r] # "absent"
         /\ pc[r] \in {"running", "reading", "lookup", "posting", "writing", "outcome"} <=> r \in InFlight
BY DEF TypeOK, Out, Writing, Untouched, Phases, InFlight

\* The newest report decides.
LEMMA TopForce ==
  ASSUME NEW top \in Out, \A q \in Out : q <= top
  PROVE  InForce = Decided(top)
<1>1. \A r \in Out : r \in Nat BY OutageAssumption DEF Out
<1>2. \A r \in Out : (\A q \in Out : q <= r) => r = top BY <1>1
<1>3. (CHOOSE r \in Out : \A q \in Out : q <= r) = top BY <1>2
<1> QED BY <1>3 DEF InForce

LEMMA NoForce == Out = {} => InForce = NoTags BY DEF InForce

LEMMA ForceType == ASSUME TypeOK, TopInv PROVE InForce \in Tags
<1>1. CASE Out = {} BY <1>1, NoForce, NoTagsType
<1>2. CASE Out # {}
  <2>1. PICK top \in Out : \A q \in Out : q <= top BY <1>2 DEF TopInv
  <2>2. Decided(top) \in Tags BY DEF Decided, TypeOK, Out, Decisions
  <2> QED BY <2>1, <2>2, TopForce
<1> QED BY <1>1, <1>2

\* It stays as it is while the reports and what they decided do.
LEMMA SameForce ==
  ASSUME Out' = Out, \A r \in Out : (Decided(r))' = Decided(r), TopInv
  PROVE  InForce' = InForce /\ TopInv'
<1>1. CASE Out = {} BY <1>1 DEF InForce, TopInv
<1>2. CASE Out # {}
  <2>1. PICK top \in Out : \A q \in Out : q <= top BY <1>2 DEF TopInv
  <2>2. InForce = Decided(top) BY <2>1, TopForce
  <2>3. \A r \in Out : r \in Nat BY OutageAssumption DEF Out
  <2>4. \A r \in Out : (\A q \in Out : q <= r) => r = top BY <2>1, <2>3
  <2>5. (CHOOSE r \in Out' : \A q \in Out' : q <= r) = top BY <2>1, <2>4
  <2>6. InForce' = (Decided(top))' BY <2>5, <1>2 DEF InForce
  <2> QED BY <2>1, <2>2, <2>6 DEF TopInv
<1> QED BY <1>1, <1>2

-----------------------------------------------------------------------------
(* The steps that report nothing. *)

\* A run that has not reported goes on, or is given up.
LEMMA UnreportedStep ==
  ASSUME SeqInv, NEW r \in Starts, NEW phase \in Untouched, pc[r] \in Untouched,
         pc' = [pc EXCEPT ![r] = phase], tags' = tags,
         \A q \in Starts \ {r} : dec'[q] = dec[q] /\ todo'[q] = todo[q]
  PROVE  Out' = Out /\ InForce' = InForce /\ TopInv' /\ TagsInv' /\ SinceInv'
<1> USE DEF SeqInv, TypeOK
<1>1. \A q \in Starts : pc'[q] = IF q = r THEN phase ELSE pc[q] OBVIOUS
<1>2. \A q \in Out : q # r BY OutStarted DEF Out
<1>3. Out' = Out BY <1>1, <1>2 DEF Out, Writing, Untouched
<1>4. \A q \in Out : (Decided(q))' = Decided(q)
  <2> SUFFICES ASSUME NEW q \in Out PROVE (Decided(q))' = Decided(q) OBVIOUS
  <2>1. q # r /\ q \in Starts BY <1>2 DEF Out
  <2> QED BY <1>1, <2>1 DEF Decided, Writing
<1>5. InForce' = InForce /\ TopInv' BY <1>3, <1>4, SameForce
<1>6. TagsInv'
  <2> SUFFICES ASSUME NEW q \in Starts
               PROVE /\ pc'[q] \in Untouched => tags'[q] = NoTags
                     /\ pc'[q] = "writing" => \A k \in TagNames :
                          tags'[q][k] = IF k \in todo'[q] THEN NoTags[k] ELSE dec'[q].state[k]
                     /\ pc'[q] = "outcome" => tags'[q] = dec'[q].state
                     /\ q \in Out' => (Decided(q))'.job /\ (Decided(q))'.state # "none"
    BY DEF TagsInv
  <2>1. CASE q = r BY <1>1, <1>2, <1>3, <2>1 DEF TagsInv, Untouched
  <2>2. CASE q # r BY <1>1, <1>3, <1>4, <2>2 DEF TagsInv
  <2> QED BY <2>1, <2>2
<1> QED BY <1>3, <1>5, <1>6 DEF SinceInv

\* Who is in flight stays alone when nobody starts.
LEMMA AloneStep ==
  ASSUME SeqInv, NEW r \in Starts, NEW phase \in Phases \ {"absent"}, pc[r] # "absent",
         pc' = [pc EXCEPT ![r] = phase], r \in InFlight
  PROVE  AloneInv' /\ \A q \in Starts \ {r} : q \notin InFlight /\ pc'[q] = pc[q]
<1> USE DEF SeqInv, TypeOK
<1>1. \A q \in Starts : pc'[q] = IF q = r THEN phase ELSE pc[q] OBVIOUS
<1>2. InFlight' \subseteq InFlight BY <1>1 DEF InFlight
<1>3. \A q \in Starts : pc'[q] # "absent" <=> pc[q] # "absent" BY <1>1
<1> QED BY <1>1, <1>2, <1>3 DEF AloneInv

\* Azure ML starts a run when none is in flight, and starts no older run.
LEMMA BeginStep ==
  ASSUME Sequential, SeqInv, TypeOK', NEW r \in Starts, Begin(r)
  PROVE  SeqInv' /\ Out' = Out /\ InForce' = InForce
<1>1. pc[r] = "absent" /\ pc' = [pc EXCEPT ![r] = "running"] /\ UNCHANGED <<marks, dec, todo, tags>>
  BY DEF Begin
<1>2. \A q \in Starts : pc'[q] = IF q = r THEN "running" ELSE pc[q] BY <1>1 DEF SeqInv, TypeOK
<1>3. InFlight = {}
  <2>1. IsFiniteSet(InFlight)
    <3>1. CASE InFlight = {} BY <3>1, FS_EmptySet
    <3>2. CASE InFlight # {}
      <4>1. PICK q \in InFlight : TRUE BY <3>2
      <4>2. InFlight = {q} BY <4>1 DEF SeqInv, AloneInv
      <4> QED BY <4>2, FS_Singleton
    <3> QED BY <3>1, <3>2
  <2>2. Cardinality(InFlight) \in Nat /\ Cardinality(InFlight) < 1
    BY <2>1, FS_CardinalityType DEF Begin, Sequential
  <2>3. Cardinality(InFlight) = 0 BY <2>2
  <2> QED BY <2>1, <2>3, FS_EmptySet
<1>4. InFlight' = {r} BY <1>2, <1>3 DEF InFlight
<1>5. r <= r /\ \A q \in Starts : pc'[q] # "absent" => q <= r
  <2>1. \A q \in Starts : q \in Nat BY OutageAssumption
  <2> QED BY <1>2, <2>1 DEF Begin
<1>6. AloneInv' BY <1>4, <1>5 DEF AloneInv
<1>7. Out' = Out /\ InForce' = InForce /\ TopInv' /\ TagsInv' /\ SinceInv'
  BY <1>1, UnreportedStep DEF Untouched
<1>8. PostingInv' BY <1>1, <1>2, <1>7 DEF PostingInv, SeqInv
<1> QED BY <1>6, <1>7, <1>8 DEF SeqInv

\* A run finishes, is given up, or reads its marks.
LEMMA QuietStep ==
  ASSUME SeqInv, TypeOK', NEW r \in Starts, pc[r] \in {"running", "reading"},
         NEW phase \in {"reading", "lookup", "dead", "raised"},
         pc' = [pc EXCEPT ![r] = phase], tags' = tags,
         \A q \in Starts \ {r} : dec'[q] = dec[q] /\ todo'[q] = todo[q]
  PROVE  SeqInv' /\ Out' = Out /\ InForce' = InForce
<1>1. Out' = Out /\ InForce' = InForce /\ TopInv' /\ TagsInv' /\ SinceInv'
  BY UnreportedStep DEF Untouched
<1>2. r \in InFlight /\ pc[r] # "absent" BY DEF InFlight
<1>3. AloneInv' /\ \A q \in Starts \ {r} : q \notin InFlight /\ pc'[q] = pc[q]
  BY <1>2, AloneStep DEF Phases
<1>4. \A q \in Starts : pc'[q] # "posting" BY <1>3 DEF InFlight, SeqInv, TypeOK
<1> QED BY <1>1, <1>3, <1>4 DEF SeqInv, PostingInv

\* The lookup finds the run that reported last, and its tags are all written.
LEMMA PreviousInForce ==
  ASSUME SeqInv, NEW r \in Starts, pc[r] = "lookup", FindPrevious(r)
  PROVE  Decide(r, InForce)
<1> USE DEF SeqInv
<1> DEFINE named == {q \in Starts : tags[q].job}
<1>1. r \in InFlight BY DEF InFlight
<1>2. \A q \in Starts : q \notin Out \/ pc[q] = "ended"
  BY <1>1 DEF AloneInv, InFlight, Out, Writing
<1>3. \A q \in Starts : q \in Out => Decided(q) = tags[q] /\ tags[q].job /\ tags[q].state # "none"
  BY <1>2 DEF TagsInv, Decided, Writing
<1>4. \A q \in Starts : q \notin Out => ~tags[q].job
  BY OutStarted DEF TagsInv, NoTags
<1>5. named = Out BY <1>3, <1>4 DEF Out
<1>6. r \notin Out BY DEF Out, Writing
<1>7. Recorded(r) \subseteq Out BY <1>5 DEF Recorded, Window
<1>8. CASE Out = {}
  <2>1. Recorded(r) = {} BY <1>7, <1>8
  <2> QED BY <1>8, <2>1, NoForce DEF FindPrevious
<1>9. CASE Out # {}
  <2>1. PICK top \in Out : \A q \in Out : q <= top BY <1>9 DEF TopInv
  <2>2. \A q \in Starts : q \in Nat BY OutageAssumption
  <2>3. {p \in named : p > top} = {} BY <1>5, <2>1, <2>2 DEF Out
  <2>4. Cardinality({p \in named : p > top}) < Scanned
    <3>1. Cardinality({}) = 0 BY FS_EmptySet
    <3>2. Cardinality({p \in named : p > top}) = 0 BY ONLY <2>3, <3>1, Zenon
    <3>3. 0 < Scanned BY OutageAssumption
    <3> QED BY <3>2, <3>3
  <2>5. top \in Window BY <1>5, <2>1, <2>4 DEF Window
  <2>6. top \in Recorded(r) BY <1>3, <1>6, <2>1, <2>5 DEF Recorded, Out
  <2>7. PICK q \in Recorded(r) : (\A p \in Recorded(r) : p <= q) /\ Decide(r, tags[q])
    BY <2>6 DEF FindPrevious
  <2>8. q = top
    <3>1. q \in Out /\ q <= top /\ top <= q BY <1>7, <2>1, <2>6, <2>7
    <3> QED BY <2>1, <2>2, <3>1 DEF Out
  <2>9. InForce = tags[top] BY <1>3, <2>1, TopForce DEF Out
  <2> QED BY <2>7, <2>8, <2>9
<1> QED BY <1>8, <1>9

\* The decision is taken from the outage in force.
LEMMA DecideStep ==
  ASSUME SeqInv, TypeOK', NEW r \in Starts, Decide(r, InForce)
  PROVE  SeqInv' /\ Out' = Out /\ InForce' = InForce
<1>1. /\ pc[r] = "lookup" /\ pc' = [pc EXCEPT ![r] = "posting"]
      /\ dec' = [dec EXCEPT ![r] = DecideOutage(InForce, marks[r], r)]
      /\ UNCHANGED <<marks, todo, tags>>
  BY DEF Decide
<1>2. \A q \in Starts : dec'[q] = IF q = r THEN DecideOutage(InForce, marks[r], r) ELSE dec[q]
  BY <1>1 DEF SeqInv, TypeOK
<1>3. Out' = Out /\ InForce' = InForce /\ TopInv' /\ TagsInv' /\ SinceInv'
  BY <1>1, <1>2, UnreportedStep DEF Untouched
<1>4. r \in InFlight /\ pc[r] # "absent" BY <1>1 DEF InFlight
<1>5. AloneInv' /\ \A q \in Starts \ {r} : q \notin InFlight /\ pc'[q] = pc[q]
  BY <1>1, <1>4, AloneStep DEF Phases
<1>6. PostingInv'
  <2> SUFFICES ASSUME NEW q \in Starts, pc'[q] = "posting"
               PROVE  dec'[q] = DecideOutage(InForce, marks[q], q)
    BY <1>1, <1>3 DEF PostingInv
  <2>1. q = r BY <1>5 DEF InFlight
  <2> QED BY <1>2, <2>1
<1> QED BY <1>3, <1>5, <1>6 DEF SeqInv

-----------------------------------------------------------------------------
(* The steps of a run whose decision is made. *)

\* The table of decide_outage, row by row.
LEMMA DecisionTable ==
  ASSUME NEW previous \in Tags, NEW entries \in SUBSET (Tables \cup {NoTable}), NEW r \in Starts,
         NEW d, d = DecideOutage(previous, entries, r),
         NEW tables, tables = WarningTables(entries)
  PROVE  /\ d.state.job /\ d.state.state # "none"
         /\ d.state.state = "degraded" => d.state.since # 0
         /\ d.state.state = "degraded" <=> tables # {}
         /\ tables = {} /\ previous.state = "degraded" =>
              d.post = "recovered" /\ ~d.reminder /\ d.state.since = previous.since
         /\ tables = {} /\ previous.state # "degraded" => d.post = "none"
         /\ tables # {} /\ previous.state # "degraded" =>
              /\ d.post = "warning" /\ ~d.reminder
              /\ d.state.since = r /\ d.state.lastPost = r /\ d.state.tables = tables
         /\ tables # {} /\ previous.state = "degraded" =>
              /\ d.state.since = IF previous.since = 0 THEN r ELSE previous.since
              /\ d.state.tables = previous.tables \cup tables
              /\ d.state.lastPost = IF d.post = "warning" THEN r ELSE previous.lastPost
              /\ d.post = IF tables \subseteq previous.tables /\ ~Due(previous, r)
                          THEN "none" ELSE "warning"
              /\ d.reminder = (tables \subseteq previous.tables /\ Due(previous, r))
  BY OutageAssumption DEF DecideOutage, WasDegraded, Due, Tags, NoTags, WarningTables

LEMMA TagsEqual ==
  ASSUME NEW a \in Tags, NEW b \in Tags, \A k \in TagNames : a[k] = b[k] PROVE a = b
<1>1. /\ a.job = b.job /\ a.state = b.state /\ a.since = b.since
      /\ a.lastPost = b.lastPost /\ a.tables = b.tables /\ a.thread = b.thread
  BY DEF TagNames
<1> QED BY <1>1 DEF Tags

\* Threading the state changes nothing else of it.
LEMMA StateWritten ==
  ASSUME TypeOK, NEW r \in Starts, NEW delivered \in BOOLEAN, NEW s, s = StateToWrite(r, delivered)
  PROVE  /\ s \in Tags /\ s.job = dec[r].state.job /\ s.state = dec[r].state.state
         /\ s.since = dec[r].state.since /\ s.lastPost = dec[r].state.lastPost
         /\ s.tables = dec[r].state.tables
<1>1. dec[r].state \in Tags BY DEF TypeOK, Decisions
<1> QED BY <1>1 DEF StateToWrite, Tags

\* A run that posts becomes the newest report.
LEMMA PostStep ==
  ASSUME SeqInv, TypeOK', NEW r \in Starts, Post(r), NEW delivered \in BOOLEAN,
         dec' = [dec EXCEPT ![r].state = StateToWrite(r, delivered)],
         todo' = [todo EXCEPT ![r] = {k \in TagNames : StateToWrite(r, delivered)[k] # NoTags[k]}]
  PROVE  /\ SeqInv'
         /\ r \notin Out /\ Out' = Out \cup {r}
         /\ InForce' = StateToWrite(r, delivered)
<1> USE DEF SeqInv
<1> DEFINE written == StateToWrite(r, delivered)
<1>1. pc[r] = "posting" /\ pc' = [pc EXCEPT ![r] = "writing"] /\ UNCHANGED <<marks, tags>>
  BY DEF Post
<1>2. \A q \in Starts : pc'[q] = IF q = r THEN "writing" ELSE pc[q] BY <1>1 DEF TypeOK
<1>3. r \in InFlight /\ pc[r] # "absent" BY <1>1 DEF InFlight
<1>4. AloneInv' /\ \A q \in Starts \ {r} : q \notin InFlight /\ pc'[q] = pc[q]
  BY <1>1, <1>3, AloneStep DEF Phases
<1>5. r \notin Out BY <1>1 DEF Out, Writing
<1>6. Out' = Out \cup {r} BY <1>2 DEF Out, Writing
<1>7. \A q \in Starts : /\ dec'[q].state = IF q = r THEN written ELSE dec[q].state
                        /\ q # r => todo'[q] = todo[q] /\ dec'[q] = dec[q]
  BY DEF TypeOK, Decisions
<1>8. \A q \in Out : q # r /\ (Decided(q))' = Decided(q)
  BY <1>1, <1>2, <1>5, <1>7 DEF Decided, Writing, Out
<1>9. (Decided(r))' = written BY <1>2, <1>7 DEF Decided, Writing
<1>10. \A q \in Out' : q <= r
  <2>1. r <= r BY OutageAssumption
  <2>2. \A q \in Out : q <= r BY <1>3, OutStarted DEF AloneInv, Out
  <2> QED BY <1>6, <2>1, <2>2
<1>11. InForce' = written
  <2>1. \A q \in Out' : q \in Nat BY OutageAssumption DEF Out
  <2>2. \A q \in Out' : (\A p \in Out' : p <= q) => q = r BY <1>6, <1>10, <2>1
  <2>3. r \in Out' BY <1>6
  <2>4. (CHOOSE q \in Out' : \A p \in Out' : p <= q) = r BY <1>10, <2>2, <2>3
  <2>5. InForce' = (Decided(r))' BY <2>3, <2>4 DEF InForce
  <2> QED BY <1>9, <2>5
<1>12. TopInv' BY <1>6, <1>10 DEF TopInv
<1>13. dec[r] = DecideOutage(InForce, marks[r], r) BY <1>1 DEF PostingInv
<1>14. /\ written.job /\ written.state # "none"
       /\ written.state = "degraded" => written.since # 0
  <2>1. InForce \in Tags /\ marks[r] \in SUBSET (Tables \cup {NoTable}) BY ForceType DEF TypeOK
  <2> DEFINE d == DecideOutage(InForce, marks[r], r)
             tables == WarningTables(marks[r])
  <2>2. d.state.job /\ d.state.state # "none" /\ (d.state.state = "degraded" => d.state.since # 0)
    <3>1. d = DecideOutage(InForce, marks[r], r) /\ tables = WarningTables(marks[r]) OBVIOUS
    <3> HIDE DEF d, tables
    <3> QED BY <2>1, <3>1, DecisionTable
  <2> QED BY <1>13, <2>2, StateWritten
<1>15. TagsInv'
  <2> SUFFICES ASSUME NEW q \in Starts
               PROVE /\ pc'[q] \in Untouched => tags'[q] = NoTags
                     /\ pc'[q] = "writing" => \A k \in TagNames :
                          tags'[q][k] = IF k \in todo'[q] THEN NoTags[k] ELSE dec'[q].state[k]
                     /\ pc'[q] = "outcome" => tags'[q] = dec'[q].state
                     /\ q \in Out' => (Decided(q))'.job /\ (Decided(q))'.state # "none"
    BY DEF TagsInv
  <2>1. CASE q = r
    <3>1. tags'[r] = NoTags BY <1>1 DEF TagsInv, Untouched
    <3>2. todo'[r] = {k \in TagNames : written[k] # NoTags[k]} BY DEF TypeOK
    <3>3. \A k \in TagNames :
            tags'[r][k] = IF k \in todo'[r] THEN NoTags[k] ELSE dec'[r].state[k]
      BY <1>7, <3>1, <3>2
    <3> QED BY <1>2, <1>9, <1>14, <2>1, <3>3 DEF Untouched
  <2>2. CASE q # r BY <1>1, <1>2, <1>6, <1>7, <1>8, <2>2 DEF TagsInv
  <2> QED BY <2>1, <2>2
<1>16. PostingInv' BY <1>2, <1>4 DEF PostingInv, InFlight
<1>17. SinceInv' BY <1>11, <1>14 DEF SinceInv
<1> QED BY <1>4, <1>5, <1>6, <1>11, <1>12, <1>15, <1>16, <1>17

\* A tag is set; no call fails.
LEMMA WriteStep ==
  ASSUME Sequential, SeqInv, TypeOK', NEW r \in Starts, WriteTag(r)
  PROVE  SeqInv' /\ Out' = Out /\ InForce' = InForce
<1> USE DEF SeqInv
<1>1. PICK k \in todo[r] : /\ tags' = [tags EXCEPT ![r][k] = dec[r].state[k]]
                           /\ todo' = [todo EXCEPT ![r] = @ \ {k}]
                           /\ pc' = [pc EXCEPT ![r] = IF todo[r] = {k} THEN "outcome" ELSE "writing"]
  BY DEF WriteTag, Fault, Sequential
<1>2. pc[r] = "writing" /\ UNCHANGED <<marks, dec>> /\ k \in TagNames BY DEF WriteTag, TypeOK
<1>3. PICK phase \in {"writing", "outcome"} :
        phase = (IF todo[r] = {k} THEN "outcome" ELSE "writing") /\ pc' = [pc EXCEPT ![r] = phase]
  BY <1>1
<1>4. \A q \in Starts : pc'[q] = IF q = r THEN phase ELSE pc[q] BY <1>3 DEF TypeOK
<1>5. r \in InFlight /\ pc[r] # "absent" BY <1>2 DEF InFlight
<1>6. AloneInv' /\ \A q \in Starts \ {r} : q \notin InFlight /\ pc'[q] = pc[q]
  BY <1>3, <1>5, AloneStep DEF Phases
<1>7. \A q \in Starts : (Writing(q))' <=> Writing(q) BY <1>2, <1>4 DEF Writing
<1>8. Out' = Out BY <1>2, <1>4, <1>7 DEF Out, Writing
<1>9. \A q \in Starts \ {r} : tags'[q] = tags[q] /\ todo'[q] = todo[q] BY <1>1 DEF TypeOK
<1>10. \A q \in Out : (Decided(q))' = Decided(q) BY <1>2, <1>7, <1>9 DEF Decided, Writing, Out
<1>11. InForce' = InForce /\ TopInv' BY <1>8, <1>10, SameForce
<1>12. \A j \in TagNames :
         tags'[r][j] = IF j \in todo'[r] THEN NoTags[j] ELSE dec[r].state[j]
  <2> DEFINE rest == tags[r]
             now == [rest EXCEPT ![k] = dec[r].state[k]]
  <2>1. rest \in Tags BY DEF TypeOK
  <2>2. tags'[r] = now BY <1>1 DEF TypeOK
  <2>3. \A j \in TagNames : now[j] = IF j = k THEN dec[r].state[k] ELSE rest[j]
    BY <2>1 DEF Tags, TagNames
  <2>4. \A j \in TagNames : j \in todo'[r] <=> j \in todo[r] /\ j # k BY <1>1 DEF TypeOK
  <2>5. \A j \in TagNames : rest[j] = IF j \in todo[r] THEN NoTags[j] ELSE dec[r].state[j]
    BY <1>2 DEF TagsInv
  <2> HIDE DEF now, rest
  <2> QED BY <1>2, <2>2, <2>3, <2>4, <2>5
<1>13. phase = "outcome" => tags'[r] = dec[r].state
  <2>1. phase = "outcome" => todo'[r] = {} BY <1>1, <1>3 DEF TypeOK
  <2>2. tags'[r] \in Tags /\ dec[r].state \in Tags BY DEF TypeOK, Decisions
  <2>3. phase = "outcome" => \A j \in TagNames : tags'[r][j] = dec[r].state[j] BY <1>12, <2>1
  <2> QED BY <2>2, <2>3, TagsEqual
<1>14. TagsInv'
  <2> SUFFICES ASSUME NEW q \in Starts
               PROVE /\ pc'[q] \in Untouched => tags'[q] = NoTags
                     /\ pc'[q] = "writing" => \A j \in TagNames :
                          tags'[q][j] = IF j \in todo'[q] THEN NoTags[j] ELSE dec'[q].state[j]
                     /\ pc'[q] = "outcome" => tags'[q] = dec'[q].state
                     /\ q \in Out' => (Decided(q))'.job /\ (Decided(q))'.state # "none"
    BY DEF TagsInv
  <2>1. q \in Out' => (Decided(q))'.job /\ (Decided(q))'.state # "none"
    BY <1>8, <1>10 DEF TagsInv
  <2>2. CASE q = r BY <1>2, <1>3, <1>4, <1>12, <1>13, <2>1, <2>2 DEF Untouched
  <2>3. CASE q # r BY <1>2, <1>4, <1>9, <2>1, <2>3 DEF TagsInv
  <2> QED BY <2>2, <2>3
<1>15. PostingInv' BY <1>4, <1>6 DEF PostingInv, InFlight
<1> QED BY <1>6, <1>8, <1>11, <1>14, <1>15 DEF SinceInv

\* The poster is done; its tags are those it decided.
LEMMA OutcomeStep ==
  ASSUME SeqInv, TypeOK', NEW r \in Starts, Outcome(r)
  PROVE  SeqInv' /\ Out' = Out /\ InForce' = InForce
<1> USE DEF SeqInv
<1>1. /\ pc[r] = "outcome" /\ pc' = [pc EXCEPT ![r] = "ended"] /\ UNCHANGED tags
      /\ dec' = [dec EXCEPT ![r] = Undecided] /\ todo' = [todo EXCEPT ![r] = {}]
  BY DEF Outcome, Leave
<1>2. \A q \in Starts : pc'[q] = IF q = r THEN "ended" ELSE pc[q] BY <1>1 DEF TypeOK
<1>3. r \in InFlight /\ pc[r] # "absent" BY <1>1 DEF InFlight
<1>4. AloneInv' /\ \A q \in Starts \ {r} : q \notin InFlight /\ pc'[q] = pc[q]
  BY <1>1, <1>3, AloneStep DEF Phases
<1>5. Out' = Out BY <1>1, <1>2 DEF Out, Writing
<1>6. \A q \in Starts \ {r} : dec'[q] = dec[q] /\ todo'[q] = todo[q] BY <1>1 DEF TypeOK
<1>7. \A q \in Out : (Decided(q))' = Decided(q)
  <2> SUFFICES ASSUME NEW q \in Out PROVE (Decided(q))' = Decided(q) OBVIOUS
  <2>1. CASE q = r BY <1>1, <1>2, <2>1 DEF Decided, Writing, TagsInv
  <2>2. CASE q # r BY <1>1, <1>2, <1>6, <2>2 DEF Decided, Writing, Out
  <2> QED BY <2>1, <2>2
<1>8. InForce' = InForce /\ TopInv' BY <1>5, <1>7, SameForce
<1>9. TagsInv'
  <2> SUFFICES ASSUME NEW q \in Starts
               PROVE /\ pc'[q] \in Untouched => tags'[q] = NoTags
                     /\ pc'[q] = "writing" => \A j \in TagNames :
                          tags'[q][j] = IF j \in todo'[q] THEN NoTags[j] ELSE dec'[q].state[j]
                     /\ pc'[q] = "outcome" => tags'[q] = dec'[q].state
                     /\ q \in Out' => (Decided(q))'.job /\ (Decided(q))'.state # "none"
    BY DEF TagsInv
  <2>1. q \in Out' => (Decided(q))'.job /\ (Decided(q))'.state # "none"
    BY <1>5, <1>7 DEF TagsInv
  <2>2. CASE q = r BY <1>2, <2>1, <2>2 DEF Untouched
  <2>3. CASE q # r BY <1>1, <1>2, <1>6, <2>1, <2>3 DEF TagsInv
  <2> QED BY <2>2, <2>3
<1>10. PostingInv' BY <1>2, <1>4 DEF PostingInv, InFlight
<1> QED BY <1>4, <1>5, <1>8, <1>9, <1>10 DEF SinceInv

\* One step of the runs.
LEMMA PostCases ==
  ASSUME NEW r \in Starts, Post(r)
  PROVE  \E delivered \in BOOLEAN :
           /\ posts' = IF Subscribed(r) THEN posts \cup {OutageMessage(r, delivered)} ELSE posts
           /\ dec' = [dec EXCEPT ![r].state = StateToWrite(r, delivered)]
           /\ todo' = [todo EXCEPT ![r] = {k \in TagNames : StateToWrite(r, delivered)[k] # NoTags[k]}]
BY DEF Post

\* What each step is, when MLflow answers and no poster is killed.
LEMMA OneStep ==
  ASSUME Sequential, SeqInv, TypeOK', [Next]_vars
  PROVE  /\ SeqInv'
         /\ \/ Out' = Out /\ InForce' = InForce /\ \A m \in posts' \ posts : m.event = "success"
            \/ \E r \in Starts : Post(r)
<1>1. ASSUME NEW r \in Starts, Begin(r)
      PROVE  SeqInv' /\ Out' = Out /\ InForce' = InForce /\ posts' = posts
  BY <1>1, BeginStep DEF Begin
<1>2. ASSUME NEW r \in Starts, FailRun(r)
      PROVE  SeqInv' /\ Out' = Out /\ InForce' = InForce /\ posts' = posts
  BY <1>2, QuietStep DEF FailRun, Leave, SeqInv, TypeOK
<1>3. ASSUME NEW r \in Starts, NEW entries \in SUBSET Entries, Finish(r, entries)
      PROVE  SeqInv' /\ Out' = Out /\ InForce' = InForce /\ posts' = posts
  <2>1. pc' = [pc EXCEPT ![r] = "reading"] BY <1>3 DEF Finish, Sequential
  <2> QED BY <1>3, <2>1, QuietStep DEF Finish
<1>4. ASSUME NEW r \in Starts, ExperimentRaises(r)
      PROVE  SeqInv' /\ Out' = Out /\ InForce' = InForce /\ posts' = posts
  BY <1>4, QuietStep DEF ExperimentRaises, Leave, SeqInv, TypeOK
<1>5. ASSUME NEW r \in Starts, ReadMarks(r)
      PROVE  SeqInv' /\ Out' = Out /\ InForce' = InForce /\ posts' = posts
  <2>1. pc' = [pc EXCEPT ![r] = "lookup"] BY <1>5 DEF ReadMarks, Fault, Sequential
  <2> QED BY <1>5, <2>1, QuietStep DEF ReadMarks
<1>6. ASSUME NEW r \in Starts, FindPrevious(r)
      PROVE  SeqInv' /\ Out' = Out /\ InForce' = InForce /\ posts' = posts
  <2>1. Decide(r, InForce) BY <1>6, PreviousInForce DEF FindPrevious, Decide
  <2> QED BY <2>1, DecideStep DEF Decide
<1>7. ASSUME NEW r \in Starts PROVE ~LookupFails(r) /\ ~Crash(r)
  BY DEF LookupFails, Crash, Fault, Sequential
<1>8. ASSUME NEW r \in Starts, Post(r) PROVE SeqInv'
  BY <1>8, PostCases, PostStep
<1>9. ASSUME NEW r \in Starts, WriteTag(r)
      PROVE  SeqInv' /\ Out' = Out /\ InForce' = InForce /\ posts' = posts
  BY <1>9, WriteStep DEF WriteTag
<1>10. ASSUME NEW r \in Starts, Outcome(r)
       PROVE  SeqInv' /\ Out' = Out /\ InForce' = InForce /\ \A m \in posts' \ posts : m.event = "success"
  BY <1>10, OutcomeStep DEF Outcome, SuccessMessage
<1>11. CASE UNCHANGED vars
  <2>1. Out' = Out BY <1>11 DEF vars, Out, Writing
  <2>2. InFlight' = InFlight BY <1>11 DEF vars, InFlight
  <2>3. \A r : (Decided(r))' = Decided(r) BY <1>11 DEF vars, Decided, Writing
  <2>4. InForce' = InForce /\ TopInv' BY <2>1, <2>3, SameForce DEF SeqInv
  <2> QED BY <1>11, <2>1, <2>2, <2>3, <2>4
          DEF vars, SeqInv, AloneInv, TagsInv, PostingInv, SinceInv
<1> QED BY <1>1, <1>2, <1>3, <1>4, <1>5, <1>6, <1>7, <1>8, <1>9, <1>10, <1>11 DEF Next

LEMMA SeqInvariant == ASSUME Sequential PROVE Spec => []SeqInv
<1>1. TypeOK /\ Init => SeqInv
  <2> SUFFICES ASSUME TypeOK, Init PROVE SeqInv OBVIOUS
  <2>1. InFlight = {} /\ Out = {} BY DEF Init, InFlight, Out, Writing
  <2>2. InForce = NoTags BY <2>1, NoForce
  <2>3. AloneInv /\ TopInv BY <2>1 DEF Init, AloneInv, TopInv
  <2>4. TagsInv BY <2>1 DEF Init, TagsInv
  <2>5. PostingInv BY DEF Init, PostingInv
  <2>6. SinceInv BY <2>2 DEF SinceInv, NoTags
  <2> QED BY <2>3, <2>4, <2>5, <2>6 DEF SeqInv
<1>2. SeqInv /\ TypeOK' /\ [Next]_vars => SeqInv' BY OneStep
<1> QED BY <1>1, <1>2, TypeCorrect, PTL DEF Spec

-----------------------------------------------------------------------------
(* The runs implement the promise. *)

\* The outage in force as the promise sees it, and the messages.
OutageOf(t) ==
  IF t.state = "degraded"
  THEN [degraded |-> TRUE, since |-> t.since, last |-> t.lastPost, tables |-> t.tables]
  ELSE [degraded |-> FALSE, since |-> 0, last |-> 0, tables |-> {}]

Outages ==
  [degraded : BOOLEAN, since : Starts \cup {0}, last : Starts \cup {0}, tables : SUBSET Tables]

LEMMA OutageType == ASSUME NEW t \in Tags PROVE OutageOf(t) \in Outages
BY DEF Tags, OutageOf, Outages

LEMMA OutageWidened ==
  ASSUME NEW o \in Outages, NEW n \in Outages, NEW r \in Starts, NEW T,
         n.degraded, o.degraded, n.since = o.since, n.last = r, n.tables = o.tables \cup T
  PROVE  n = [o EXCEPT !.last = r, !.tables = @ \cup T]
BY DEF Outages

LEMMA OutageReminded ==
  ASSUME NEW o \in Outages, NEW n \in Outages, NEW r \in Starts,
         n.degraded, o.degraded, n.since = o.since, n.last = r, n.tables = o.tables
  PROVE  n = [o EXCEPT !.last = r]
BY DEF Outages

ToldOf(m) == [run |-> m.run, event |-> m.event, reminder |-> m.reminder, since |-> m.since]
Told == {ToldOf(m) : m \in {n \in posts : n.event # "success"}}

\* A success says nothing of the outage.
LEMMA SameTold ==
  ASSUME [Next]_vars, \A m \in posts' \ posts : m.event = "success" PROVE Told' = Told
<1>1. posts \subseteq posts'
  BY DEF Next, vars, Begin, FailRun, Finish, ExperimentRaises, ReadMarks, FindPrevious,
         LookupFails, Decide, Post, WriteTag, Outcome, Crash
<1>2. {n \in posts' : n.event # "success"} = {n \in posts : n.event # "success"} BY <1>1
<1> QED BY <1>2 DEF Told

LEMMA NewTold ==
  ASSUME NEW m, m.event # "success", posts' = posts \cup {m} PROVE Told' = Told \cup {ToldOf(m)}
<1>1. {n \in posts' : n.event # "success"} = {n \in posts : n.event # "success"} \cup {m} OBVIOUS
<1> QED BY <1>1 DEF Told

\* Posting a decision is one report of the promise.
LEMMA ReportStep ==
  ASSUME Sequential, SeqInv, TypeOK', NEW r \in Starts, Post(r)
  PROVE  Promise!Report(r)
<1> DEFINE d == dec[r]
           T == WarningTables(marks[r])
           outage == OutageOf(InForce)
<1>1. PICK delivered \in BOOLEAN :
        /\ posts' = IF Subscribed(r) THEN posts \cup {OutageMessage(r, delivered)} ELSE posts
        /\ dec' = [dec EXCEPT ![r].state = StateToWrite(r, delivered)]
        /\ todo' = [todo EXCEPT ![r] = {k \in TagNames : StateToWrite(r, delivered)[k] # NoTags[k]}]
  BY PostCases
<1>2. r \notin Out /\ Out' = Out \cup {r} /\ InForce' = StateToWrite(r, delivered)
  BY <1>1, PostStep
<1>3. TypeOK /\ TopInv /\ SinceInv /\ d = DecideOutage(InForce, marks[r], r)
  BY DEF SeqInv, PostingInv, Post
<1>4. InForce \in Tags /\ marks[r] \in SUBSET (Tables \cup {NoTable})
  BY <1>3, ForceType DEF TypeOK
<1>5. T \in SUBSET Tables BY <1>4 DEF WarningTables
<1>6. OutageOf(InForce') = OutageOf(d.state)
  <2>1. /\ InForce'.state = d.state.state /\ InForce'.since = d.state.since
        /\ InForce'.lastPost = d.state.lastPost /\ InForce'.tables = d.state.tables
    BY <1>2, <1>3, StateWritten
  <2> QED BY <2>1 DEF OutageOf
<1>7. d.post \in {"none", "warning", "recovered"} BY <1>3 DEF TypeOK, Decisions
<1>8. Subscribed(r) <=> d.post # "none"
  BY <1>7, OutageAssumption DEF Subscribed, Sequential
<1>9. Told' = IF d.post = "none" THEN Told
              ELSE Told \cup {[run |-> r, event |-> d.post, reminder |-> d.reminder,
                               since |-> d.state.since]}
  <2>1. CASE d.post = "none" BY <1>1, <1>8, <2>1 DEF Told
  <2>2. CASE d.post # "none"
    <3>1. posts' = posts \cup {OutageMessage(r, delivered)} BY <1>1, <1>8, <2>2
    <3>2. OutageMessage(r, delivered).event # "success" BY <1>7 DEF OutageMessage
    <3>3. Told' = Told \cup {ToldOf(OutageMessage(r, delivered))} BY <3>1, <3>2, NewTold
    <3> QED BY <2>2, <3>3 DEF ToldOf, OutageMessage
  <2> QED BY <2>1, <2>2
<1>10. /\ d.state.state = "degraded" <=> T # {}
       /\ T = {} /\ InForce.state = "degraded" =>
            d.post = "recovered" /\ ~d.reminder /\ d.state.since = InForce.since
       /\ T = {} /\ InForce.state # "degraded" => d.post = "none"
       /\ T # {} /\ InForce.state # "degraded" =>
            /\ d.post = "warning" /\ ~d.reminder
            /\ d.state.since = r /\ d.state.lastPost = r /\ d.state.tables = T
       /\ T # {} /\ InForce.state = "degraded" =>
            /\ d.state.since = IF InForce.since = 0 THEN r ELSE InForce.since
            /\ d.state.tables = InForce.tables \cup T
            /\ d.state.lastPost = IF d.post = "warning" THEN r ELSE InForce.lastPost
            /\ d.post = IF T \subseteq InForce.tables /\ ~Due(InForce, r) THEN "none" ELSE "warning"
            /\ d.reminder = (T \subseteq InForce.tables /\ Due(InForce, r))
  <2>1. d = DecideOutage(InForce, marks[r], r) /\ T = WarningTables(marks[r]) BY <1>3
  <2> HIDE DEF d, T
  <2> QED BY <1>4, <2>1, DecisionTable
<1>11. d.reminder \in BOOLEAN BY <1>3 DEF TypeOK, Decisions
<1>12. Due(InForce, r) <=> r >= InForce.lastPost + (Repeat - Tolerance)
  <2>1. r \in Int /\ InForce.lastPost \in Int /\ Repeat \in Int /\ Tolerance \in Int
    BY <1>4, OutageAssumption DEF Tags
  <2> QED BY <2>1 DEF Due
<1> DEFINE now == OutageOf(d.state)
<1>13. /\ T = {} => now = [degraded |-> FALSE, since |-> 0, last |-> 0, tables |-> {}]
       /\ T # {} => now = [degraded |-> TRUE, since |-> d.state.since, last |-> d.state.lastPost,
                           tables |-> d.state.tables]
  BY <1>10 DEF OutageOf
<1>14. /\ InForce.state # "degraded" => outage = [degraded |-> FALSE, since |-> 0, last |-> 0, tables |-> {}]
       /\ InForce.state = "degraded" =>
            outage = [degraded |-> TRUE, since |-> InForce.since, last |-> InForce.lastPost,
                      tables |-> InForce.tables]
  BY DEF OutageOf
<1>15. InForce.state = "degraded" => InForce.since # 0 BY <1>3 DEF SinceInv
<1>18. outage \in Outages /\ now \in Outages
  BY <1>3, <1>4, OutageType DEF TypeOK, Decisions
<1> HIDE DEF d, T, now, outage
<1>16. \/ /\ T = {} /\ outage.degraded /\ now = [degraded |-> FALSE, since |-> 0, last |-> 0, tables |-> {}]
          /\ Told' = Told \cup {[run |-> r, event |-> "recovered", reminder |-> FALSE, since |-> outage.since]}
       \/ T = {} /\ ~outage.degraded /\ now = outage /\ Told' = Told
       \/ /\ T # {} /\ ~outage.degraded
          /\ now = [degraded |-> TRUE, since |-> r, last |-> r, tables |-> T]
          /\ Told' = Told \cup {[run |-> r, event |-> "warning", reminder |-> FALSE, since |-> r]}
       \/ /\ T # {} /\ outage.degraded /\ ~(T \subseteq outage.tables)
          /\ now = [outage EXCEPT !.last = r, !.tables = @ \cup T]
          /\ Told' = Told \cup {[run |-> r, event |-> "warning", reminder |-> FALSE, since |-> outage.since]}
       \/ /\ T # {} /\ outage.degraded /\ T \subseteq outage.tables
          /\ r >= outage.last + (Repeat - Tolerance)
          /\ now = [outage EXCEPT !.last = r]
          /\ Told' = Told \cup {[run |-> r, event |-> "warning", reminder |-> TRUE, since |-> outage.since]}
       \/ /\ T # {} /\ outage.degraded /\ T \subseteq outage.tables
          /\ ~(r >= outage.last + (Repeat - Tolerance))
          /\ now = outage /\ Told' = Told
  <2>1. CASE T = {} /\ InForce.state = "degraded"
    <3>1. d.post = "recovered" /\ d.reminder = FALSE /\ d.state.since = InForce.since
      BY <1>10, <1>11, <2>1
    <3>2. now = [degraded |-> FALSE, since |-> 0, last |-> 0, tables |-> {}] BY <1>13, <2>1
    <3>3. outage.degraded /\ outage.since = InForce.since BY <1>14, <2>1
    <3>4. Told' = Told \cup {[run |-> r, event |-> "recovered", reminder |-> FALSE, since |-> outage.since]}
      BY <1>9, <3>1, <3>3
    <3> QED BY <2>1, <3>2, <3>3, <3>4
  <2>2. CASE T = {} /\ InForce.state # "degraded"
    <3>1. Told' = Told BY <1>9, <1>10, <2>2
    <3>2. now = outage BY <1>13, <1>14, <2>2
    <3>3. ~outage.degraded BY <1>14, <2>2
    <3> QED BY <2>2, <3>1, <3>2, <3>3
  <2>3. CASE T # {} /\ InForce.state # "degraded"
    <3>1. d.post = "warning" /\ d.reminder = FALSE /\ d.state.since = r BY <1>10, <1>11, <2>3
    <3>2. now = [degraded |-> TRUE, since |-> r, last |-> r, tables |-> T] BY <1>10, <1>13, <2>3
    <3>3. Told' = Told \cup {[run |-> r, event |-> "warning", reminder |-> FALSE, since |-> r]}
      BY <1>9, <3>1
    <3> QED BY <1>14, <2>3, <3>2, <3>3
  <2>4. CASE T # {} /\ InForce.state = "degraded" /\ ~(T \subseteq InForce.tables)
    <3>1. /\ d.post = "warning" /\ d.reminder = FALSE /\ d.state.since = InForce.since
          /\ d.state.lastPost = r /\ d.state.tables = InForce.tables \cup T
      BY <1>10, <1>11, <1>15, <2>4
    <3>2. now = [outage EXCEPT !.last = r, !.tables = @ \cup T]
      <4>1. /\ now.degraded /\ now.since = InForce.since /\ now.last = r
            /\ now.tables = InForce.tables \cup T
        BY <1>13, <2>4, <3>1
      <4>2. outage.degraded /\ outage.since = InForce.since /\ outage.tables = InForce.tables
        BY <1>14, <2>4
      <4>3. now.since = outage.since /\ now.last = r /\ now.tables = outage.tables \cup T
        BY <4>1, <4>2
      <4> QED BY ONLY <1>18, <4>1, <4>2, <4>3, OutageWidened, r \in Starts
    <3>3. outage.degraded /\ outage.since = InForce.since /\ outage.tables = InForce.tables
      BY <1>14, <2>4
    <3>4. Told' = Told \cup {[run |-> r, event |-> "warning", reminder |-> FALSE, since |-> outage.since]}
      BY <1>9, <3>1, <3>3
    <3> QED BY <2>4, <3>2, <3>3, <3>4
  <2>5. CASE T # {} /\ InForce.state = "degraded" /\ T \subseteq InForce.tables /\ Due(InForce, r)
    <3>1. /\ d.post = "warning" /\ d.reminder = TRUE /\ d.state.since = InForce.since
          /\ d.state.lastPost = r /\ d.state.tables = InForce.tables
      <4>1. InForce.tables \cup T = InForce.tables BY <2>5
      <4> QED BY <1>10, <1>11, <1>15, <2>5, <4>1
    <3>2. now = [outage EXCEPT !.last = r]
      <4>1. /\ now.degraded /\ now.since = InForce.since /\ now.last = r
            /\ now.tables = InForce.tables
        BY <1>13, <2>5, <3>1
      <4>2. outage.degraded /\ outage.since = InForce.since /\ outage.tables = InForce.tables
        BY <1>14, <2>5
      <4> QED BY <1>18, <4>1, <4>2, OutageReminded
    <3>3. /\ outage.degraded /\ outage.since = InForce.since /\ outage.tables = InForce.tables
          /\ outage.last = InForce.lastPost
      BY <1>14, <2>5
    <3>4. Told' = Told \cup {[run |-> r, event |-> "warning", reminder |-> TRUE, since |-> outage.since]}
      BY <1>9, <3>1, <3>3
    <3> QED BY <1>12, <2>5, <3>2, <3>3, <3>4
  <2>6. CASE T # {} /\ InForce.state = "degraded" /\ T \subseteq InForce.tables /\ ~Due(InForce, r)
    <3>1. /\ d.post = "none" /\ d.state.since = InForce.since
          /\ d.state.lastPost = InForce.lastPost /\ d.state.tables = InForce.tables
      <4>1. InForce.tables \cup T = InForce.tables BY <2>6
      <4> QED BY <1>10, <1>15, <2>6, <4>1
    <3>2. now = outage BY <1>13, <1>14, <2>6, <3>1
    <3>3. outage.degraded /\ outage.tables = InForce.tables /\ outage.last = InForce.lastPost
      BY <1>14, <2>6
    <3>4. Told' = Told BY <1>9, <3>1
    <3> QED BY <1>12, <2>6, <3>2, <3>3, <3>4
  <2> QED BY <2>1, <2>2, <2>3, <2>4, <2>5, <2>6
<1>17. outage' = now BY <1>6 DEF outage, now
<1> QED
  BY <1>2, <1>5, <1>16, <1>17
  DEF outage, Told, ToldOf, OutageOf, Promise!Report, Promise!Close, Promise!StayClean, Promise!Open,
      Promise!Widen, Promise!Remind, Promise!StayQuiet, Promise!Due, Promise!Say, Promise!Message,
      Promise!NoOutage

\* While runs of the job do not overlap and MLflow answers, the outage reports of
\* its runs, one set_tag call after another and lost messages included, are the
\* table of decide_outage read as one atomic state.
THEOREM OutageImplements ==
  ASSUME Sequential PROVE Spec => ImplementsOutageSpec
<1>1. Init => Promise!Init
  <2> SUFFICES ASSUME Init PROVE Promise!Init OBVIOUS
  <2>1. Out = {} BY DEF Init, Out, Writing
  <2>2. InForce.state # "degraded" BY <2>1, NoForce DEF NoTags
  <2>3. posts = {} BY DEF Init
  <2> QED BY <2>1, <2>2, <2>3 DEF Promise!Init, Promise!NoOutage
<1>2. SeqInv /\ TypeOK' /\ [Next]_vars => [Promise!Next]_(Promise!vars)
  <2> SUFFICES ASSUME SeqInv, TypeOK', [Next]_vars PROVE [Promise!Next]_(Promise!vars) OBVIOUS
  <2>1. CASE \E r \in Starts : Post(r)
    BY <2>1, ReportStep DEF Promise!Next
  <2>2. CASE Out' = Out /\ InForce' = InForce /\ \A m \in posts' \ posts : m.event = "success"
    <3>1. Told' = Told BY <2>2, SameTold
    <3> QED BY <2>2, <3>1 DEF Promise!vars, Told, ToldOf
  <2> QED BY <2>1, <2>2, OneStep
<1> QED BY <1>1, <1>2, SeqInvariant, TypeCorrect, PTL DEF Spec, ImplementsOutageSpec, Promise!Spec

-----------------------------------------------------------------------------
(* One thread per outage. *)

\* Every outage message, and the outage in force, is of runs that reported.
ToldInv ==
  /\ \A m \in posts : m.event # "success" => m.run \in Out /\ m.since \in Out
  /\ InForce.state = "degraded" => InForce.since \in Out

\* Once a message of the outage in force was delivered, its thread is the tags'.
ThreadInv ==
  InForce.state = "degraded" =>
    \A m \in posts : m.event # "success" /\ m.delivered /\ m.since = InForce.since =>
      InForce.thread = IF m.thread = 0 THEN m.run ELSE m.thread

ThreadedInv == ToldInv /\ ThreadInv /\ OneThreadPerOutage

\* What decide_outage does with the thread.
LEMMA DecisionThread ==
  ASSUME NEW previous \in Tags, NEW entries \in SUBSET (Tables \cup {NoTable}), NEW r \in Starts,
         NEW d, d = DecideOutage(previous, entries, r),
         previous.state = "degraded" => previous.since # 0
  PROVE  /\ previous.state = "degraded" =>
              /\ d.post # "none" => d.thread = previous.thread
              /\ d.state.state = "degraded" => d.state.thread = previous.thread
              /\ d.state.since = previous.since
         /\ previous.state # "degraded" =>
              /\ d.post \in {"none", "warning"} /\ d.thread = 0 /\ d.state.thread = 0
              /\ d.post = "warning" => d.state.since = r
              /\ d.state.state = "degraded" => d.state.since = r
         /\ d.post # "none" => (d.post = "warning" <=> d.state.state = "degraded")
  BY OutageAssumption DEF DecideOutage, WasDegraded, Due, Tags, NoTags, WarningTables

\* Posting keeps the outage in one thread.
LEMMA ThreadStep ==
  ASSUME Sequential, Threaded, SeqInv, TypeOK', ThreadedInv, NEW r \in Starts, Post(r)
  PROVE  ThreadedInv'
<1> DEFINE d == dec[r]
<1>1. PICK delivered \in BOOLEAN :
        /\ posts' = IF Subscribed(r) THEN posts \cup {OutageMessage(r, delivered)} ELSE posts
        /\ dec' = [dec EXCEPT ![r].state = StateToWrite(r, delivered)]
        /\ todo' = [todo EXCEPT ![r] = {k \in TagNames : StateToWrite(r, delivered)[k] # NoTags[k]}]
  BY PostCases
<1> DEFINE written == StateToWrite(r, delivered)
           new == OutageMessage(r, delivered)
<1>2. r \notin Out /\ Out' = Out \cup {r} /\ InForce' = written /\ SeqInv'
  BY <1>1, PostStep
<1>3. TypeOK /\ TopInv /\ SinceInv /\ d = DecideOutage(InForce, marks[r], r)
  BY DEF SeqInv, PostingInv, Post
<1>4. InForce \in Tags /\ marks[r] \in SUBSET (Tables \cup {NoTable})
  BY <1>3, ForceType DEF TypeOK
<1>5. d \in Decisions BY <1>3 DEF TypeOK
<1>6. Subscribed(r) <=> d.post # "none"
  BY <1>5, OutageAssumption DEF Subscribed, Sequential, Decisions
<1>7. /\ InForce.state = "degraded" =>
           /\ d.post # "none" => d.thread = InForce.thread
           /\ d.state.state = "degraded" => d.state.thread = InForce.thread
           /\ d.state.since = InForce.since /\ InForce.since # 0
      /\ InForce.state # "degraded" =>
           /\ d.post \in {"none", "warning"} /\ d.thread = 0 /\ d.state.thread = 0
           /\ d.post = "warning" => d.state.since = r
           /\ d.state.state = "degraded" => d.state.since = r
      /\ d.post # "none" => (d.post = "warning" <=> d.state.state = "degraded")
  BY <1>3, <1>4, DecisionThread DEF SinceInv
<1>8. \A q \in Out : q \in Starts /\ q < r
  <2>1. r \in InFlight BY DEF InFlight, Post
  <2>2. \A q \in Out : q <= r BY <2>1, <1>3, OutStarted DEF SeqInv, AloneInv, Out
  <2>3. \A q \in Starts : q \in Nat BY OutageAssumption
  <2> QED BY <1>2, <2>2, <2>3 DEF Out
<1>9. \A m \in posts : m.event # "success" => m.run \in Starts /\ m.run < r /\ m.since # r
  BY <1>2, <1>8 DEF ThreadedInv, ToldInv
<1>10. /\ new.run = r /\ new.event = d.post /\ new.since = d.state.since
       /\ new.thread = d.thread /\ new.delivered = delivered
  BY DEF OutageMessage
<1>11. /\ written.state = d.state.state /\ written.since = d.state.since
       /\ written.thread = IF /\ Subscribed(r) /\ d.post = "warning" /\ d.thread = 0
                              /\ delivered /\ Threaded
                           THEN r ELSE d.state.thread
  <2>1. d.state \in Tags BY <1>5 DEF Decisions
  <2> QED BY <2>1 DEF StateToWrite, Tags
<1>12. posts' = IF d.post # "none" THEN posts \cup {new} ELSE posts BY <1>1, <1>6
<1>13. r \notin {0} /\ \A m \in posts : m.run \in Starts => m.run # 0 BY OutageAssumption
<1> HIDE DEF d, written, new
<1>14. ToldInv'
  <2>1. d.post # "none" \/ written.state = "degraded" => d.state.since \in Out'
    <3>1. CASE InForce.state = "degraded" BY <1>2, <1>7, <3>1 DEF ThreadedInv, ToldInv
    <3>2. CASE InForce.state # "degraded" BY <1>2, <1>7, <1>11, <3>2
    <3> QED BY <3>1, <3>2
  <2>2. \A m \in posts : m.event # "success" => m.run \in Out' /\ m.since \in Out'
    BY <1>2 DEF ThreadedInv, ToldInv
  <2> QED BY <1>2, <1>10, <1>11, <1>12, <2>1, <2>2 DEF ToldInv
<1>15. ThreadInv'
  <2> SUFFICES ASSUME written.state = "degraded", NEW m \in posts',
                      m.event # "success", m.delivered, m.since = written.since
               PROVE  written.thread = IF m.thread = 0 THEN m.run ELSE m.thread
    BY <1>2 DEF ThreadInv
  <2>1. CASE m \in posts
    <3>1. InForce.state = "degraded" BY <1>7, <1>9, <1>11, <2>1
    <3>2. InForce.thread = IF m.thread = 0 THEN m.run ELSE m.thread
      BY <1>7, <1>11, <2>1, <3>1 DEF ThreadedInv, ThreadInv
    <3>3. InForce.thread # 0 BY <1>9, <1>13, <2>1, <3>2
    <3>4. written.thread = InForce.thread BY <1>7, <1>11, <3>1, <3>3
    <3> QED BY <3>2, <3>4
  <2>2. CASE m = new /\ d.post # "none"
    <3>1. CASE InForce.state = "degraded" BY <1>6, <1>7, <1>10, <1>11, <2>2, <3>1
    <3>2. CASE InForce.state # "degraded" BY <1>6, <1>7, <1>10, <1>11, <2>2, <3>2
    <3> QED BY <3>1, <3>2
  <2> QED BY <1>12, <2>1, <2>2
<1>16. OneThreadPerOutage'
  <2> SUFFICES ASSUME NEW m \in posts', NEW n \in posts', "success" \notin {m.event, n.event},
                      m.delivered, n.delivered, m.since = n.since, m.run < n.run
               PROVE  n.thread = IF m.thread = 0 THEN m.run ELSE m.thread
    BY DEF OneThreadPerOutage
  <2>1. CASE m \in posts /\ n \in posts BY <2>1 DEF ThreadedInv, OneThreadPerOutage
  <2>2. CASE m \in posts /\ n = new /\ d.post # "none"
    <3>1. InForce.state = "degraded" BY <1>7, <1>9, <1>10, <2>2
    <3>2. m.since = InForce.since BY <1>7, <1>10, <2>2, <3>1
    <3>3. InForce.thread = IF m.thread = 0 THEN m.run ELSE m.thread
      BY <2>2, <3>1, <3>2 DEF ThreadedInv, ThreadInv
    <3> QED BY <1>7, <1>10, <2>2, <3>1, <3>3
  <2>3. CASE m = new /\ d.post # "none"
    <3>1. n \in posts => n.run \in Starts /\ n.run < r
      <4>1. n.event # "success" OBVIOUS
      <4> QED BY <1>9, <4>1
    <3>2. r \in Nat /\ \A q \in Starts : q \in Nat BY OutageAssumption
    <3>3. n.run \in Nat /\ n.run <= r
      <4>1. CASE n \in posts
        <5>1. n.run \in Starts /\ n.run < r BY <3>1, <4>1
        <5>2. n.run \in Nat BY <3>2, <5>1
        <5> QED BY <3>2, <5>1, <5>2
      <4>2. CASE n = new BY <1>10, <3>2, <4>2
      <4> QED BY <1>12, <4>1, <4>2
    <3>4. m.run = r BY <1>10, <2>3
    <3> QED BY <3>2, <3>3, <3>4
  <2> QED BY <1>12, <2>1, <2>2, <2>3
<1> QED BY <1>14, <1>15, <1>16 DEF ThreadedInv

\* While runs of the job do not overlap and MLflow answers, everything that is
\* delivered about one outage is in the thread its first delivered warning opened.
THEOREM OneThread ==
  ASSUME Sequential, Threaded PROVE Spec => []OneThreadPerOutage
<1>1. Init => ThreadedInv
  <2> SUFFICES ASSUME Init PROVE ThreadedInv OBVIOUS
  <2>1. Out = {} /\ posts = {} BY DEF Init, Out, Writing
  <2>2. InForce = NoTags BY <2>1, NoForce
  <2> QED BY <2>1, <2>2 DEF ThreadedInv, ToldInv, ThreadInv, OneThreadPerOutage, NoTags
<1>2. ThreadedInv /\ SeqInv /\ TypeOK' /\ [Next]_vars => ThreadedInv'
  <2> SUFFICES ASSUME ThreadedInv, SeqInv, TypeOK', [Next]_vars PROVE ThreadedInv' OBVIOUS
  <2>1. CASE \E r \in Starts : Post(r) BY <2>1, ThreadStep
  <2>2. CASE Out' = Out /\ InForce' = InForce /\ \A m \in posts' \ posts : m.event = "success"
    BY <2>2 DEF ThreadedInv, ToldInv, ThreadInv, OneThreadPerOutage
  <2> QED BY <2>1, <2>2, OneStep
<1>3. ThreadedInv => OneThreadPerOutage BY DEF ThreadedInv
<1> QED BY <1>1, <1>2, <1>3, SeqInvariant, TypeCorrect, PTL DEF Spec
=============================================================================

---------------------------- MODULE BatchProofs ----------------------------
(***************************************************************************)
(* Proofs about Batch for every number of jobs, every assignment of        *)
(* workspaces, every size of the pool and every failing call.              *)
(***************************************************************************)
EXTENDS Batch, TLAPS

-----------------------------------------------------------------------------
(* The inductive invariant, in parts. *)

\* Only the thread that holds the lock is between the test and the creation of
\* get, and what the test found still holds there.
PoolInv ==
  /\ \A j \in Jobs :
       /\ pc[j] \in {"credential", "open"} => lock = j /\ opened[workspaceOf[j]] = 0
       /\ pc[j] = "credential" => credentials = 0
       /\ pc[j] = "open" => credentials = 1
  /\ credentials \in 0..1
  /\ \A w \in Workspaces : opened[w] \in 0..1 /\ (opened[w] = 1 => credentials = 1)

\* A job is submitted only after everything is prepared, in a mode that submits
\* and to a workspace that exists; what submit answers is true of Azure ML.
WorkInv ==
  \A j \in Jobs :
    /\ phase \in {"preparing", "aborted"} => pc[j] = "queued"
    /\ pc[j] \notin {"queued", "done"} => workspaceOf[j] \in Workspaces /\ mode # "dry"
    /\ Created(j) => pc[j] # "queued" /\ mode # "dry" /\ workspaceOf[j] \in Workspaces
    /\ pc[j] \in {"callback", "stream"} => Created(j)
    /\ pc[j] = "stream" => mode = "wait"
    /\ result[j] = "ok" /\ mode # "dry" => Created(j)
    /\ result[j] = "ok" /\ mode = "wait" => remote[j] = "completed"

\* Outside the concurrent mode a job is taken only after all before it are good.
ChainInv ==
  mode # "concurrent" =>
    \A j \in Jobs : pc[j] # "queued" => \A i \in 1..(j - 1) : result[i] = "ok"

\* What is known of the code asset is true of the workspaces, and every prepared
\* job names the asset of its own workspace.
CodeInv ==
  /\ phase \notin {"preparing", "aborted"} => cursor = JobCount + 1
  /\ \A w \in Workspaces : registrations[w] = IF w \in codeIds THEN 1 ELSE 0
  /\ mode # "dry" /\ snapshot =>
       \A j \in 1..(cursor - 1) : workspaceOf[j] \in codeIds /\ code[j] = workspaceOf[j]

\* The snapshot is staged at most once and removed at the end.
StagingInv ==
  /\ stagings = IF staged = "none" THEN 0 ELSE 1
  /\ phase \in {"aborted", "good", "bad"} => staged # "live"

\* An ended batch is complete and its exit status sums it up.
EndInv ==
  /\ phase \in {"good", "bad"} => Attempted
  /\ phase = "good" => \A j \in Jobs : result[j] = "ok"
  /\ phase = "bad" => \E j \in Jobs : result[j] # "ok"

IInv == TypeOK /\ PoolInv /\ WorkInv /\ ChainInv /\ CodeInv /\ StagingInv /\ EndInv

\* Every step keeps the types.
LEMMA TypeStep ==
  ASSUME TypeOK, [Next]_vars
  PROVE  TypeOK'
<1> USE BatchAssumption DEF TypeOK, Phases, Stages, Jobs, Free
<1>1. ASSUME Stage PROVE TypeOK'
  BY <1>1 DEF Stage, Preparing, conf, prep, pool, work
<1>2. ASSUME Register PROVE TypeOK'
  <2>1. workspaceOf[cursor] \in Workspaces
    BY <1>2 DEF Register, Resolves
  <2>2. codeIds' \in SUBSET Workspaces /\ registrations' \in [Workspaces -> Nat]
    BY <1>2, <2>1 DEF Register, Known
  <2>3. credentials' \in Nat /\ opened' \in [Workspaces -> Nat]
    BY <1>2, <2>1 DEF Register
  <2> QED BY <1>2, <2>2, <2>3 DEF Register, conf, prep, pool, work
<1>3. ASSUME Generate PROVE TypeOK'
  BY <1>3 DEF Generate, Preparing, Resolves, WantsCode, Resolving, conf, prep, pool, work
<1>4. ASSUME PrepareFails PROVE TypeOK'
  BY <1>4 DEF PrepareFails, Preparing, Closed, Fault, conf, prep, pool, work
<1>5. ASSUME StartSubmitting PROVE TypeOK'
  BY <1>5 DEF StartSubmitting, conf, prep, pool, work
<1>6. ASSUME Finish PROVE TypeOK'
  BY <1>6 DEF Finish, Closed, Verdict, Attempted, conf, prep, pool, work
<1>7. ASSUME NEW j \in Jobs, Take(j) PROVE TypeOK'
  <2> USE <1>7 DEF Take, IsNext, conf, prep, pool, work
  <2>1. CASE Return(j, "failed")
    BY <2>1 DEF Return, Goto
  <2>2. CASE Return(j, "ok")
    BY <2>2 DEF Return, Goto
  <2>3. CASE Goto(j, "client") /\ UNCHANGED result
    BY <2>3 DEF Goto
  <2> QED BY <2>1, <2>2, <2>3
<1>8. ASSUME NEW j \in Jobs, ReuseClient(j) PROVE TypeOK'
  BY <1>8 DEF ReuseClient, Goto, conf, prep, pool, work
<1>9. ASSUME NEW j \in Jobs, EnterGet(j) PROVE TypeOK'
  BY <1>9 DEF EnterGet, Goto, LockIsFree, conf, prep, pool, work
<1>10. ASSUME NEW j \in Jobs, BuildCredential(j) PROVE TypeOK'
  BY <1>10 DEF BuildCredential, Goto, conf, prep, pool, work
<1>11. ASSUME NEW j \in Jobs, OpenClient(j) PROVE TypeOK'
  <2>0. opened \in [Workspaces -> Nat] /\ \A w \in Workspaces : opened[w] + 1 \in Nat
    OBVIOUS
  <2>1. opened' \in [Workspaces -> Nat]
    BY <1>11, <2>0, ZenonT(20) DEF OpenClient
  <2>2. pc' \in [Jobs -> Stages]
    BY <1>11 DEF OpenClient, Goto
  <2>3. \A i \in Jobs : pc'[i] = "done" <=> result'[i] # "none"
    BY <1>11 DEF OpenClient, Goto
  <2>4. lock' \in {i \in Jobs : pc'[i] \in {"credential", "open"}} \cup {Free}
    BY <1>11 DEF OpenClient
  <2> QED BY <1>11, <2>1, <2>2, <2>3, <2>4 DEF OpenClient, conf, prep, pool, work
<1>12. ASSUME NEW j \in Jobs, GetFails(j) PROVE TypeOK'
  BY <1>12 DEF GetFails, LeaveGet, Return, Goto, Fault, conf, prep, pool, work
<1>13. ASSUME NEW j \in Jobs, FindCompute(j) PROVE TypeOK'
  BY <1>13 DEF FindCompute, Goto, conf, prep, pool, work
<1>14. ASSUME NEW j \in Jobs, ComputeFails(j) PROVE TypeOK'
  BY <1>14 DEF ComputeFails, Return, Goto, Fault, conf, prep, pool, work
<1>15. ASSUME NEW j \in Jobs, CreateJob(j) PROVE TypeOK'
  BY <1>15 DEF CreateJob, Goto, conf, prep, pool, work
<1>16. ASSUME NEW j \in Jobs, CreateFails(j) PROVE TypeOK'
  BY <1>16 DEF CreateFails, Return, Goto, Fault, conf, prep, pool, work
<1>17. ASSUME NEW j \in Jobs, CallBack(j) PROVE TypeOK'
  <2> USE <1>17 DEF CallBack, conf, prep, pool, work
  <2>1. CASE mode = "wait"
    BY <2>1 DEF Goto
  <2>2. CASE mode # "wait"
    <3>1. /\ pc' = [pc EXCEPT ![j] = "done"] /\ result' = [result EXCEPT ![j] = "ok"]
          /\ UNCHANGED <<conf, phase, staged, prep, pool, remote, faults>>
      BY <1>17, <2>2 DEF CallBack, Return, Goto
    <3>2. pc[j] = "callback" BY <1>17 DEF CallBack
    <3>3. pc' \in [Jobs -> Stages] /\ result' \in [Jobs -> {"none", "ok", "failed"}] BY <3>1
    <3>4. lock' \in {i \in Jobs : pc'[i] \in {"credential", "open"}} \cup {Free} BY <3>1, <3>2
    <3>5. \A i \in Jobs : pc'[i] = "done" <=> result'[i] # "none" BY <3>1
    <3> QED BY <3>1, <3>3, <3>4, <3>5
  <2> QED BY <2>1, <2>2
<1>18. ASSUME NEW j \in Jobs, CallbackFails(j) PROVE TypeOK'
  BY <1>18 DEF CallbackFails, Return, Goto, Fault, conf, prep, pool, work
<1>19. ASSUME NEW j \in Jobs, Stream(j) PROVE TypeOK'
  BY <1>19 DEF Stream, Return, Goto, conf, prep, pool, work
<1>20. ASSUME NEW j \in Jobs, StreamFails(j) PROVE TypeOK'
  BY <1>20 DEF StreamFails, Return, Goto, Fault, conf, prep, pool, work
<1>21. ASSUME NEW j \in Jobs, RemoteEnds(j) PROVE TypeOK'
  BY <1>21 DEF RemoteEnds, Fault, conf, prep, pool, work
<1>22. ASSUME UNCHANGED vars PROVE TypeOK'
  BY <1>22 DEF vars, conf, prep, pool, work
<1> QED BY <1>1, <1>2, <1>3, <1>4, <1>5, <1>6, <1>7, <1>8, <1>9, <1>10, <1>11, <1>12, <1>13, <1>14, <1>15, <1>16, <1>17, <1>18, <1>19, <1>20, <1>21, <1>22 DEF Next, Main, Submit

\* The lock keeps the pool to one credential and one client per workspace.
LEMMA PoolStep ==
  ASSUME TypeOK, PoolInv, WorkInv, [Next]_vars
  PROVE  PoolInv'
<1> USE BatchAssumption DEF TypeOK, Phases, Stages, Jobs, Free, PoolInv, WorkInv
<1>1. ASSUME Stage PROVE PoolInv'
  BY <1>1 DEF Stage, Preparing, conf, prep, pool, work
<1>2. ASSUME Register PROVE PoolInv'
  BY <1>2 DEF Register, Preparing, Known, conf, prep, pool, work
<1>3. ASSUME Generate PROVE PoolInv'
  BY <1>3 DEF Generate, Preparing, Resolves, WantsCode, Resolving, conf, prep, pool, work
<1>4. ASSUME PrepareFails PROVE PoolInv'
  BY <1>4 DEF PrepareFails, Preparing, Closed, Fault, conf, prep, pool, work
<1>5. ASSUME StartSubmitting PROVE PoolInv'
  BY <1>5 DEF StartSubmitting, conf, prep, pool, work
<1>6. ASSUME Finish PROVE PoolInv'
  BY <1>6 DEF Finish, Closed, Verdict, Attempted, conf, prep, pool, work
<1>7. ASSUME NEW j \in Jobs, Take(j) PROVE PoolInv'
  BY <1>7 DEF Take, IsNext, Resolves, Return, Goto, conf, prep, pool, work
<1>8. ASSUME NEW j \in Jobs, ReuseClient(j) PROVE PoolInv'
  BY <1>8 DEF ReuseClient, Goto, conf, prep, pool, work
<1>9. ASSUME NEW j \in Jobs, EnterGet(j) PROVE PoolInv'
  BY <1>9 DEF EnterGet, Goto, LockIsFree, conf, prep, pool, work
<1>10. ASSUME NEW j \in Jobs, BuildCredential(j) PROVE PoolInv'
  BY <1>10 DEF BuildCredential, Goto, conf, prep, pool, work
<1>11. ASSUME NEW j \in Jobs, OpenClient(j) PROVE PoolInv'
  BY <1>11 DEF OpenClient, Goto, conf, prep, pool, work
<1>12. ASSUME NEW j \in Jobs, GetFails(j) PROVE PoolInv'
  BY <1>12 DEF GetFails, LeaveGet, Return, Goto, Fault, conf, prep, pool, work
<1>13. ASSUME NEW j \in Jobs, FindCompute(j) PROVE PoolInv'
  BY <1>13 DEF FindCompute, Goto, conf, prep, pool, work
<1>14. ASSUME NEW j \in Jobs, ComputeFails(j) PROVE PoolInv'
  BY <1>14 DEF ComputeFails, Return, Goto, Fault, conf, prep, pool, work
<1>15. ASSUME NEW j \in Jobs, CreateJob(j) PROVE PoolInv'
  BY <1>15 DEF CreateJob, Goto, conf, prep, pool, work
<1>16. ASSUME NEW j \in Jobs, CreateFails(j) PROVE PoolInv'
  BY <1>16 DEF CreateFails, Return, Goto, Fault, conf, prep, pool, work
<1>17. ASSUME NEW j \in Jobs, CallBack(j) PROVE PoolInv'
  BY <1>17 DEF CallBack, Return, Goto, conf, prep, pool, work
<1>18. ASSUME NEW j \in Jobs, CallbackFails(j) PROVE PoolInv'
  BY <1>18 DEF CallbackFails, Return, Goto, Fault, conf, prep, pool, work
<1>19. ASSUME NEW j \in Jobs, Stream(j) PROVE PoolInv'
  BY <1>19 DEF Stream, Return, Goto, conf, prep, pool, work
<1>20. ASSUME NEW j \in Jobs, StreamFails(j) PROVE PoolInv'
  BY <1>20 DEF StreamFails, Return, Goto, Fault, conf, prep, pool, work
<1>21. ASSUME NEW j \in Jobs, RemoteEnds(j) PROVE PoolInv'
  BY <1>21 DEF RemoteEnds, Fault, conf, prep, pool, work
<1>22. ASSUME UNCHANGED vars PROVE PoolInv'
  BY <1>22 DEF vars, conf, prep, pool, work
<1> QED BY <1>1, <1>2, <1>3, <1>4, <1>5, <1>6, <1>7, <1>8, <1>9, <1>10, <1>11, <1>12, <1>13, <1>14, <1>15, <1>16, <1>17, <1>18, <1>19, <1>20, <1>21, <1>22 DEF Next, Main, Submit

\* Submissions keep to what was prepared.
LEMMA WorkStep ==
  ASSUME TypeOK, WorkInv, [Next]_vars
  PROVE  WorkInv'
<1> USE BatchAssumption DEF TypeOK, Phases, Stages, Jobs, Free, WorkInv, Created
<1>1. ASSUME Stage PROVE WorkInv'
  BY <1>1 DEF Stage, Preparing, conf, prep, pool, work
<1>2. ASSUME Register PROVE WorkInv'
  BY <1>2 DEF Register, Preparing, Known, conf, prep, pool, work
<1>3. ASSUME Generate PROVE WorkInv'
  BY <1>3 DEF Generate, Preparing, Resolves, WantsCode, Resolving, conf, prep, pool, work
<1>4. ASSUME PrepareFails PROVE WorkInv'
  BY <1>4 DEF PrepareFails, Preparing, Closed, Fault, conf, prep, pool, work
<1>5. ASSUME StartSubmitting PROVE WorkInv'
  BY <1>5 DEF StartSubmitting, conf, prep, pool, work
<1>6. ASSUME Finish PROVE WorkInv'
  BY <1>6 DEF Finish, Closed, Verdict, Attempted, conf, prep, pool, work
<1>7. ASSUME NEW j \in Jobs, Take(j) PROVE WorkInv'
  BY <1>7 DEF Take, IsNext, Resolves, Return, Goto, conf, prep, pool, work
<1>8. ASSUME NEW j \in Jobs, ReuseClient(j) PROVE WorkInv'
  BY <1>8 DEF ReuseClient, Goto, conf, prep, pool, work
<1>9. ASSUME NEW j \in Jobs, EnterGet(j) PROVE WorkInv'
  BY <1>9 DEF EnterGet, Goto, LockIsFree, conf, prep, pool, work
<1>10. ASSUME NEW j \in Jobs, BuildCredential(j) PROVE WorkInv'
  BY <1>10 DEF BuildCredential, Goto, conf, prep, pool, work
<1>11. ASSUME NEW j \in Jobs, OpenClient(j) PROVE WorkInv'
  BY <1>11 DEF OpenClient, Goto, conf, prep, pool, work
<1>12. ASSUME NEW j \in Jobs, GetFails(j) PROVE WorkInv'
  BY <1>12 DEF GetFails, LeaveGet, Return, Goto, Fault, conf, prep, pool, work
<1>13. ASSUME NEW j \in Jobs, FindCompute(j) PROVE WorkInv'
  BY <1>13 DEF FindCompute, Goto, conf, prep, pool, work
<1>14. ASSUME NEW j \in Jobs, ComputeFails(j) PROVE WorkInv'
  BY <1>14 DEF ComputeFails, Return, Goto, Fault, conf, prep, pool, work
<1>15. ASSUME NEW j \in Jobs, CreateJob(j) PROVE WorkInv'
  BY <1>15 DEF CreateJob, Goto, conf, prep, pool, work
<1>16. ASSUME NEW j \in Jobs, CreateFails(j) PROVE WorkInv'
  BY <1>16 DEF CreateFails, Return, Goto, Fault, conf, prep, pool, work
<1>17. ASSUME NEW j \in Jobs, CallBack(j) PROVE WorkInv'
  BY <1>17 DEF CallBack, Return, Goto, conf, prep, pool, work
<1>18. ASSUME NEW j \in Jobs, CallbackFails(j) PROVE WorkInv'
  BY <1>18 DEF CallbackFails, Return, Goto, Fault, conf, prep, pool, work
<1>19. ASSUME NEW j \in Jobs, Stream(j) PROVE WorkInv'
  BY <1>19 DEF Stream, Return, Goto, conf, prep, pool, work
<1>20. ASSUME NEW j \in Jobs, StreamFails(j) PROVE WorkInv'
  BY <1>20 DEF StreamFails, Return, Goto, Fault, conf, prep, pool, work
<1>21. ASSUME NEW j \in Jobs, RemoteEnds(j) PROVE WorkInv'
  BY <1>21 DEF RemoteEnds, Fault, conf, prep, pool, work
<1>22. ASSUME UNCHANGED vars PROVE WorkInv'
  BY <1>22 DEF vars, conf, prep, pool, work
<1> QED BY <1>1, <1>2, <1>3, <1>4, <1>5, <1>6, <1>7, <1>8, <1>9, <1>10, <1>11, <1>12, <1>13, <1>14, <1>15, <1>16, <1>17, <1>18, <1>19, <1>20, <1>21, <1>22 DEF Next, Main, Submit

\* A job that is answered for while in flight is not one a chain has gone past.
LEMMA ReturnKeepsChain ==
  ASSUME TypeOK, ChainInv, NEW j \in Jobs, pc[j] \notin {"queued", "done"},
         NEW answer, Return(j, answer), UNCHANGED mode
  PROVE  ChainInv'
<1>1. result[j] = "none"
  BY DEF TypeOK
<1> SUFFICES ASSUME mode # "concurrent", NEW k \in Jobs, pc'[k] # "queued", NEW i \in 1..(k - 1)
             PROVE  result'[i] = "ok"
  BY DEF ChainInv
<1>2. i \in Jobs
  BY BatchAssumption DEF Jobs
<1>3. pc[k] # "queued"
  BY DEF Return, Goto, TypeOK
<1>4. result[i] = "ok"
  BY <1>3 DEF ChainInv
<1> QED BY <1>1, <1>2, <1>4 DEF Return, TypeOK

\* A chain goes on only from a good job.
LEMMA ChainStep ==
  ASSUME TypeOK, ChainInv, [Next]_vars
  PROVE  ChainInv'
<1> USE BatchAssumption DEF TypeOK, Phases, Stages, Jobs, Free, ChainInv
<1>1. ASSUME Stage PROVE ChainInv'
  BY <1>1 DEF Stage, Preparing, conf, prep, pool, work
<1>2. ASSUME Register PROVE ChainInv'
  BY <1>2 DEF Register, Preparing, Known, conf, prep, pool, work
<1>3. ASSUME Generate PROVE ChainInv'
  BY <1>3 DEF Generate, Preparing, Resolves, WantsCode, Resolving, conf, prep, pool, work
<1>4. ASSUME PrepareFails PROVE ChainInv'
  BY <1>4 DEF PrepareFails, Preparing, Closed, Fault, conf, prep, pool, work
<1>5. ASSUME StartSubmitting PROVE ChainInv'
  BY <1>5 DEF StartSubmitting, conf, prep, pool, work
<1>6. ASSUME Finish PROVE ChainInv'
  BY <1>6 DEF Finish, Closed, Verdict, Attempted, conf, prep, pool, work
<1>7. ASSUME NEW j \in Jobs, Take(j) PROVE ChainInv'
  BY <1>7 DEF Take, IsNext, Resolves, Return, Goto, conf, prep, pool, work
<1>8. ASSUME NEW j \in Jobs, ReuseClient(j) PROVE ChainInv'
  BY <1>8 DEF ReuseClient, Goto, conf, prep, pool, work
<1>9. ASSUME NEW j \in Jobs, EnterGet(j) PROVE ChainInv'
  BY <1>9 DEF EnterGet, Goto, LockIsFree, conf, prep, pool, work
<1>10. ASSUME NEW j \in Jobs, BuildCredential(j) PROVE ChainInv'
  BY <1>10 DEF BuildCredential, Goto, conf, prep, pool, work
<1>11. ASSUME NEW j \in Jobs, OpenClient(j) PROVE ChainInv'
  BY <1>11 DEF OpenClient, Goto, conf, prep, pool, work
<1>12. ASSUME NEW j \in Jobs, GetFails(j) PROVE ChainInv'
  BY <1>12, ReturnKeepsChain DEF GetFails, conf
<1>13. ASSUME NEW j \in Jobs, FindCompute(j) PROVE ChainInv'
  BY <1>13 DEF FindCompute, Goto, conf, prep, pool, work
<1>14. ASSUME NEW j \in Jobs, ComputeFails(j) PROVE ChainInv'
  BY <1>14, ReturnKeepsChain DEF ComputeFails, conf
<1>15. ASSUME NEW j \in Jobs, CreateJob(j) PROVE ChainInv'
  BY <1>15 DEF CreateJob, Goto, conf, prep, pool, work
<1>16. ASSUME NEW j \in Jobs, CreateFails(j) PROVE ChainInv'
  BY <1>16, ReturnKeepsChain DEF CreateFails, conf
<1>17. ASSUME NEW j \in Jobs, CallBack(j) PROVE ChainInv'
  BY <1>17 DEF CallBack, Return, Goto, conf, prep, pool, work
<1>18. ASSUME NEW j \in Jobs, CallbackFails(j) PROVE ChainInv'
  BY <1>18, ReturnKeepsChain DEF CallbackFails, conf
<1>19. ASSUME NEW j \in Jobs, Stream(j) PROVE ChainInv'
  BY <1>19, ReturnKeepsChain DEF Stream, conf
<1>20. ASSUME NEW j \in Jobs, StreamFails(j) PROVE ChainInv'
  BY <1>20, ReturnKeepsChain DEF StreamFails, conf
<1>21. ASSUME NEW j \in Jobs, RemoteEnds(j) PROVE ChainInv'
  BY <1>21 DEF RemoteEnds, Fault, conf, prep, pool, work
<1>22. ASSUME UNCHANGED vars PROVE ChainInv'
  BY <1>22 DEF vars, conf, prep, pool, work
<1> QED BY <1>1, <1>2, <1>3, <1>4, <1>5, <1>6, <1>7, <1>8, <1>9, <1>10, <1>11, <1>12, <1>13, <1>14, <1>15, <1>16, <1>17, <1>18, <1>19, <1>20, <1>21, <1>22 DEF Next, Main, Submit

\* The code asset ids stay true.
LEMMA CodeStep ==
  ASSUME TypeOK, CodeInv, [Next]_vars
  PROVE  CodeInv'
<1> USE BatchAssumption DEF TypeOK, Phases, Stages, Jobs, Free, CodeInv
<1>1. ASSUME Stage PROVE CodeInv'
  BY <1>1 DEF Stage, Preparing, conf, prep, pool, work
<1>2. ASSUME Register PROVE CodeInv'
  <2>1. workspaceOf[cursor] \in Workspaces \ codeIds /\ cursor \in Jobs
    BY <1>2 DEF Register, Preparing, Resolves, WantsCode
  <2>2. \A w \in Workspaces : registrations'[w] = IF w \in codeIds' THEN 1 ELSE 0
    BY <1>2, <2>1 DEF Register, Known
  <2>3. \A i \in 1..(cursor - 1) : workspaceOf[i] \in codeIds => workspaceOf[i] \in codeIds'
    BY <1>2 DEF Register, Known
  <2> QED BY <1>2, <2>2, <2>3 DEF Register, Preparing, conf
<1>3. ASSUME Generate PROVE CodeInv'
  BY <1>3 DEF Generate, Preparing, Resolves, WantsCode, Resolving, conf, prep, pool, work
<1>4. ASSUME PrepareFails PROVE CodeInv'
  BY <1>4 DEF PrepareFails, Preparing, Closed, Fault, conf, prep, pool, work
<1>5. ASSUME StartSubmitting PROVE CodeInv'
  BY <1>5 DEF StartSubmitting, conf, prep, pool, work
<1>6. ASSUME Finish PROVE CodeInv'
  BY <1>6 DEF Finish, Closed, Verdict, Attempted, conf, prep, pool, work
<1>7. ASSUME NEW j \in Jobs, Take(j) PROVE CodeInv'
  BY <1>7 DEF Take, IsNext, Resolves, Return, Goto, conf, prep, pool, work
<1>8. ASSUME NEW j \in Jobs, ReuseClient(j) PROVE CodeInv'
  BY <1>8 DEF ReuseClient, Goto, conf, prep, pool, work
<1>9. ASSUME NEW j \in Jobs, EnterGet(j) PROVE CodeInv'
  BY <1>9 DEF EnterGet, Goto, LockIsFree, conf, prep, pool, work
<1>10. ASSUME NEW j \in Jobs, BuildCredential(j) PROVE CodeInv'
  BY <1>10 DEF BuildCredential, Goto, conf, prep, pool, work
<1>11. ASSUME NEW j \in Jobs, OpenClient(j) PROVE CodeInv'
  BY <1>11 DEF OpenClient, Goto, conf, prep, pool, work
<1>12. ASSUME NEW j \in Jobs, GetFails(j) PROVE CodeInv'
  BY <1>12 DEF GetFails, LeaveGet, Return, Goto, Fault, conf, prep, pool, work
<1>13. ASSUME NEW j \in Jobs, FindCompute(j) PROVE CodeInv'
  BY <1>13 DEF FindCompute, Goto, conf, prep, pool, work
<1>14. ASSUME NEW j \in Jobs, ComputeFails(j) PROVE CodeInv'
  BY <1>14 DEF ComputeFails, Return, Goto, Fault, conf, prep, pool, work
<1>15. ASSUME NEW j \in Jobs, CreateJob(j) PROVE CodeInv'
  BY <1>15 DEF CreateJob, Goto, conf, prep, pool, work
<1>16. ASSUME NEW j \in Jobs, CreateFails(j) PROVE CodeInv'
  BY <1>16 DEF CreateFails, Return, Goto, Fault, conf, prep, pool, work
<1>17. ASSUME NEW j \in Jobs, CallBack(j) PROVE CodeInv'
  BY <1>17 DEF CallBack, Return, Goto, conf, prep, pool, work
<1>18. ASSUME NEW j \in Jobs, CallbackFails(j) PROVE CodeInv'
  BY <1>18 DEF CallbackFails, Return, Goto, Fault, conf, prep, pool, work
<1>19. ASSUME NEW j \in Jobs, Stream(j) PROVE CodeInv'
  BY <1>19 DEF Stream, Return, Goto, conf, prep, pool, work
<1>20. ASSUME NEW j \in Jobs, StreamFails(j) PROVE CodeInv'
  BY <1>20 DEF StreamFails, Return, Goto, Fault, conf, prep, pool, work
<1>21. ASSUME NEW j \in Jobs, RemoteEnds(j) PROVE CodeInv'
  BY <1>21 DEF RemoteEnds, Fault, conf, prep, pool, work
<1>22. ASSUME UNCHANGED vars PROVE CodeInv'
  BY <1>22 DEF vars, conf, prep, pool, work
<1> QED BY <1>1, <1>2, <1>3, <1>4, <1>5, <1>6, <1>7, <1>8, <1>9, <1>10, <1>11, <1>12, <1>13, <1>14, <1>15, <1>16, <1>17, <1>18, <1>19, <1>20, <1>21, <1>22 DEF Next, Main, Submit

\* The snapshot is staged once.
LEMMA StagingStep ==
  ASSUME TypeOK, StagingInv, [Next]_vars
  PROVE  StagingInv'
<1> USE BatchAssumption DEF TypeOK, Phases, Stages, Jobs, Free, StagingInv
<1>1. ASSUME Stage PROVE StagingInv'
  BY <1>1 DEF Stage, Preparing, conf, prep, pool, work
<1>2. ASSUME Register PROVE StagingInv'
  BY <1>2 DEF Register, Preparing, Known, conf, prep, pool, work
<1>3. ASSUME Generate PROVE StagingInv'
  BY <1>3 DEF Generate, Preparing, Resolves, WantsCode, Resolving, conf, prep, pool, work
<1>4. ASSUME PrepareFails PROVE StagingInv'
  BY <1>4 DEF PrepareFails, Preparing, Closed, Fault, conf, prep, pool, work
<1>5. ASSUME StartSubmitting PROVE StagingInv'
  BY <1>5 DEF StartSubmitting, conf, prep, pool, work
<1>6. ASSUME Finish PROVE StagingInv'
  BY <1>6 DEF Finish, Closed, Verdict, Attempted, conf, prep, pool, work
<1>7. ASSUME NEW j \in Jobs, Take(j) PROVE StagingInv'
  BY <1>7 DEF Take, IsNext, Resolves, Return, Goto, conf, prep, pool, work
<1>8. ASSUME NEW j \in Jobs, ReuseClient(j) PROVE StagingInv'
  BY <1>8 DEF ReuseClient, Goto, conf, prep, pool, work
<1>9. ASSUME NEW j \in Jobs, EnterGet(j) PROVE StagingInv'
  BY <1>9 DEF EnterGet, Goto, LockIsFree, conf, prep, pool, work
<1>10. ASSUME NEW j \in Jobs, BuildCredential(j) PROVE StagingInv'
  BY <1>10 DEF BuildCredential, Goto, conf, prep, pool, work
<1>11. ASSUME NEW j \in Jobs, OpenClient(j) PROVE StagingInv'
  BY <1>11 DEF OpenClient, Goto, conf, prep, pool, work
<1>12. ASSUME NEW j \in Jobs, GetFails(j) PROVE StagingInv'
  BY <1>12 DEF GetFails, LeaveGet, Return, Goto, Fault, conf, prep, pool, work
<1>13. ASSUME NEW j \in Jobs, FindCompute(j) PROVE StagingInv'
  BY <1>13 DEF FindCompute, Goto, conf, prep, pool, work
<1>14. ASSUME NEW j \in Jobs, ComputeFails(j) PROVE StagingInv'
  BY <1>14 DEF ComputeFails, Return, Goto, Fault, conf, prep, pool, work
<1>15. ASSUME NEW j \in Jobs, CreateJob(j) PROVE StagingInv'
  BY <1>15 DEF CreateJob, Goto, conf, prep, pool, work
<1>16. ASSUME NEW j \in Jobs, CreateFails(j) PROVE StagingInv'
  BY <1>16 DEF CreateFails, Return, Goto, Fault, conf, prep, pool, work
<1>17. ASSUME NEW j \in Jobs, CallBack(j) PROVE StagingInv'
  BY <1>17 DEF CallBack, Return, Goto, conf, prep, pool, work
<1>18. ASSUME NEW j \in Jobs, CallbackFails(j) PROVE StagingInv'
  BY <1>18 DEF CallbackFails, Return, Goto, Fault, conf, prep, pool, work
<1>19. ASSUME NEW j \in Jobs, Stream(j) PROVE StagingInv'
  BY <1>19 DEF Stream, Return, Goto, conf, prep, pool, work
<1>20. ASSUME NEW j \in Jobs, StreamFails(j) PROVE StagingInv'
  BY <1>20 DEF StreamFails, Return, Goto, Fault, conf, prep, pool, work
<1>21. ASSUME NEW j \in Jobs, RemoteEnds(j) PROVE StagingInv'
  BY <1>21 DEF RemoteEnds, Fault, conf, prep, pool, work
<1>22. ASSUME UNCHANGED vars PROVE StagingInv'
  BY <1>22 DEF vars, conf, prep, pool, work
<1> QED BY <1>1, <1>2, <1>3, <1>4, <1>5, <1>6, <1>7, <1>8, <1>9, <1>10, <1>11, <1>12, <1>13, <1>14, <1>15, <1>16, <1>17, <1>18, <1>19, <1>20, <1>21, <1>22 DEF Next, Main, Submit

\* Nothing happens to a batch that ended.
LEMMA EndStep ==
  ASSUME TypeOK, ChainInv, EndInv, [Next]_vars
  PROVE  EndInv'
<1> USE BatchAssumption DEF TypeOK, Phases, Stages, Jobs, Free, EndInv, Attempted, ChainInv
<1>1. ASSUME Stage PROVE EndInv'
  BY <1>1 DEF Stage, Preparing, conf, prep, pool, work
<1>2. ASSUME Register PROVE EndInv'
  BY <1>2 DEF Register, Preparing, Known, conf, prep, pool, work
<1>3. ASSUME Generate PROVE EndInv'
  BY <1>3 DEF Generate, Preparing, Resolves, WantsCode, Resolving, conf, prep, pool, work
<1>4. ASSUME PrepareFails PROVE EndInv'
  BY <1>4 DEF PrepareFails, Preparing, Closed, Fault, conf, prep, pool, work
<1>5. ASSUME StartSubmitting PROVE EndInv'
  BY <1>5 DEF StartSubmitting, conf, prep, pool, work
<1>6. ASSUME Finish PROVE EndInv'
  BY <1>6 DEF Finish, Closed, Verdict, Attempted, conf, prep, pool, work
<1>7. ASSUME NEW j \in Jobs, Take(j) PROVE EndInv'
  BY <1>7 DEF Take, IsNext, Resolves, Return, Goto, conf, prep, pool, work
<1>8. ASSUME NEW j \in Jobs, ReuseClient(j) PROVE EndInv'
  BY <1>8 DEF ReuseClient, Goto, conf, prep, pool, work
<1>9. ASSUME NEW j \in Jobs, EnterGet(j) PROVE EndInv'
  BY <1>9 DEF EnterGet, Goto, LockIsFree, conf, prep, pool, work
<1>10. ASSUME NEW j \in Jobs, BuildCredential(j) PROVE EndInv'
  BY <1>10 DEF BuildCredential, Goto, conf, prep, pool, work
<1>11. ASSUME NEW j \in Jobs, OpenClient(j) PROVE EndInv'
  BY <1>11 DEF OpenClient, Goto, conf, prep, pool, work
<1>12. ASSUME NEW j \in Jobs, GetFails(j) PROVE EndInv'
  BY <1>12 DEF GetFails, LeaveGet, Return, Goto, Fault, conf, prep, pool, work
<1>13. ASSUME NEW j \in Jobs, FindCompute(j) PROVE EndInv'
  BY <1>13 DEF FindCompute, Goto, conf, prep, pool, work
<1>14. ASSUME NEW j \in Jobs, ComputeFails(j) PROVE EndInv'
  BY <1>14 DEF ComputeFails, Return, Goto, Fault, conf, prep, pool, work
<1>15. ASSUME NEW j \in Jobs, CreateJob(j) PROVE EndInv'
  BY <1>15 DEF CreateJob, Goto, conf, prep, pool, work
<1>16. ASSUME NEW j \in Jobs, CreateFails(j) PROVE EndInv'
  BY <1>16 DEF CreateFails, Return, Goto, Fault, conf, prep, pool, work
<1>17. ASSUME NEW j \in Jobs, CallBack(j) PROVE EndInv'
  BY <1>17 DEF CallBack, Return, Goto, conf, prep, pool, work
<1>18. ASSUME NEW j \in Jobs, CallbackFails(j) PROVE EndInv'
  BY <1>18 DEF CallbackFails, Return, Goto, Fault, conf, prep, pool, work
<1>19. ASSUME NEW j \in Jobs, Stream(j) PROVE EndInv'
  BY <1>19 DEF Stream, Return, Goto, conf, prep, pool, work
<1>20. ASSUME NEW j \in Jobs, StreamFails(j) PROVE EndInv'
  BY <1>20 DEF StreamFails, Return, Goto, Fault, conf, prep, pool, work
<1>21. ASSUME NEW j \in Jobs, RemoteEnds(j) PROVE EndInv'
  BY <1>21 DEF RemoteEnds, Fault, conf, prep, pool, work
<1>22. ASSUME UNCHANGED vars PROVE EndInv'
  BY <1>22 DEF vars, conf, prep, pool, work
<1> QED BY <1>1, <1>2, <1>3, <1>4, <1>5, <1>6, <1>7, <1>8, <1>9, <1>10, <1>11, <1>12, <1>13, <1>14, <1>15, <1>16, <1>17, <1>18, <1>19, <1>20, <1>21, <1>22 DEF Next, Main, Submit

\* The invariant holds from the start and every step keeps it.
THEOREM BatchInvariant == Spec => []IInv
<1>1. Init => IInv
  BY BatchAssumption
  DEF Init, IInv, TypeOK, PoolInv, WorkInv, ChainInv, CodeInv, StagingInv, EndInv,
      Phases, Stages, Jobs, Created
<1>2. IInv /\ [Next]_vars => IInv'
  BY TypeStep, PoolStep, WorkStep, ChainStep, CodeStep, StagingStep, EndStep DEF IInv
<1> QED BY <1>1, <1>2, PTL DEF Spec

\* Every variable keeps its type, the lock its holder, and submit answers for
\* exactly the jobs it is done with.
THEOREM BatchTypeCorrect == Spec => []TypeOK
<1>1. IInv => TypeOK
  BY DEF IInv
<1> QED BY <1>1, BatchInvariant, PTL

\* One credential, one client per workspace, one snapshot, one registration per
\* workspace, nothing left behind, for any number of threads.
THEOREM MadeOnce == Spec => []OncePerBatch
<1>1. IInv => OncePerBatch
  BY DEF IInv, PoolInv, StagingInv, CodeInv, TypeOK, OncePerBatch, Ended, Phases
<1> QED BY <1>1, BatchInvariant, PTL

\* Every job in Azure ML names a code asset of its own workspace.
THEOREM CodeFound == Spec => []CodeIsThere
<1>1. IInv => CodeIsThere
  <2> SUFFICES ASSUME IInv, snapshot, NEW j \in Jobs, Created(j)
               PROVE  code[j] = workspaceOf[j] /\ registrations[workspaceOf[j]] > 0
    BY DEF CodeIsThere
  <2>1. phase \notin {"preparing", "aborted"} /\ mode # "dry" /\ workspaceOf[j] \in Workspaces
    BY DEF IInv, WorkInv
  <2>2. j \in 1..(cursor - 1)
    BY <2>1, BatchAssumption DEF IInv, CodeInv, Jobs
  <2> QED BY <2>1, <2>2 DEF IInv, CodeInv
<1> QED BY <1>1, BatchInvariant, PTL

\* A waiting chain creates a job only when all before it have completed, and exit
\* status 0 is true of Azure ML.
THEOREM ChainConsumes == Spec => []ChainConsumesOutputs
<1>1. ASSUME IInv, mode = "wait", NEW j \in Jobs, Created(j), NEW i \in 1..(j - 1)
      PROVE  remote[i] = "completed"
  <2>1. i \in Jobs
    BY BatchAssumption DEF Jobs
  <2>2. result[i] = "ok"
    BY <1>1 DEF IInv, WorkInv, ChainInv
  <2> QED BY <1>1, <2>1, <2>2 DEF IInv, WorkInv
<1>2. ASSUME IInv, phase = "good", mode # "dry", NEW j \in Jobs
      PROVE  Created(j) /\ (mode = "wait" => remote[j] = "completed")
  BY <1>2 DEF IInv, EndInv, WorkInv
<1>3. IInv => ChainConsumesOutputs
  BY <1>1, <1>2 DEF ChainConsumesOutputs
<1> QED BY <1>3, BatchInvariant, PTL

\* What a dry run has made: nothing.
NothingMade ==
  mode = "dry" => /\ stagings = 0 /\ credentials = 0
                  /\ \A w \in Workspaces : registrations[w] = 0 /\ opened[w] = 0

\* A dry run prepares without a resolver, and no job of it asks for a client.
LEMMA DryStep ==
  ASSUME TypeOK, WorkInv, NothingMade, [Next]_vars
  PROVE  NothingMade'
<1>1. SUFFICES ASSUME mode = "dry" PROVE UNCHANGED <<mode, stagings, credentials, registrations, opened>>
  <2>1. mode' = mode
    BY DEF Next, Main, Submit, Stage, Register, Generate, PrepareFails, StartSubmitting, Finish, Take,
      ReuseClient, EnterGet, BuildCredential, OpenClient, GetFails, FindCompute, ComputeFails, CreateJob,
      CreateFails, CallBack, CallbackFails, Stream, StreamFails, RemoteEnds, vars, conf
  <2> QED BY <1>1, <2>1 DEF NothingMade
<1>2. ~Stage /\ ~Register BY <1>1 DEF Stage, Register, WantsCode, Resolving
<1>3. \A j \in Jobs : pc[j] \in {"queued", "done"} BY <1>1 DEF WorkInv
<1>4. \A j \in Jobs : ~BuildCredential(j) /\ ~OpenClient(j) BY <1>3 DEF BuildCredential, OpenClient
<1> QED BY <1>2, <1>4 DEF Next, Main, Submit, Generate, PrepareFails, StartSubmitting, Finish, Take,
      ReuseClient, EnterGet, GetFails, FindCompute, ComputeFails, CreateJob, CreateFails, CallBack,
      CallbackFails, Stream, StreamFails, RemoteEnds, vars, conf, prep, pool, work

\* A dry run stages, registers and creates nothing, and builds no credential or client
\* (DryRunIsDry), whatever the jobs and the workspaces they name.
THEOREM DryRunChangesNothing == Spec => []DryRunIsDry
<1>1. Init => NothingMade BY DEF Init, NothingMade
<1>2. IInv /\ NothingMade /\ [Next]_vars => NothingMade' BY DryStep DEF IInv
<1>3. IInv /\ NothingMade => DryRunIsDry BY DEF IInv, WorkInv, NothingMade, DryRunIsDry
<1> QED BY <1>1, <1>2, <1>3, BatchInvariant, PTL DEF Spec

\* What a step that changes neither Azure ML's jobs, nor answers, nor the phase
\* is to the contract: nothing.
LEMMA Unseen ==
  ASSUME UNCHANGED <<mode, phase, result, remote>>
  PROVE  UNCHANGED Abstract!vars
  BY DEF Abstract!vars, Created

\* A job in flight, or about to be taken, is one the contract may attempt.
LEMMA Attemptable ==
  ASSUME IInv, NEW j \in Jobs, phase = "submitting",
         pc[j] # "done", pc[j] = "queued" => IsNext(j)
  PROVE  Abstract!MayAttempt(j)
<1>1. result[j] = "none"
  BY DEF IInv, TypeOK
<1>2. mode # "concurrent" => \A i \in 1..(j - 1) : result[i] = "ok"
  BY DEF IInv, ChainInv, IsNext
<1>3. mode \in {"dry", "serial", "wait", "concurrent"}
  BY BatchAssumption DEF IInv, TypeOK
<1> QED BY <1>1, <1>2, <1>3 DEF Abstract!MayAttempt

\* While a job is in flight the batch is being submitted.
LEMMA InFlightSubmits ==
  ASSUME IInv, NEW j \in Jobs, pc[j] \notin {"queued", "done"}
  PROVE  phase = "submitting"
<1>1. result[j] = "none" /\ phase \notin {"preparing", "aborted"}
  BY DEF IInv, TypeOK, WorkInv
<1>2. ASSUME NEW k \in Jobs, result[k] = "failed", mode # "concurrent" PROVE FALSE
  <2>1. pc[k] # "queued" /\ k # j
    BY <1>1, <1>2 DEF IInv, TypeOK
  <2>2. j \in 1..(k - 1) \/ k \in 1..(j - 1)
    BY <2>1, BatchAssumption DEF Jobs
  <2> QED BY <1>1, <1>2, <2>1, <2>2 DEF IInv, ChainInv
<1>3. ~Attempted
  BY <1>2 DEF Attempted
<1> QED BY <1>1, <1>3 DEF IInv, EndInv, TypeOK, Phases

\* Every step of the batch is a step of the contract, or none.
LEMMA StepRefines ==
  ASSUME IInv, [Next]_vars
  PROVE  [Abstract!Next]_(Abstract!vars)
<1>1. ASSUME Stage PROVE [Abstract!Next]_(Abstract!vars)
  BY <1>1, Unseen DEF Stage, conf, prep, pool, work
<1>2. ASSUME Register PROVE [Abstract!Next]_(Abstract!vars)
  BY <1>2, Unseen DEF Register, conf, prep, pool, work
<1>3. ASSUME Generate PROVE [Abstract!Next]_(Abstract!vars)
  BY <1>3, Unseen DEF Generate, conf, prep, pool, work
<1>4. ASSUME StartSubmitting PROVE [Abstract!Next]_(Abstract!vars)
  BY <1>4 DEF StartSubmitting, Abstract!vars, Created, conf, prep, pool, work
<1>5. ASSUME PrepareFails PROVE [Abstract!Next]_(Abstract!vars)
  <2>1. \A j \in Jobs : ~Created(j) /\ result[j] = "none"
    BY <1>5 DEF PrepareFails, Preparing, IInv, TypeOK, WorkInv
  <2>2. Abstract!Abort
    BY <1>5, <2>1 DEF PrepareFails, Preparing, Abstract!Abort, Abstract!Jobs, Jobs, Created, conf, prep, pool, work
  <2> QED BY <2>2 DEF Abstract!Next
<1>6. ASSUME Finish PROVE [Abstract!Next]_(Abstract!vars)
  <2>1. Abstract!Complete
    BY <1>6, BatchAssumption DEF Finish, Attempted, Abstract!Complete, Abstract!Jobs, Jobs, IInv, TypeOK
  <2>2. Abstract!Finish
    BY <1>6, <2>1 DEF Finish, Verdict, Abstract!Finish, Abstract!Jobs, Jobs, Created, conf, prep, pool, work
  <2> QED BY <2>2 DEF Abstract!Next
<1>7. ASSUME NEW j \in Jobs, Take(j) PROVE [Abstract!Next]_(Abstract!vars)
  <2>1. Abstract!MayAttempt(j)
    BY <1>7, Attemptable DEF Take, IsNext
  <2>2. CASE Return(j, "failed")
    <3>1. Abstract!Fail(j)
      BY <1>7, <2>1, <2>2 DEF Take, Return, Goto, Abstract!Fail, Created, conf, prep, pool, work
    <3> QED BY <3>1 DEF Abstract!Next, Abstract!Jobs, Jobs
  <2>3. CASE mode = "dry" /\ Return(j, "ok")
    <3>1. Abstract!Succeed(j)
      BY <1>7, <2>1, <2>3 DEF Take, Return, Goto, Abstract!Succeed, Created, conf, prep, pool, work
    <3> QED BY <3>1 DEF Abstract!Next, Abstract!Jobs, Jobs
  <2>4. CASE UNCHANGED result
    BY <1>7, <2>4, Unseen DEF Take, conf, prep, pool, work
  <2> QED BY <1>7, <2>2, <2>3, <2>4 DEF Take
<1>8. ASSUME NEW j \in Jobs, ReuseClient(j) PROVE [Abstract!Next]_(Abstract!vars)
  BY <1>8, Unseen DEF ReuseClient, conf, prep, pool, work
<1>9. ASSUME NEW j \in Jobs, EnterGet(j) PROVE [Abstract!Next]_(Abstract!vars)
  BY <1>9, Unseen DEF EnterGet, conf, prep, pool, work
<1>10. ASSUME NEW j \in Jobs, BuildCredential(j) PROVE [Abstract!Next]_(Abstract!vars)
  BY <1>10, Unseen DEF BuildCredential, conf, prep, pool, work
<1>11. ASSUME NEW j \in Jobs, OpenClient(j) PROVE [Abstract!Next]_(Abstract!vars)
  BY <1>11, Unseen DEF OpenClient, conf, prep, pool, work
<1>12. ASSUME NEW j \in Jobs, FindCompute(j) PROVE [Abstract!Next]_(Abstract!vars)
  BY <1>12, Unseen DEF FindCompute, conf, prep, pool, work
<1>13. ASSUME NEW j \in Jobs, GetFails(j) PROVE [Abstract!Next]_(Abstract!vars)
  <2>1. Abstract!MayAttempt(j)
    BY <1>13, Attemptable, InFlightSubmits DEF GetFails
  <2>2. Abstract!Fail(j)
    BY <1>13, <2>1 DEF GetFails, Return, Goto, Abstract!Fail, Created, conf, prep, pool, work
  <2> QED BY <2>2 DEF Abstract!Next, Abstract!Jobs, Jobs
<1>14. ASSUME NEW j \in Jobs, ComputeFails(j) PROVE [Abstract!Next]_(Abstract!vars)
  <2>1. Abstract!MayAttempt(j)
    BY <1>14, Attemptable, InFlightSubmits DEF ComputeFails
  <2>2. Abstract!Fail(j)
    BY <1>14, <2>1 DEF ComputeFails, Return, Goto, Abstract!Fail, Created, conf, prep, pool, work
  <2> QED BY <2>2 DEF Abstract!Next, Abstract!Jobs, Jobs
<1>15. ASSUME NEW j \in Jobs, CreateFails(j) PROVE [Abstract!Next]_(Abstract!vars)
  <2>1. Abstract!MayAttempt(j)
    BY <1>15, Attemptable, InFlightSubmits DEF CreateFails
  <2>2. mode \in {"serial", "wait", "concurrent"}
    BY <1>15, BatchAssumption DEF CreateFails, IInv, TypeOK, WorkInv
  <2>3. {i \in Jobs : Created(i)'} \in {{i \in Jobs : Created(i)}, {i \in Jobs : Created(i)} \cup {j}}
    BY <1>15 DEF CreateFails, Created, IInv, TypeOK
  <2>4. Abstract!Fail(j)
    BY <1>15, <2>1, <2>2, <2>3 DEF CreateFails, Return, Goto, Abstract!Fail, Created, conf, prep, pool, work
  <2> QED BY <2>4 DEF Abstract!Next, Abstract!Jobs, Jobs
<1>16. ASSUME NEW j \in Jobs, CallbackFails(j) PROVE [Abstract!Next]_(Abstract!vars)
  <2>1. Abstract!MayAttempt(j)
    BY <1>16, Attemptable, InFlightSubmits DEF CallbackFails
  <2>2. Abstract!Fail(j)
    BY <1>16, <2>1 DEF CallbackFails, Return, Goto, Abstract!Fail, Created, conf, prep, pool, work
  <2> QED BY <2>2 DEF Abstract!Next, Abstract!Jobs, Jobs
<1>17. ASSUME NEW j \in Jobs, StreamFails(j) PROVE [Abstract!Next]_(Abstract!vars)
  <2>1. Abstract!MayAttempt(j)
    BY <1>17, Attemptable, InFlightSubmits DEF StreamFails
  <2>2. Abstract!Fail(j)
    BY <1>17, <2>1 DEF StreamFails, Return, Goto, Abstract!Fail, Created, conf, prep, pool, work
  <2> QED BY <2>2 DEF Abstract!Next, Abstract!Jobs, Jobs
<1>18. ASSUME NEW j \in Jobs, CreateJob(j) PROVE [Abstract!Next]_(Abstract!vars)
  <2>1. Abstract!MayAttempt(j)
    BY <1>18, Attemptable, InFlightSubmits DEF CreateJob
  <2>2. mode \in {"serial", "wait", "concurrent"}
    BY <1>18, BatchAssumption DEF CreateJob, IInv, TypeOK, WorkInv
  <2>3. {i \in Jobs : Created(i)'} = {i \in Jobs : Created(i)} \cup {j}
    BY <1>18 DEF CreateJob, Created, IInv, TypeOK
  <2>4. CASE ~Created(j)
    <3>1. Abstract!Create(j)
      BY <1>18, <2>1, <2>2, <2>3, <2>4 DEF CreateJob, Goto, Abstract!Create, Created, conf, prep, pool, work
    <3> QED BY <3>1 DEF Abstract!Next, Abstract!Jobs, Jobs
  <2>5. CASE Created(j)
    BY <1>18, <2>3, <2>5 DEF CreateJob, Goto, Abstract!vars, conf, prep, pool, work
  <2> QED BY <2>4, <2>5
<1>19. ASSUME NEW j \in Jobs, CallBack(j) PROVE [Abstract!Next]_(Abstract!vars)
  <2>1. Abstract!MayAttempt(j) /\ Created(j)
    BY <1>19, Attemptable, InFlightSubmits DEF CallBack, IInv, WorkInv
  <2>2. CASE Return(j, "ok")
    <3>1. Abstract!Succeed(j)
      BY <1>19, <2>1, <2>2 DEF CallBack, Return, Goto, Abstract!Succeed, Created, conf, prep, pool, work
    <3> QED BY <3>1 DEF Abstract!Next, Abstract!Jobs, Jobs
  <2>3. CASE UNCHANGED result
    BY <1>19, <2>3, Unseen DEF CallBack, conf, prep, pool, work
  <2> QED BY <1>19, <2>2, <2>3 DEF CallBack
<1>20. ASSUME NEW j \in Jobs, Stream(j) PROVE [Abstract!Next]_(Abstract!vars)
  <2>1. Abstract!MayAttempt(j) /\ Created(j)
    BY <1>20, Attemptable, InFlightSubmits DEF Stream, IInv, WorkInv
  <2>2. CASE Return(j, "ok")
    <3>1. Abstract!Succeed(j)
      BY <1>20, <2>1, <2>2 DEF Stream, Return, Goto, Abstract!Succeed, Created, conf, prep, pool, work
    <3> QED BY <3>1 DEF Abstract!Next, Abstract!Jobs, Jobs
  <2>3. CASE Return(j, "failed")
    <3>1. Abstract!Fail(j)
      BY <1>20, <2>1, <2>3 DEF Stream, Return, Goto, Abstract!Fail, Created, conf, prep, pool, work
    <3> QED BY <3>1 DEF Abstract!Next, Abstract!Jobs, Jobs
  <2> QED BY <1>20, <2>2, <2>3 DEF Stream
<1>21. ASSUME NEW j \in Jobs, RemoteEnds(j) PROVE [Abstract!Next]_(Abstract!vars)
  <2>1. \A i \in Jobs : Created(i)' <=> Created(i)
    BY <1>21 DEF RemoteEnds, Created, IInv, TypeOK
  <2> QED BY <1>21, <2>1 DEF RemoteEnds, Abstract!vars, conf, prep, pool, work
<1>22. ASSUME UNCHANGED vars PROVE [Abstract!Next]_(Abstract!vars)
  BY <1>22, Unseen DEF vars, conf, prep, pool, work
<1> QED BY <1>1, <1>2, <1>3, <1>4, <1>5, <1>6, <1>7, <1>8, <1>9, <1>10, <1>11, <1>12, <1>13, <1>14, <1>15, <1>16, <1>17, <1>18, <1>19, <1>20, <1>21, <1>22 DEF Next, Main, Submit

\* The batch implements the contract of BatchSpec, for any number of jobs and
\* threads and whatever fails.
THEOREM BatchImplements == Spec => ImplementsBatchSpec
<1>1. Init => Abstract!Init
  <2> SUFFICES ASSUME Init PROVE Abstract!Init
    OBVIOUS
  <2>1. mode \in {"dry", "serial", "wait", "concurrent"}
    BY BatchAssumption DEF Init
  <2>2. {j \in Jobs : Created(j)} = {}
    BY DEF Init, Created
  <2> QED BY <2>1, <2>2 DEF Init, Abstract!Init, Abstract!Jobs, Jobs
<1>2. IInv /\ [Next]_vars => [Abstract!Next]_(Abstract!vars)
  BY StepRefines
<1> QED BY <1>1, <1>2, BatchInvariant, PTL DEF Spec, ImplementsBatchSpec, Abstract!Spec

=============================================================================

-------------------------- MODULE TaskLedger_proofs --------------------------
(***************************************************************************)
(* Proofs about TaskLedger, for every set of tasks, workers and integrate  *)
(* operations.  Each part of IInv is shown inductive on its own, relative  *)
(* to the parts before it; the safety properties, two action properties    *)
(* and the refinement of TaskLifecycle follow.                             *)
(***************************************************************************)
EXTENDS TaskLedgerInvariants, TLAPS

USE MaxCommitAssumption, FaultyAssumption, RoleKindsAssumption,
    SentinelAssumption

\* The empty store of a new run has the types of the schema.
LEMMA TypeInit == Init => TypeOK
  BY DEF Init, TypeOK, StatusValues, SessionValues, OpValues, Commits,
         MaybeCommit, NoCommit

\* Every transaction keeps the columns in their enums.
LEMMA TypeStep == TypeOK /\ [Next]_vars => TypeOK'
<1> SUFFICES ASSUME TypeOK, [Next]_vars PROVE TypeOK'
  OBVIOUS
<1> USE DEF TypeOK, StatusValues, SessionValues, OpValues, Commits,
            MaybeCommit, NoCommit, taskVars, ownerVars, recoveryVars,
            workerVars, sourceVars, integrationVars
<1>1. ASSUME NEW t \in Tasks, NEW D \in SUBSET Tasks, CreateTask(t, D)
      PROVE  TypeOK'
  BY <1>1 DEF CreateTask
<1>2. ASSUME NEW t \in Tasks, NEW a \in Assignments, NEW k \in RoleKinds,
             Spawn(a, t, k)
      PROVE  TypeOK'
  <2>1. continues' \in [Assignments -> Assignments \cup {NoAssignment}]
    BY <1>2 DEF Spawn, PendingRecoveries
  <2>2. status' \in [Tasks -> StatusValues]
    BY <1>2 DEF Spawn
  <2>3. kind' \in [Assignments -> {"none", "project", "worktree"}]
    BY <1>2 DEF Spawn
  <2> QED
    BY <1>2, <2>1, <2>2, <2>3 DEF Spawn
<1>3. ASSUME NEW t \in Tasks, CloseTask(t) PROVE TypeOK'
  BY <1>3 DEF CloseTask
<1>4. ASSUME NEW t \in Tasks, CloseOverride(t) PROVE TypeOK'
  BY <1>4 DEF CloseOverride
<1>5. ASSUME NEW a \in Assignments, NEW s, MaterializeWorkspace(a, s)
      PROVE  TypeOK'
  BY <1>5 DEF MaterializeWorkspace, ObservableStates
<1>6. ASSUME NEW a \in Assignments, PersistSession(a) PROVE TypeOK'
  BY <1>6 DEF PersistSession, AcceptsSession
<1>7. ASSUME NEW a \in Assignments, NEW s \in SessionValues,
             ObserveSession(a, s)
      PROVE  TypeOK'
  BY <1>7 DEF ObserveSession
<1>8. ASSUME NEW a \in Assignments, NEW s \in OpValues,
      RecordSpawnOutcome(a, s)
      PROVE  TypeOK'
  BY <1>8 DEF RecordSpawnOutcome
<1>9. ASSUME NEW a \in Assignments, NEW c \in Commits, MoveHead(a, c)
      PROVE  TypeOK'
  BY <1>9 DEF MoveHead
<1>10. ASSUME NEW a \in Assignments, InterruptFinish(a) PROVE TypeOK'
  BY <1>10 DEF InterruptFinish, ResultCommit, RecordResult
<1>11. ASSUME NEW a \in Assignments, FinishCompleted(a) PROVE TypeOK'
  <2>1. result' \in [Assignments -> MaybeCommit]
    BY <1>11 DEF FinishCompleted, ResultCommit, RecordResult
  <2>2. Submit(asgTask[a], result'[a])
    BY <1>11 DEF FinishCompleted, ResultCommit
  <2>3. status' \in [Tasks -> StatusValues]
        /\ taskResult' \in [Tasks -> MaybeCommit]
    BY <2>1, <2>2 DEF Submit
  <2> QED
    BY <1>11, <2>1, <2>2, <2>3
       DEF FinishCompleted, ResultCommit, Submit, ReleaseOwnership
<1>12. ASSUME NEW a \in Assignments, FinishFailed(a) PROVE TypeOK'
  BY <1>12, ZenonT(60) DEF FinishFailed, Reopen, ReleaseOwnership
<1>13. ASSUME NEW a \in Assignments, NEW ack \in BOOLEAN, Recover(a, ack)
       PROVE  TypeOK'
  BY <1>13, ZenonT(60) DEF Recover, Reopen, ReleaseOwnership
<1>14. ASSUME NEW a \in Assignments, SubmitRetained(a) PROVE TypeOK'
  BY <1>14, ZenonT(60) DEF SubmitRetained, RecordResult, Submit, ReleaseOwnership
<1>15. ASSUME NEW a \in Assignments, Resubmit(a) PROVE TypeOK'
  BY <1>15 DEF Resubmit, PreservesSubmission
<1>16. ASSUME NEW o \in IntegrateOps, NEW a \in Assignments,
              RequestIntegration(o, a)
       PROVE  TypeOK'
  BY <1>16 DEF RequestIntegration
<1>17. ASSUME NEW o \in IntegrateOps, PublishResult(o) PROVE TypeOK'
  BY <1>17 DEF PublishResult, TipIsRecorded
<1>18. ASSUME NEW o \in IntegrateOps, RecordIntegration(o) PROVE TypeOK'
  BY <1>18 DEF RecordIntegration, TipIsRecorded
<1>19. ASSUME NEW o \in IntegrateOps, FailIntegration(o) PROVE TypeOK'
  BY <1>19 DEF FailIntegration
<1>20. ASSUME NEW o \in IntegrateOps, AdoptIntegration(o) PROVE TypeOK'
  BY <1>20 DEF AdoptIntegration
<1>21. CASE UNCHANGED vars
  BY <1>21 DEF vars
<1> HIDE DEF TypeOK
<1> QED
  BY <1>1, <1>2, <1>3, <1>4, <1>5, <1>6, <1>7, <1>8, <1>9, <1>10, <1>11,
     <1>12, <1>13, <1>14, <1>15, <1>16, <1>17, <1>18, <1>19, <1>20, <1>21
     DEF Next, TaskStep, WorkerStep, IntegrationStep

-----------------------------------------------------------------------------
(* Ownership.                                                              *)

\* Only these steps touch tasks.status, assignments, claims or the latest
\* assignment of a task.
LEMMA OwnerSteps ==
  ASSUME [Next]_vars
  PROVE  \/ \E t \in Tasks, D \in SUBSET Tasks : CreateTask(t, D)
         \/ \E t \in Tasks, a \in Assignments, k \in RoleKinds : Spawn(a, t, k)
         \/ \E t \in Tasks : CloseTask(t) \/ CloseOverride(t)
         \/ \E a \in Assignments : \/ FinishCompleted(a) \/ SubmitRetained(a)
                                   \/ FinishFailed(a)
                                   \/ \E ack \in BOOLEAN : Recover(a, ack)
         \/ UNCHANGED <<status, deps, ownerVars, retired, continues>>
  BY DEF Next, TaskStep, WorkerStep, IntegrationStep, vars, taskVars,
         ownerVars, recoveryVars, MaterializeWorkspace, PersistSession,
               AcceptsSession,
         ObserveSession, RecordSpawnOutcome, MoveHead, InterruptFinish,
               ResultCommit,
         Resubmit, PreservesSubmission, RequestIntegration, PublishResult,
               RecordIntegration,
         FailIntegration, AdoptIntegration

\* The guard of release_task_ownership singles out the latest assignment.
LEMMA ReleaseEffect ==
  ASSUME TypeOK, Ownership, NEW t \in Tasks, status[t] = "in_progress",
         NEW s, ReleaseOwnership(t, s)
  PROVE  /\ latest[t] \in Assignments
         /\ asgTask[latest[t]] = t
         /\ asgState' = [asgState EXCEPT ![latest[t]] = s]
         /\ claim' = [claim EXCEPT ![latest[t]] = "released"]
         /\ UNCHANGED <<asgTask, latest>>
<1> DEFINE a == latest[t]
<1>1. a \in Assignments /\ asgTask[a] = t /\ asgState[a] = "active"
  BY DEF Ownership, LatestRow
<1>2. \A b \in Assignments : b \in OpenAssignments(t) <=> b = a
  BY <1>1 DEF OpenAssignments, Ownership, RowsAgree
<1>3. \A b \in Assignments : b \in OpenClaims(t) <=> b = a
  BY <1>1 DEF OpenClaims, Ownership, RowsAgree
<1>4. asgState' = [asgState EXCEPT ![a] = s]
  BY <1>2 DEF ReleaseOwnership, TypeOK
<1>5. claim' = [claim EXCEPT ![a] = "released"]
  BY <1>3 DEF ReleaseOwnership, TypeOK
<1> QED
  BY <1>1, <1>4, <1>5 DEF ReleaseOwnership

\* Both exits from in_progress leave the rows of claims, assignments and tasks
\* in agreement (apply_task_transition with release_task_ownership).
LEMMA OwnershipLeave ==
  ASSUME TypeOK, Ownership, NEW t \in Tasks,
         NEW c, Submit(t, c) \/ Reopen(t)
  PROVE  Ownership'
<1>1. PICK s \in {"completed", "released"} :
        /\ status[t] = "in_progress"
        /\ ReleaseOwnership(t, s)
        /\ status' = [status EXCEPT
                        ![t] = IF s = "completed" THEN "submitted" ELSE "open"]
  BY DEF Submit, Reopen
<1>2. /\ latest[t] \in Assignments
      /\ asgTask[latest[t]] = t
      /\ asgState' = [asgState EXCEPT ![latest[t]] = s]
      /\ claim' = [claim EXCEPT ![latest[t]] = "released"]
      /\ UNCHANGED <<asgTask, latest>>
  BY <1>1, ReleaseEffect
<1>3. RowsAgree'
  BY <1>1, <1>2 DEF Ownership, RowsAgree, LatestRow, TypeOK
<1>4. LatestRow'
  BY <1>1, <1>2 DEF Ownership, RowsAgree, LatestRow, TypeOK
<1> QED
  BY <1>3, <1>4 DEF Ownership

\* No task is owned in a new run.
LEMMA OwnershipInit == Init => Ownership
  BY DEF Init, Ownership, RowsAgree, LatestRow

\* Claiming, leaving and closing keep the three tables in agreement.
LEMMA OwnershipStep == TypeOK /\ Ownership /\ [Next]_vars => Ownership'
<1> SUFFICES ASSUME TypeOK, Ownership, [Next]_vars PROVE Ownership'
  OBVIOUS
<1>1. ASSUME NEW t \in Tasks, NEW D \in SUBSET Tasks, CreateTask(t, D)
      PROVE  Ownership'
  BY <1>1 DEF CreateTask, Ownership, RowsAgree, LatestRow, TypeOK, ownerVars
<1>2. ASSUME NEW t \in Tasks, NEW a \in Assignments, NEW k \in RoleKinds,
             Spawn(a, t, k)
      PROVE  Ownership'
  <2>1. RowsAgree'
    BY <1>2 DEF Spawn, IsReady, Ownership, RowsAgree, LatestRow, TypeOK
  <2>2. LatestRow'
    BY <1>2 DEF Spawn, IsReady, Ownership, RowsAgree, LatestRow, TypeOK
  <2> QED
    BY <2>1, <2>2 DEF Ownership
<1>3. ASSUME NEW t \in Tasks, CloseTask(t) \/ CloseOverride(t)
      PROVE  Ownership'
  BY <1>3 DEF CloseTask, CloseOverride, Ownership, RowsAgree, LatestRow,
              TypeOK, ownerVars
<1>4. ASSUME NEW a \in Assignments,
             \/ FinishCompleted(a) \/ SubmitRetained(a) \/ FinishFailed(a)
             \/ \E ack \in BOOLEAN : Recover(a, ack)
      PROVE  Ownership'
  <2>1. asgTask[a] \in Tasks
    BY <1>4
       DEF FinishCompleted, ResultCommit, SubmitRetained, FinishFailed,
           Recover,
                MayFinish, InterruptedPreflight, Ownership, RowsAgree, TypeOK
  <2>2. \/ \E c : Submit(asgTask[a], c)
        \/ Reopen(asgTask[a])
    BY <1>4
       DEF FinishCompleted, ResultCommit, SubmitRetained, FinishFailed, Recover
  <2> QED
    BY <2>1, <2>2, OwnershipLeave
<1>5. CASE UNCHANGED <<status, deps, ownerVars, retired, continues>>
  BY <1>5 DEF Ownership, RowsAgree, LatestRow, ownerVars
<1> QED
  BY <1>1, <1>2, <1>3, <1>4, <1>5, OwnerSteps

-----------------------------------------------------------------------------
(* The two ways an assignment ends, in terms of its own row.               *)

\* A submission ends the assignment that made it, and no other.
LEMMA SubmitEffect ==
  ASSUME TypeOK, Ownership, NEW a \in Assignments, asgState[a] = "active",
         NEW c, Submit(asgTask[a], c)
  PROVE  /\ asgTask[a] \in Tasks /\ latest[asgTask[a]] = a
         /\ status[asgTask[a]] = "in_progress"
         /\ asgState' = [asgState EXCEPT ![a] = "completed"]
         /\ status' = [status EXCEPT ![asgTask[a]] = "submitted"]
         /\ taskResult' = [taskResult EXCEPT ![asgTask[a]] = c]
         /\ UNCHANGED <<asgTask, latest, deps, evidence>>
<1>1. asgTask[a] \in Tasks /\ latest[asgTask[a]] = a
  BY DEF Ownership, RowsAgree, TypeOK
<1> QED
  BY <1>1, ReleaseEffect DEF Submit

\* A failed or recovered worker gives its task back, and no other.
LEMMA ReopenEffect ==
  ASSUME TypeOK, Ownership, NEW a \in Assignments, asgState[a] = "active",
         Reopen(asgTask[a])
  PROVE  /\ asgTask[a] \in Tasks /\ latest[asgTask[a]] = a
         /\ status[asgTask[a]] = "in_progress"
         /\ asgState' = [asgState EXCEPT ![a] = "released"]
         /\ status' = [status EXCEPT ![asgTask[a]] = "open"]
         /\ taskResult' = [taskResult EXCEPT ![asgTask[a]] = NoCommit]
         /\ UNCHANGED <<asgTask, latest, deps, evidence>>
<1>1. asgTask[a] \in Tasks /\ latest[asgTask[a]] = a
  BY DEF Ownership, RowsAgree, TypeOK
<1> QED
  BY <1>1, ReleaseEffect DEF Reopen

-----------------------------------------------------------------------------
(* Dependencies stay accepted because closed is a final status.            *)

\* Nothing is in progress in a new run.
LEMMA DependenciesInit == Init => DependenciesAccepted
  BY DEF Init, DependenciesAccepted

\* task_readiness is consulted in the transaction that claims, and closed
\* tasks stay closed.
LEMMA DependenciesStep ==
  TypeOK /\ Ownership /\ DependenciesAccepted /\ [Next]_vars =>
      DependenciesAccepted'
<1> SUFFICES ASSUME TypeOK, Ownership, DependenciesAccepted, [Next]_vars
             PROVE  DependenciesAccepted'
  OBVIOUS
<1> USE DEF DependenciesAccepted, UnresolvedDependencies
<1>1. ASSUME NEW t \in Tasks, NEW D \in SUBSET Tasks, CreateTask(t, D)
      PROVE  DependenciesAccepted'
  BY <1>1 DEF CreateTask, TypeOK
<1>2. ASSUME NEW t \in Tasks, NEW a \in Assignments, NEW k \in RoleKinds,
             Spawn(a, t, k)
      PROVE  DependenciesAccepted'
  BY <1>2 DEF Spawn, IsReady, TypeOK
<1>3. ASSUME NEW t \in Tasks, CloseTask(t) \/ CloseOverride(t)
      PROVE  DependenciesAccepted'
  BY <1>3 DEF CloseTask, CloseOverride, TypeOK
<1>4. ASSUME NEW a \in Assignments,
             \/ FinishCompleted(a) \/ SubmitRetained(a) \/ FinishFailed(a)
             \/ \E ack \in BOOLEAN : Recover(a, ack)
      PROVE  DependenciesAccepted'
  <2>1. asgState[a] = "active"
    BY <1>4
       DEF FinishCompleted, ResultCommit, SubmitRetained, FinishFailed,
           Recover,
                MayFinish, InterruptedPreflight
  <2>2. \/ \E c : Submit(asgTask[a], c)
        \/ Reopen(asgTask[a])
    BY <1>4
       DEF FinishCompleted, ResultCommit, SubmitRetained, FinishFailed, Recover
  <2>3. CASE \E c : Submit(asgTask[a], c)
    BY <2>1, <2>3, SubmitEffect DEF TypeOK
  <2>4. CASE Reopen(asgTask[a])
    BY <2>1, <2>4, ReopenEffect DEF TypeOK
  <2> QED
    BY <2>2, <2>3, <2>4
<1>5. CASE UNCHANGED <<status, deps, ownerVars, retired, continues>>
  BY <1>5
<1> QED
  BY <1>1, <1>2, <1>3, <1>4, <1>5, OwnerSteps

-----------------------------------------------------------------------------
(* Rows about the work itself.                                             *)

\* No worker left a trace in a new run.
LEMMA WorkInit == Init => WorkRows
  BY DEF Init, WorkRows, NoCommit

\* Completed worktree work has a recorded result; a retired worker has stopped.
LEMMA WorkStep ==
  TypeOK /\ Ownership /\ WorkRows /\ [Next]_vars => WorkRows'
<1> SUFFICES ASSUME TypeOK, Ownership, WorkRows, [Next]_vars PROVE WorkRows'
  OBVIOUS
<1> USE DEF WorkRows, TypeOK, Worktree, Commits, NoCommit, taskVars, ownerVars,
            recoveryVars, workerVars, sourceVars, integrationVars
<1>1. ASSUME NEW t \in Tasks, NEW D \in SUBSET Tasks, CreateTask(t, D)
      PROVE  WorkRows'
  BY <1>1 DEF CreateTask
<1>2. ASSUME NEW t \in Tasks, NEW a \in Assignments, NEW k \in RoleKinds,
             Spawn(a, t, k)
      PROVE  WorkRows'
  <2>1. ~retired[a]
    BY <1>2 DEF Spawn
  <2>2. \A b \in Assignments : b # a =>
            /\ asgState'[b] = asgState[b] /\ continues'[b] = continues[b]
            /\ kind'[b] = kind[b] /\ wsState'[b] = wsState[b]
            /\ spawnOp'[b] = spawnOp[b]
    BY <1>2 DEF Spawn
  <2> QED
    BY <1>2, <2>1, <2>2 DEF Spawn
<1>3. ASSUME NEW t \in Tasks, CloseTask(t) \/ CloseOverride(t)
      PROVE  WorkRows'
  BY <1>3 DEF CloseTask, CloseOverride
<1>5. ASSUME NEW a \in Assignments, NEW s, MaterializeWorkspace(a, s)
      PROVE  WorkRows'
  BY <1>5 DEF MaterializeWorkspace
<1>6. ASSUME NEW a \in Assignments, PersistSession(a) PROVE WorkRows'
  BY <1>6 DEF PersistSession, AcceptsSession
<1>7. ASSUME NEW a \in Assignments, NEW s \in SessionValues,
             ObserveSession(a, s)
      PROVE  WorkRows'
  BY <1>7 DEF ObserveSession, NextSession, SessionValues
<1>8. ASSUME NEW a \in Assignments, NEW s \in OpValues,
      RecordSpawnOutcome(a, s)
      PROVE  WorkRows'
  BY <1>8 DEF RecordSpawnOutcome
<1>9. ASSUME NEW a \in Assignments, NEW c \in Commits, MoveHead(a, c)
      PROVE  WorkRows'
  BY <1>9 DEF MoveHead
<1>10. ASSUME NEW a \in Assignments, InterruptFinish(a) PROVE WorkRows'
  BY <1>10 DEF InterruptFinish, ResultCommit, RecordResult, MayFinish
<1>11. ASSUME NEW a \in Assignments, FinishCompleted(a) PROVE WorkRows'
  <2>1. asgState[a] = "active" /\ CredentialActive(a)
    BY <1>11 DEF FinishCompleted, ResultCommit, MayFinish
  <2>2. asgState' = [asgState EXCEPT ![a] = "completed"]
    BY <1>11, <2>1, SubmitEffect DEF FinishCompleted, ResultCommit
  <2>3. Worktree(a) => result' = [result EXCEPT ![a] = head[a]]
    BY <1>11 DEF FinishCompleted, ResultCommit, RecordResult
  <2>4. ~Worktree(a) => result' = result
    BY <1>11 DEF FinishCompleted, ResultCommit
  <2> QED
    BY <1>11, <2>1, <2>2, <2>3, <2>4
       DEF FinishCompleted, ResultCommit, CredentialActive
<1>12. ASSUME NEW a \in Assignments, FinishFailed(a) PROVE WorkRows'
  <2>1. asgState[a] = "active" /\ CredentialActive(a)
    BY <1>12 DEF FinishFailed, MayFinish
  <2>2. asgState' = [asgState EXCEPT ![a] = "released"]
    BY <1>12, <2>1, ReopenEffect DEF FinishFailed
  <2> QED
    BY <1>12, <2>1, <2>2 DEF FinishFailed, CredentialActive
<1>13. ASSUME NEW a \in Assignments, NEW ack \in BOOLEAN, Recover(a, ack)
       PROVE  WorkRows'
  <2>1. /\ asgState[a] = "active" /\ Worktree(a)
        /\ session[a] \in {"exited", "lost"} /\ spawnOp[a] = "observed"
    BY <1>13 DEF Recover, InterruptedPreflight
  <2>2. asgState' = [asgState EXCEPT ![a] = "released"]
    BY <1>13, <2>1, ReopenEffect DEF Recover
  <2> QED
    BY <1>13, <2>1, <2>2 DEF Recover
<1>14. ASSUME NEW a \in Assignments, SubmitRetained(a) PROVE WorkRows'
  <2>1. asgState[a] = "active" /\ Worktree(a)
    BY <1>14 DEF SubmitRetained, InterruptedPreflight
  <2>2. asgState' = [asgState EXCEPT ![a] = "completed"]
    BY <1>14, <2>1, SubmitEffect DEF SubmitRetained
  <2> QED
    BY <1>14, <2>1, <2>2 DEF SubmitRetained, RecordResult
<1>15. ASSUME NEW a \in Assignments, Resubmit(a) PROVE WorkRows'
  BY <1>15 DEF Resubmit, PreservesSubmission, CurrentSubmission
<1>16. ASSUME NEW o \in IntegrateOps, IntegrationStep(o) PROVE WorkRows'
  BY <1>16 DEF IntegrationStep, RequestIntegration, PublishResult,
               RecordIntegration, FailIntegration, AdoptIntegration
<1>17. CASE UNCHANGED vars
  BY <1>17 DEF vars
<1> HIDE DEF WorkRows, TypeOK
<1> QED
  BY <1>1, <1>2, <1>3, <1>5, <1>6, <1>7, <1>8, <1>9, <1>10, <1>11, <1>12,
     <1>13, <1>14, <1>15, <1>16, <1>17 DEF Next, TaskStep, WorkerStep

-----------------------------------------------------------------------------
(* Integration: an operation names completed work, whose result is frozen. *)

\* Nothing is integrated in a new run.
LEMMA IntegrationInit == Init => IntegrationRows
  BY DEF Init, IntegrationRows, NoCommit, TypeOK

\* What reached the target branch is the recorded result: finish, recovery
\* and resubmission leave work with an integration intent alone.
LEMMA IntegrationRowsStep ==
  TypeOK /\ Ownership /\ WorkRows /\ IntegrationRows /\ [Next]_vars =>
      IntegrationRows'
<1> SUFFICES ASSUME TypeOK, Ownership, WorkRows, IntegrationRows, [Next]_vars
             PROVE  IntegrationRows'
  OBVIOUS
<1>0. \A a \in Assignments :
          asgState[a] # "completed" =>
              Unintended(a) /\ published[a] = NoCommit /\ target[a] = NoCommit
  BY DEF IntegrationRows, Unintended, IntegrationsOf, TypeOK
<1> USE DEF IntegrationRows, Unintended, IntegrationsOf, TypeOK, Worktree,
            NoCommit, taskVars, ownerVars, recoveryVars, workerVars,
            sourceVars, integrationVars
<1>1. ASSUME NEW t \in Tasks, NEW D \in SUBSET Tasks, CreateTask(t, D)
      PROVE  IntegrationRows'
  BY <1>1 DEF CreateTask
<1>2. ASSUME NEW t \in Tasks, NEW a \in Assignments, NEW k \in RoleKinds,
             Spawn(a, t, k)
      PROVE  IntegrationRows'
  <2>1. \A b \in Assignments : b # a =>
            asgState'[b] = asgState[b] /\ kind'[b] = kind[b]
    BY <1>2 DEF Spawn
  <2>2. \A o \in IntegrateOps : opAsg[o] # a
    BY <1>0, <1>2 DEF Spawn
  <2> QED
    BY <1>2, <2>1, <2>2 DEF Spawn
<1>3. ASSUME NEW t \in Tasks, CloseTask(t) \/ CloseOverride(t)
      PROVE  IntegrationRows'
  BY <1>3 DEF CloseTask, CloseOverride
<1>4. ASSUME NEW a \in Assignments,
             \/ \E s \in {"observed", "unknown", "lost"} :
                    MaterializeWorkspace(a, s)
             \/ PersistSession(a)
             \/ \E s \in SessionValues : ObserveSession(a, s)
             \/ \E s \in OpValues : RecordSpawnOutcome(a, s)
             \/ \E c \in Commits : MoveHead(a, c)
      PROVE  IntegrationRows'
  BY <1>4
     DEF MaterializeWorkspace, PersistSession, AcceptsSession, ObserveSession,
              RecordSpawnOutcome, MoveHead
<1>5. ASSUME NEW a \in Assignments, InterruptFinish(a) PROVE IntegrationRows'
  BY <1>0, <1>5 DEF InterruptFinish, ResultCommit, RecordResult, MayFinish
<1>6. ASSUME NEW a \in Assignments, FinishCompleted(a) PROVE IntegrationRows'
  <2>1. asgState[a] = "active"
    BY <1>6 DEF FinishCompleted, ResultCommit, MayFinish
  <2>2. asgState' = [asgState EXCEPT ![a] = "completed"]
    BY <1>6, <2>1, SubmitEffect DEF FinishCompleted, ResultCommit
  <2>3. \A b \in Assignments : b # a => result'[b] = result[b]
    BY <1>6 DEF FinishCompleted, ResultCommit, RecordResult
  <2> QED
    BY <1>0, <1>6, <2>1, <2>2, <2>3 DEF FinishCompleted, ResultCommit
<1>7. ASSUME NEW a \in Assignments,
             FinishFailed(a) \/ \E ack \in BOOLEAN : Recover(a, ack)
      PROVE  IntegrationRows'
  <2>1. asgState[a] = "active"
    BY <1>7 DEF FinishFailed, MayFinish, Recover, InterruptedPreflight
  <2>2. asgState' = [asgState EXCEPT ![a] = "released"]
    BY <1>7, <2>1, ReopenEffect DEF FinishFailed, Recover
  <2> QED
    BY <1>0, <1>7, <2>1, <2>2 DEF FinishFailed, Recover
<1>8. ASSUME NEW a \in Assignments, SubmitRetained(a) PROVE IntegrationRows'
  <2>1. asgState[a] = "active"
    BY <1>8 DEF SubmitRetained, InterruptedPreflight
  <2>2. asgState' = [asgState EXCEPT ![a] = "completed"]
    BY <1>8, <2>1, SubmitEffect DEF SubmitRetained
  <2> QED
    BY <1>0, <1>8, <2>1, <2>2 DEF SubmitRetained, RecordResult
<1>9. ASSUME NEW a \in Assignments, Resubmit(a) PROVE IntegrationRows'
  BY <1>9 DEF Resubmit, PreservesSubmission
<1>10. ASSUME NEW o \in IntegrateOps, NEW a \in Assignments,
              RequestIntegration(o, a)
       PROVE  IntegrationRows'
  BY <1>10 DEF RequestIntegration, TipIsRecorded
<1>11. ASSUME NEW o \in IntegrateOps, PublishResult(o) PROVE IntegrationRows'
  BY <1>11 DEF PublishResult, TipIsRecorded
<1>12. ASSUME NEW o \in IntegrateOps, RecordIntegration(o)
       PROVE  IntegrationRows'
  BY <1>12 DEF RecordIntegration, TipIsRecorded
<1>13. ASSUME NEW o \in IntegrateOps, FailIntegration(o) \/ AdoptIntegration(o)
       PROVE  IntegrationRows'
  BY <1>13 DEF FailIntegration, AdoptIntegration
<1>14. CASE UNCHANGED vars
  BY <1>14 DEF vars
<1> HIDE DEF IntegrationRows, Unintended, IntegrationsOf, TypeOK, Worktree,
             NoCommit
<1> QED
  BY <1>1, <1>2, <1>3, <1>4, <1>5, <1>6, <1>7, <1>8, <1>9, <1>10, <1>11,
     <1>12, <1>13, <1>14
     DEF Next, TaskStep, WorkerStep, IntegrationStep

-----------------------------------------------------------------------------
(* Evidence: what a task records of its latest assignment.                 *)

\* No task is closed in a new run.
LEMMA EvidenceInit == Init => EvidenceRows
<1>1. Init => /\ status = [t \in Tasks |-> "absent"]
              /\ evidence = [t \in Tasks |-> "none"]
  BY DEF Init
<1> QED
  BY <1>1 DEF EvidenceRows

\* What close and close --override recorded stays true of the work.
LEMMA EvidenceStep ==
  /\ TypeOK /\ Ownership /\ WorkRows /\ IntegrationRows /\ EvidenceRows
  /\ [Next]_vars
  => EvidenceRows'
<1> SUFFICES ASSUME TypeOK, Ownership, WorkRows, IntegrationRows, EvidenceRows,
                    [Next]_vars
             PROVE  EvidenceRows'
  OBVIOUS
<1>0. \A t \in Tasks : status[t] \in {"submitted", "closed"} =>
          /\ latest[t] \in Assignments /\ asgTask[latest[t]] = t
          /\ asgState[latest[t]] = "completed"
  BY DEF Ownership, LatestRow
<1> USE DEF EvidenceRows, TypeOK, Worktree, Unintended, IntegrationsOf,
            taskVars, ownerVars, recoveryVars, workerVars, sourceVars,
            integrationVars
<1>1. ASSUME NEW t \in Tasks, NEW D \in SUBSET Tasks, CreateTask(t, D)
      PROVE  EvidenceRows'
  BY <1>1 DEF CreateTask
<1>2. ASSUME NEW t \in Tasks, NEW a \in Assignments, NEW k \in RoleKinds,
             Spawn(a, t, k)
      PROVE  EvidenceRows'
  <2>1. \A u \in Tasks : status[u] \in {"submitted", "closed"} =>
            u # t /\ latest[u] # a
    BY <1>0, <1>2 DEF Spawn, IsReady
  <2>2. \A u \in Tasks : u # t =>
            status'[u] = status[u] /\ latest'[u] = latest[u]
    BY <1>2 DEF Spawn
  <2>3. status'[t] = "in_progress" /\ evidence[t] = "none"
    BY <1>2 DEF Spawn, IsReady
  <2>4. \A b \in Assignments : b # a => kind'[b] = kind[b]
    BY <1>2 DEF Spawn
  <2> QED
    BY <1>0, <1>2, <2>1, <2>2, <2>3, <2>4 DEF Spawn
<1>3. ASSUME NEW t \in Tasks, CloseTask(t) PROVE EvidenceRows'
  BY <1>3 DEF CloseTask, AcceptanceMet
<1>4. ASSUME NEW t \in Tasks, CloseOverride(t) PROVE EvidenceRows'
  <2>1. /\ Unintended(latest[t]) /\ Worktree(latest[t])
        /\ status[t] = "submitted"
    BY <1>0, <1>4 DEF CloseOverride, TipIsRecorded, PendingIntegrationsOf,
                IntegrationRows, OpValues
  <2>2. /\ evidence' = [evidence EXCEPT ![t] = "override"]
        /\ status' = [status EXCEPT ![t] = "closed"]
    BY <1>4 DEF CloseOverride
  <2>3. UNCHANGED <<taskResult, result, latest, kind, opAsg, target>>
    BY <1>4 DEF CloseOverride
  <2> QED
    BY <2>1, <2>2, <2>3
<1>5. ASSUME NEW a \in Assignments,
             \/ \E s \in {"observed", "unknown", "lost"} :
                    MaterializeWorkspace(a, s)
             \/ PersistSession(a)
             \/ \E s \in SessionValues : ObserveSession(a, s)
             \/ \E s \in OpValues : RecordSpawnOutcome(a, s)
             \/ \E c \in Commits : MoveHead(a, c)
      PROVE  EvidenceRows'
  BY <1>5
     DEF MaterializeWorkspace, PersistSession, AcceptsSession, ObserveSession,
              RecordSpawnOutcome, MoveHead
<1>6. ASSUME NEW a \in Assignments, InterruptFinish(a) PROVE EvidenceRows'
  BY <1>0, <1>6 DEF InterruptFinish, ResultCommit, RecordResult, MayFinish
<1>7. ASSUME NEW a \in Assignments, FinishCompleted(a) \/ SubmitRetained(a)
      PROVE  EvidenceRows'
  <2>1. asgState[a] = "active" /\ Submit(asgTask[a], result'[a])
    <3>1. CASE FinishCompleted(a)
      BY <3>1 DEF FinishCompleted, ResultCommit, MayFinish
    <3>2. CASE SubmitRetained(a)
      <4>1. result'[a] = head[a]
        BY <3>2 DEF SubmitRetained, RecordResult
      <4> QED
        BY <3>2, <4>1 DEF SubmitRetained, InterruptedPreflight
    <3> QED
      BY <1>7, <3>1, <3>2
  <2>2. /\ asgTask[a] \in Tasks /\ latest[asgTask[a]] = a
        /\ status[asgTask[a]] = "in_progress"
        /\ status' = [status EXCEPT ![asgTask[a]] = "submitted"]
        /\ taskResult' = [taskResult EXCEPT ![asgTask[a]] = result'[a]]
        /\ UNCHANGED <<asgTask, latest, deps, evidence>>
    BY <2>1, SubmitEffect
  <2>3. \A b \in Assignments : b # a => result'[b] = result[b]
    <3>1. CASE FinishCompleted(a)
      BY <3>1 DEF FinishCompleted, ResultCommit, RecordResult
    <3>2. CASE SubmitRetained(a)
      BY <3>2 DEF SubmitRetained, RecordResult
    <3> QED
      BY <1>7, <3>1, <3>2
  <2>4. UNCHANGED <<kind, opAsg, target>>
    BY <1>7 DEF FinishCompleted, ResultCommit, SubmitRetained
  <2>5. \A u \in Tasks : u # asgTask[a]
        /\ status[u] \in {"submitted", "closed"}
            => latest[u] # a
    BY <1>0
  <2>6. evidence[asgTask[a]] = "none"
    BY <2>2
  <2> QED
    BY <1>0, <2>2, <2>3, <2>4, <2>5, <2>6
<1>8. ASSUME NEW a \in Assignments,
             FinishFailed(a) \/ \E ack \in BOOLEAN : Recover(a, ack)
      PROVE  EvidenceRows'
  <2>1. asgState[a] = "active" /\ Reopen(asgTask[a])
    BY <1>8 DEF FinishFailed, MayFinish, Recover, InterruptedPreflight
  <2>2. /\ asgTask[a] \in Tasks
        /\ status[asgTask[a]] = "in_progress"
        /\ status' = [status EXCEPT ![asgTask[a]] = "open"]
        /\ taskResult' = [taskResult EXCEPT ![asgTask[a]] = NoCommit]
        /\ UNCHANGED <<asgTask, latest, deps, evidence>>
    BY <2>1, ReopenEffect
  <2> QED
    BY <1>8, <2>2 DEF FinishFailed, Recover
<1>9. ASSUME NEW a \in Assignments, Resubmit(a) PROVE EvidenceRows'
  <2>1. /\ result' = [result EXCEPT ![a] = head[a]]
        /\ taskResult' = [taskResult EXCEPT ![asgTask[a]] = head[a]]
        /\ latest[asgTask[a]] = a /\ asgState[a] = "completed"
        /\ UNCHANGED <<status, evidence, latest, kind, opAsg, target>>
    BY <1>9 DEF Resubmit, PreservesSubmission, CurrentSubmission
  <2>2. asgTask[a] \in Tasks
    BY <2>1 DEF Ownership, RowsAgree
  <2> QED
    BY <1>0, <2>1, <2>2
<1>10. ASSUME NEW o \in IntegrateOps, NEW a \in Assignments,
              RequestIntegration(o, a)
       PROVE  EvidenceRows'
  <2>1. \A t \in Tasks : evidence[t] = "override" => latest[t] # a
    BY <1>0, <1>10 DEF RequestIntegration
  <2> QED
    BY <1>10, <2>1 DEF RequestIntegration
<1>11. ASSUME NEW o \in IntegrateOps,
              \/ PublishResult(o) \/ RecordIntegration(o)
              \/ FailIntegration(o) \/ AdoptIntegration(o)
       PROVE  EvidenceRows'
  <2>1. CASE PublishResult(o) \/ FailIntegration(o) \/ AdoptIntegration(o)
    BY <2>1 DEF PublishResult, FailIntegration, AdoptIntegration
  <2>2. CASE RecordIntegration(o)
    <3>1. /\ target' = [target EXCEPT ![opAsg[o]] = result[opAsg[o]]]
          /\ result[opAsg[o]] # NoCommit
          /\ UNCHANGED <<status, taskResult, evidence, latest, result, kind,
                         opAsg>>
      BY <2>2 DEF RecordIntegration, TipIsRecorded
    <3> QED
      BY <3>1
  <2> QED
    BY <1>11, <2>1, <2>2
<1>12. CASE UNCHANGED vars
  BY <1>12 DEF vars
<1> HIDE DEF EvidenceRows, TypeOK, Worktree, Unintended, IntegrationsOf
<1> QED
  BY <1>1, <1>2, <1>3, <1>4, <1>5, <1>6, <1>7, <1>8, <1>9, <1>10, <1>11,
     <1>12
     DEF Next, TaskStep, WorkerStep, IntegrationStep

-----------------------------------------------------------------------------
(* Recovery: a retired source waits at most once, and is continued once.   *)

\* Nothing was recovered in a new run.
LEMMA RecoveryInit == Init => RecoveryHandedOn
  BY DEF Init, RecoveryHandedOn, PendingRecoveries

\* The steps that touch what RecoveryHandedOn reads.
LEMMA RecoverySteps ==
  ASSUME [Next]_vars
  PROVE  \/ \E t \in Tasks, D \in SUBSET Tasks : CreateTask(t, D)
         \/ \E t \in Tasks, a \in Assignments, k \in RoleKinds : Spawn(a, t, k)
         \/ \E t \in Tasks : CloseTask(t) \/ CloseOverride(t)
         \/ \E a \in Assignments : \/ FinishCompleted(a) \/ SubmitRetained(a)
                                   \/ FinishFailed(a)
                                   \/ \E ack \in BOOLEAN : Recover(a, ack)
         \/ UNCHANGED <<status, asgTask, retired, continues, kind>>
  BY DEF Next, TaskStep, WorkerStep, IntegrationStep, vars, taskVars,
         ownerVars, recoveryVars, sourceVars, MaterializeWorkspace,
         PersistSession, AcceptsSession, ObserveSession, RecordSpawnOutcome,
               MoveHead,
         InterruptFinish, ResultCommit, Resubmit, PreservesSubmission,
               RequestIntegration, PublishResult,
         RecordIntegration, FailIntegration, AdoptIntegration

\* recover_assignment adds a source only when none waits, link_continuation
\* takes the one that waits.
LEMMA RecoveryStep ==
  TypeOK /\ Ownership /\ WorkRows /\ RecoveryHandedOn /\ [Next]_vars =>
      RecoveryHandedOn'
<1> SUFFICES ASSUME TypeOK, Ownership, WorkRows, RecoveryHandedOn, [Next]_vars
             PROVE  RecoveryHandedOn'
  OBVIOUS
<1>0. \A t \in Tasks : status[t] # "open" => PendingRecoveries(t) = {}
  BY DEF RecoveryHandedOn
<1>1. ASSUME UNCHANGED <<asgTask, retired, continues, kind>>,
             \A t \in Tasks : status[t] = "open" => status'[t] = "open"
      PROVE  RecoveryHandedOn'
  <2>1. \A t : PendingRecoveries(t)' = PendingRecoveries(t)
    BY <1>1 DEF PendingRecoveries
  <2> QED
    BY <1>1, <2>1 DEF RecoveryHandedOn, Worktree
<1>2. ASSUME NEW t \in Tasks, NEW D \in SUBSET Tasks, CreateTask(t, D)
      PROVE  RecoveryHandedOn'
  BY <1>1, <1>2 DEF CreateTask, TypeOK, ownerVars, recoveryVars, sourceVars
<1>3. ASSUME NEW t \in Tasks, CloseTask(t) \/ CloseOverride(t)
      PROVE  RecoveryHandedOn'
  BY <1>1, <1>3 DEF CloseTask, CloseOverride, TypeOK, ownerVars, recoveryVars,
                    sourceVars
<1>4. ASSUME NEW t \in Tasks, NEW a \in Assignments, NEW k \in RoleKinds,
             Spawn(a, t, k)
      PROVE  RecoveryHandedOn'
  <2>1. /\ ~retired[a] /\ continues[a] = NoAssignment /\ asgTask[a] = NoTask
        /\ asgTask' = [asgTask EXCEPT ![a] = t]
        /\ status' = [status EXCEPT ![t] = "in_progress"]
        /\ kind' = [kind EXCEPT ![a] = k]
        /\ UNCHANGED retired
        /\ PendingRecoveries(t) # {} => k = "worktree"
    BY <1>4 DEF Spawn, WorkRows, Ownership, RowsAgree
  <2>2. \A b \in Assignments : continues[b] # a
    BY <2>1 DEF RecoveryHandedOn, TypeOK, WorkRows
  <2>3. CASE PendingRecoveries(t) = {} /\ UNCHANGED continues
    <3>1. \A u \in Tasks : PendingRecoveries(u)' = PendingRecoveries(u)
      BY <2>1, <2>3 DEF PendingRecoveries, TypeOK
    <3>2. \A b \in Assignments : continues[b] # NoAssignment => b # a
      BY <2>1
    <3> QED
      BY <2>1, <2>2, <2>3, <3>1, <3>2 DEF RecoveryHandedOn, Worktree, TypeOK
  <2>4. ASSUME NEW b \in PendingRecoveries(t),
               continues' = [continues EXCEPT ![a] = b]
        PROVE  RecoveryHandedOn'
    <3>1. /\ b \in Assignments /\ asgTask[b] = t /\ retired[b] /\ b # a
          /\ \A c \in Assignments : continues[c] # b
          /\ k = "worktree"
      BY <2>1 DEF PendingRecoveries
    <3>2. \A u \in Tasks : PendingRecoveries(u)' \subseteq PendingRecoveries(u)
      BY <2>1, <2>4 DEF PendingRecoveries, TypeOK
    <3>3. PendingRecoveries(t)' = {}
      <4>1. \A c \in PendingRecoveries(t)' : c = b
        BY <3>2 DEF RecoveryHandedOn
      <4>2. b \notin PendingRecoveries(t)'
        BY <2>4 DEF PendingRecoveries, TypeOK
      <4> QED
        BY <4>1, <4>2
    <3>4. \A u \in Tasks :
              /\ \A c, d \in PendingRecoveries(u)' : c = d
              /\ PendingRecoveries(u)' # {} => status'[u] = "open"
      BY <2>1, <3>2, <3>3 DEF RecoveryHandedOn, TypeOK
    <3>5. continues'[a] = b /\ Worktree(a)' /\ asgTask'[a] = t
      BY <2>1, <2>4, <3>1 DEF TypeOK, Worktree
    <3>6. \A c \in Assignments : c # a =>
              /\ continues'[c] = continues[c] /\ asgTask'[c] = asgTask[c]
              /\ Worktree(c)' = Worktree(c)
      BY <2>1, <2>4 DEF TypeOK, Worktree
    <3>7. ASSUME NEW c \in Assignments, continues'[c] # NoAssignment
          PROVE  /\ retired'[continues'[c]]
                 /\ asgTask'[continues'[c]] = asgTask'[c]
                 /\ continues'[c] # c
                 /\ Worktree(c)'
                 /\ \A d \in Assignments :
                       continues'[d] = continues'[c] => d = c
      <4>1. CASE c = a
        BY <2>1, <3>1, <3>5, <3>6, <4>1
      <4>2. CASE c # a
        <5>1. /\ retired[continues[c]] /\ asgTask[continues[c]] = asgTask[c]
              /\ continues[c] # c /\ Worktree(c)
              /\ \A d \in Assignments : continues[d] = continues[c] => d = c
          BY <3>6, <3>7, <4>2 DEF RecoveryHandedOn
        <5>2. continues[c] # a /\ continues[c] # b
              /\ continues[c] \in Assignments
          BY <2>2, <3>1, <3>6, <3>7, <4>2 DEF TypeOK
        <5> QED
          BY <2>1, <3>5, <3>6, <4>2, <5>1, <5>2
      <4> QED
        BY <4>1, <4>2
    <3> QED
      BY <3>4, <3>7 DEF RecoveryHandedOn
  <2> QED
    BY <1>4, <2>3, <2>4 DEF Spawn
<1>5. ASSUME NEW a \in Assignments,
             FinishCompleted(a) \/ SubmitRetained(a) \/ FinishFailed(a)
      PROVE  RecoveryHandedOn'
  <2>1. asgState[a] = "active"
    BY <1>5 DEF FinishCompleted, ResultCommit, MayFinish, SubmitRetained,
                InterruptedPreflight, FinishFailed
  <2>2. (\E c : Submit(asgTask[a], c)) \/ Reopen(asgTask[a])
    BY <1>5 DEF FinishCompleted, ResultCommit, SubmitRetained, FinishFailed
  <2>3. /\ status[asgTask[a]] = "in_progress"
        /\ \E s : status' = [status EXCEPT ![asgTask[a]] = s]
        /\ UNCHANGED asgTask
    BY <2>1, <2>2, SubmitEffect, ReopenEffect
  <2>4. UNCHANGED <<retired, continues, kind>>
    BY <1>5
       DEF FinishCompleted, ResultCommit, SubmitRetained, FinishFailed,
           recoveryVars,
                sourceVars
  <2>5. \A t \in Tasks : status[t] = "open" => status'[t] = "open"
    BY <2>3 DEF TypeOK
  <2> QED
    BY <1>1, <2>3, <2>4, <2>5
<1>6. ASSUME NEW a \in Assignments, NEW ack \in BOOLEAN, Recover(a, ack)
      PROVE  RecoveryHandedOn'
  <2> DEFINE t == asgTask[a]
  <2>1. asgState[a] = "active" /\ Reopen(t)
    BY <1>6 DEF Recover, InterruptedPreflight
  <2>2. /\ t \in Tasks /\ status[t] = "in_progress"
        /\ status' = [status EXCEPT ![t] = "open"]
        /\ retired' = [retired EXCEPT ![a] = TRUE]
        /\ UNCHANGED <<asgTask, continues, kind>>
    BY <1>6, <2>1, ReopenEffect DEF Recover, sourceVars
  <2>3. ~retired[a]
    BY <2>1 DEF WorkRows
  <2>4. PendingRecoveries(t) = {}
    BY <1>0, <2>2
  <2>5. \A b \in PendingRecoveries(t)' : b = a
    BY <2>2, <2>4 DEF PendingRecoveries, TypeOK
  <2>6. \A u \in Tasks : u # t => PendingRecoveries(u)' = PendingRecoveries(u)
    BY <2>2 DEF PendingRecoveries, TypeOK
  <2>7. \A u \in Tasks :
            /\ \A b, c \in PendingRecoveries(u)' : b = c
            /\ PendingRecoveries(u)' # {} => status'[u] = "open"
    BY <2>2, <2>5, <2>6 DEF RecoveryHandedOn, TypeOK
  <2>8. \A b \in Assignments : retired[b] => retired'[b]
    BY <2>2 DEF TypeOK
  <2>9. \A b \in Assignments : continues[b] \in Assignments \cup {NoAssignment}
    BY DEF TypeOK
  <2> QED
    BY <2>2, <2>7, <2>8, <2>9 DEF RecoveryHandedOn, Worktree
<1>7. CASE UNCHANGED <<status, asgTask, retired, continues, kind>>
  BY <1>1, <1>7
<1> QED
  BY <1>2, <1>3, <1>4, <1>5, <1>6, <1>7, RecoverySteps

-----------------------------------------------------------------------------
(* The theorems.                                                           *)

\* Whatever the callers, the workers and Git do, the rows of the store agree
\* in the ways TaskLedgerInvariants names: the handlers of supervisor.rs keep
\* the store coherent between any two of its transactions.
THEOREM Invariance == Spec => []IInv
<1>1. Init => IInv
  BY TypeInit, OwnershipInit, DependenciesInit, WorkInit, IntegrationInit,
     EvidenceInit, RecoveryInit DEF IInv
<1>2. IInv /\ [Next]_vars => IInv'
  BY TypeStep, OwnershipStep, DependenciesStep, WorkStep, IntegrationRowsStep,
     EvidenceStep, RecoveryStep DEF IInv
<1> QED
  BY <1>1, <1>2, PTL DEF Spec

\* Every column keeps to the values its schema and enum allow.
THEOREM TypeCorrect == Spec => []TypeOK
<1>1. IInv => TypeOK
  BY DEF IInv
<1> QED
  BY <1>1, Invariance, PTL

\* A task in progress has exactly one open claim and one open assignment, so
\* release_task_ownership never fails for want, or for excess, of a row.
THEOREM Exclusive == Spec => []OwnershipExclusive
<1>1. IInv => OwnershipExclusive
  <2> SUFFICES ASSUME Ownership, TypeOK PROVE OwnershipExclusive
    BY DEF IInv
  <2>1. ASSUME NEW t \in Tasks, status[t] = "in_progress"
        PROVE  OpenAssignments(t) = {latest[t]} /\ OpenClaims(t) = {latest[t]}
    BY <2>1 DEF OpenAssignments, OpenClaims, Ownership, RowsAgree, LatestRow
  <2>2. ASSUME NEW t \in Tasks, status[t] # "in_progress"
        PROVE  OpenAssignments(t) = {} /\ OpenClaims(t) = {}
    BY <2>2 DEF OpenAssignments, OpenClaims, Ownership, RowsAgree
  <2> QED
    BY <2>1, <2>2 DEF OwnershipExclusive
<1> QED
  BY <1>1, Invariance, PTL

\* No work starts before task_readiness saw every dependency closed, and no
\* later transition takes that acceptance back.
THEOREM Dependencies == Spec => []DependenciesAccepted
<1>1. IInv => DependenciesAccepted
  BY DEF IInv
<1> QED
  BY <1>1, Invariance, PTL

\* tasks.result_json and workspaces.result_commit of the latest assignment
\* never drift apart, across finish, submit-retained and resubmit.
THEOREM Submission == Spec => []SubmissionConsistent
<1>1. IInv => SubmissionConsistent
  BY DEF IInv, Ownership, LatestRow, WorkRows, EvidenceRows,
         SubmissionConsistent
<1> QED
  BY <1>1, Invariance, PTL

\* The target branch holds the recorded result of completed work only, also
\* between GitWorkspace::integrate and the transaction that records it.
THEOREM Published == Spec => []PublishedIsRecorded
<1>1. IInv => PublishedIsRecorded
  <2> SUFFICES ASSUME IInv, NEW a \in Assignments, published[a] # NoCommit
               PROVE  asgState[a] = "completed" /\ published[a] = result[a]
    BY DEF PublishedIsRecorded
  <2>1. published[a] = result[a] /\ ~Unintended(a)
    BY DEF IInv, IntegrationRows
  <2>2. PICK o \in IntegrateOps : opAsg[o] = a
    BY <2>1 DEF Unintended, IntegrationsOf
  <2>3. opState[o] # "none"
    BY <2>2 DEF IInv, IntegrationRows
  <2> QED
    BY <2>1, <2>2, <2>3 DEF IInv, IntegrationRows
<1> QED
  BY <1>1, Invariance, PTL

\* An override and a guarded integration of one result exclude each other.
THEOREM Override == Spec => []OverrideStandsAlone
<1>1. IInv => OverrideStandsAlone
  <2> SUFFICES ASSUME IInv, NEW t \in Tasks, evidence[t] = "override"
               PROVE  Unintended(latest[t]) /\ published[latest[t]] = NoCommit
    BY DEF OverrideStandsAlone
  <2>1. Unintended(latest[t]) /\ latest[t] \in Assignments
    BY DEF IInv, EvidenceRows, Ownership, LatestRow
  <2> QED
    BY <2>1 DEF IInv, IntegrationRows
<1> QED
  BY <1>1, Invariance, PTL

\* What task close and task close --override record is what happened in Git.
THEOREM Evidence == Spec => []ClosureEvidence
<1>1. IInv => ClosureEvidence
  <2> SUFFICES ASSUME IInv, NEW t \in Tasks, status[t] = "closed"
               PROVE  CASE evidence[t] = "integration" ->
                             /\ Worktree(latest[t])
                             /\ target[latest[t]] = taskResult[t]
                             /\ published[latest[t]] = taskResult[t]
                        [] evidence[t] = "override" ->
                             Worktree(latest[t])
                                   /\ target[latest[t]] = NoCommit
                        [] OTHER -> ~Worktree(latest[t])
    BY DEF ClosureEvidence
  <2> DEFINE a == latest[t]
  <2>1. a \in Assignments /\ taskResult[t] = result[a]
    BY DEF IInv, EvidenceRows, Ownership, LatestRow
  <2>2. CASE evidence[t] = "integration"
    <3>1. Worktree(a) /\ target[a] # NoCommit
      BY <2>2 DEF IInv, EvidenceRows
    <3>2. target[a] = published[a] /\ published[a] = result[a]
      BY <2>1, <3>1 DEF IInv, IntegrationRows
    <3> QED
      BY <2>1, <2>2, <3>1, <3>2
  <2>3. CASE evidence[t] = "override"
    <3>1. Worktree(a) /\ Unintended(a)
      BY <2>3 DEF IInv, EvidenceRows
    <3>2. target[a] = NoCommit
      BY <2>1, <3>1 DEF IInv, IntegrationRows
    <3> QED
      BY <2>3, <3>1, <3>2
  <2>4. CASE evidence[t] = "direct"
    BY <2>4 DEF IInv, EvidenceRows
  <2>5. evidence[t] \in {"direct", "integration", "override"}
    BY DEF IInv, EvidenceRows, TypeOK
  <2> QED
    BY <2>2, <2>3, <2>4, <2>5
<1> QED
  BY <1>1, Invariance, PTL

\* recover_assignment and link_continuation hand interrupted work on once.
THEOREM Recovery == Spec => []RecoveryHandedOn
<1>1. IInv => RecoveryHandedOn
  BY DEF IInv
<1> QED
  BY <1>1, Invariance, PTL

\* Once task recover retires a source, no later observation of its worktree
\* or process, and no command about its work, changes its rows.
THEOREM Fenced == Spec => RetiredSourceFenced
<1>1. ASSUME IInv, [Next]_vars, NEW a \in Assignments, retired[a]
      PROVE  /\ retired'[a]
             /\ asgState'[a] = asgState[a] /\ session'[a] = session[a]
             /\ wsState'[a] = wsState[a] /\ result'[a] = result[a]
             /\ published'[a] = published[a]
  <2> DEFINE Same == /\ retired'[a]
                     /\ asgState'[a] = asgState[a] /\ session'[a] = session[a]
                     /\ wsState'[a] = wsState[a] /\ result'[a] = result[a]
                     /\ published'[a] = published[a]
  <2>0. /\ TypeOK /\ Ownership /\ asgState[a] = "released"
        /\ session[a] \in {"exited", "lost"}
    BY <1>1 DEF IInv, WorkRows
  <2> USE DEF TypeOK, taskVars, ownerVars, recoveryVars, workerVars,
              sourceVars, integrationVars
  <2>1. ASSUME NEW t \in Tasks, TaskStep(t) PROVE Same
    BY <1>1, <2>0, <2>1 DEF TaskStep, CreateTask, Spawn, CloseTask,
                            CloseOverride
  <2>2. ASSUME NEW b \in Assignments,
               \/ \E s \in {"observed", "unknown", "lost"} :
                      MaterializeWorkspace(b, s)
               \/ PersistSession(b)
               \/ \E s \in SessionValues : ObserveSession(b, s)
               \/ \E s \in OpValues : RecordSpawnOutcome(b, s)
               \/ \E c \in Commits : MoveHead(b, c)
        PROVE  Same
    BY <1>1, <2>0, <2>2
       DEF MaterializeWorkspace, PersistSession, AcceptsSession,
       ObserveSession, NextSession, RecordSpawnOutcome, MoveHead
  <2>3. ASSUME NEW b \in Assignments,
               \/ InterruptFinish(b) \/ FinishCompleted(b) \/ FinishFailed(b)
               \/ \E ack \in BOOLEAN : Recover(b, ack)
               \/ SubmitRetained(b) \/ Resubmit(b)
        PROVE  Same
    <3>1. a # b
      BY <2>0, <2>3
         DEF InterruptFinish, ResultCommit, FinishCompleted, ResultCommit,
             FinishFailed,
         MayFinish, Recover, SubmitRetained, InterruptedPreflight, Resubmit,
               PreservesSubmission,
         CurrentSubmission
    <3>2. result'[a] = result[a]
      <4>1. CASE InterruptFinish(b) \/ SubmitRetained(b)
        BY <2>0, <3>1, <4>1
           DEF InterruptFinish, ResultCommit, SubmitRetained, RecordResult
      <4>2. CASE FinishCompleted(b)
        BY <2>0, <3>1, <4>2 DEF FinishCompleted, ResultCommit, RecordResult
      <4>3. CASE FinishFailed(b) \/ \E ack \in BOOLEAN : Recover(b, ack)
        BY <4>3 DEF FinishFailed, Recover
      <4>4. CASE Resubmit(b)
        BY <3>1, <4>4 DEF Resubmit, PreservesSubmission
      <4> QED
        BY <2>3, <4>1, <4>2, <4>3, <4>4
    <3>3. retired'[a] /\ UNCHANGED <<session, wsState, published>>
      <4>1. CASE InterruptFinish(b) \/ SubmitRetained(b) \/ Resubmit(b)
        BY <1>1, <4>1
           DEF InterruptFinish, ResultCommit, SubmitRetained, Resubmit,
               PreservesSubmission
      <4>2. CASE FinishCompleted(b) \/ FinishFailed(b)
        BY <1>1, <4>2 DEF FinishCompleted, ResultCommit, FinishFailed
      <4>3. CASE \E ack \in BOOLEAN : Recover(b, ack)
        BY <1>1, <4>3 DEF Recover
      <4> QED
        BY <2>3, <4>1, <4>2, <4>3
    <3>4. asgState'[a] = asgState[a]
      <4>1. CASE InterruptFinish(b) \/ Resubmit(b)
        BY <4>1
           DEF InterruptFinish, ResultCommit, Resubmit, PreservesSubmission
      <4>2. CASE \/ FinishCompleted(b) \/ FinishFailed(b) \/ SubmitRetained(b)
                 \/ \E ack \in BOOLEAN : Recover(b, ack)
        <5>1. /\ asgState[b] = "active"
              /\ (\E c : Submit(asgTask[b], c)) \/ Reopen(asgTask[b])
          BY <4>2 DEF FinishCompleted, ResultCommit, FinishFailed, MayFinish,
             SubmitRetained, Recover, InterruptedPreflight
        <5>2. \E s : asgState' = [asgState EXCEPT ![b] = s]
          BY <2>0, <5>1, SubmitEffect, ReopenEffect
        <5> QED
          BY <3>1, <5>2
      <4> QED
        BY <2>3, <4>1, <4>2
    <3> QED
      BY <3>2, <3>3, <3>4
  <2>4. ASSUME NEW o \in IntegrateOps, IntegrationStep(o) PROVE Same
    <3>1. opState[o] # "none" => opAsg[o] # a
      BY <1>1, <2>0 DEF IInv, IntegrationRows
    <3>2. CASE \/ \E b \in Assignments : RequestIntegration(o, b)
               \/ FailIntegration(o) \/ AdoptIntegration(o)
               \/ RecordIntegration(o)
      BY <1>1, <3>2 DEF RequestIntegration, RecordIntegration,
         FailIntegration, AdoptIntegration
    <3>3. CASE PublishResult(o)
      BY <1>1, <3>1, <3>3 DEF PublishResult
    <3> QED
      BY <2>4, <3>2, <3>3 DEF IntegrationStep
  <2>5. CASE UNCHANGED vars
    BY <1>1, <2>5 DEF vars
  <2> HIDE DEF TypeOK, taskVars, ownerVars, recoveryVars, workerVars,
               sourceVars, integrationVars
  <2>6. ASSUME NEW b \in Assignments, WorkerStep(b) PROVE Same
    BY <2>2, <2>3, <2>6 DEF WorkerStep
  <2>7. Next \/ UNCHANGED vars
    BY <1>1
  <2>8. CASE Next
    BY <2>1, <2>4, <2>6, <2>8 DEF Next
  <2>9. Same
    BY <2>5, <2>7, <2>8
  <2> QED
    BY <2>9 DEF Same
<1>2. IInv /\ [Next]_vars =>
          [\A a \in Assignments :
              retired[a] =>
                  /\ retired'[a]
                  /\ asgState'[a] = asgState[a] /\ session'[a] = session[a]
                  /\ wsState'[a] = wsState[a] /\ result'[a] = result[a]
                  /\ published'[a] = published[a]]_vars
  BY <1>1 DEF vars
<1> QED
  BY <1>2, Invariance, PTL DEF Spec, RetiredSourceFenced

\* A closed task keeps its work: the commit dependents were released on is
\* the one in the record, and in the target branch, from then on.
THEOREM Accepted == Spec => AcceptedWorkFixed
<1>1. ASSUME IInv, [Next]_vars, NEW t \in Tasks, status[t] = "closed"
      PROVE  /\ status'[t] = "closed" /\ latest'[t] = latest[t]
             /\ taskResult'[t] = taskResult[t] /\ evidence'[t] = evidence[t]
             /\ result'[latest[t]] = result[latest[t]]
             /\ target'[latest[t]] = target[latest[t]]
             /\ published'[latest[t]] = published[latest[t]]
  <2> DEFINE a == latest[t]
             Same == /\ status'[t] = "closed" /\ latest'[t] = a
                     /\ taskResult'[t] = taskResult[t]
                     /\ evidence'[t] = evidence[t]
                     /\ result'[a] = result[a]
                     /\ target'[a] = target[a]
                     /\ published'[a] = published[a]
  <2>0. /\ TypeOK /\ Ownership
        /\ a \in Assignments /\ asgTask[a] = t /\ asgState[a] = "completed"
    BY <1>1 DEF IInv, Ownership, LatestRow
  \* Work that an integration names was closed on that integration.
  <2>a. ASSUME NEW o \in IntegrateOps, opState[o] # "none", opAsg[o] = a
        PROVE  target[a] = result[a] /\ published[a] = result[a]
    <3>1. Worktree(a) /\ ~Unintended(a)
      BY <1>1, <2>a DEF IInv, IntegrationRows, Unintended, IntegrationsOf
    <3>2. evidence[t] = "integration"
      BY <1>1, <3>1 DEF IInv, EvidenceRows, TypeOK
    <3> QED
      BY <1>1, <2>0, <3>2 DEF IInv, IntegrationRows, EvidenceRows
  <2> USE DEF TypeOK, taskVars, ownerVars, recoveryVars, workerVars,
              sourceVars, integrationVars
  <2>1. ASSUME NEW u \in Tasks, TaskStep(u) PROVE Same
    <3>1. CASE \E D \in SUBSET Tasks : CreateTask(u, D)
      BY <1>1, <2>0, <3>1 DEF CreateTask
    <3>2. CASE \E b \in Assignments, k \in RoleKinds : Spawn(b, u, k)
      BY <1>1, <2>0, <3>2 DEF Spawn, IsReady
    <3>3. CASE CloseTask(u) \/ CloseOverride(u)
      BY <1>1, <2>0, <3>3 DEF CloseTask, CloseOverride
    <3> QED
      BY <2>1, <3>1, <3>2, <3>3 DEF TaskStep
  <2>2. ASSUME NEW b \in Assignments,
               \/ \E s \in {"observed", "unknown", "lost"} :
                      MaterializeWorkspace(b, s)
               \/ PersistSession(b)
               \/ \E s \in SessionValues : ObserveSession(b, s)
               \/ \E s \in OpValues : RecordSpawnOutcome(b, s)
               \/ \E c \in Commits : MoveHead(b, c)
        PROVE  Same
    BY <1>1, <2>2 DEF MaterializeWorkspace, PersistSession, AcceptsSession,
       ObserveSession, RecordSpawnOutcome, MoveHead
  <2>3. ASSUME NEW b \in Assignments,
               \/ FinishCompleted(b) \/ FinishFailed(b) \/ SubmitRetained(b)
               \/ \E ack \in BOOLEAN : Recover(b, ack)
        PROVE  Same
    <3>1. /\ asgState[b] = "active" /\ a # b
          /\ (\E c : Submit(asgTask[b], c)) \/ Reopen(asgTask[b])
      BY <2>0, <2>3 DEF FinishCompleted, ResultCommit, FinishFailed, MayFinish,
         SubmitRetained, Recover, InterruptedPreflight
    <3>2. /\ asgTask[b] # t
          /\ \E s : status' = [status EXCEPT ![asgTask[b]] = s]
          /\ \E c : taskResult' = [taskResult EXCEPT ![asgTask[b]] = c]
          /\ UNCHANGED <<latest, evidence>>
      <4> HIDE DEF TypeOK
      <4>0. asgTask[b] # t
        BY <1>1, <2>0, <3>1, SubmitEffect, ReopenEffect
      <4>1. CASE \E c : Submit(asgTask[b], c)
        BY <2>0, <3>1, <4>0, <4>1, SubmitEffect
      <4>2. CASE Reopen(asgTask[b])
        BY <2>0, <3>1, <4>0, <4>2, ReopenEffect
      <4> QED BY <3>1, <4>1, <4>2
    <3>3. result'[a] = result[a]
      <4>1. CASE SubmitRetained(b)
        BY <2>0, <3>1, <4>1 DEF SubmitRetained, RecordResult
      <4>2. CASE FinishCompleted(b)
        BY <2>0, <3>1, <4>2 DEF FinishCompleted, ResultCommit, RecordResult
      <4>3. CASE FinishFailed(b) \/ \E ack \in BOOLEAN : Recover(b, ack)
        BY <4>3 DEF FinishFailed, Recover
      <4> QED
        BY <2>3, <4>1, <4>2, <4>3
    <3>4. UNCHANGED <<target, published>>
      BY <2>3
         DEF FinishCompleted, ResultCommit, FinishFailed, SubmitRetained,
             Recover
    <3> QED
      BY <1>1, <2>0, <3>2, <3>3, <3>4
  <2>4. ASSUME NEW b \in Assignments, InterruptFinish(b) \/ Resubmit(b)
        PROVE  Same
    <3>1. CASE InterruptFinish(b)
      BY <1>1, <2>0, <3>1
         DEF InterruptFinish, ResultCommit, MayFinish, RecordResult
    <3>2. CASE Resubmit(b)
      BY <1>1, <2>0, <3>2 DEF Resubmit, PreservesSubmission, CurrentSubmission
    <3> QED
      BY <2>4, <3>1, <3>2
  <2>5. ASSUME NEW o \in IntegrateOps, IntegrationStep(o) PROVE Same
    <3>1. CASE \/ \E b \in Assignments : RequestIntegration(o, b)
               \/ FailIntegration(o) \/ AdoptIntegration(o)
      BY <1>1, <3>1 DEF RequestIntegration, FailIntegration, AdoptIntegration
    <3>2. CASE PublishResult(o)
      BY <1>1, <2>0, <2>a, <3>2 DEF PublishResult
    <3>3. CASE RecordIntegration(o)
      BY <1>1, <2>0, <2>a, <3>3 DEF RecordIntegration
    <3> QED
      BY <2>5, <3>1, <3>2, <3>3 DEF IntegrationStep
  <2>6. CASE UNCHANGED vars
    BY <1>1, <2>6 DEF vars
  <2> HIDE DEF TypeOK, taskVars, ownerVars, recoveryVars, workerVars,
               sourceVars, integrationVars
  <2>7. ASSUME NEW b \in Assignments, WorkerStep(b) PROVE Same
    BY <2>2, <2>3, <2>4, <2>7 DEF WorkerStep
  <2> QED
    BY <1>1, <2>1, <2>5, <2>6, <2>7 DEF Next
<1>2. IInv /\ [Next]_vars =>
          [\A t \in Tasks :
              LET a == latest[t] IN
              status[t] = "closed" =>
                  /\ status'[t] = "closed" /\ latest'[t] = a
                  /\ taskResult'[t] = taskResult[t]
                        /\ evidence'[t] = evidence[t]
                  /\ result'[a] = result[a]
                  /\ target'[a] = target[a]
                        /\ published'[a] = published[a]]_vars
  BY <1>1 DEF vars
<1> QED
  BY <1>2, Invariance, PTL DEF Spec, AcceptedWorkFixed

-----------------------------------------------------------------------------
(* The refinement.                                                         *)

\* An empty store maps to the abstract initial state.
LEMMA LifecycleInit == Init => Lifecycle!Init
<1> SUFFICES ASSUME Init PROVE Lifecycle!Init
  OBVIOUS
<1>1. [t \in Tasks |-> OpenAssignments(t)] = [t \in Tasks |-> {}]
  BY DEF Init, OpenAssignments
<1>2. \A t \in Tasks : (IF status[t] \in {"submitted", "closed"}
                        THEN {latest[t]} ELSE {}) = {}
  BY DEF Init
<1>3. {a \in Assignments : asgState[a] \in {"completed", "released"}} = {}
  BY DEF Init
<1>4. status = [t \in Tasks |-> "absent"] /\ deps = [t \in Tasks |-> {}]
  BY DEF Init
<1> QED
  BY <1>1, <1>2, <1>3, <1>4 DEF Lifecycle!Init

\* A step that moves no task and no assignment is invisible.
LEMMA LifecycleStutter ==
  ASSUME UNCHANGED <<status, deps, asgTask, asgState, latest>>
  PROVE  UNCHANGED Lifecycle!vars
<1>1. [t \in Tasks |-> OpenAssignments(t)]' = [t \in Tasks |->
      OpenAssignments(t)]
  BY DEF OpenAssignments
<1> QED
  BY <1>1 DEF Lifecycle!vars

\* The owner leaves: the one open assignment of the task is spent.
LEMMA LeaveEffect ==
  ASSUME TypeOK, Ownership, NEW a \in Assignments, asgState[a] = "active",
         NEW s \in {"completed", "released"},
         asgState' = [asgState EXCEPT ![a] = s], UNCHANGED asgTask
  PROVE  /\ OpenAssignments(asgTask[a]) = {a}
         /\ [t \in Tasks |-> OpenAssignments(t)]' =
                [[t \in Tasks |-> OpenAssignments(t)]
                    EXCEPT ![asgTask[a]] = {}]
         /\ {b \in Assignments : asgState[b] \in {"completed", "released"}}' =
                {b \in Assignments : asgState[b] \in {"completed", "released"}}
                    \cup {a}
<1> DEFINE t == asgTask[a]
<1>1. t \in Tasks /\ OpenAssignments(t) = {a}
  BY DEF OpenAssignments, Ownership, RowsAgree, TypeOK
<1>2. \A b \in Assignments : b # a => asgState'[b] = asgState[b]
  BY DEF TypeOK
<1>3. asgState'[a] = s
  BY DEF TypeOK
<1>4. OpenAssignments(t)' = {}
  BY <1>1, <1>2, <1>3 DEF OpenAssignments
<1>5. \A u \in Tasks : u # t => OpenAssignments(u)' = OpenAssignments(u)
  BY <1>2, <1>3 DEF OpenAssignments
<1>6. {b \in Assignments : asgState[b] \in {"completed", "released"}}' =
          {b \in Assignments : asgState[b] \in {"completed", "released"}}
              \cup {a}
  BY <1>2, <1>3
<1> QED
  BY <1>1, <1>4, <1>5, <1>6

\* Each owner step maps to the abstract step of its name.
LEMMA LifecycleStep == IInv /\ [Next]_vars => [Lifecycle!Next]_Lifecycle!vars
<1> SUFFICES ASSUME TypeOK, Ownership, WorkRows, [Next]_vars
             PROVE  [Lifecycle!Next]_Lifecycle!vars
  BY DEF IInv
<1> DEFINE owners == [t \in Tasks |-> OpenAssignments(t)]
           author == [t \in Tasks |->
                         IF status[t] \in {"submitted", "closed"}
                         THEN {latest[t]} ELSE {}]
           spent == {a \in Assignments :
                        asgState[a] \in {"completed", "released"}}
<1>1. ASSUME NEW t \in Tasks, NEW D \in SUBSET Tasks, CreateTask(t, D)
      PROVE  Lifecycle!Create(t, D)
  <2>1. owners' = owners /\ spent' = spent
    BY <1>1 DEF CreateTask, OpenAssignments, ownerVars
  <2>2. author' = author
    BY <1>1 DEF CreateTask, ownerVars, TypeOK
  <2> QED
    BY <1>1, <2>1, <2>2 DEF CreateTask, Lifecycle!Create
<1>2. ASSUME NEW t \in Tasks, NEW a \in Assignments, NEW k \in RoleKinds,
             Spawn(a, t, k)
      PROVE  Lifecycle!Claim(t, a)
  <2>1. OpenAssignments(t) = {} /\ asgTask[a] = NoTask
    BY <1>2 DEF Spawn, IsReady, OpenAssignments, Ownership, RowsAgree
  <2>2. OpenAssignments(t)' = {a}
    BY <1>2, <2>1 DEF Spawn, OpenAssignments, TypeOK
  <2>3. \A u \in Tasks : u # t => OpenAssignments(u)' = OpenAssignments(u)
    BY <1>2, <2>1 DEF Spawn, OpenAssignments, TypeOK
  <2>4. owners' = [owners EXCEPT ![t] = {a}]
    BY <2>2, <2>3
  <2>5. spent' = spent
    BY <1>2 DEF Spawn, TypeOK
  <2>6. author' = author
    BY <1>2 DEF Spawn, IsReady, TypeOK
  <2>7. /\ a \notin spent
        /\ \A u \in Tasks : a \notin owners[u]
        /\ \A u \in deps[t] : status[u] = "closed"
    BY <1>2 DEF Spawn, IsReady, UnresolvedDependencies, OpenAssignments
  <2> QED
    BY <1>2, <2>4, <2>5, <2>6, <2>7 DEF Spawn, IsReady, Lifecycle!Claim
<1>3. ASSUME NEW t \in Tasks, CloseTask(t) \/ CloseOverride(t)
      PROVE  Lifecycle!Close(t)
  <2>1. owners' = owners /\ spent' = spent
    BY <1>3 DEF CloseTask, CloseOverride, OpenAssignments, ownerVars
  <2>2. author' = author
    BY <1>3, ZenonT(60) DEF CloseTask, CloseOverride, ownerVars, TypeOK
  <2> QED
    BY <1>3, <2>1, <2>2 DEF CloseTask, CloseOverride, Lifecycle!Close
<1>4. ASSUME NEW a \in Assignments, NEW t \in Tasks, t = asgTask[a],
             FinishCompleted(a) \/ SubmitRetained(a)
      PROVE  Lifecycle!Submit(t)
  <2>1. asgState[a] = "active" /\ \E c : Submit(asgTask[a], c)
    BY <1>4 DEF FinishCompleted, ResultCommit, MayFinish, SubmitRetained,
                InterruptedPreflight
  <2>2. /\ asgTask[a] \in Tasks /\ latest[asgTask[a]] = a
        /\ status[asgTask[a]] = "in_progress"
        /\ asgState' = [asgState EXCEPT ![a] = "completed"]
        /\ status' = [status EXCEPT ![asgTask[a]] = "submitted"]
        /\ UNCHANGED <<asgTask, latest, deps>>
    BY <2>1, SubmitEffect
  <2>3. /\ OpenAssignments(asgTask[a]) = {a}
        /\ owners' = [owners EXCEPT ![asgTask[a]] = {}]
        /\ spent' = spent \cup {a}
    BY <2>1, <2>2, LeaveEffect
  <2>4. author' = [author EXCEPT ![asgTask[a]] = {a}]
    BY <2>2 DEF TypeOK
  <2> QED
    BY <1>4, <2>2, <2>3, <2>4 DEF Lifecycle!Submit, Lifecycle!Leave
<1>5. ASSUME NEW a \in Assignments, NEW t \in Tasks, t = asgTask[a],
             FinishFailed(a) \/ \E ack \in BOOLEAN : Recover(a, ack)
      PROVE  Lifecycle!Reopen(t)
  <2>1. asgState[a] = "active" /\ Reopen(asgTask[a])
    BY <1>5 DEF FinishFailed, MayFinish, Recover, InterruptedPreflight
  <2>2. /\ asgTask[a] \in Tasks /\ latest[asgTask[a]] = a
        /\ status[asgTask[a]] = "in_progress"
        /\ asgState' = [asgState EXCEPT ![a] = "released"]
        /\ status' = [status EXCEPT ![asgTask[a]] = "open"]
        /\ UNCHANGED <<asgTask, latest, deps>>
    BY <2>1, ReopenEffect
  <2>3. /\ OpenAssignments(asgTask[a]) = {a}
        /\ owners' = [owners EXCEPT ![asgTask[a]] = {}]
        /\ spent' = spent \cup {a}
    BY <2>1, <2>2, LeaveEffect
  <2>4. author' = author
    BY <2>2 DEF TypeOK
  <2> QED
    BY <1>5, <2>2, <2>3, <2>4 DEF Lifecycle!Reopen, Lifecycle!Leave
<1>6. CASE UNCHANGED <<status, deps, ownerVars, retired, continues>>
  BY <1>6, LifecycleStutter DEF ownerVars
<1>7. ASSUME NEW a \in Assignments, asgState[a] = "active"
      PROVE  asgTask[a] \in Tasks
  BY <1>7 DEF Ownership, RowsAgree, TypeOK
<1>8. ASSUME NEW t \in Tasks, CloseTask(t) \/ CloseOverride(t)
      PROVE  Lifecycle!Next
  BY <1>3, <1>8 DEF Lifecycle!Next
<1>9. ASSUME NEW a \in Assignments, FinishCompleted(a) \/ SubmitRetained(a)
      PROVE  Lifecycle!Next
  <2>1. PICK t \in Tasks : t = asgTask[a]
    BY <1>7, <1>9 DEF FinishCompleted, ResultCommit, MayFinish, SubmitRetained,
                      InterruptedPreflight
  <2> QED
    BY <1>4, <1>9, <2>1 DEF Lifecycle!Next
<1>10. ASSUME NEW a \in Assignments,
              FinishFailed(a) \/ \E ack \in BOOLEAN : Recover(a, ack)
       PROVE  Lifecycle!Next
  <2>1. PICK t \in Tasks : t = asgTask[a]
    BY <1>7, <1>10 DEF FinishFailed, MayFinish, Recover, InterruptedPreflight
  <2> QED
    BY <1>5, <1>10, <2>1 DEF Lifecycle!Next
<1>11. ASSUME NEW t \in Tasks, NEW D \in SUBSET Tasks, CreateTask(t, D)
       PROVE  Lifecycle!Next
  BY <1>1, <1>11 DEF Lifecycle!Next
<1>12. ASSUME NEW t \in Tasks, NEW a \in Assignments, NEW k \in RoleKinds,
              Spawn(a, t, k)
       PROVE  Lifecycle!Next
  BY <1>2, <1>12 DEF Lifecycle!Next
<1> QED
  BY <1>6, <1>8, <1>9, <1>10, <1>11, <1>12, OwnerSteps

\* Every step the store takes is one the task lifecycle allows, or none of
\* its business: state.rs and the handlers implement TaskLifecycle.
THEOREM Refinement == Spec => ImplementsLifecycle
<1>1. Init => Lifecycle!Init
  BY LifecycleInit
<1>2. IInv /\ [Next]_vars => [Lifecycle!Next]_Lifecycle!vars
  BY LifecycleStep
<1> QED
  BY <1>1, <1>2, Invariance, PTL
     DEF Spec, ImplementsLifecycle, Lifecycle!Spec
=============================================================================

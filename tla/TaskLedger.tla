----------------------------- MODULE TaskLedger -----------------------------
(***************************************************************************)
(* The task ledger of one coterie run: task status, dependency edges,      *)
(* claims, worker assignments, their Git worktrees, and the durable spawn  *)
(* and integration operations, as the supervisor's SQLite store keeps      *)
(* them.                                                                   *)
(*                                                                         *)
(* The supervisor is one thread and the store's only writer, so an action  *)
(* is one store transaction together with the checks its handler makes     *)
(* before it.  A handler that commits more than one transaction, or that   *)
(* touches Git or a process between two of them, is several actions: a     *)
(* crash, or an error on the way, is the behaviour that never takes the    *)
(* next one.  Everything in VARIABLES survives a restart.                  *)
(*                                                                         *)
(* A worker agent is created by its spawn and gets exactly one assignment, *)
(* claim, session, workspace and spawn operation, all at generation 0, so  *)
(* one identity, the assignment, stands for the five.  A commit of a       *)
(* worktree is its distance from the recorded base (0), and one commit     *)
(* descends from another when its number is greater.  A refusal (a dirty   *)
(* tree, a missing capability, a spent budget, a process that cannot be    *)
(* inspected) is the action not being taken.                               *)
(***************************************************************************)
EXTENDS Integers

CONSTANTS
    Tasks,            \* identities of the tasks the run may create
    Assignments,      \* identities of the workers the run may spawn
    IntegrateOps,     \* identities of `workspace integrate` operations
    MaxCommit,        \* bound: commits a worktree may hold beyond its base
    FaultyWorktrees,  \* bound: the worktrees whose observation may fail
    RoleKinds,        \* workspace kinds the configured job roles use
    NoTask, NoAssignment

ASSUME MaxCommitAssumption == MaxCommit \in Nat
ASSUME FaultyAssumption == FaultyWorktrees \subseteq Assignments
ASSUME RoleKindsAssumption == RoleKinds \subseteq {"project", "worktree"}
ASSUME SentinelAssumption ==
    NoTask \notin Tasks /\ NoAssignment \notin Assignments

NoCommit == -1                       \* a NULL commit column
Commits == 0..MaxCommit
MaybeCommit == Commits \cup {NoCommit}

VARIABLES
    status,      \* tasks.status, "absent" before the row exists
    deps,        \* task_dependencies
    taskResult,  \* the result commit inside tasks.result_json
    evidence,    \* what the closing result records
    asgTask,     \* assignments.task_id
    asgState,    \* assignments.state; "active" covers "draining"
    claim,       \* claims: "none", "active" or "released"
    latest,      \* the task's assignment with the greatest (created_at, rowid)
    retired,     \* a task.recovered event names the assignment
    continues,   \* assignment.continued: the retired source, if any
    session,     \* sessions.state, and whether a provider id is recorded
    spawnOp,     \* reconciliation_state of the agent.spawn operation
    kind,        \* workspaces.kind
    wsState,     \* workspaces.state
    head,        \* Git: tip of the assignment's worktree
    result,      \* workspaces.result_commit
    target,      \* the result whose integration workspaces.target_commit records
    published,   \* Git: the result coterie moved the target branch to contain
    opAsg,       \* the assignment a workspace.integrate operation names
    opState      \* its reconciliation_state

taskVars == <<status, deps, taskResult, evidence>>
ownerVars == <<asgTask, asgState, claim, latest>>
recoveryVars == <<retired, continues>>
workerVars == <<session, spawnOp>>
sourceVars == <<kind, wsState, head, result>>
integrationVars == <<target, published, opAsg, opState>>
vars == <<taskVars, ownerVars, recoveryVars, workerVars, sourceVars,
          integrationVars>>

StatusValues == {"absent", "open", "in_progress", "submitted", "closed"}
SessionValues ==
    {"none", "starting", "running", "exited", "lost", "quarantined"}
OpValues == {"none", "desired", "unknown", "observed"}

\* One type invariant: each column holds what the schema and enums allow.
TypeOK ==
    /\ status \in [Tasks -> StatusValues]
    /\ deps \in [Tasks -> SUBSET Tasks]
    /\ taskResult \in [Tasks -> MaybeCommit]
    /\ evidence \in [Tasks -> {"none", "direct", "integration", "override"}]
    /\ asgTask \in [Assignments -> Tasks \cup {NoTask}]
    /\ asgState \in [Assignments -> {"none", "active", "completed", "released"}]
    /\ claim \in [Assignments -> {"none", "active", "released"}]
    /\ latest \in [Tasks -> Assignments \cup {NoAssignment}]
    /\ retired \in [Assignments -> BOOLEAN]
    /\ continues \in [Assignments -> Assignments \cup {NoAssignment}]
    /\ session \in [Assignments -> SessionValues]
    /\ spawnOp \in [Assignments -> OpValues]
    /\ kind \in [Assignments -> {"none", "project", "worktree"}]
    /\ wsState \in [Assignments ->
                       {"none", "desired", "observed", "unknown", "lost"}]
    /\ head \in [Assignments -> Commits]
    /\ result \in [Assignments -> MaybeCommit]
    /\ target \in [Assignments -> MaybeCommit]
    /\ published \in [Assignments -> MaybeCommit]
    /\ opAsg \in [IntegrateOps -> Assignments \cup {NoAssignment}]
    /\ opState \in [IntegrateOps -> OpValues]

Init ==
    /\ status = [t \in Tasks |-> "absent"]
    /\ deps = [t \in Tasks |-> {}]
    /\ taskResult = [t \in Tasks |-> NoCommit]
    /\ evidence = [t \in Tasks |-> "none"]
    /\ asgTask = [a \in Assignments |-> NoTask]
    /\ asgState = [a \in Assignments |-> "none"]
    /\ claim = [a \in Assignments |-> "none"]
    /\ latest = [t \in Tasks |-> NoAssignment]
    /\ retired = [a \in Assignments |-> FALSE]
    /\ continues = [a \in Assignments |-> NoAssignment]
    /\ session = [a \in Assignments |-> "none"]
    /\ spawnOp = [a \in Assignments |-> "none"]
    /\ kind = [a \in Assignments |-> "none"]
    /\ wsState = [a \in Assignments |-> "none"]
    /\ head = [a \in Assignments |-> 0]
    /\ result = [a \in Assignments |-> NoCommit]
    /\ target = [a \in Assignments |-> NoCommit]
    /\ published = [a \in Assignments |-> NoCommit]
    /\ opAsg = [o \in IntegrateOps |-> NoAssignment]
    /\ opState = [o \in IntegrateOps |-> "none"]

-----------------------------------------------------------------------------
(* Queries the handlers share.                                             *)

Worktree(a) == kind[a] = "worktree"

UnresolvedDependencies(t) == {u \in deps[t] : status[u] # "closed"}
OpenClaims(t) == {a \in Assignments : asgTask[a] = t /\ claim[a] = "active"}
OpenAssignments(t) ==
    {a \in Assignments : asgTask[a] = t /\ asgState[a] = "active"}

\* Slips of the readiness query: dependencies ignored, submissions reclaimed.
IsReadyBlocked(t) == status[t] = "open" /\ OpenClaims(t) = {}
IsReadySubmitted(t) ==
    /\ status[t] \in {"open", "submitted"}
    /\ UnresolvedDependencies(t) = {}
    /\ OpenClaims(t) = {}

IsReady(t) ==
    /\ status[t] = "open"
    /\ UnresolvedDependencies(t) = {}
    /\ OpenClaims(t) = {}

\* Slip: a source that is already continued counts as pending again.
PendingRecoveriesForgotten(t) ==
    {a \in Assignments : asgTask[a] = t /\ retired[a]}

\* The task's retired sources that no later assignment continues yet.
PendingRecoveries(t) ==
    {a \in Assignments : /\ asgTask[a] = t
                         /\ retired[a]
                         /\ \A b \in Assignments : continues[b] # a}

\* A session credential is honoured until the session row turns terminal.
CredentialActive(a) == session[a] \in {"starting", "running"}
ProviderIdRecorded(a) == session[a] \in {"running", "exited", "lost"}

IntegrationsOf(a) == {o \in IntegrateOps : opAsg[o] = a}
PendingIntegrationsOf(a) ==
    {o \in IntegrationsOf(a) : opState[o] \in {"desired", "unknown"}}


UnintendedForgotten(a) == \A o \in IntegrationsOf(a) : opState[o] # "desired"
\* No integration of the assignment was ever intended, resolved or not.
Unintended(a) == IntegrationsOf(a) = {}

\* The clean owned worktree's tip is the recorded result.
TipIsRecorded(a) == Worktree(a) /\ result[a] # NoCommit /\ head[a] = result[a]

-----------------------------------------------------------------------------
(* Creating a task and spawning a worker for it.                           *)

\* task.create: the dependencies exist already, so the graph has no cycle.
CreateTask(t, dependencies) ==
    /\ status[t] = "absent"
    /\ dependencies \subseteq {u \in Tasks : status[u] # "absent"}
    /\ status' = [status EXCEPT ![t] = "open"]
    /\ deps' = [deps EXCEPT ![t] = dependencies]
    /\ UNCHANGED <<taskResult, evidence, ownerVars, recoveryVars, workerVars,
                   sourceVars, integrationVars>>

\* agent.spawn, its one transaction: agent, claim, assignment, workspace
\* intent, and the link to a recovered source when the task has one.
Spawn(a, t, k) ==
    /\ asgState[a] = "none"
    /\ IsReady(t)
    /\ PendingRecoveries(t) # {} => k = "worktree"
    /\ status' = [status EXCEPT ![t] = "in_progress"]
    /\ asgTask' = [asgTask EXCEPT ![a] = t]
    /\ asgState' = [asgState EXCEPT ![a] = "active"]
    /\ claim' = [claim EXCEPT ![a] = "active"]
    /\ latest' = [latest EXCEPT ![t] = a]
    /\ \/ PendingRecoveries(t) = {} /\ UNCHANGED continues
       \/ \E b \in PendingRecoveries(t) :
             continues' = [continues EXCEPT ![a] = b]
    /\ kind' = [kind EXCEPT ![a] = k]
    /\ wsState' = [wsState EXCEPT ![a] = "desired"]
    /\ spawnOp' = [spawnOp EXCEPT ![a] = "desired"]
    /\ UNCHANGED <<deps, taskResult, evidence, retired, session, head, result,
                   integrationVars>>

\* The states one observation of the workspace can record.  A desired or
\* unknown worktree that is missing is created; a found or lost one never is.
ObservableStates(a) ==
    IF a \notin FaultyWorktrees THEN {"observed"}
    ELSE IF wsState[a] \in {"desired", "unknown"} THEN {"observed", "unknown"}
    ELSE {"observed", "unknown", "lost"}

\* Slip: the retired source is observed like any other workspace.
MaterializeRetired(a, s) ==
    /\ wsState[a] # "none"
    /\ s \in ObservableStates(a)
    /\ wsState' = [wsState EXCEPT ![a] = s]
    /\ UNCHANGED <<taskVars, ownerVars, recoveryVars, workerVars, kind, head,
                   result, integrationVars>>

\* materialize, from the spawn handler or from the periodic reconciliation.
MaterializeWorkspace(a, s) ==
    /\ wsState[a] # "none"
    /\ ~retired[a]
    /\ s \in ObservableStates(a)
    /\ wsState' = [wsState EXCEPT ![a] = s]
    /\ UNCHANGED <<taskVars, ownerVars, recoveryVars, workerVars, kind, head,
                   result, integrationVars>>

\* An open assignment accepts one session, the first of its generation.
AcceptsSession(a) == asgState[a] = "active" /\ session[a] = "none"

\* The session row, its credential and the launch attempt become durable
\* before the provider is asked to start anything.
PersistSession(a) ==
    /\ spawnOp[a] \in {"desired", "unknown"}
    /\ wsState[a] = "observed"
    /\ AcceptsSession(a)
    /\ session' = [session EXCEPT ![a] = "starting"]
    /\ UNCHANGED <<taskVars, ownerVars, recoveryVars, spawnOp, sourceVars,
                   integrationVars>>

\* What the supervisor may learn next about a session it launched.
NextSession(s) ==
    CASE s = "starting" -> {"running", "quarantined"}
      [] s = "running"  -> {"exited", "lost", "quarantined"}
      [] OTHER          -> {}

\* A provider observation, or the reconciliation of a session after a restart.
ObserveSession(a, s) ==
    /\ s \in NextSession(session[a])
    /\ session' = [session EXCEPT ![a] = s]
    /\ UNCHANGED <<taskVars, ownerVars, recoveryVars, spawnOp, sourceVars,
                   integrationVars>>

\* The state the spawn operation gets when an attempt or the reconciler ends.
\* A launch whose attempts are spent without a session row is given up.
SpawnOutcomes(a) ==
    CASE session[a] = "none" -> {"observed"}
      [] session[a] = "starting" -> {"unknown"}
      [] ProviderIdRecorded(a) \/ session[a] = "quarantined" -> {"observed"}

RecordSpawnOutcome(a, s) ==
    /\ spawnOp[a] \in {"desired", "unknown"}
    /\ s \in SpawnOutcomes(a)
    /\ spawnOp' = [spawnOp EXCEPT ![a] = s]
    /\ UNCHANGED <<taskVars, ownerVars, recoveryVars, session, sourceVars,
                   integrationVars>>

\* The worker, the operator or a later agent commits or resets in the tree.
MoveHead(a, c) ==
    /\ Worktree(a)
    /\ wsState[a] \notin {"none", "desired"}
    /\ head' = [head EXCEPT ![a] = c]
    /\ UNCHANGED <<taskVars, ownerVars, recoveryVars, workerVars, kind,
                   wsState, result, integrationVars>>

-----------------------------------------------------------------------------
(* Leaving in_progress: every path releases the claim and the assignment.  *)

\* release_task_ownership closes every open row of the task, and fails the
\* whole transaction unless it closed exactly one of each.
ReleaseOwnership(t, s) ==
    /\ \E a \in Assignments : OpenAssignments(t) = {a}
    /\ \E a \in Assignments : OpenClaims(t) = {a}
    /\ asgState' = [a \in Assignments |->
                       IF a \in OpenAssignments(t) THEN s ELSE asgState[a]]
    /\ claim' = [a \in Assignments |->
                    IF a \in OpenClaims(t) THEN "released" ELSE claim[a]]
    /\ UNCHANGED <<asgTask, latest>>

Submit(t, c) ==
    /\ status[t] = "in_progress"
    /\ ReleaseOwnership(t, "completed")
    /\ status' = [status EXCEPT ![t] = "submitted"]
    /\ taskResult' = [taskResult EXCEPT ![t] = c]
    /\ UNCHANGED <<deps, evidence>>

Reopen(t) ==
    /\ status[t] = "in_progress"
    /\ ReleaseOwnership(t, "released")
    /\ status' = [status EXCEPT ![t] = "open"]
    /\ taskResult' = [taskResult EXCEPT ![t] = NoCommit]
    /\ UNCHANGED <<deps, evidence>>

\* Slip: a live credential is taken for a live assignment.
MayFinishStale(a) == asgState[a] # "none" /\ CredentialActive(a)
\* The caller of finish still owns an active assignment.
MayFinish(a) == asgState[a] = "active" /\ CredentialActive(a)

\* record_workspace_result_commit: the first commit recorded stays.
RecordResult(a, c) ==
    /\ result[a] \in {NoCommit, c}
    /\ result' = [result EXCEPT ![a] = c]

\* result_commit: the tip of the owned worktree, which must be complete and
\* clean; a directory of another kind has none.
ResultCommit(a) == IF Worktree(a) THEN head[a] ELSE NoCommit

\* finish --completed whose first transaction commits and whose second one,
\* the submission, never runs: the result is recorded, nothing else happened.
InterruptFinish(a) ==
    /\ MayFinish(a)
    /\ Worktree(a)
    /\ RecordResult(a, ResultCommit(a))
    /\ UNCHANGED <<taskVars, ownerVars, recoveryVars, workerVars, kind,
                   wsState, head, integrationVars>>

FinishCompleted(a) ==
    /\ MayFinish(a)
    /\ IF ResultCommit(a) = NoCommit THEN UNCHANGED result
       ELSE RecordResult(a, ResultCommit(a))
    /\ Submit(asgTask[a], result'[a])
    /\ UNCHANGED <<recoveryVars, workerVars, kind, wsState, head,
                   integrationVars>>

FinishFailed(a) ==
    /\ MayFinish(a)
    /\ Reopen(asgTask[a])
    /\ UNCHANGED <<recoveryVars, workerVars, sourceVars, integrationVars>>

-----------------------------------------------------------------------------
(* Work whose worker is gone.                                              *)

\* interrupted_assignment_preflight: the assignment still owns its claim, its
\* worker is verifiably inactive, nothing about it is pending, and no result
\* is recorded other than the one being submitted.
InterruptedPreflight(a, acknowledgeLost, retained) ==
    /\ asgState[a] = "active"
    /\ status[asgTask[a]] = "in_progress"
    /\ claim[a] = "active"
    /\ session[a] = IF acknowledgeLost THEN "lost" ELSE "exited"
    /\ spawnOp[a] = "observed"
    /\ Unintended(a)
    /\ Worktree(a)
    /\ wsState[a] = "observed"
    /\ result[a] \in {NoCommit, retained}
    /\ target[a] = NoCommit

\* task recover [--acknowledge-lost]
Recover(a, acknowledgeLost) ==
    /\ InterruptedPreflight(a, acknowledgeLost, NoCommit)
    /\ Reopen(asgTask[a])
    /\ retired' = [retired EXCEPT ![a] = TRUE]
    /\ UNCHANGED <<continues, workerVars, sourceVars, integrationVars>>

\* task submit-retained: the reviewed commit is the clean tip.
SubmitRetained(a) ==
    /\ InterruptedPreflight(a, FALSE, head[a])
    /\ RecordResult(a, head[a])
    /\ Submit(asgTask[a], head[a])
    /\ UNCHANGED <<recoveryVars, workerVars, kind, wsState, head,
                   integrationVars>>

\* Slip: the task's status is not consulted.
LatestCompleted(a) == asgState[a] = "completed" /\ latest[asgTask[a]] = a

\* Only the task's current submission may be corrected.
CurrentSubmission(a) ==
    /\ asgState[a] = "completed"
    /\ status[asgTask[a]] = "submitted"
    /\ latest[asgTask[a]] = a

\* The replacement is the clean tip and keeps the commits it corrects.
PreservesSubmission(a) == head[a] > result[a]

\* task resubmit: correct a submitted result before any integration intent.
Resubmit(a) ==
    LET t == asgTask[a] IN
    /\ CurrentSubmission(a)
    /\ Worktree(a)
    /\ wsState[a] = "observed"
    /\ target[a] = NoCommit
    /\ Unintended(a)
    /\ taskResult[t] = result[a]
    /\ PreservesSubmission(a)
    /\ result' = [result EXCEPT ![a] = head[a]]
    /\ taskResult' = [taskResult EXCEPT ![t] = head[a]]
    /\ UNCHANGED <<status, deps, evidence, ownerVars, recoveryVars, workerVars,
                   kind, wsState, head, integrationVars>>

-----------------------------------------------------------------------------
(* Integration.  Where the target branch stands is abstracted: publishing  *)
(* may happen, or fail, whenever an operation is unresolved.               *)

\* workspace integrate: the preflight and the durable intent.
RequestIntegration(o, a) ==
    /\ opState[o] = "none"
    /\ asgState[a] = "completed"
    /\ status[asgTask[a]] = "submitted"
    /\ wsState[a] = "observed"
    /\ target[a] = NoCommit
    /\ TipIsRecorded(a)
    /\ opAsg' = [opAsg EXCEPT ![o] = a]
    /\ opState' = [opState EXCEPT ![o] = "desired"]
    /\ UNCHANGED <<taskVars, ownerVars, recoveryVars, workerVars, sourceVars,
                   target, published>>

\* GitWorkspace::integrate moves the target reference, from the handler, a
\* retry or the reconciler; the store does not know yet.
PublishResult(o) ==
    LET a == opAsg[o] IN
    /\ opState[o] \in {"desired", "unknown"}
    /\ TipIsRecorded(a)
    /\ published' = [published EXCEPT ![a] = result[a]]
    /\ UNCHANGED <<taskVars, ownerVars, recoveryVars, workerVars, sourceVars,
                   target, opAsg, opState>>

\* One transaction records the target commit and resolves the operation.
RecordIntegration(o) ==
    LET a == opAsg[o] IN
    /\ opState[o] # "none"
    /\ TipIsRecorded(a)
    /\ published[a] = result[a]
    /\ target[a] \in {NoCommit, result[a]}
    /\ target' = [target EXCEPT ![a] = result[a]]
    /\ opState' = [opState EXCEPT ![o] = "observed"]
    /\ UNCHANGED <<taskVars, ownerVars, recoveryVars, workerVars, sourceVars,
                   published, opAsg>>

\* Any failed attempt, the replay of a resolved operation included.
FailIntegration(o) ==
    /\ opState[o] # "none"
    /\ opState' = [opState EXCEPT ![o] = "unknown"]
    /\ UNCHANGED <<taskVars, ownerVars, recoveryVars, workerVars, sourceVars,
                   target, published, opAsg>>

\* The reconciler trusts a target commit another attempt recorded.
AdoptIntegration(o) ==
    /\ opState[o] \in {"desired", "unknown"}
    /\ target[opAsg[o]] # NoCommit
    /\ opState' = [opState EXCEPT ![o] = "observed"]
    /\ UNCHANGED <<taskVars, ownerVars, recoveryVars, workerVars, sourceVars,
                   target, published, opAsg>>

-----------------------------------------------------------------------------
(* Acceptance.                                                             *)

\* Slip: a recorded result passes for an integrated one.
AcceptanceMetUnintegrated(a) == Worktree(a) => result[a] # NoCommit
AcceptanceMet(a) == Worktree(a) => target[a] # NoCommit

\* task close: worktree work needs a recorded integration.
CloseTask(t) ==
    LET a == latest[t] IN
    /\ status[t] = "submitted"
    /\ AcceptanceMet(a)
    /\ status' = [status EXCEPT ![t] = "closed"]
    /\ evidence' = [evidence EXCEPT
                       ![t] = IF Worktree(a) THEN "integration" ELSE "direct"]
    /\ UNCHANGED <<deps, taskResult, ownerVars, recoveryVars, workerVars,
                   sourceVars, integrationVars>>

\* task close --override: operator acceptance of work coterie did not
\* integrate, refused while an integration of it is pending.
CloseOverride(t) ==
    LET a == latest[t] IN
    /\ status[t] = "submitted"
    /\ asgState[a] = "completed"
    /\ wsState[a] = "observed"
    /\ target[a] = NoCommit
    /\ TipIsRecorded(a)
    /\ PendingIntegrationsOf(a) = {}
    /\ status' = [status EXCEPT ![t] = "closed"]
    /\ evidence' = [evidence EXCEPT ![t] = "override"]
    /\ UNCHANGED <<deps, taskResult, ownerVars, recoveryVars, workerVars,
                   sourceVars, integrationVars>>

-----------------------------------------------------------------------------
TaskStep(t) ==
    \/ \E dependencies \in SUBSET Tasks : CreateTask(t, dependencies)
    \/ \E a \in Assignments, k \in RoleKinds : Spawn(a, t, k)
    \/ CloseTask(t)
    \/ CloseOverride(t)

WorkerStep(a) ==
    \/ \E s \in {"observed", "unknown", "lost"} : MaterializeWorkspace(a, s)
    \/ PersistSession(a)
    \/ \E s \in SessionValues : ObserveSession(a, s)
    \/ \E s \in OpValues : RecordSpawnOutcome(a, s)
    \/ \E c \in Commits : MoveHead(a, c)
    \/ InterruptFinish(a)
    \/ FinishCompleted(a)
    \/ FinishFailed(a)
    \/ \E acknowledgeLost \in BOOLEAN : Recover(a, acknowledgeLost)
    \/ SubmitRetained(a)
    \/ Resubmit(a)

IntegrationStep(o) ==
    \/ \E a \in Assignments : RequestIntegration(o, a)
    \/ PublishResult(o)
    \/ RecordIntegration(o)
    \/ FailIntegration(o)
    \/ AdoptIntegration(o)

Next ==
    \/ \E t \in Tasks : TaskStep(t)
    \/ \E a \in Assignments : WorkerStep(a)
    \/ \E o \in IntegrateOps : IntegrationStep(o)

Spec == Init /\ [][Next]_vars

-----------------------------------------------------------------------------
(* Safety.                                                                 *)

\* A task in progress is owned through exactly one open claim and one open
\* assignment, both of its latest worker, and no other task is owned at all:
\* the reason release_task_ownership may insist on one row of each.
OwnershipExclusive ==
    \A t \in Tasks :
        LET rows == IF status[t] = "in_progress" THEN {latest[t]} ELSE {}
        IN  OpenAssignments(t) = rows /\ OpenClaims(t) = rows

\* Work on a task never starts, or counts, before everything it depends on
\* is accepted; acceptance of a dependency is never withdrawn later.
DependenciesAccepted ==
    \A t \in Tasks :
        status[t] \in {"in_progress", "submitted", "closed"} =>
            UnresolvedDependencies(t) = {}

\* A submitted or accepted task carries the result of its latest assignment,
\* which completed: tasks.result_json and workspaces.result_commit, written
\* by finish, submit-retained and resubmit, never drift apart.
SubmissionConsistent ==
    \A t \in Tasks :
        status[t] \in {"submitted", "closed"} =>
            /\ asgState[latest[t]] = "completed"
            /\ taskResult[t] = result[latest[t]]
            /\ Worktree(latest[t]) => result[latest[t]] # NoCommit

\* The target branch only ever receives completed work, and what it received
\* is still the recorded result, whatever was corrected, retried or left
\* unrecorded by a crash between the reference update and its transaction.
PublishedIsRecorded ==
    \A a \in Assignments :
        published[a] # NoCommit =>
            asgState[a] = "completed" /\ published[a] = result[a]

\* Accepted worktree work is either in the target branch as recorded, or
\* accepted by an operator over work coterie did not integrate.
ClosureEvidence ==
    \A t \in Tasks :
        LET a == latest[t] IN
        status[t] = "closed" =>
            CASE evidence[t] = "integration" ->
                    /\ Worktree(a)
                    /\ target[a] = taskResult[t]
                    /\ published[a] = taskResult[t]
              [] evidence[t] = "override" -> Worktree(a) /\ target[a] = NoCommit
              [] OTHER -> ~Worktree(a)

\* An operator override and a guarded integration of the same work exclude
\* each other for good: nothing was, or will be, published behind it.
OverrideStandsAlone ==
    \A t \in Tasks :
        evidence[t] = "override" =>
            Unintended(latest[t]) /\ published[latest[t]] = NoCommit

\* Interrupted work is handed on exactly once: at most one retired source of
\* a task waits, only while the task is open, and every continuation is a
\* fresh worktree of the same task that no other assignment also continues.
RecoveryHandedOn ==
    /\ \A t \in Tasks :
          /\ \A a, b \in PendingRecoveries(t) : a = b
          /\ PendingRecoveries(t) # {} => status[t] = "open"
    /\ \A b \in Assignments :
          LET a == continues[b] IN
          a # NoAssignment =>
              /\ retired[a] /\ asgTask[a] = asgTask[b] /\ a # b
              /\ Worktree(b)
              /\ \A c \in Assignments : continues[c] = a => c = b

\* A retired source is fenced: no late observation, finish, submission or
\* integration changes what the ledger says of it.
RetiredSourceFenced ==
    [][\A a \in Assignments :
          retired[a] =>
              /\ retired'[a]
              /\ asgState'[a] = asgState[a] /\ session'[a] = session[a]
              /\ wsState'[a] = wsState[a] /\ result'[a] = result[a]
              /\ published'[a] = published[a]]_vars

\* Acceptance is final: the task, its evidence, and the identity of the work
\* it stands for stay what they were when dependents were released.
AcceptedWorkFixed ==
    [][\A t \in Tasks :
          LET a == latest[t] IN
          status[t] = "closed" =>
              /\ status'[t] = "closed" /\ latest'[t] = a
              /\ taskResult'[t] = taskResult[t] /\ evidence'[t] = evidence[t]
              /\ result'[a] = result[a]
              /\ target'[a] = target[a] /\ published'[a] = published[a]]_vars

\* The ledger implements the lifecycle it promises.
Lifecycle ==
    INSTANCE TaskLifecycle WITH
        Workers <- Assignments,
        owners <- [t \in Tasks |-> OpenAssignments(t)],
        author <- [t \in Tasks |->
                      IF status[t] \in {"submitted", "closed"}
                      THEN {latest[t]} ELSE {}],
        spent <- {a \in Assignments : asgState[a] \in {"completed", "released"}}

\* Every step of the store is a step of TaskLifecycle or leaves it alone.
ImplementsLifecycle == Lifecycle!Spec
=============================================================================

--------------------------------- MODULE Spawn ---------------------------------
(***************************************************************************)
(* Background worker spawns: the command with its operation id, admission  *)
(* under the run's ceilings, the transaction that claims the task, and the *)
(* reconciler that finishes what a dead supervisor left.  Clients repeat   *)
(* commands at will; the supervisor is one thread, so a spawn runs from    *)
(* its claim to its answer with no other command between, but it may die   *)
(* after any transaction.                                                  *)
(*                                                                         *)
(* Source: supervisor.rs (spawn_agent and the operation reconcilers),      *)
(* supervisor/admission.rs, state.rs and state/supervision.rs.  The launch *)
(* itself is abstracted from SessionLifecycle, the assignment from         *)
(* TaskLedger; agent, session, assignment and workspace ids are drawn      *)
(* together and share one name here.                                       *)
(***************************************************************************)
EXTENDS Naturals, FiniteSets

CONSTANTS
    Operations,         \* operation ids of spawn commands
    Tasks,              \* tasks of one project directory, none depending
    Agents,             \* background agents, with what is drawn with them
    Lead,               \* the foreground agent
    LeadRole,           \* its role
    Roles,              \* the enabled background roles
    ProjectRoles,       \* those that write the project directory itself
    RoleLimit,          \* roles.<role>.max_instances
    MaxConcurrent,      \* limits.max_concurrent_agents
    MaxAgentsPerRun,    \* limits.max_agents_per_run
    MaxPerMinute,       \* limits.max_spawns_per_minute
    MaxLaunchAttempts,  \* supervision.max_launch_attempts
    MaxCrashes,         \* bound: supervisor deaths
    NoAgent, NoOperation, NoTask, NoRole

ASSUME NameAssumption ==
    /\ Lead \notin Agents
    /\ NoAgent \notin Agents \cup {Lead}
    /\ NoOperation \notin Operations
    /\ NoTask \notin Tasks
    /\ LeadRole \notin Roles
    /\ NoRole \notin Roles \cup {LeadRole}
    /\ ProjectRoles \subseteq Roles
ASSUME LimitAssumption ==
    /\ RoleLimit \in [Roles -> Nat \ {0}]
    /\ {MaxConcurrent, MaxAgentsPerRun, MaxPerMinute, MaxLaunchAttempts}
        \subseteq Nat \ {0}
    /\ MaxCrashes \in Nat

VARIABLES
    operation,   \* the row of operations, with the intent it stores
    agent,       \* the row of agents; its session's lifecycle is the same
    task,        \* status of a task and whether its last work was recovered
    assignment,  \* the row of assignments, claim included
    workspace,   \* workspaces.state
    session,     \* the row of sessions and of session_launch_attempts
    process,     \* worker processes started, and whether one lives (outside)
    recent,      \* operations created in the rolling minute
    loop,        \* where the supervisor's thread stands
    answers,     \* successful answers a client has received
    crashes      \* supervisor deaths so far

ledger == <<task, assignment>>
vars == <<operation, agent, task, assignment, workspace, session, process,
          recent, loop, answers, crashes>>

-----------------------------------------------------------------------------
(* Rows *)

Operation(role, t, a, reconciliation, attempts) ==
    [role |-> role, task |-> t, agent |-> a,
     reconciliation |-> reconciliation, attempts |-> attempts]

NotRequested == Operation(NoRole, NoTask, NoAgent, "none", 0)

Agent(role, state) == [role |-> role, state |-> state]

Assignment(t, state) == [task |-> t, state |-> state]

Session(reconciliation, identified, attempts, in_flight, backoff) ==
    [reconciliation |-> reconciliation, identified |-> identified,
     attempts |-> attempts, in_flight |-> in_flight, backoff |-> backoff]

NoSession == Session("none", FALSE, 0, FALSE, FALSE)

Everyone == Agents \cup {Lead}

TerminalStates == {"exited", "lost", "quarantined"}

Exists(a) == agent[a].state # "none"

Ended(a) == agent[a].state \in TerminalStates

Recorded(o) == operation[o].agent # NoAgent

Unstarted(a) == session[a].reconciliation = "none"

Retryable(a) == session[a].attempts > 0 /\ ~session[a].in_flight

Requests == Roles \X Tasks

NoRequest == <<NoRole, NoTask>>

(* The thread attends operation o, for a client that asked for request or   *)
(* for the reconciler.                                                     *)
At(stage, o, request) == [stage |-> stage, operation |-> o, asked |-> request]

Serving == At("serve", NoOperation, NoRequest)

Down == At("down", NoOperation, NoRequest)

Attends(stage, o) == loop.stage = stage /\ loop.operation = o

Proceed(stage) == loop' = At(stage, loop.operation, loop.asked)

OperationRows ==
    [role : Roles \cup {NoRole}, task : Tasks \cup {NoTask},
     agent : Agents \cup {NoAgent},
     reconciliation : {"none", "desired", "observed", "unknown", "lost"},
     attempts : 0..MaxLaunchAttempts]

AgentRows ==
    [role : Roles \cup {LeadRole, NoRole},
     state : {"none", "starting", "running", "unknown"} \cup TerminalStates]

TaskRows ==
    [status : {"open", "in_progress", "submitted"},
     recovered : BOOLEAN]

AssignmentRows ==
    [task : Tasks \cup {NoTask},
     state : {"none", "active", "completed", "released"}]

WorkspaceStates == {"none", "desired", "observed", "unknown", "lost"}

SessionRows ==
    [reconciliation : {"none", "desired", "observed", "unknown", "lost"},
     identified : BOOLEAN, attempts : 0..MaxLaunchAttempts,
     in_flight : BOOLEAN, backoff : BOOLEAN]

Processes == [started : Nat, alive : BOOLEAN]

Threads ==
    [stage : {"serve", "attempt", "launch", "admit", "start", "record",
              "finish", "failed", "down"},
     operation : Operations \cup {NoOperation},
     asked : Requests \cup {NoRequest}]

TypeOK ==
    /\ operation \in [Operations -> OperationRows]
    /\ agent \in [Everyone -> AgentRows]
    /\ task \in [Tasks -> TaskRows]
    /\ assignment \in [Agents -> AssignmentRows]
    /\ workspace \in [Agents -> WorkspaceStates]
    /\ session \in [Agents -> SessionRows]
    /\ process \in [Agents -> Processes]
    /\ recent \subseteq Operations
    /\ loop \in Threads
    /\ answers \in [Operations -> SUBSET (Requests \X Agents)]
    /\ crashes \in 0..MaxCrashes

Init ==
    /\ operation = [o \in Operations |-> NotRequested]
    /\ agent = [a \in Everyone |-> Agent(NoRole, "none")]
    /\ task = [t \in Tasks |-> [status |-> "open", recovered |-> FALSE]]
    /\ assignment = [a \in Agents |-> Assignment(NoTask, "none")]
    /\ workspace = [a \in Agents |-> "none"]
    /\ session = [a \in Agents |-> NoSession]
    /\ process = [a \in Agents |-> [started |-> 0, alive |-> FALSE]]
    /\ recent = {}
    /\ loop = Serving
    /\ answers = [o \in Operations |-> {}]
    /\ crashes = 0

-----------------------------------------------------------------------------
(* Admission: the ceilings of the saved configuration *)

(* An agent whose state is unknown still takes a slot. *)
Active == {a \in Everyone: Exists(a) /\ ~Ended(a)}

AgentsOfRun == {a \in Everyone: Exists(a)}

RoleBudget(role) ==
    Cardinality({a \in Active: agent[a].role = role}) < RoleLimit[role]

ConcurrencyBudget == Cardinality(Active) < MaxConcurrent

(* Slip: an agent that ended gives its admission back. *)
LifetimeOfActive == Cardinality(Active) < MaxAgentsPerRun

LifetimeBudget == Cardinality(AgentsOfRun) < MaxAgentsPerRun

RateBudget == Cardinality(recent) < MaxPerMinute

Admissible(role) ==
    RateBudget /\ RoleBudget(role) /\ LifetimeBudget /\ ConcurrencyBudget

(* workspace_path_ownership: who may still write the project directory.    *)
Writes(a) == Exists(a) /\ agent[a].role \in ProjectRoles

(* Slip: a finished assignment gives the directory up at once. *)
HoldsDirectoryWorking(a) == Writes(a) /\ assignment[a].state = "active"

HoldsDirectory(a) ==
    /\ Writes(a)
    /\ \/ assignment[a].state \notin {"completed", "released"}
       \/ session[a].reconciliation # "observed"
       \/ agent[a].state # "exited"

DirectoryFree(role) ==
    role \in ProjectRoles => \A a \in Agents: ~HoldsDirectory(a)

Ready(t) ==
    /\ task[t].status = "open"
    /\ \A a \in Agents: assignment[a] # Assignment(t, "active")

(* Recovered work continues in a worktree of its own. *)
Continuable(role, t) == task[t].recovered => role \notin ProjectRoles

-----------------------------------------------------------------------------
(* The command *)

(* One transaction: the operation with its result, the agent, the claim,   *)
(* the assignment and the desired workspace.                               *)
SpawnNew(o, role, t, a) ==
    /\ loop = Serving
    /\ ~Recorded(o)
    /\ Ready(t)
    /\ Continuable(role, t)
    /\ Admissible(role)
    /\ ~Exists(a)
    /\ DirectoryFree(role)
    /\ operation' = [operation EXCEPT ![o] =
                        Operation(role, t, a, "desired", 0)]
    /\ agent' = [agent EXCEPT ![a] = Agent(role, "starting")]
    /\ task' = [task EXCEPT ![t] =
                    [status |-> "in_progress", recovered |-> FALSE]]
    /\ assignment' = [assignment EXCEPT ![a] = Assignment(t, "active")]
    /\ workspace' = [workspace EXCEPT ![a] = "desired"]
    /\ recent' = recent \cup {o}
    /\ loop' = At("attempt", o, <<role, t>>)
    /\ UNCHANGED <<session, process, answers, crashes>>

SameRequest(o, role, t) ==
    Recorded(o) /\ operation[o].role = role /\ operation[o].task = t

(* mutate finds the operation: its stored intent is completed or answered. *)
SpawnReplayed(o, role, t) ==
    /\ loop = Serving
    /\ SameRequest(o, role, t)
    /\ loop' = At("attempt", o, <<role, t>>)
    /\ UNCHANGED <<operation, agent, ledger, workspace, session, process,
                   recent, answers, crashes>>

(* The first launch of the lead admits an agent; a new generation of it     *)
(* takes a slot of concurrency again.                                      *)
LaunchForeground ==
    /\ loop = Serving
    /\ Exists(Lead) => Ended(Lead)
    /\ ~Exists(Lead) => LifetimeBudget
    /\ ConcurrencyBudget
    /\ agent' = [agent EXCEPT ![Lead] = Agent(LeadRole, "starting")]
    /\ UNCHANGED <<operation, ledger, workspace, session, process, recent,
                   loop, answers, crashes>>

(* A running or lost lead counts as an unknown or exited one does.          *)
LeadObserved ==
    /\ loop = Serving
    /\ agent[Lead].state \in {"starting", "unknown"}
    /\ \E state \in {"unknown", "exited"} \ {agent[Lead].state}:
        agent' = [agent EXCEPT ![Lead] = Agent(LeadRole, state)]
    /\ UNCHANGED <<operation, ledger, workspace, session, process, recent,
                   loop, answers, crashes>>

(* A spawn leaves the rolling sixty seconds.  Time, like a worker's exit,   *)
(* is seen only between attempts.                                          *)
MinutePasses(o) ==
    /\ loop = Serving
    /\ o \in recent
    /\ recent' = recent \ {o}
    /\ UNCHANGED <<operation, agent, ledger, workspace, session, process,
                   loop, answers, crashes>>

-----------------------------------------------------------------------------
(* One attempt to complete a spawn: workspace, session, process, record *)

Answered(o) ==
    answers' = IF loop.asked = NoRequest THEN answers
               ELSE [answers EXCEPT ![o] =
                        @ \cup {<<loop.asked, operation[o].agent>>}]

(* A launch quarantined before its session is not tried again. *)
AttemptRefused(o) ==
    /\ Attends("attempt", o)
    /\ Unstarted(operation[o].agent)
    /\ Ended(operation[o].agent)
    /\ loop' = Serving
    /\ UNCHANGED <<operation, agent, ledger, workspace, session, process,
                   recent, answers, crashes>>

(* A completed launch is answered, whatever became of its worker since.    *)
AttemptAnswered(o) ==
    /\ Attends("attempt", o)
    /\ ~(Unstarted(operation[o].agent) /\ Ended(operation[o].agent))
    /\ operation[o].reconciliation = "observed"
    /\ Answered(o)
    /\ loop' = Serving
    /\ UNCHANGED <<operation, agent, ledger, workspace, session, process,
                   recent, crashes>>

(* What materialize records: a workspace once seen is never made again.    *)
Materialized(state) ==
    IF state \in {"desired", "unknown"} THEN {"observed", "unknown"}
    ELSE {"observed", "unknown", "lost"}

Materialize(o) ==
    LET a == operation[o].agent
    IN /\ Attends("attempt", o)
       /\ ~(Unstarted(a) /\ Ended(a))
       /\ operation[o].reconciliation # "observed"
       /\ \E state \in Materialized(workspace[a]):
            /\ workspace' = [workspace EXCEPT ![a] = state]
            /\ Proceed(IF state = "observed" THEN "launch" ELSE "failed")
       /\ UNCHANGED <<operation, agent, ledger, session, process, recent,
                      answers, crashes>>

(* The provider cannot be probed or lacks a capability the role needs.     *)
ProbeFails(o) ==
    /\ Attends("launch", o)
    /\ Proceed("failed")
    /\ UNCHANGED <<operation, agent, ledger, workspace, session, process,
                   recent, answers, crashes>>

PersistIntent(o) ==
    LET a == operation[o].agent
    IN /\ Attends("launch", o)
       /\ Unstarted(a)
       /\ agent[a].state = "starting"
       /\ session' = [session EXCEPT ![a] =
                        Session("desired", FALSE, 0, FALSE, FALSE)]
       /\ Proceed("admit")
       /\ UNCHANGED <<operation, agent, ledger, workspace, process, recent,
                      answers, crashes>>

EnsureExistingLaunch(o) ==
    LET a == operation[o].agent
    IN /\ Attends("launch", o)
       /\ ~Unstarted(a)
       /\ Proceed(CASE session[a].reconciliation = "desired" -> "admit"
                    [] session[a].reconciliation = "observed"
                            /\ agent[a].state # "quarantined" -> "finish"
                    [] OTHER -> "failed")
       /\ UNCHANGED <<operation, agent, ledger, workspace, session, process,
                      recent, answers, crashes>>

MayLaunch(a) == ~session[a].in_flight /\ ~session[a].backoff

(* The attempts a launch may be counted at: the next of its restart window, *)
(* or the first of a new one once that has passed.                         *)
Attempts(a) == {1, session[a].attempts + 1} \cap 1..MaxLaunchAttempts

AdmitLaunch(o) ==
    LET a == operation[o].agent
    IN /\ Attends("admit", o)
       /\ \/ /\ MayLaunch(a)
             /\ \E attempts \in Attempts(a):
                    session' = [session EXCEPT ![a] =
                        Session("desired", FALSE, attempts, TRUE, FALSE)]
             /\ Proceed("start")
          \/ /\ ~MayLaunch(a) \/ session[a].attempts >= MaxLaunchAttempts
             /\ Proceed("failed")
             /\ UNCHANGED session
       /\ UNCHANGED <<operation, agent, ledger, workspace, process, recent,
                      answers, crashes>>

(* next_attempt_at, set at admission, matters once the attempt failed.      *)
BackoffElapses(a) ==
    /\ loop.stage \in {"serve", "down"}
    /\ session[a].backoff
    /\ session' = [session EXCEPT ![a].backoff = FALSE]
    /\ UNCHANGED <<operation, agent, ledger, workspace, process, recent,
                   loop, answers, crashes>>

StartProvider(o) ==
    LET a == operation[o].agent
    IN /\ Attends("start", o)
       /\ process' = [process EXCEPT ![a] =
                        [started |-> @.started + 1, alive |-> TRUE]]
       /\ Proceed("record")
       /\ UNCHANGED <<operation, agent, ledger, workspace, session, recent,
                      answers, crashes>>

(* Proved before any process: retried until the launch budget is spent.    *)
StartProvedFailed(o) ==
    LET a == operation[o].agent
        spent == session[a].attempts >= MaxLaunchAttempts
    IN /\ Attends("start", o)
       /\ session' = [session EXCEPT ![a] =
                        Session(IF spent THEN "observed" ELSE "desired",
                                FALSE, @.attempts, FALSE, ~spent)]
       /\ agent' = IF spent
                   THEN [agent EXCEPT ![a] = Agent(@.role, "quarantined")]
                   ELSE agent
       /\ Proceed("failed")
       /\ UNCHANGED <<operation, ledger, workspace, process, recent,
                      answers, crashes>>

(* Slip: any error of the provider is taken for a start that never was. *)
StartPresumedFailed(o) ==
    LET a == operation[o].agent
    IN /\ Attends("start", o)
       /\ \E alive \in BOOLEAN:
            process' = [process EXCEPT ![a] =
                        [started |-> @.started + 1, alive |-> alive]]
       /\ session' = [session EXCEPT ![a] =
                        Session("desired", FALSE, @.attempts, FALSE, TRUE)]
       /\ Proceed("failed")
       /\ UNCHANGED <<operation, agent, ledger, workspace, recent, answers,
                      crashes>>

StartUnproved(o) ==
    LET a == operation[o].agent
    IN /\ Attends("start", o)
       /\ \E alive \in BOOLEAN:
            process' = [process EXCEPT ![a] =
                        [started |-> @.started + 1, alive |-> alive]]
       /\ session' = [session EXCEPT ![a] =
                        Session("unknown", FALSE, @.attempts, TRUE, FALSE)]
       /\ agent' = [agent EXCEPT ![a] = Agent(@.role, "unknown")]
       /\ Proceed("failed")
       /\ UNCHANGED <<operation, ledger, workspace, recent, answers, crashes>>

RecordLaunch(o) ==
    LET a == operation[o].agent
    IN /\ Attends("record", o)
       /\ session' = [session EXCEPT ![a] =
                        Session("observed", TRUE, @.attempts, TRUE, FALSE)]
       /\ Proceed("finish")
       /\ UNCHANGED <<operation, agent, ledger, workspace, process, recent,
                      answers, crashes>>

-----------------------------------------------------------------------------
(* The record of an attempt, and the reconciler *)

(* record_operation_reconciliation counts every record; only its reaching  *)
(* the limit is told apart.                                                *)
Reconciled(row, state) ==
    Operation(row.role, row.task, row.agent, state,
              IF row.attempts < MaxLaunchAttempts THEN row.attempts + 1
              ELSE row.attempts)

(* Slip: a session, whatever its state, shows that the launch happened. *)
SpawnPresumed(a) == IF Unstarted(a) THEN "desired" ELSE "observed"

SpawnReconciliationState(a) ==
    IF session[a].identified THEN "observed"
    ELSE IF Unstarted(a) THEN "desired" ELSE session[a].reconciliation

Complete(o) ==
    /\ Attends("finish", o)
    /\ operation' = [operation EXCEPT ![o] = Reconciled(@, "observed")]
    /\ Answered(o)
    /\ loop' = Serving
    /\ UNCHANGED <<agent, ledger, workspace, session, process, recent,
                   crashes>>

(* quarantine_unstarted_agent: an agent that never had a session.          *)
Quarantined(a) ==
    IF Unstarted(a) /\ agent[a].state = "starting"
    THEN [agent EXCEPT ![a] = Agent(@.role, "quarantined")] ELSE agent

(* The failure is recorded; at the limit an agent that never had a session *)
(* is quarantined and its operation closed.                                *)
RecordFailure(o) ==
    LET a == operation[o].agent
        row == Reconciled(operation[o], SpawnReconciliationState(a))
        stop == Unstarted(a) /\ row.attempts >= MaxLaunchAttempts
    IN /\ Attends("failed", o)
       /\ operation' = [operation EXCEPT ![o] =
                            IF stop THEN Reconciled(row, "observed") ELSE row]
       /\ agent' = IF stop THEN Quarantined(a) ELSE agent
       /\ loop' = Serving
       /\ UNCHANGED <<ledger, workspace, session, process, recent, answers,
                      crashes>>

Requires(o) == operation[o].reconciliation \in {"desired", "unknown"}

(* record_operation_reconciliation leaves alone what it has recorded.      *)
Unrecorded(o, state) == state # operation[o].reconciliation

(* The session tells how the launch ended; only one that never started, or *)
(* is still desired, is attempted again.                                   *)
Reconcile(o) ==
    LET a == operation[o].agent
        state == SpawnReconciliationState(a)
    IN /\ loop = Serving
       /\ Requires(o)
       /\ IF state = "desired"
          THEN loop' = At("attempt", o, NoRequest) /\ UNCHANGED operation
          ELSE /\ Unrecorded(o, state)
               /\ operation' = [operation EXCEPT ![o] = Reconciled(@, state)]
               /\ UNCHANGED loop
       /\ UNCHANGED <<agent, ledger, workspace, session, process, recent,
                      answers, crashes>>

-----------------------------------------------------------------------------
(* Workers, and what the rest of the supervisor does with them *)

WorkerExits(a) ==
    /\ loop.stage \in {"serve", "down"}
    /\ process[a].alive
    /\ process' = [process EXCEPT ![a].alive = FALSE]
    /\ UNCHANGED <<operation, agent, ledger, workspace, session, recent, loop,
                   answers, crashes>>

(* A state the provider reports: an end only once the process is gone.     *)
Reports(a) ==
    CASE agent[a].state = "starting" /\ process[a].alive -> {"running"}
      [] agent[a].state \in {"starting", "running"} /\ ~process[a].alive
            -> {"exited", "quarantined"}
      [] agent[a].state = "unknown" /\ ~process[a].alive -> {"lost"}
      [] OTHER -> {}

WorkerObserved(a) ==
    /\ loop = Serving
    /\ session[a].identified
    /\ \E state \in Reports(a):
        /\ agent' = [agent EXCEPT ![a] = Agent(@.role, state)]
        /\ session' = [session EXCEPT ![a].reconciliation =
                        IF state = "lost" THEN "lost" ELSE "observed"]
    /\ UNCHANGED <<operation, ledger, workspace, process, recent, loop,
                   answers, crashes>>

(* A credential is honoured until its session is known to have ended, also *)
(* while nobody knows its state; a request may outlive the process sending *)
(* it.  Only a process that was started ever had the token.                *)
CredentialActive(a) == process[a].started > 0 /\ ~Ended(a)

(* finish: the task leaves in_progress and its assignment is closed, while *)
(* the worker that reports it lives on.                                    *)
FinishAssignment(a, state, status) ==
    /\ loop = Serving
    /\ assignment[a].state = "active"
    /\ CredentialActive(a)
    /\ assignment' = [assignment EXCEPT ![a].state = state]
    /\ task' = [task EXCEPT ![assignment[a].task].status = status]
    /\ UNCHANGED <<operation, agent, workspace, session, process, recent,
                   loop, answers, crashes>>

(* What follows a submission is TaskLedger's; the task is not spawned again. *)
FinishCompleted(a) == FinishAssignment(a, "completed", "submitted")

(* finish --failed: the task may be spawned again at once.                 *)
FinishFailed(a) == FinishAssignment(a, "released", "open")

(* task recover: only a session ends an assignment so, and only a worktree *)
(* is kept for the work to continue from.                                  *)
RecoverTask(a) ==
    /\ loop = Serving
    /\ assignment[a].state = "active"
    /\ session[a].identified
    /\ agent[a].state \in {"exited", "lost"}
    /\ workspace[a] = "observed"
    /\ agent[a].role \notin ProjectRoles
    /\ \A o \in Operations:
        operation[o].agent = a => operation[o].reconciliation = "observed"
    /\ assignment' = [assignment EXCEPT ![a].state = "released"]
    /\ task' = [task EXCEPT ![assignment[a].task] =
                    [status |-> "open", recovered |-> TRUE]]
    /\ UNCHANGED <<operation, agent, workspace, session, process, recent,
                   loop, answers, crashes>>

-----------------------------------------------------------------------------
(* Death and restart *)

Crash ==
    /\ loop.stage # "down"
    /\ crashes < MaxCrashes
    /\ crashes' = crashes + 1
    /\ loop' = Down
    /\ UNCHANGED <<operation, agent, ledger, workspace, session, process,
                   recent, answers>>

LiveSessions == {a \in Agents: ~Unstarted(a) /\ ~Ended(a)}

(* Sessions first: a launch whose outcome was never recorded is unknown,   *)
(* a worker is lost only once its process is proved absent.                *)
Concluded(a, gone) ==
    IF session[a].identified THEN IF gone THEN "lost" ELSE "unknown"
    ELSE IF session[a].reconciliation = "desired" /\ Retryable(a)
         THEN "desired" ELSE "unknown"

Restart ==
    /\ loop = Down
    /\ \E gone \in SUBSET {a \in LiveSessions: ~process[a].alive}:
        /\ session' = [a \in Agents |->
            IF a \in LiveSessions
            THEN [session[a] EXCEPT !.reconciliation = Concluded(a, a \in gone)]
            ELSE session[a]]
        /\ agent' = [a \in Everyone |->
            IF a \in LiveSessions /\ Concluded(a, a \in gone) # "desired"
            THEN Agent(agent[a].role, Concluded(a, a \in gone))
            ELSE agent[a]]
    /\ loop' = Serving
    /\ UNCHANGED <<operation, ledger, workspace, process, recent, answers,
                   crashes>>

-----------------------------------------------------------------------------
(* Specifications *)

Command ==
    \/ \E o \in Operations, role \in Roles, t \in Tasks:
        \/ \E a \in Agents: SpawnNew(o, role, t, a)
        \/ SpawnReplayed(o, role, t)
    \/ LaunchForeground
    \/ \E a \in Agents: FinishCompleted(a) \/ FinishFailed(a) \/ RecoverTask(a)

Attempt(o) ==
    \/ AttemptRefused(o)
    \/ AttemptAnswered(o)
    \/ Materialize(o)
    \/ ProbeFails(o)
    \/ PersistIntent(o)
    \/ EnsureExistingLaunch(o)
    \/ AdmitLaunch(o)
    \/ StartProvider(o)
    \/ StartProvedFailed(o)
    \/ StartUnproved(o)
    \/ RecordLaunch(o)
    \/ Complete(o)
    \/ RecordFailure(o)

Outside ==
    \/ \E a \in Agents: WorkerExits(a) \/ BackoffElapses(a)
    \/ \E o \in Operations: MinutePasses(o)
    \/ LeadObserved

Next ==
    \/ Command
    \/ \E o \in Operations: Attempt(o) \/ Reconcile(o)
    \/ \E a \in Agents: WorkerObserved(a)
    \/ Outside
    \/ Crash
    \/ Restart

Spec == Init /\ [][Next]_vars

(* The thread never stops within an attempt, a new supervisor starts, the  *)
(* reconciliation poll gets its turn among commands, and time passes.      *)
Fairness ==
    /\ \A o \in Operations: WF_vars(Attempt(o)) /\ SF_vars(Reconcile(o))
    /\ WF_vars(Restart)
    /\ \A a \in Agents: SF_vars(BackoffElapses(a))

(* Once a session exists its workspace and provider can be used again, and *)
(* a start comes to something: the code bounds only the failures that come *)
(* before the session, and a restart window that passes forgets the others. *)
Recovers(o) ==
    /\ SF_vars(Materialize(o) /\ loop'.stage = "launch")
    /\ SF_vars(EnsureExistingLaunch(o))
    /\ SF_vars(StartProvider(o) \/ StartUnproved(o))

FairSpec == Spec /\ Fairness

LiveSpec == FairSpec /\ \A o \in Operations: Recovers(o)

-----------------------------------------------------------------------------
(* Properties *)

(* The ceilings hold for the agents as they are, not only at admission:    *)
(* retries, restarts, recovered tasks and new generations of the lead never *)
(* take the run past one.                                                  *)
CeilingsHold ==
    /\ Cardinality(Active) <= MaxConcurrent
    /\ Cardinality(AgentsOfRun) <= MaxAgentsPerRun
    /\ Cardinality(recent) <= MaxPerMinute
    /\ \A role \in Roles:
        Cardinality({a \in Active: agent[a].role = role}) <= RoleLimit[role]

(* However often a command is repeated and wherever the supervisor dies,   *)
(* an operation admits one agent and its process is started at most once.  *)
(* Every successful answer to the operation names that agent and answers   *)
(* the request that was asked, also after the task was handed on.          *)
SpawnedOnce ==
    /\ \A a \in Agents:
        /\ process[a].started <= 1
        /\ Exists(a) => \E o \in Operations:
                /\ operation[o].agent = a
                /\ \A other \in Operations:
                    operation[other].agent = a => other = o
    /\ \A o \in Operations: \A answer \in answers[o]:
        LET a == operation[o].agent
        IN /\ answer = <<<<agent[a].role, assignment[a].task>>, a>>
           /\ operation[o].reconciliation = "observed"

(* At most one live worker process can write the project directory: the    *)
(* directory is given up only with an observed exit, not with a result and *)
(* not with a finish --failed that reopens the task under a live worker.   *)
OneWriter ==
    \A a, b \in Agents:
        /\ process[a].alive
        /\ process[b].alive
        /\ Writes(a)
        /\ Writes(b)
        => a = b

(* An operation is settled only on evidence: its worker was seen, or its   *)
(* launch was quarantined, and then no process was ever started.  Failures *)
(* before a session are bounded, and what they leave is known: the agent   *)
(* is quarantined at the limit exactly, and keeps its task.                *)
SettledOnEvidence ==
    \A o \in Operations:
        LET a == operation[o].agent
        IN /\ operation[o].reconciliation = "observed" =>
               \/ session[a].identified /\ process[a].started = 1
               \/ agent[a].state = "quarantined" /\ process[a].started = 0
           /\ Recorded(o) /\ Unstarted(a) =>
               /\ assignment[a] = Assignment(operation[o].task, "active")
               /\ task[operation[o].task].status = "in_progress"
               /\ (agent[a].state = "quarantined") =
                       (operation[o].reconciliation = "observed")
               /\ operation[o].reconciliation = "desired" =>
                       operation[o].attempts < MaxLaunchAttempts

(* Every admitted spawn is settled or known to be uncertain, whichever     *)
(* step of it failed and however often the supervisor died.                *)
SpawnSettles ==
    \A o \in Operations:
        operation[o].reconciliation = "desired"
            ~> operation[o].reconciliation # "desired"

-----------------------------------------------------------------------------
(* The inductive invariant: what each table owes the others *)

(* An operation and its agent are made together and agree for ever.        *)
RowsAgree ==
    /\ \A o \in Operations:
        \/ operation[o] = NotRequested /\ answers[o] = {}
        \/ LET a == operation[o].agent
           IN /\ a \in Agents
              /\ Exists(a)
              /\ operation[o].role \in Roles
              /\ operation[o].role = agent[a].role
              /\ operation[o].task \in Tasks
              /\ operation[o].task = assignment[a].task
              /\ assignment[a].state # "none"
              /\ operation[o].reconciliation # "none"
    /\ \A a \in Agents: ~Exists(a) =>
        /\ session[a] = NoSession
        /\ process[a] = [started |-> 0, alive |-> FALSE]
        /\ assignment[a].state = "none"
    /\ Exists(Lead) => agent[Lead].role = LeadRole

(* A task in progress has one active assignment.                            *)
TasksOwned ==
    /\ \A a \in Agents: assignment[a].state = "active" =>
        task[assignment[a].task].status = "in_progress"
    /\ \A a, b \in Agents:
        /\ assignment[a].state = "active"
        /\ assignment[b].state = "active"
        /\ assignment[a].task = assignment[b].task
        => a = b

(* What the row of a session says of its process and its agent.            *)
SessionRow(a) ==
    /\ process[a].alive => process[a].started = 1
    /\ process[a].started = 1 => session[a].in_flight
    /\ Unstarted(a) => session[a] = NoSession /\ process[a].started = 0
    /\ session[a].identified =>
        /\ process[a].started = 1
        /\ session[a].reconciliation \in {"observed", "unknown", "lost"}
    /\ session[a].reconciliation = "desired" => agent[a].state = "starting"
    /\ session[a].reconciliation = "observed" /\ ~session[a].identified =>
        agent[a].state = "quarantined" /\ process[a].started = 0
    /\ agent[a].state \in TerminalStates => ~process[a].alive
    /\ Unstarted(a) => agent[a].state \in {"none", "starting", "quarantined"}
    /\ agent[a].state = "running" => session[a].identified

(* Where the thread stands in an attempt.                                  *)
LoopInv ==
    LET o == loop.operation
        a == operation[o].agent
    IN /\ loop.stage \in {"serve", "down"} =>
            loop \in {Serving, Down}
       /\ loop.stage \notin {"serve", "down"} =>
            /\ o \in Operations
            /\ Recorded(o)
            /\ loop.asked \in
                {NoRequest, <<operation[o].role, operation[o].task>>}
       /\ loop.stage \notin {"serve", "down", "attempt"} =>
            /\ operation[o].reconciliation # "observed"
       /\ loop.stage \in {"admit", "start", "record"} =>
            session[a].reconciliation = "desired"
       /\ loop.stage = "start" =>
            session[a].in_flight /\ process[a].started = 0
       /\ loop.stage = "record" =>
            session[a].in_flight /\ process[a].started = 1
       /\ loop.stage = "finish" => session[a].identified

(* One agent at most may still write the project directory.                *)
OneHolder ==
    \A a, b \in Agents: HoldsDirectory(a) /\ HoldsDirectory(b) => a = b

Finite == IsFiniteSet(AgentsOfRun) /\ IsFiniteSet(recent)

IInv ==
    /\ TypeOK
    /\ RowsAgree
    /\ TasksOwned
    /\ \A a \in Agents: SessionRow(a)
    /\ LoopInv
    /\ OneHolder
    /\ Finite
    /\ CeilingsHold
    /\ SpawnedOnce
    /\ SettledOnEvidence

=============================================================================

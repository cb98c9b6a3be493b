----------------------------- MODULE Spawn_proofs -----------------------------
(***************************************************************************)
(* Proofs about Spawn: for any operations, tasks, agents, roles, ceilings  *)
(* and deaths, the ceilings hold, an operation starts one agent once, one  *)
(* worker can write the project directory, and operations are settled on   *)
(* evidence only.                                                          *)
(***************************************************************************)
EXTENDS Spawn, FiniteSetTheorems, TLAPS

(* A worker closes its assignment, with a result or without.                *)
Finishes(a) == FinishCompleted(a) \/ FinishFailed(a)

-----------------------------------------------------------------------------
(* Types                                                                    *)

(* The rows the actions write.                                              *)
LEMMA RowTypes ==
    /\ \A role \in Roles, t \in Tasks, a \in Agents :
        Operation(role, t, a, "desired", 0) \in OperationRows
    /\ \A row \in AgentRows :
        \A state \in {"starting", "running", "unknown"} \cup TerminalStates :
            Agent(row.role, state) \in AgentRows
    /\ \A role \in Roles \cup {LeadRole} :
        \A state \in {"starting", "unknown", "exited"} :
            Agent(role, state) \in AgentRows
    /\ \A t \in Tasks : Assignment(t, "active") \in AssignmentRows
    /\ \A row \in AssignmentRows : \A state \in {"completed", "released"} :
        [row EXCEPT !.state = state] \in AssignmentRows
    /\ \A s \in {"open", "in_progress"}, b \in BOOLEAN :
        [status |-> s, recovered |-> b] \in TaskRows
    /\ \A row \in TaskRows : \A s \in {"submitted", "open"} :
        [row EXCEPT !.status = s] \in TaskRows
<1> USE DEF Operation, OperationRows, Agent, AgentRows, Assignment,
      AssignmentRows, TaskRows, TerminalStates
<1>1. \A role \in Roles, t \in Tasks, a \in Agents :
        Operation(role, t, a, "desired", 0) \in OperationRows
  BY LimitAssumption
<1> QED BY <1>1

(* What an attempt records is a row.                                        *)
LEMMA ReconciledTypes ==
    ASSUME NEW row \in OperationRows,
           NEW state \in {"none", "desired", "observed", "unknown", "lost"}
    PROVE  /\ Reconciled(row, state) \in OperationRows
           /\ Reconciled(row, state).role = row.role
           /\ Reconciled(row, state).task = row.task
           /\ Reconciled(row, state).agent = row.agent
           /\ Reconciled(row, state).reconciliation = state
           /\ Reconciled(row, state).attempts =
                IF row.attempts < MaxLaunchAttempts THEN row.attempts + 1
                ELSE row.attempts
  BY LimitAssumption DEF OperationRows, Operation, Reconciled

(* What the actions make of a session is a row.                             *)
LEMMA SessionTypes ==
    /\ \A r \in {"none", "desired", "observed", "unknown", "lost"},
          n \in 0..MaxLaunchAttempts, i \in BOOLEAN, f \in BOOLEAN,
          b \in BOOLEAN :
        Session(r, i, n, f, b) \in SessionRows
    /\ Session("desired", FALSE, 0, FALSE, FALSE) \in SessionRows
    /\ \A row \in SessionRows :
        /\ row.attempts \in 0..MaxLaunchAttempts
        /\ row.attempts < MaxLaunchAttempts =>
                row.attempts + 1 \in 0..MaxLaunchAttempts
        /\ [row EXCEPT !.backoff = FALSE] \in SessionRows
        /\ \A r \in {"desired", "observed", "unknown", "lost"} :
            [row EXCEPT !.reconciliation = r] \in SessionRows
<1>1. \A r \in {"none", "desired", "observed", "unknown", "lost"},
         n \in 0..MaxLaunchAttempts, i \in BOOLEAN, f \in BOOLEAN,
         b \in BOOLEAN :
        Session(r, i, n, f, b) \in SessionRows
  BY DEF Session, SessionRows
<1>2. Session("desired", FALSE, 0, FALSE, FALSE) \in SessionRows
  BY LimitAssumption DEF Session, SessionRows
<1>3. ASSUME NEW row \in SessionRows
      PROVE  /\ row.attempts \in 0..MaxLaunchAttempts
             /\ row.attempts < MaxLaunchAttempts =>
                    row.attempts + 1 \in 0..MaxLaunchAttempts
  BY LimitAssumption DEF SessionRows
<1>4. ASSUME NEW row \in SessionRows
      PROVE  [row EXCEPT !.backoff = FALSE] \in SessionRows
  BY DEF SessionRows
<1>5. ASSUME NEW row \in SessionRows,
             NEW r \in {"desired", "observed", "unknown", "lost"}
      PROVE  [row EXCEPT !.reconciliation = r] \in SessionRows
  BY DEF SessionRows
<1> QED BY <1>1, <1>2, <1>3, <1>4, <1>5

(* A spawn's thread and its process.                                        *)
LEMMA ThreadTypes ==
    /\ Serving \in Threads /\ Down \in Threads
    /\ \A o \in Operations, role \in Roles, t \in Tasks :
        At("attempt", o, <<role, t>>) \in Threads
    /\ \A o \in Operations : At("attempt", o, NoRequest) \in Threads
    /\ \A thread \in Threads :
        \A stage \in {"launch", "admit", "start", "record", "finish",
                      "failed"} :
            At(stage, thread.operation, thread.asked) \in Threads
  BY DEF Serving, Down, At, Threads, Requests, NoRequest

(* Starting and ending a process keep its shape.                            *)
LEMMA ProcessTypes ==
    \A row \in Processes :
        /\ \A alive \in BOOLEAN :
            [started |-> row.started + 1, alive |-> alive] \in Processes
        /\ [row EXCEPT !.alive = FALSE] \in Processes
<1>1. \A row \in Processes, alive \in BOOLEAN :
        [started |-> row.started + 1, alive |-> alive] \in Processes
  BY DEF Processes
<1>2. \A row \in Processes : [row EXCEPT !.alive = FALSE] \in Processes
  BY DEF Processes
<1> QED BY <1>1, <1>2

(* An operation the thread attends is recorded, with its agent.             *)
LEMMA Attended ==
    ASSUME IInv, NEW o \in Operations, loop.operation = o,
           loop.stage \notin {"serve", "down"}
    PROVE  /\ operation[o].agent \in Agents
           /\ operation[o].agent \in Everyone
           /\ Exists(operation[o].agent)
           /\ operation[o].role \in Roles
           /\ operation[o].role = agent[operation[o].agent].role
           /\ operation[o].task \in Tasks
           /\ operation[o].task = assignment[operation[o].agent].task
           /\ assignment[operation[o].agent].state # "none"
           /\ operation[o].reconciliation # "none"
           /\ loop.asked \in
                {NoRequest, <<operation[o].role, operation[o].task>>}
  BY DEF IInv, LoopInv, RowsAgree, Recorded, NotRequested, Operation, Everyone

(* An answer names the agent of its operation.                              *)
LEMMA AnswerTypes ==
    ASSUME IInv, NEW o \in Operations, loop.operation = o,
           loop.stage \notin {"serve", "down"}, Answered(o)
    PROVE  answers' \in [Operations -> SUBSET (Requests \X Agents)]
<1>1. CASE loop.asked = NoRequest
  BY <1>1 DEF Answered, IInv, TypeOK
<1>2. CASE loop.asked # NoRequest
  <2>1. loop.asked \in Requests
    BY <1>2, Attended DEF Requests
  <2>2. <<loop.asked, operation[o].agent>> \in Requests \X Agents
    BY <2>1, Attended
  <2> QED BY <1>2, <2>2 DEF Answered, IInv, TypeOK
<1> QED BY <1>1, <1>2

(* Every step keeps the types.                                             *)
LEMMA TypeStep == IInv /\ [Next]_vars => TypeOK'
<1> SUFFICES ASSUME IInv, [Next]_vars PROVE TypeOK'
  OBVIOUS
<1> USE DEF IInv, TypeOK, ledger
<1>1. ASSUME NEW o \in Operations, NEW role \in Roles, NEW t \in Tasks,
             NEW a \in Agents, SpawnNew(o, role, t, a) PROVE TypeOK'
  BY <1>1, RowTypes, ThreadTypes DEF SpawnNew, WorkspaceStates, Everyone
<1>2. ASSUME NEW o \in Operations, NEW role \in Roles, NEW t \in Tasks,
             SpawnReplayed(o, role, t)
      PROVE  TypeOK'
  BY <1>2, ThreadTypes DEF SpawnReplayed
<1>3. ASSUME LaunchForeground PROVE TypeOK'
  BY <1>3, RowTypes DEF LaunchForeground, Everyone
<1>4. ASSUME NEW a \in Agents, Finishes(a) PROVE TypeOK'
  <2>1. ASSUME NEW state \in {"completed", "released"},
               NEW status \in {"submitted", "open"},
               FinishAssignment(a, state, status)
        PROVE  TypeOK'
    BY <2>1, RowTypes DEF FinishAssignment
  <2> QED BY <1>4, <2>1 DEF Finishes, FinishCompleted, FinishFailed
<1>5. ASSUME NEW a \in Agents, RecoverTask(a) PROVE TypeOK'
  BY <1>5, RowTypes DEF RecoverTask
<1>7. ASSUME NEW o \in Operations, AttemptRefused(o) PROVE TypeOK'
  BY <1>7, ThreadTypes DEF AttemptRefused, Attends
<1>8. ASSUME NEW o \in Operations, AttemptAnswered(o) PROVE TypeOK'
  BY <1>8, Attended, AnswerTypes, ThreadTypes DEF AttemptAnswered, Attends
<1>9. ASSUME NEW o \in Operations, Materialize(o) PROVE TypeOK'
  <2>1. PICK state \in {"observed", "unknown", "lost"} :
            /\ workspace' = [workspace EXCEPT ![operation[o].agent] = state]
            /\ Proceed(IF state = "observed" THEN "launch" ELSE "failed")
    BY <1>9 DEF Materialize, Materialized
  <2>2. loop' \in Threads
    BY <2>1, ThreadTypes DEF Proceed
  <2>3. workspace' \in [Agents -> WorkspaceStates]
    BY <2>1 DEF WorkspaceStates
  <2> QED BY <1>9, <2>2, <2>3 DEF Materialize
<1>10. ASSUME NEW o \in Operations, ProbeFails(o) PROVE TypeOK'
  BY <1>10, ThreadTypes DEF ProbeFails, Attends, Proceed
<1>11. ASSUME NEW o \in Operations, PersistIntent(o) PROVE TypeOK'
  BY <1>11, Attended, SessionTypes, ThreadTypes, LimitAssumption
     DEF PersistIntent, Attends, Proceed
<1>12. ASSUME NEW o \in Operations, EnsureExistingLaunch(o) PROVE TypeOK'
  BY <1>12, Attended, ThreadTypes DEF EnsureExistingLaunch, Attends, Proceed
<1>13. ASSUME NEW o \in Operations, AdmitLaunch(o) PROVE TypeOK'
  <2>1. /\ operation[o].agent \in Agents
        /\ session[operation[o].agent] \in SessionRows
    BY <1>13, Attended DEF AdmitLaunch, Attends
  <2>2. session' \in [Agents -> SessionRows]
    <3> DEFINE row == session[operation[o].agent]
    <3>1. \A attempts \in Attempts(operation[o].agent) :
            Session("desired", FALSE, attempts, TRUE, FALSE) \in SessionRows
      <4>1. 1..MaxLaunchAttempts \subseteq 0..MaxLaunchAttempts
        BY LimitAssumption
      <4> QED BY <4>1, SessionTypes DEF Attempts
    <3> QED BY <1>13, <2>1, <3>1 DEF AdmitLaunch
  <2>3. loop' \in Threads
    BY <1>13, ThreadTypes DEF AdmitLaunch, Proceed
  <2> QED BY <1>13, <2>2, <2>3 DEF AdmitLaunch
<1>14. ASSUME NEW o \in Operations, StartProvider(o) PROVE TypeOK'
  BY <1>14, Attended, ProcessTypes, ThreadTypes
     DEF StartProvider, Attends, Proceed
<1>15. ASSUME NEW o \in Operations, StartProvedFailed(o) PROVE TypeOK'
  <2>1. /\ operation[o].agent \in Agents
        /\ operation[o].agent \in Everyone
        /\ session[operation[o].agent] \in SessionRows
        /\ agent[operation[o].agent] \in AgentRows
    BY <1>15, Attended DEF StartProvedFailed, Attends
  <2>2. session' \in [Agents -> SessionRows]
    BY <1>15, <2>1, SessionTypes DEF StartProvedFailed
  <2>3. agent' \in [Everyone -> AgentRows]
    BY <1>15, <2>1, RowTypes DEF StartProvedFailed, TerminalStates
  <2>4. loop' \in Threads
    BY <1>15, ThreadTypes DEF StartProvedFailed, Proceed
  <2> QED BY <1>15, <2>2, <2>3, <2>4 DEF StartProvedFailed
<1>16. ASSUME NEW o \in Operations, StartUnproved(o) PROVE TypeOK'
  <2>1. /\ operation[o].agent \in Agents
        /\ operation[o].agent \in Everyone
        /\ session[operation[o].agent] \in SessionRows
        /\ agent[operation[o].agent] \in AgentRows
    BY <1>16, Attended DEF StartUnproved, Attends
  <2>2. session' \in [Agents -> SessionRows]
    BY <1>16, <2>1, SessionTypes DEF StartUnproved
  <2>3. agent' \in [Everyone -> AgentRows]
    BY <1>16, <2>1, RowTypes DEF StartUnproved
  <2>4. process' \in [Agents -> Processes]
    <3>1. process[operation[o].agent] \in Processes
      BY <2>1
    <3>2. PICK alive \in BOOLEAN :
            process' = [process EXCEPT ![operation[o].agent] =
                            [started |-> @.started + 1, alive |-> alive]]
      BY <1>16 DEF StartUnproved
    <3> QED BY <3>1, <3>2, ProcessTypes
  <2>5. loop' \in Threads
    BY <1>16, ThreadTypes DEF StartUnproved, Proceed
  <2> QED BY <1>16, <2>2, <2>3, <2>4, <2>5 DEF StartUnproved
<1>17. ASSUME NEW o \in Operations, RecordLaunch(o) PROVE TypeOK'
  BY <1>17, Attended, SessionTypes, ThreadTypes
     DEF RecordLaunch, Attends, Proceed
<1>18. ASSUME NEW o \in Operations, Complete(o) PROVE TypeOK'
  BY <1>18, Attended, ThreadTypes, AnswerTypes, ReconciledTypes
     DEF Complete, Attends
<1>19. ASSUME NEW o \in Operations, RecordFailure(o) PROVE TypeOK'
  <2> DEFINE a == operation[o].agent
             state == SpawnReconciliationState(a)
             row == Reconciled(operation[o], state)
  <2>1. /\ a \in Agents /\ a \in Everyone
        /\ operation[o] \in OperationRows /\ agent[a] \in AgentRows
    BY <1>19, Attended DEF RecordFailure, Attends
  <2>2. state \in {"none", "desired", "observed", "unknown", "lost"}
    BY <2>1 DEF SpawnReconciliationState, SessionRows
  <2>3. row \in OperationRows /\ Reconciled(row, "observed") \in OperationRows
    BY <2>1, <2>2, ReconciledTypes
  <2>4. operation' \in [Operations -> OperationRows]
    BY <1>19, <2>3 DEF RecordFailure
  <2>5. Quarantined(a) \in [Everyone -> AgentRows]
    BY <2>1, RowTypes DEF Quarantined, TerminalStates
  <2>6. agent' \in [Everyone -> AgentRows]
    BY <1>19, <2>5 DEF RecordFailure
  <2>7. loop' \in Threads
    BY <1>19, ThreadTypes DEF RecordFailure
  <2> QED BY <1>19, <2>4, <2>6, <2>7 DEF RecordFailure
<1>20. ASSUME NEW o \in Operations, Reconcile(o) PROVE TypeOK'
  <2> DEFINE state == SpawnReconciliationState(operation[o].agent)
  <2>1. CASE state = "desired"
    BY <1>20, <2>1, ThreadTypes DEF Reconcile
  <2>2. CASE state # "desired"
    <3>1. operation[o].agent \in Agents
      BY <1>20 DEF Reconcile, Requires, RowsAgree, NotRequested, Operation
    <3>2. state \in {"none", "desired", "observed", "unknown", "lost"}
      BY <3>1 DEF SpawnReconciliationState, SessionRows
    <3>3. Reconciled(operation[o], state) \in OperationRows
      BY <3>2, ReconciledTypes
    <3> QED BY <1>20, <2>2, <3>3 DEF Reconcile
  <2> QED BY <2>1, <2>2
<1>21. ASSUME NEW a \in Agents, WorkerObserved(a) PROVE TypeOK'
  <2>1. PICK state \in Reports(a) :
          /\ agent' = [agent EXCEPT ![a] = Agent(@.role, state)]
          /\ session' = [session EXCEPT ![a].reconciliation =
                          IF state = "lost" THEN "lost" ELSE "observed"]
    BY <1>21 DEF WorkerObserved
  <2>2. state \in {"running", "exited", "quarantined", "lost"}
    BY DEF Reports
  <2>3. agent[a] \in AgentRows /\ session[a] \in SessionRows
    BY DEF Everyone
  <2>4. agent' \in [Everyone -> AgentRows]
    BY <2>1, <2>2, <2>3, RowTypes DEF TerminalStates
  <2>5. session' \in [Agents -> SessionRows]
    BY <2>1, <2>2, <2>3, SessionTypes
  <2> QED BY <1>21, <2>4, <2>5 DEF WorkerObserved
<1>22. ASSUME NEW a \in Agents, WorkerExits(a) PROVE TypeOK'
  BY <1>22, ProcessTypes DEF WorkerExits
<1>23. ASSUME NEW a \in Agents, BackoffElapses(a) PROVE TypeOK'
  BY <1>23, SessionTypes DEF BackoffElapses
<1>24. ASSUME NEW o \in Operations, MinutePasses(o) PROVE TypeOK'
  BY <1>24 DEF MinutePasses
<1>25. ASSUME LeadObserved PROVE TypeOK'
  BY <1>25, RowTypes DEF LeadObserved, Everyone
<1>26. ASSUME Crash PROVE TypeOK'
  <2>1. crashes' \in 0..MaxCrashes
    BY <1>26, LimitAssumption DEF Crash
  <2> QED BY <1>26, <2>1, ThreadTypes DEF Crash
<1>27. ASSUME Restart PROVE TypeOK'
  <2>1. PICK gone \in SUBSET {a \in LiveSessions : ~process[a].alive} :
          /\ session' = [a \in Agents |->
                IF a \in LiveSessions
                THEN [session[a] EXCEPT !.reconciliation =
                                            Concluded(a, a \in gone)]
                ELSE session[a]]
          /\ agent' = [a \in Everyone |->
                IF a \in LiveSessions /\ Concluded(a, a \in gone) # "desired"
                THEN Agent(agent[a].role, Concluded(a, a \in gone))
                ELSE agent[a]]
    BY <1>27 DEF Restart
  <2>2. \A a \in Agents :
          Concluded(a, a \in gone) \in {"desired", "unknown", "lost"}
    BY DEF Concluded
  <2>3. session' \in [Agents -> SessionRows]
    BY <2>1, <2>2, SessionTypes
  <2>4. agent' \in [Everyone -> AgentRows]
    BY <2>1, <2>2, RowTypes DEF LiveSessions, Everyone, TerminalStates
  <2> QED BY <1>27, <2>3, <2>4, ThreadTypes DEF Restart
<1>28. CASE UNCHANGED vars
  BY <1>28 DEF vars, ledger
<1> QED
  BY <1>1, <1>2, <1>3, <1>4, <1>5, <1>7, <1>8, <1>9, <1>10, <1>11,
     <1>12, <1>13, <1>14, <1>15, <1>16, <1>17, <1>18, <1>19, <1>20, <1>21,
     <1>22, <1>23, <1>24, <1>25, <1>26, <1>27, <1>28
     DEF Next, Command, Finishes, Attempt, Outside

-----------------------------------------------------------------------------
(* Footprints: which actions change which table                             *)

Admits ==
    \E o \in Operations, role \in Roles, t \in Tasks, a \in Agents :
        SpawnNew(o, role, t, a)

LedgerMoves ==
    \/ Admits
    \/ \E a \in Agents : Finishes(a) \/ RecoverTask(a)

OperationMoves ==
    \/ Admits
    \/ \E o \in Operations : Complete(o) \/ RecordFailure(o) \/ Reconcile(o)

AgentMoves ==
    \/ Admits
    \/ LaunchForeground \/ LeadObserved
    \/ \E o \in Operations :
        StartProvedFailed(o) \/ StartUnproved(o) \/ RecordFailure(o)
    \/ \E a \in Agents : WorkerObserved(a)
    \/ Restart

SessionMoves ==
    \/ \E o \in Operations :
        \/ PersistIntent(o) \/ AdmitLaunch(o) \/ RecordLaunch(o)
        \/ StartProvedFailed(o) \/ StartUnproved(o)
    \/ \E a \in Agents : WorkerObserved(a) \/ BackoffElapses(a)
    \/ Restart

ProcessMoves ==
    \/ \E o \in Operations : StartProvider(o) \/ StartUnproved(o)
    \/ \E a \in Agents : WorkerExits(a)

RecentMoves == Admits \/ \E o \in Operations : MinutePasses(o)

AnswerMoves == \E o \in Operations : AttemptAnswered(o) \/ Complete(o)

Footprint ==
    /\ UNCHANGED ledger \/ LedgerMoves
    /\ UNCHANGED operation \/ OperationMoves
    /\ UNCHANGED agent \/ AgentMoves
    /\ UNCHANGED session \/ SessionMoves
    /\ UNCHANGED process \/ ProcessMoves
    /\ UNCHANGED recent \/ RecentMoves
    /\ UNCHANGED answers \/ AnswerMoves

(* A step changes a table only by one of the actions above.                 *)
LEMMA Footprints == [Next]_vars => Footprint
<1> SUFFICES ASSUME [Next]_vars PROVE Footprint
  OBVIOUS
<1>1. ASSUME NEW o \in Operations, NEW role \in Roles, NEW t \in Tasks,
             NEW a \in Agents, SpawnNew(o, role, t, a) PROVE Footprint
  BY <1>1
     DEF SpawnNew, ledger, Footprint, LedgerMoves, OperationMoves, AgentMoves,
         RecentMoves, Admits
<1>2. ASSUME NEW o \in Operations, NEW role \in Roles, NEW t \in Tasks,
             SpawnReplayed(o, role, t)
      PROVE  Footprint
  BY <1>2 DEF SpawnReplayed, ledger, Footprint
<1>3. ASSUME LaunchForeground PROVE Footprint
  BY <1>3 DEF LaunchForeground, ledger, Footprint, AgentMoves
<1>4. ASSUME NEW a \in Agents, Finishes(a) PROVE Footprint
  BY <1>4
     DEF Finishes, FinishCompleted, FinishFailed, FinishAssignment, ledger,
         Footprint, LedgerMoves
<1>5. ASSUME NEW a \in Agents, RecoverTask(a) PROVE Footprint
  BY <1>5 DEF RecoverTask, ledger, Footprint, LedgerMoves
<1>7. ASSUME NEW o \in Operations, AttemptRefused(o) PROVE Footprint
  BY <1>7 DEF AttemptRefused, ledger, Footprint
<1>8. ASSUME NEW o \in Operations, AttemptAnswered(o) PROVE Footprint
  BY <1>8 DEF AttemptAnswered, ledger, Footprint, AnswerMoves
<1>9. ASSUME NEW o \in Operations, Materialize(o) PROVE Footprint
  BY <1>9 DEF Materialize, ledger, Footprint
<1>10. ASSUME NEW o \in Operations, ProbeFails(o) PROVE Footprint
  BY <1>10 DEF ProbeFails, ledger, Footprint
<1>11. ASSUME NEW o \in Operations, PersistIntent(o) PROVE Footprint
  BY <1>11 DEF PersistIntent, ledger, Footprint, SessionMoves
<1>12. ASSUME NEW o \in Operations, EnsureExistingLaunch(o) PROVE Footprint
  BY <1>12 DEF EnsureExistingLaunch, ledger, Footprint
<1>13. ASSUME NEW o \in Operations, AdmitLaunch(o) PROVE Footprint
  BY <1>13 DEF AdmitLaunch, ledger, Footprint, SessionMoves
<1>14. ASSUME NEW o \in Operations, StartProvider(o) PROVE Footprint
  BY <1>14 DEF StartProvider, ledger, Footprint, ProcessMoves
<1>15. ASSUME NEW o \in Operations, StartProvedFailed(o) PROVE Footprint
  BY <1>15 DEF StartProvedFailed, ledger, Footprint, AgentMoves, SessionMoves
<1>16. ASSUME NEW o \in Operations, StartUnproved(o) PROVE Footprint
  BY <1>16
     DEF StartUnproved, ledger, Footprint, AgentMoves, SessionMoves,
         ProcessMoves
<1>17. ASSUME NEW o \in Operations, RecordLaunch(o) PROVE Footprint
  BY <1>17 DEF RecordLaunch, ledger, Footprint, SessionMoves
<1>18. ASSUME NEW o \in Operations, Complete(o) PROVE Footprint
  BY <1>18 DEF Complete, ledger, Footprint, OperationMoves, AnswerMoves
<1>19. ASSUME NEW o \in Operations, RecordFailure(o) PROVE Footprint
  BY <1>19 DEF RecordFailure, ledger, Footprint, OperationMoves, AgentMoves
<1>20. ASSUME NEW o \in Operations, Reconcile(o) PROVE Footprint
  BY <1>20 DEF Reconcile, ledger, Footprint, OperationMoves
<1>21. ASSUME NEW a \in Agents, WorkerObserved(a) PROVE Footprint
  BY <1>21 DEF WorkerObserved, ledger, Footprint, AgentMoves, SessionMoves
<1>22. ASSUME NEW a \in Agents, WorkerExits(a) PROVE Footprint
  BY <1>22 DEF WorkerExits, ledger, Footprint, ProcessMoves
<1>23. ASSUME NEW a \in Agents, BackoffElapses(a) PROVE Footprint
  BY <1>23 DEF BackoffElapses, ledger, Footprint, SessionMoves
<1>24. ASSUME NEW o \in Operations, MinutePasses(o) PROVE Footprint
  BY <1>24 DEF MinutePasses, ledger, Footprint, RecentMoves
<1>25. ASSUME LeadObserved PROVE Footprint
  BY <1>25 DEF LeadObserved, ledger, Footprint, AgentMoves
<1>26. ASSUME Crash PROVE Footprint
  BY <1>26 DEF Crash, ledger, Footprint
<1>27. ASSUME Restart PROVE Footprint
  BY <1>27 DEF Restart, ledger, Footprint, AgentMoves, SessionMoves
<1>28. CASE UNCHANGED vars
  BY <1>28 DEF vars, ledger, Footprint
<1>29. ASSUME Command PROVE Footprint
  BY <1>29, <1>1, <1>2, <1>3, <1>4, <1>5 DEF Command, Finishes
<1>30. ASSUME NEW o \in Operations, Attempt(o) PROVE Footprint
  BY <1>30, <1>7, <1>8, <1>9, <1>10, <1>11, <1>12, <1>13, <1>14, <1>15, <1>16,
     <1>17, <1>18, <1>19
     DEF Attempt
<1>31. ASSUME Outside PROVE Footprint
  BY <1>31, <1>22, <1>23, <1>24, <1>25 DEF Outside
<1> QED
  BY <1>29, <1>30, <1>31, <1>20, <1>21, <1>26, <1>27, <1>28 DEF Next
-----------------------------------------------------------------------------
(* What a launch stands on, and what no step undoes                         *)

(* What a change of one field leaves of a row.                              *)
LEMMA Fields ==
    /\ \A row \in SessionRows :
        \A r \in {"desired", "observed", "unknown", "lost"} :
            LET new == [row EXCEPT !.reconciliation = r]
            IN /\ new.reconciliation = r
               /\ new.identified = row.identified
               /\ new.in_flight = row.in_flight
    /\ \A row \in SessionRows :
        LET new == [row EXCEPT !.backoff = FALSE]
        IN /\ new.reconciliation = row.reconciliation
           /\ new.identified = row.identified
           /\ new.in_flight = row.in_flight
    /\ \A row \in Processes :
        LET new == [row EXCEPT !.alive = FALSE]
        IN new.started = row.started /\ new.alive = FALSE
    /\ \A row \in AssignmentRows : \A state \in {"completed", "released"} :
        LET new == [row EXCEPT !.state = state]
        IN new.task = row.task /\ new.state = state
    /\ \A row \in TaskRows : \A s \in {"submitted", "open"} :
        [row EXCEPT !.status = s].status = s
  BY DEF SessionRows, Processes, AssignmentRows, TaskRows

(* From the intent of a launch to its record the session is desired and its *)
(* agent starting; no process has been seen.                                *)
LEMMA Launching ==
    ASSUME IInv, NEW o \in Operations,
           \/ Attends("admit", o) \/ Attends("start", o)
           \/ Attends("record", o)
    PROVE  LET a == operation[o].agent
           IN /\ a \in Agents
              /\ a \in Everyone
              /\ Exists(a)
              /\ session[a].reconciliation = "desired"
              /\ ~session[a].identified
              /\ ~Unstarted(a)
              /\ agent[a].state = "starting"
              /\ operation[o].reconciliation # "observed"
              /\ Attends("start", o) =>
                    session[a].in_flight /\ process[a].started = 0
              /\ Attends("record", o) =>
                    session[a].in_flight /\ process[a].started = 1
<1> DEFINE a == operation[o].agent
<1>1. a \in Agents /\ a \in Everyone /\ Exists(a)
  BY Attended DEF Attends
<1>2. /\ session[a].reconciliation = "desired"
      /\ operation[o].reconciliation # "observed"
      /\ Attends("start", o) =>
            session[a].in_flight /\ process[a].started = 0
      /\ Attends("record", o) =>
            session[a].in_flight /\ process[a].started = 1
  BY DEF Attends, IInv, LoopInv
<1>3. SessionRow(a)
  BY <1>1 DEF IInv
<1> QED BY <1>1, <1>2, <1>3 DEF SessionRow, Unstarted

(* An agent without a row has no session and no process either.             *)
LEMMA Absent ==
    ASSUME IInv, NEW a \in Agents, ~Exists(a)
    PROVE  /\ session[a] = NoSession
           /\ Unstarted(a) /\ ~session[a].identified
           /\ ~session[a].backoff
           /\ process[a].started = 0 /\ ~process[a].alive
           /\ assignment[a].state = "none"
           /\ \A o \in Operations : operation[o].agent # a
<1>1. /\ session[a] = NoSession
      /\ process[a] = [started |-> 0, alive |-> FALSE]
      /\ assignment[a].state = "none"
  BY DEF IInv, RowsAgree
<1>2. \A o \in Operations : operation[o].agent # a
  BY NameAssumption DEF IInv, RowsAgree, NotRequested, Operation
<1> QED BY <1>1, <1>2 DEF NoSession, Session, Unstarted

(* Agents are never forgotten and keep their role, a session is never       *)
(* unmade, and what has ended stays as it ended.                            *)
Lasting(a) ==
    /\ Exists(a) => Exists(a)' /\ agent'[a].role = agent[a].role
    /\ ~Unstarted(a) => ~Unstarted(a)'
    /\ session[a].identified =>
        session'[a].identified /\ process'[a].started = process[a].started
    /\ Ended(a) =>
        /\ agent'[a] = agent[a]
        /\ session'[a].reconciliation = session[a].reconciliation
        /\ process'[a].started = process[a].started

(* No step takes back what is recorded of an agent.                         *)
LEMMA LastingStep == IInv /\ [Next]_vars => \A b \in Agents : Lasting(b)
<1> SUFFICES ASSUME IInv, [Next]_vars, NEW b \in Agents PROVE Lasting(b)
  OBVIOUS
<1> USE DEF Lasting, Ended, Exists, Unstarted
<1>1. /\ session \in [Agents -> SessionRows] /\ session[b] \in SessionRows
      /\ agent \in [Everyone -> AgentRows] /\ agent[b] \in AgentRows
      /\ process \in [Agents -> Processes] /\ process[b] \in Processes
      /\ b \in Everyone
  BY DEF IInv, TypeOK, Everyone
<1>2. SessionRow(b)
  BY DEF IInv
<1>3. CASE Admits
  <2>1. PICK o \in Operations, role \in Roles, t \in Tasks, a \in Agents :
            SpawnNew(o, role, t, a)
    BY <1>3 DEF Admits
  <2> QED BY <1>1, <2>1 DEF SpawnNew, TerminalStates
<1>4. CASE LaunchForeground \/ LeadObserved
  BY <1>1, <1>4, NameAssumption DEF LaunchForeground, LeadObserved
<1>5. ASSUME NEW o \in Operations, PersistIntent(o) PROVE Lasting(b)
  <2>1. operation[o].agent \in Agents
    BY <1>5, Attended DEF PersistIntent, Attends
  <2>2. agent[operation[o].agent].state = "starting"
        /\ session[operation[o].agent].reconciliation = "none"
    BY <1>5 DEF PersistIntent
  <2> QED BY <1>1, <1>2, <1>5, <2>1, <2>2
       DEF PersistIntent, Session, NoSession, SessionRow, TerminalStates
<1>6. ASSUME NEW o \in Operations, AdmitLaunch(o) PROVE Lasting(b)
  <2>1. AdmitLaunch(o) => Attends("admit", o)
    BY DEF AdmitLaunch
  <2>2. CASE UNCHANGED session
    BY <1>1, <1>6, <2>1, <2>2, Launching DEF AdmitLaunch
  <2>3. ASSUME NEW attempts,
               session' = [session EXCEPT ![operation[o].agent] =
                            Session("desired", FALSE, attempts, TRUE, FALSE)]
        PROVE  Lasting(b)
    BY <1>1, <1>6, <2>1, <2>3, Launching
       DEF AdmitLaunch, Session, TerminalStates
  <2> QED BY <1>6, <2>2, <2>3 DEF AdmitLaunch
<1>7. ASSUME NEW o \in Operations, RecordLaunch(o) PROVE Lasting(b)
  <2>1. RecordLaunch(o) => Attends("record", o)
    BY DEF RecordLaunch
  <2> QED BY <1>1, <1>7, <2>1, Launching
       DEF RecordLaunch, Session, TerminalStates
<1>8. ASSUME NEW o \in Operations,
             StartProvider(o) \/ StartProvedFailed(o) \/ StartUnproved(o)
      PROVE  Lasting(b)
  <2> DEFINE a == operation[o].agent
  <2>1. /\ a \in Agents /\ agent[a].state = "starting"
        /\ ~session[a].identified
        /\ session[a].reconciliation = "desired"
    BY <1>8, Launching DEF StartProvider, StartProvedFailed, StartUnproved
  <2>2. CASE b = a
    <3>1. \/ UNCHANGED session
          \/ \E r \in {"desired", "observed", "unknown"} :
                session'[a].reconciliation = r
      BY <1>1, <1>8, <2>1, <2>2
         DEF StartProvider, StartProvedFailed, StartUnproved, Session
    <3>2. \/ UNCHANGED agent
          \/ \E s \in {"quarantined", "unknown"} :
                agent'[a] = Agent(agent[a].role, s)
      BY <1>1, <1>8, <2>1, <2>2
         DEF StartProvider, StartProvedFailed, StartUnproved
    <3> QED BY <2>1, <2>2, <3>1, <3>2 DEF Agent, TerminalStates
  <2>3. CASE b # a
    BY <1>1, <1>8, <2>1, <2>3
       DEF StartProvider, StartProvedFailed, StartUnproved
  <2> QED BY <2>2, <2>3
<1>9. ASSUME NEW o \in Operations, RecordFailure(o) PROVE Lasting(b)
  <2>1. \/ UNCHANGED agent
        \/ /\ agent[operation[o].agent].state = "starting"
           /\ agent' = [agent EXCEPT ![operation[o].agent] =
                            Agent(@.role, "quarantined")]
    BY <1>9 DEF RecordFailure, Quarantined
  <2>2. UNCHANGED <<session, process>>
    BY <1>9 DEF RecordFailure
  <2> QED BY <1>1, <2>1, <2>2 DEF Agent, TerminalStates
<1>10. ASSUME NEW a \in Agents, WorkerObserved(a) PROVE Lasting(b)
  <2>1. PICK state \in Reports(a) :
          /\ agent' = [agent EXCEPT ![a] = Agent(@.role, state)]
          /\ session' = [session EXCEPT ![a].reconciliation =
                          IF state = "lost" THEN "lost" ELSE "observed"]
    BY <1>10 DEF WorkerObserved
  <2>2. /\ agent[a].state \in {"starting", "running", "unknown"}
        /\ state \in {"running", "exited", "quarantined", "lost"}
    BY DEF Reports
  <2>3. UNCHANGED process
    BY <1>10 DEF WorkerObserved
  <2>4. CASE b = a
    <3>1. agent'[a] = Agent(agent[a].role, state)
      BY <1>1, <2>1, <2>4
    <3>2. session'[a].reconciliation # "none"
          /\ session'[a].identified = session[a].identified
      BY <1>1, <2>1, <2>4, Fields
    <3> QED BY <2>2, <2>3, <2>4, <3>1, <3>2 DEF Agent, TerminalStates
  <2>5. CASE b # a
    BY <1>1, <2>1, <2>3, <2>5
  <2> QED BY <2>4, <2>5
<1>11. ASSUME NEW a \in Agents, BackoffElapses(a) PROVE Lasting(b)
  BY <1>1, <1>11, Fields DEF BackoffElapses
<1>12. ASSUME NEW a \in Agents, WorkerExits(a) PROVE Lasting(b)
  BY <1>1, <1>12, Fields DEF WorkerExits
<1>13. CASE Restart
  <2>1. PICK gone \in SUBSET {a \in LiveSessions : ~process[a].alive} :
          /\ session' = [a \in Agents |->
                IF a \in LiveSessions
                THEN [session[a] EXCEPT !.reconciliation =
                                            Concluded(a, a \in gone)]
                ELSE session[a]]
          /\ agent' = [a \in Everyone |->
                IF a \in LiveSessions /\ Concluded(a, a \in gone) # "desired"
                THEN Agent(agent[a].role, Concluded(a, a \in gone))
                ELSE agent[a]]
    BY <1>13 DEF Restart
  <2>2. Concluded(b, b \in gone) \in {"desired", "unknown", "lost"}
    BY DEF Concluded
  <2>3. UNCHANGED process
    BY <1>13 DEF Restart
  <2>4. CASE b \in LiveSessions
    <3>1. ~Ended(b)
      BY <2>4 DEF LiveSessions
    <3>2. session'[b].reconciliation # "none"
          /\ session'[b].identified = session[b].identified
      <4>1. session'[b] = [session[b] EXCEPT !.reconciliation =
                                Concluded(b, b \in gone)]
        BY <2>1, <2>4
      <4> QED BY <1>1, <2>2, <4>1, Fields
    <3>3. agent'[b].role = agent[b].role
          /\ (Exists(b) => agent'[b].state # "none")
      BY <1>1, <2>1, <2>2, <2>4 DEF Agent
    <3> QED BY <2>3, <3>1, <3>2, <3>3
  <2>5. CASE b \notin LiveSessions
    BY <1>1, <2>1, <2>3, <2>5
  <2> QED BY <2>4, <2>5
<1>14. CASE UNCHANGED <<agent, session, process>>
  BY <1>14
<1> QED
  BY <1>3, <1>4, <1>5, <1>6, <1>7, <1>8, <1>9, <1>10, <1>11, <1>12, <1>13,
     <1>14, Footprints
     DEF Footprint, AgentMoves, SessionMoves, ProcessMoves

-----------------------------------------------------------------------------
(* Operations and their agents                                              *)

(* A recorded operation has its agent, and they agree.                      *)
LEMMA Known ==
    ASSUME IInv, NEW o \in Operations, Recorded(o)
    PROVE  /\ operation[o].agent \in Agents
           /\ operation[o].agent \in Everyone
           /\ Exists(operation[o].agent)
           /\ operation[o].role \in Roles
           /\ operation[o].role = agent[operation[o].agent].role
           /\ operation[o].task \in Tasks
           /\ operation[o].task = assignment[operation[o].agent].task
           /\ assignment[operation[o].agent].state # "none"
           /\ operation[o].reconciliation # "none"
           /\ operation[o] \in OperationRows
           /\ operation[o] # NotRequested
  BY DEF IInv, TypeOK, RowsAgree, Recorded, NotRequested, Operation, Everyone

(* What the reconciler records of an agent that exists.                     *)
LEMMA StateTypes ==
    ASSUME IInv, NEW a \in Agents
    PROVE  /\ SpawnReconciliationState(a)
                \in {"desired", "observed", "unknown", "lost"}
           /\ Unstarted(a) => SpawnReconciliationState(a) = "desired"
           /\ SpawnReconciliationState(a) = "observed" =>
                \/ session[a].identified /\ process[a].started = 1
                \/ agent[a].state = "quarantined" /\ process[a].started = 0
<1>1. session[a] \in SessionRows /\ SessionRow(a)
  BY DEF IInv, TypeOK
<1> QED
  BY <1>1 DEF SessionRows, SessionRow, SpawnReconciliationState, Unstarted,
     NoSession, Session

(* A recorded operation keeps its role, task and agent, and stays settled   *)
(* once it is; only its own spawn records it.                               *)
Standing(o) ==
    /\ Recorded(o) =>
        /\ operation'[o].role = operation[o].role
        /\ operation'[o].task = operation[o].task
        /\ operation'[o].agent = operation[o].agent
        /\ operation'[o].reconciliation # "none"
        /\ operation[o].reconciliation = "observed" =>
                operation'[o].reconciliation = "observed"
    /\ ~Recorded(o) =>
        \/ operation'[o] = operation[o]
        \/ \E role \in Roles, t \in Tasks, a \in Agents :
                SpawnNew(o, role, t, a)

(* Nor what is recorded of an operation.                                    *)
LEMMA StandingStep ==
    IInv /\ [Next]_vars => \A op \in Operations : Standing(op)
<1> SUFFICES ASSUME IInv, [Next]_vars, NEW op \in Operations
             PROVE  Standing(op)
  OBVIOUS
<1> USE DEF Standing
<1>1. operation \in [Operations -> OperationRows]
  BY DEF IInv, TypeOK
<1>2. CASE Admits
  <2>1. PICK o \in Operations, role \in Roles, t \in Tasks, a \in Agents :
            SpawnNew(o, role, t, a)
    BY <1>2 DEF Admits
  <2>2. ~Recorded(o) /\ (op # o => operation'[op] = operation[op])
    BY <1>1, <2>1 DEF SpawnNew
  <2>3. CASE op = o
    BY <2>1, <2>2, <2>3
  <2>4. CASE op # o
    BY <2>2, <2>4, Known
  <2> QED BY <2>3, <2>4
<1>3. ASSUME NEW o \in Operations, Complete(o) PROVE Standing(op)
  <2>1. Recorded(o) /\ operation[o] \in OperationRows
    BY <1>3, Attended, Known, NameAssumption DEF Complete, Attends, Recorded
  <2>2. operation'[o] = Reconciled(operation[o], "observed")
        /\ (op # o => operation'[op] = operation[op])
    BY <1>1, <1>3 DEF Complete
  <2> QED BY <2>1, <2>2, ReconciledTypes, Known
<1>4. ASSUME NEW o \in Operations, RecordFailure(o) PROVE Standing(op)
  <2> DEFINE a == operation[o].agent
             row == Reconciled(operation[o], SpawnReconciliationState(a))
  <2>1. Recorded(o) /\ operation[o] \in OperationRows /\ a \in Agents
    BY <1>4, Attended, Known, NameAssumption
       DEF RecordFailure, Attends, Recorded
  <2>2. operation[o].reconciliation # "observed"
    BY <1>4 DEF RecordFailure, Attends, IInv, LoopInv
  <2>3. /\ operation'[o] \in {row, Reconciled(row, "observed")}
        /\ op # o => operation'[op] = operation[op]
    BY <1>1, <1>4 DEF RecordFailure
  <2>4. /\ row \in OperationRows /\ row.role = operation[o].role
        /\ row.task = operation[o].task /\ row.agent = operation[o].agent
        /\ row.reconciliation # "none"
    BY <2>1, StateTypes, ReconciledTypes
  <2> HIDE DEF row
  <2> QED BY <2>1, <2>2, <2>3, <2>4, ReconciledTypes, Known
<1>5. ASSUME NEW o \in Operations, Reconcile(o) PROVE Standing(op)
  <2> DEFINE state == SpawnReconciliationState(operation[o].agent)
  <2>1. Recorded(o) /\ operation[o].reconciliation # "observed"
    <3>1. operation[o].reconciliation \in {"desired", "unknown"}
      BY <1>5 DEF Reconcile, Requires
    <3>2. operation[o] # NotRequested
      BY <3>1 DEF NotRequested, Operation
    <3>3. operation[o].agent \in Agents
      BY <3>2 DEF IInv, RowsAgree
    <3> QED BY <3>1, <3>3, NameAssumption DEF Recorded
  <2>2. operation[o] \in OperationRows /\ operation[o].agent \in Agents
    BY <2>1, Known
  <2>3. /\ operation'[o] \in {operation[o], Reconciled(operation[o], state)}
        /\ op # o => operation'[op] = operation[op]
    BY <1>1, <1>5 DEF Reconcile
  <2>4. state \in {"desired", "observed", "unknown", "lost"}
    BY <2>2, StateTypes
  <2> HIDE DEF state
  <2> QED BY <2>1, <2>2, <2>3, <2>4, ReconciledTypes, Known
<1>6. CASE UNCHANGED operation
  BY <1>6, Known
<1> QED
  BY <1>2, <1>3, <1>4, <1>5, <1>6, Footprints DEF Footprint, OperationMoves

(* An assignment keeps its task, and ends once.                             *)
LEMMA AssignmentStep ==
    ASSUME IInv, [Next]_vars, NEW b \in Agents, Exists(b)
    PROVE  /\ assignment'[b].task = assignment[b].task
           /\ assignment[b].state # "none" => assignment'[b].state # "none"
           /\ assignment[b].state \in {"completed", "released"} =>
                assignment'[b] = assignment[b]
           /\ Unstarted(b) => assignment'[b] = assignment[b]
<1>1. assignment \in [Agents -> AssignmentRows]
      /\ assignment[b] \in AssignmentRows
  BY DEF IInv, TypeOK
<1>2. CASE Admits
  BY <1>1, <1>2 DEF Admits, SpawnNew, Exists
<1>3. ASSUME NEW a \in Agents, Finishes(a) \/ RecoverTask(a)
      PROVE  /\ a # b => assignment'[b] = assignment[b]
             /\ assignment[a].state = "active"
             /\ ~Unstarted(a)
             /\ \E state \in {"completed", "released"} :
                    assignment'[a] = [assignment[a] EXCEPT !.state = state]
  <2>1. SessionRow(a)
    BY DEF IInv
  <2> QED BY <1>1, <1>3, <2>1
       DEF Finishes, FinishCompleted, FinishFailed, FinishAssignment,
           CredentialActive, RecoverTask, SessionRow, Unstarted, NoSession,
           Session
<1>5. UNCHANGED ledger => UNCHANGED assignment
  BY DEF ledger
<1>6. CASE assignment'[b] = assignment[b]
  BY <1>6
<1>7. ASSUME NEW a \in Agents, Finishes(a) \/ RecoverTask(a), a = b
      PROVE  /\ assignment[b].state = "active" /\ ~Unstarted(b)
             /\ assignment'[b].task = assignment[b].task
             /\ assignment'[b].state # "none"
  <2>1. PICK state \in {"completed", "released"} :
            assignment'[b] = [assignment[b] EXCEPT !.state = state]
    BY <1>3, <1>7
  <2>2. /\ assignment'[b].task = assignment[b].task
        /\ assignment'[b].state = state
    BY <1>1, <2>1, Fields
  <2>3. assignment[b].state = "active" /\ ~Unstarted(b)
    BY <1>3, <1>7
  <2> QED BY <2>2, <2>3
<1> QED
  BY <1>2, <1>3, <1>5, <1>6, <1>7, Footprints
     DEF Footprint, LedgerMoves

(* An operation and its agent agree for ever.                               *)
LEMMA RowsAgreeStep == IInv /\ [Next]_vars => RowsAgree'
<1> SUFFICES ASSUME IInv, [Next]_vars PROVE RowsAgree'
  OBVIOUS
<1>1. /\ operation \in [Operations -> OperationRows]
      /\ agent \in [Everyone -> AgentRows]
      /\ assignment \in [Agents -> AssignmentRows]
      /\ answers \in [Operations -> SUBSET (Requests \X Agents)]
  BY DEF IInv, TypeOK
<1>2. ASSUME NEW o \in Operations
      PROVE  \/ operation'[o] = NotRequested /\ answers'[o] = {}
             \/ LET a == operation'[o].agent
                IN /\ a \in Agents
                   /\ agent'[a].state # "none"
                   /\ operation'[o].role \in Roles
                   /\ operation'[o].role = agent'[a].role
                   /\ operation'[o].task \in Tasks
                   /\ operation'[o].task = assignment'[a].task
                   /\ assignment'[a].state # "none"
                   /\ operation'[o].reconciliation # "none"
  <2>1. CASE Recorded(o)
    <3>1. \A b \in Agents :
            Exists(b) => agent'[b].state # "none"
                         /\ agent'[b].role = agent[b].role
      BY LastingStep DEF Lasting, Exists
    <3>2. Standing(o)
      BY StandingStep
    <3> DEFINE a == operation[o].agent
    <3>3. /\ operation'[o].agent = a
          /\ operation'[o].role = operation[o].role
          /\ operation'[o].task = operation[o].task
          /\ operation'[o].reconciliation # "none"
      BY <2>1, <3>2 DEF Standing
    <3>4. agent'[a].state # "none" /\ agent'[a].role = agent[a].role
      BY <2>1, <3>1, Known
    <3>5. /\ assignment'[a].task = assignment[a].task
          /\ assignment'[a].state # "none"
      BY <2>1, Known, AssignmentStep
    <3> HIDE DEF a
    <3>6. /\ a \in Agents
          /\ operation[o].role \in Roles
          /\ operation[o].role = agent[a].role
          /\ operation[o].task \in Tasks
          /\ operation[o].task = assignment[a].task
      BY <2>1, Known DEF a
    <3> QED BY <3>3, <3>4, <3>5, <3>6
  <2>2. ASSUME NEW role \in Roles, NEW t \in Tasks, NEW a \in Agents,
               SpawnNew(o, role, t, a)
        PROVE  LET b == operation'[o].agent
               IN /\ b \in Agents
                  /\ agent'[b].state # "none"
                  /\ operation'[o].role \in Roles
                  /\ operation'[o].role = agent'[b].role
                  /\ operation'[o].task \in Tasks
                  /\ operation'[o].task = assignment'[b].task
                  /\ assignment'[b].state # "none"
                  /\ operation'[o].reconciliation # "none"
    <3>1. /\ operation'[o] = Operation(role, t, a, "desired", 0)
          /\ agent'[a] = Agent(role, "starting")
          /\ assignment'[a] = Assignment(t, "active")
      BY <1>1, <2>2 DEF SpawnNew, Everyone
    <3> QED BY <3>1 DEF Operation, Agent, Assignment, Exists
  <2>3. CASE ~Recorded(o) /\ operation'[o] = operation[o]
    <3>1. operation[o] = NotRequested /\ answers[o] = {}
      BY <2>3, NameAssumption DEF IInv, RowsAgree, Recorded
    <3>2. ASSUME NEW x \in Operations, AttemptAnswered(x) \/ Complete(x)
          PROVE  answers'[o] = answers[o]
      <4>1. x # o
        BY <2>3, <3>2, Attended, NameAssumption
           DEF AttemptAnswered, Complete, Attends, Recorded
      <4> QED BY <1>1, <3>2, <4>1 DEF AttemptAnswered, Complete, Answered
    <3> QED BY <2>3, <3>1, <3>2, Footprints DEF Footprint, AnswerMoves
  <2> QED BY <2>1, <2>2, <2>3, StandingStep DEF Standing
<1>3. ASSUME NEW b \in Agents, ~Exists(b)'
      PROVE  /\ session'[b] = NoSession
             /\ process'[b] = [started |-> 0, alive |-> FALSE]
             /\ assignment'[b].state = "none"
  <2>1. ~Exists(b)
    BY <1>3, LastingStep DEF Lasting
  <2>2. /\ session[b] = NoSession
        /\ process[b] = [started |-> 0, alive |-> FALSE]
        /\ assignment[b].state = "none"
        /\ ~session[b].identified /\ ~session[b].backoff
        /\ ~process[b].alive /\ Unstarted(b)
        /\ \A o \in Operations : operation[o].agent # b
    BY <2>1, Absent DEF IInv, RowsAgree
  <2>3. session'[b] = session[b]
    <3>1. ASSUME NEW o \in Operations,
                 \/ PersistIntent(o) \/ AdmitLaunch(o) \/ RecordLaunch(o)
                 \/ StartProvedFailed(o) \/ StartUnproved(o)
          PROVE  session'[b] = session[b]
      BY <2>2, <3>1 DEF IInv, TypeOK, PersistIntent, AdmitLaunch,
         RecordLaunch, StartProvedFailed, StartUnproved
    <3>2. ASSUME NEW a \in Agents, WorkerObserved(a) \/ BackoffElapses(a)
          PROVE  session'[b] = session[b]
      BY <2>2, <3>2 DEF IInv, TypeOK, WorkerObserved, BackoffElapses
    <3>3. CASE Restart
      BY <2>2, <3>3 DEF Restart, LiveSessions
    <3> QED BY <3>1, <3>2, <3>3, Footprints DEF Footprint, SessionMoves
  <2>4. process'[b] = process[b]
    <3>1. ASSUME NEW o \in Operations, StartProvider(o) \/ StartUnproved(o)
          PROVE  process'[b] = process[b]
      BY <2>2, <3>1 DEF IInv, TypeOK, StartProvider, StartUnproved
    <3>2. ASSUME NEW a \in Agents, WorkerExits(a)
          PROVE  process'[b] = process[b]
      BY <2>2, <3>2 DEF IInv, TypeOK, WorkerExits
    <3> QED BY <3>1, <3>2, Footprints DEF Footprint, ProcessMoves
  <2>5. assignment'[b] = assignment[b]
    <3>1. CASE Admits
      BY <1>1, <1>3, <3>1
         DEF Admits, SpawnNew, Exists, Agent, Everyone
    <3>2. ASSUME NEW a \in Agents, Finishes(a) \/ RecoverTask(a)
          PROVE  assignment'[b] = assignment[b]
      BY <1>1, <2>2, <3>2
         DEF Finishes, FinishCompleted, FinishFailed, FinishAssignment,
             RecoverTask
    <3> QED
      BY <3>1, <3>2, Footprints DEF Footprint, LedgerMoves, ledger
  <2> QED BY <2>2, <2>3, <2>4, <2>5
<1>4. ASSUME Exists(Lead)' PROVE agent'[Lead].role = LeadRole
  <2> USE DEF Everyone
  <2>1. Lead \in Everyone /\ Lead \notin Agents
    BY NameAssumption
  <2>2. Exists(Lead) => agent[Lead].role = LeadRole
    BY DEF IInv, RowsAgree
  <2>3. CASE LaunchForeground \/ LeadObserved
    BY <1>1, <2>1, <2>3 DEF LaunchForeground, LeadObserved, Agent
  <2>4. CASE agent'[Lead] = agent[Lead]
    BY <1>4, <2>2, <2>4 DEF Exists
  <2>5. CASE Admits
    BY <1>1, <2>1, <2>4, <2>5 DEF Admits, SpawnNew
  <2>6. ASSUME NEW o \in Operations,
               \/ StartProvedFailed(o) \/ StartUnproved(o)
               \/ RecordFailure(o)
        PROVE  agent'[Lead] = agent[Lead]
    <3>1. operation[o].agent \in Agents
      BY <2>6, Attended
         DEF StartProvedFailed, StartUnproved, RecordFailure, Attends
    <3> QED BY <1>1, <2>1, <2>6, <3>1
         DEF StartProvedFailed, StartUnproved, RecordFailure, Quarantined
  <2>7. ASSUME NEW a \in Agents, WorkerObserved(a)
        PROVE  agent'[Lead] = agent[Lead]
    BY <1>1, <2>1, <2>7 DEF WorkerObserved
  <2>8. CASE Restart
    BY <2>1, <2>4, <2>8 DEF Restart, LiveSessions
  <2> QED BY <2>3, <2>4, <2>5, <2>6, <2>7, <2>8, Footprints
       DEF Footprint, AgentMoves
<1> QED BY <1>2, <1>3, <1>4 DEF RowsAgree, Exists

-----------------------------------------------------------------------------
(* Tasks and the directory                                                  *)

(* What a step does to one active assignment and to the task it holds.      *)
LEMMA TasksOwnedStep == IInv /\ [Next]_vars => TasksOwned'
<1> SUFFICES ASSUME IInv, [Next]_vars PROVE TasksOwned'
  OBVIOUS
<1>1. /\ assignment \in [Agents -> AssignmentRows]
      /\ task \in [Tasks -> TaskRows]
      /\ \A a \in Agents : assignment[a] \in AssignmentRows
      /\ TasksOwned
  BY DEF IInv, TypeOK
<1>2. \A a \in Agents :
        assignment[a].state = "active" => assignment[a].task \in Tasks
  <2> SUFFICES ASSUME NEW a \in Agents, assignment[a].state = "active"
               PROVE  assignment[a].task \in Tasks
    OBVIOUS
  <2>1. Exists(a)
    BY Absent
  <2>2. PICK o \in Operations : operation[o].agent = a
    BY <2>1 DEF IInv, SpawnedOnce
  <2>3. Recorded(o)
    BY <2>2, NameAssumption DEF Recorded
  <2> QED BY <2>2, <2>3, Known
<1>3. CASE Admits
  <2>1. PICK o \in Operations, role \in Roles, t \in Tasks, a \in Agents :
            SpawnNew(o, role, t, a)
    BY <1>3 DEF Admits
  <2>2. /\ assignment' = [assignment EXCEPT ![a] = Assignment(t, "active")]
        /\ task' = [task EXCEPT ![t] =
                        [status |-> "in_progress", recovered |-> FALSE]]
        /\ task[t].status = "open"
        /\ assignment[a].state # "active"
    BY <2>1, Absent DEF SpawnNew, Ready
  <2>3. \A b \in Agents : assignment[b].state = "active" =>
            b # a /\ assignment[b].task # t
    BY <1>1, <2>2 DEF TasksOwned
  <2> QED BY <1>1, <1>2, <2>2, <2>3 DEF TasksOwned, Assignment
<1>4. ASSUME NEW a \in Agents, Finishes(a) \/ RecoverTask(a)
      PROVE  TasksOwned'
  <2>1. /\ assignment[a].state = "active" /\ assignment[a].task \in Tasks
        /\ \A b \in Agents : b # a => assignment'[b] = assignment[b]
        /\ \A t \in Tasks : t # assignment[a].task => task'[t] = task[t]
    BY <1>1, <1>2, <1>4
       DEF Finishes, FinishCompleted, FinishFailed, FinishAssignment,
           RecoverTask
  <2>2. assignment'[a].state # "active"
    <3>1. PICK state \in {"completed", "released"} :
            assignment'[a] = [assignment[a] EXCEPT !.state = state]
      BY <1>1, <1>4
         DEF Finishes, FinishCompleted, FinishFailed, FinishAssignment,
             RecoverTask
    <3> QED BY <1>1, <3>1, Fields
  <2> QED BY <1>1, <1>2, <2>1, <2>2 DEF TasksOwned
<1>6. CASE UNCHANGED ledger
  BY <1>1, <1>6 DEF TasksOwned, ledger
<1> QED
  BY <1>3, <1>4, <1>6, Footprints DEF Footprint, LedgerMoves

(* Whoever holds the directory after a step held it before, unless the step *)
(* admits a spawn, which asks for the directory to be free.                 *)
LEMMA OneHolderStep == IInv /\ [Next]_vars => OneHolder'
<1> SUFFICES ASSUME IInv, [Next]_vars PROVE OneHolder'
  OBVIOUS
<1>1. ASSUME NEW b \in Agents, Exists(b), ~HoldsDirectory(b)
      PROVE  ~HoldsDirectory(b)'
  <2>1. agent'[b].state # "none" /\ agent'[b].role = agent[b].role
    BY <1>1, LastingStep DEF Lasting, Exists
  <2>2. CASE ~Writes(b)
    BY <1>1, <2>1, <2>2 DEF HoldsDirectory, Writes
  <2>3. CASE /\ assignment[b].state \in {"completed", "released"}
             /\ session[b].reconciliation = "observed"
             /\ agent[b].state = "exited"
    <3>1. agent'[b] = agent[b]
          /\ session'[b].reconciliation = session[b].reconciliation
      BY <2>3, LastingStep DEF Lasting, Ended, TerminalStates
    <3>2. assignment'[b] = assignment[b]
      BY <1>1, <2>3, AssignmentStep
    <3> QED BY <2>3, <3>1, <3>2 DEF HoldsDirectory
  <2> QED BY <1>1, <2>2, <2>3 DEF HoldsDirectory
<1>2. CASE Admits
  <2>1. PICK o \in Operations, role \in Roles, t \in Tasks, a \in Agents :
            SpawnNew(o, role, t, a)
    BY <1>2 DEF Admits
  <2>2. ~Exists(a) /\ DirectoryFree(role)
    BY <2>1 DEF SpawnNew
  <2>3. agent'[a].role = role
        /\ \A b \in Agents : b # a => agent'[b] = agent[b]
    BY <2>1 DEF SpawnNew, Agent, IInv, TypeOK, Everyone
  <2>4. \A b \in Agents : b # a /\ ~Exists(b) => ~HoldsDirectory(b)'
    BY <2>3 DEF HoldsDirectory, Writes, Exists
  <2>5. CASE role \in ProjectRoles
    <3>1. \A b \in Agents : ~HoldsDirectory(b)
      BY <2>2, <2>5 DEF DirectoryFree
    <3> QED BY <1>1, <2>4, <3>1 DEF OneHolder
  <2>6. CASE role \notin ProjectRoles
    <3>1. ~HoldsDirectory(a)'
      BY <2>3, <2>6 DEF HoldsDirectory, Writes
    <3> QED BY <1>1, <2>4, <3>1 DEF OneHolder, IInv
  <2> QED BY <2>5, <2>6
<1>3. CASE ~Admits
  <2>1. ASSUME NEW b \in Agents, ~Exists(b) PROVE ~HoldsDirectory(b)'
    <3>1. agent'[b] = agent[b]
      <4> USE DEF IInv, TypeOK, Everyone
      <4>1. CASE LaunchForeground \/ LeadObserved
        BY <4>1, NameAssumption DEF LaunchForeground, LeadObserved
      <4>2. ASSUME NEW o \in Operations,
                   \/ StartProvedFailed(o) \/ StartUnproved(o)
                   \/ RecordFailure(o)
            PROVE  agent'[b] = agent[b]
        <5>1. operation[o].agent # b
          BY <2>1, Absent
        <5> QED BY <4>2, <5>1
             DEF StartProvedFailed, StartUnproved, RecordFailure, Quarantined
      <4>3. ASSUME NEW a \in Agents, WorkerObserved(a)
            PROVE  agent'[b] = agent[b]
        BY <2>1, <4>3, Absent DEF WorkerObserved
      <4>4. CASE Restart
        BY <2>1, <4>4, Absent DEF Restart, LiveSessions
      <4> QED BY <1>3, <4>1, <4>2, <4>3, <4>4, Footprints
           DEF Footprint, AgentMoves
    <3> QED BY <2>1, <3>1 DEF HoldsDirectory, Writes, Exists
  <2> QED BY <1>1, <2>1 DEF OneHolder, IInv
<1> QED BY <1>2, <1>3

-----------------------------------------------------------------------------
(* Sessions and the thread                                                  *)

(* What the row of a session says stays true.                               *)
LEMMA SessionRowStep ==
    IInv /\ [Next]_vars => \A b \in Agents : SessionRow(b)'
<1> SUFFICES ASSUME IInv, [Next]_vars, NEW b \in Agents
             PROVE  SessionRow(b)'
  OBVIOUS
<1>1. /\ session \in [Agents -> SessionRows] /\ session[b] \in SessionRows
      /\ agent \in [Everyone -> AgentRows] /\ agent[b] \in AgentRows
      /\ process \in [Agents -> Processes] /\ process[b] \in Processes
      /\ process[b].started \in Nat
      /\ b \in Everyone
  BY DEF IInv, TypeOK, Everyone, Processes
<1>2. SessionRow(b) /\ process[b].started <= 1
  BY DEF IInv, SpawnedOnce
<1>3. CASE /\ session'[b] = session[b]
           /\ agent'[b] = agent[b]
           /\ process'[b] = process[b]
  BY <1>2, <1>3 DEF SessionRow, Unstarted
<1>4. CASE Admits
  <2>1. PICK o \in Operations, role \in Roles, t \in Tasks, a \in Agents :
            SpawnNew(o, role, t, a)
    BY <1>4 DEF Admits
  <2>2. CASE b = a
    <3>1. /\ session'[b] = NoSession
          /\ process'[b].started = 0 /\ ~process'[b].alive
          /\ agent'[b] = Agent(role, "starting")
      BY <1>1, <2>1, <2>2, Absent DEF SpawnNew
    <3> QED BY <3>1
         DEF SessionRow, Unstarted, NoSession, Session, Agent, TerminalStates
  <2>3. CASE b # a
    BY <1>1, <1>3, <2>1, <2>3 DEF SpawnNew
  <2> QED BY <2>2, <2>3
<1>5. CASE LaunchForeground \/ LeadObserved
  BY <1>1, <1>3, <1>5, NameAssumption DEF LaunchForeground, LeadObserved
<1>6. ASSUME NEW o \in Operations, PersistIntent(o), b = operation[o].agent
      PROVE  SessionRow(b)'
  <2>1. /\ session'[b] = Session("desired", FALSE, 0, FALSE, FALSE)
        /\ UNCHANGED <<agent, process>>
        /\ agent[b].state = "starting" /\ Unstarted(b)
    BY <1>1, <1>6 DEF PersistIntent
  <2> QED BY <1>2, <2>1
       DEF SessionRow, Unstarted, Session, TerminalStates
<1>7. ASSUME NEW o \in Operations, AdmitLaunch(o), b = operation[o].agent
      PROVE  SessionRow(b)'
  <2>1. agent[b].state = "starting"
    BY <1>7, Launching DEF AdmitLaunch
  <2>2. CASE UNCHANGED session
    BY <1>3, <1>7, <2>2 DEF AdmitLaunch
  <2>3. ASSUME NEW attempts,
               session' = [session EXCEPT ![b] =
                            Session("desired", FALSE, attempts, TRUE, FALSE)]
        PROVE  SessionRow(b)'
    <3>1. /\ session'[b] = Session("desired", FALSE, attempts, TRUE, FALSE)
          /\ UNCHANGED <<agent, process>>
      BY <1>1, <1>7, <2>3 DEF AdmitLaunch
    <3> QED BY <1>2, <2>1, <3>1
         DEF SessionRow, Unstarted, Session, TerminalStates
  <2> QED BY <1>7, <2>2, <2>3 DEF AdmitLaunch
<1>8. ASSUME NEW o \in Operations, StartProvider(o), b = operation[o].agent
      PROVE  SessionRow(b)'
  <2>1. /\ agent[b].state = "starting"
        /\ session[b].reconciliation = "desired"
        /\ session[b].in_flight /\ process[b].started = 0
        /\ ~session[b].identified
    BY <1>8, Launching DEF StartProvider
  <2>2. /\ process'[b].started = 1 /\ process'[b].alive = TRUE
        /\ UNCHANGED <<agent, session>>
    BY <1>1, <1>8, <2>1 DEF StartProvider
  <2> QED BY <1>2, <2>1, <2>2 DEF SessionRow, Unstarted, TerminalStates
<1>9. ASSUME NEW o \in Operations, StartProvedFailed(o),
             b = operation[o].agent
      PROVE  SessionRow(b)'
  <2>1. /\ agent[b].state = "starting" /\ process[b].started = 0
    BY <1>9, Launching DEF StartProvedFailed
  <2>2. /\ UNCHANGED process /\ ~process[b].alive
    BY <1>2, <1>9, <2>1 DEF StartProvedFailed, SessionRow
  <2>3. CASE session[b].attempts >= MaxLaunchAttempts
    <3>1. /\ session'[b] = Session("observed", FALSE, session[b].attempts,
                                   FALSE, FALSE)
          /\ agent'[b] = Agent(agent[b].role, "quarantined")
      BY <1>1, <1>9, <2>3 DEF StartProvedFailed
    <3> QED BY <2>1, <2>2, <3>1
         DEF SessionRow, Unstarted, Session, Agent, TerminalStates
  <2>4. CASE ~(session[b].attempts >= MaxLaunchAttempts)
    <3>1. /\ session'[b] = Session("desired", FALSE, session[b].attempts,
                                   FALSE, TRUE)
          /\ agent'[b] = agent[b]
      BY <1>1, <1>9, <2>4 DEF StartProvedFailed
    <3> QED BY <2>1, <2>2, <3>1
         DEF SessionRow, Unstarted, Session, TerminalStates
  <2> QED BY <2>3, <2>4
<1>10. ASSUME NEW o \in Operations, StartUnproved(o), b = operation[o].agent
       PROVE  SessionRow(b)'
  <2>1. process[b].started = 0
    BY <1>10, Launching DEF StartUnproved
  <2>2. /\ process'[b].started = 1
        /\ session'[b] = Session("unknown", FALSE, session[b].attempts,
                                 TRUE, FALSE)
        /\ agent'[b] = Agent(agent[b].role, "unknown")
    <3>1. PICK alive \in BOOLEAN : process' = [process EXCEPT ![b] =
                        [started |-> @.started + 1, alive |-> alive]]
      BY <1>10 DEF StartUnproved
    <3>2. process'[b].started = 1
      BY <1>1, <2>1, <3>1
    <3> QED BY <1>1, <1>10, <3>2 DEF StartUnproved
  <2> QED BY <2>2
       DEF SessionRow, Unstarted, Session, Agent, TerminalStates
<1>11. ASSUME NEW o \in Operations, RecordLaunch(o), b = operation[o].agent
       PROVE  SessionRow(b)'
  <2>1. agent[b].state = "starting" /\ process[b].started = 1
    BY <1>11, Launching DEF RecordLaunch
  <2>2. /\ UNCHANGED <<agent, process>>
        /\ session'[b] = Session("observed", TRUE, session[b].attempts,
                                 TRUE, FALSE)
    BY <1>1, <1>11 DEF RecordLaunch
  <2> QED BY <2>1, <2>2 DEF SessionRow, Unstarted, Session, TerminalStates
<1>12. ASSUME NEW o \in Operations, RecordFailure(o), b = operation[o].agent
       PROVE  SessionRow(b)'
  <2>1. \/ agent'[b] = agent[b]
        \/ Unstarted(b) /\ agent'[b] = Agent(agent[b].role, "quarantined")
    BY <1>1, <1>12 DEF RecordFailure, Quarantined
  <2>2. session'[b] = session[b] /\ process'[b] = process[b]
    BY <1>12 DEF RecordFailure
  <2> QED BY <1>2, <2>1, <2>2
       DEF SessionRow, Unstarted, NoSession, Session, Agent, TerminalStates
<1>13. ASSUME NEW o \in Operations,
              \/ PersistIntent(o) \/ AdmitLaunch(o) \/ StartProvider(o)
              \/ StartProvedFailed(o) \/ StartUnproved(o) \/ RecordLaunch(o)
              \/ RecordFailure(o),
              b # operation[o].agent
       PROVE  SessionRow(b)'
  <2>1. /\ session'[b] = session[b]
        /\ agent'[b] = agent[b]
        /\ process'[b] = process[b]
    BY <1>1, <1>13 DEF PersistIntent, AdmitLaunch, StartProvider,
       StartProvedFailed, StartUnproved, RecordLaunch, RecordFailure,
       Quarantined
  <2> QED BY <1>3, <2>1
<1>14. ASSUME NEW a \in Agents, WorkerObserved(a) PROVE SessionRow(b)'
  <2>1. PICK state \in Reports(a) :
          /\ agent' = [agent EXCEPT ![a] = Agent(@.role, state)]
          /\ session' = [session EXCEPT ![a].reconciliation =
                          IF state = "lost" THEN "lost" ELSE "observed"]
    BY <1>14 DEF WorkerObserved
  <2>2. UNCHANGED process /\ session[a].identified
    BY <1>14 DEF WorkerObserved
  <2>3. CASE b = a
    <3>1. /\ state \in {"running", "exited", "quarantined", "lost"}
          /\ state \in TerminalStates => ~process[b].alive
      BY <2>3 DEF Reports, TerminalStates
    <3>2. agent'[b].state = state
      BY <1>1, <2>1, <2>3 DEF Agent
    <3>3. /\ session'[b].reconciliation \in {"observed", "lost"}
          /\ session'[b].identified /\ session'[b].in_flight
      <4>1. session[b].in_flight /\ session[b].identified
        BY <1>2, <2>2, <2>3 DEF SessionRow
      <4>2. PICK r \in {"observed", "lost"} :
                session'[b] = [session[b] EXCEPT !.reconciliation = r]
        BY <1>1, <2>1, <2>3
      <4> QED BY <1>1, <4>1, <4>2, Fields
    <3> QED BY <1>2, <2>2, <2>3, <3>1, <3>2, <3>3 DEF SessionRow, Unstarted
  <2>4. CASE b # a
    BY <1>1, <1>3, <2>1, <2>2, <2>4
  <2> QED BY <2>3, <2>4
<1>15. ASSUME NEW a \in Agents, BackoffElapses(a) PROVE SessionRow(b)'
  <2>1. UNCHANGED <<agent, process>>
    BY <1>15 DEF BackoffElapses
  <2>2. CASE b = a
    <3>1. session'[b] = [session[b] EXCEPT !.backoff = FALSE]
          /\ session[b].backoff
      BY <1>1, <1>15, <2>2 DEF BackoffElapses
    <3>2. ~Unstarted(b)
      BY <1>2, <3>1 DEF SessionRow, NoSession, Session
    <3> QED BY <1>1, <1>2, <2>1, <3>1, <3>2, Fields
         DEF SessionRow, Unstarted
  <2>3. CASE b # a
    BY <1>1, <1>3, <1>15, <2>1, <2>3 DEF BackoffElapses
  <2> QED BY <2>2, <2>3
<1>16. ASSUME NEW a \in Agents, WorkerExits(a) PROVE SessionRow(b)'
  <2>1. UNCHANGED <<agent, session>>
    BY <1>16 DEF WorkerExits
  <2>2. CASE b = a
    <3>1. process'[b] = [process[b] EXCEPT !.alive = FALSE]
      BY <1>1, <1>16, <2>2 DEF WorkerExits
    <3>2. process'[b].started = process[b].started /\ ~process'[b].alive
      BY <1>1, <3>1, Fields
    <3> QED BY <1>2, <2>1, <3>2 DEF SessionRow, Unstarted
  <2>3. CASE b # a
    BY <1>1, <1>3, <1>16, <2>1, <2>3 DEF WorkerExits
  <2> QED BY <2>2, <2>3
<1>17. CASE Restart
  <2>1. PICK gone \in SUBSET {a \in LiveSessions : ~process[a].alive} :
          /\ session' = [a \in Agents |->
                IF a \in LiveSessions
                THEN [session[a] EXCEPT !.reconciliation =
                                            Concluded(a, a \in gone)]
                ELSE session[a]]
          /\ agent' = [a \in Everyone |->
                IF a \in LiveSessions /\ Concluded(a, a \in gone) # "desired"
                THEN Agent(agent[a].role, Concluded(a, a \in gone))
                ELSE agent[a]]
    BY <1>17 DEF Restart
  <2>2. UNCHANGED process
    BY <1>17 DEF Restart
  <2> DEFINE end == Concluded(b, b \in gone)
  <2>3. CASE b \in LiveSessions
    <3>1. /\ end \in {"desired", "unknown", "lost"}
          /\ end = "lost" => b \in gone /\ session[b].identified
          /\ session[b].identified => end \in {"unknown", "lost"}
          /\ end = "desired" => session[b].reconciliation = "desired"
      BY DEF Concluded
    <3>2. b \in gone => ~process[b].alive
      OBVIOUS
    <3>3. session'[b] = [session[b] EXCEPT !.reconciliation = end]
      BY <2>1, <2>3
    <3>4. agent'[b] = IF end = "desired" THEN agent[b]
                      ELSE Agent(agent[b].role, end)
      BY <1>1, <2>1, <2>3
    <3>5. ~Unstarted(b) /\ ~Ended(b)
      BY <2>3 DEF LiveSessions
    <3> HIDE DEF end
    <3>6. /\ session'[b].reconciliation = end
          /\ session'[b].identified = session[b].identified
          /\ session'[b].in_flight = session[b].in_flight
      BY <1>1, <3>1, <3>3, Fields
    <3>7. CASE end = "desired"
      BY <1>2, <2>2, <3>1, <3>4, <3>6, <3>7, <3>5 DEF SessionRow, Unstarted
    <3>8. CASE end # "desired"
      BY <1>2, <2>2, <3>1, <3>2, <3>4, <3>6, <3>8
         DEF SessionRow, Unstarted, Agent, TerminalStates
    <3> QED BY <3>7, <3>8
  <2>4. CASE b \notin LiveSessions
    BY <1>1, <1>3, <2>1, <2>2, <2>4
  <2> QED BY <2>3, <2>4
<1>18. CASE UNCHANGED <<session, agent, process>>
  BY <1>3, <1>18
<1> QED
  BY <1>4, <1>5, <1>6, <1>7, <1>8, <1>9, <1>10, <1>11, <1>12, <1>13, <1>14,
     <1>15, <1>16, <1>17, <1>18, Footprints
     DEF Footprint, AgentMoves, SessionMoves, ProcessMoves

(* Where the thread stands follows from the steps that brought it there.    *)
LEMMA LoopInvStep == IInv /\ [Next]_vars => LoopInv'
<1> SUFFICES ASSUME IInv, [Next]_vars PROVE LoopInv'
  OBVIOUS
<1>1. /\ session \in [Agents -> SessionRows]
      /\ process \in [Agents -> Processes]
      /\ operation \in [Operations -> OperationRows]
      /\ LoopInv
  BY DEF IInv, TypeOK
<1>2. CASE loop' \in {Serving, Down}
  BY <1>2 DEF LoopInv, Serving, Down, At
<1>3. ASSUME NEW o \in Operations, NEW role \in Roles, NEW t \in Tasks,
             (\E a \in Agents : SpawnNew(o, role, t, a))
             \/ SpawnReplayed(o, role, t)
      PROVE  LoopInv'
  <2>1. loop' = At("attempt", o, <<role, t>>)
    BY <1>3 DEF SpawnNew, SpawnReplayed
  <2>2. /\ operation'[o].role = role /\ operation'[o].task = t
        /\ operation'[o].agent # NoAgent
    <3>1. CASE SpawnReplayed(o, role, t)
      BY <3>1 DEF SpawnReplayed, SameRequest, Recorded
    <3>2. ASSUME NEW a \in Agents, SpawnNew(o, role, t, a)
          PROVE  /\ operation'[o].role = role /\ operation'[o].task = t
                 /\ operation'[o].agent # NoAgent
      BY <1>1, <3>2, NameAssumption DEF SpawnNew, Operation
    <3> QED BY <1>3, <3>1, <3>2
  <2> QED BY <2>1, <2>2 DEF LoopInv, At, Recorded
<1>4. CASE UNCHANGED loop /\ loop \in {Serving, Down}
  BY <1>2, <1>4
<1>5. ASSUME NEW o \in Operations, Reconcile(o) PROVE LoopInv'
  <2>1. CASE UNCHANGED loop
    BY <1>4, <1>5, <2>1 DEF Reconcile
  <2>2. CASE loop' = At("attempt", o, NoRequest) /\ UNCHANGED operation
    <3>1. operation[o] # NotRequested
      BY <1>5 DEF Reconcile, Requires, NotRequested, Operation
    <3>2. Recorded(o)
      BY <3>1, NameAssumption DEF IInv, RowsAgree, Recorded
    <3> QED BY <2>2, <3>2 DEF LoopInv, At, Recorded
  <2> QED BY <1>5, <2>1, <2>2 DEF Reconcile
<1>6. ASSUME NEW o \in Operations,
             \/ Materialize(o) \/ ProbeFails(o) \/ PersistIntent(o)
             \/ EnsureExistingLaunch(o) \/ AdmitLaunch(o)
             \/ StartProvider(o) \/ StartProvedFailed(o)
             \/ StartUnproved(o) \/ RecordLaunch(o)
      PROVE  LoopInv'
  <2> DEFINE a == operation[o].agent
  <2>1. /\ UNCHANGED operation /\ loop.operation = o
        /\ Recorded(o) /\ a \in Agents
        /\ loop.asked \in {NoRequest, <<operation[o].role,
                                        operation[o].task>>}
        /\ operation[o].reconciliation # "observed"
    BY <1>1, <1>6, Attended, NameAssumption
       DEF Materialize, ProbeFails, PersistIntent, EnsureExistingLaunch,
           AdmitLaunch, StartProvider, StartProvedFailed, StartUnproved,
           RecordLaunch, Attends, LoopInv, Recorded
  <2>2. ASSUME NEW stage \in {"launch", "failed"}, Proceed(stage)
        PROVE  LoopInv'
    BY <2>1, <2>2 DEF Proceed, At, LoopInv, Recorded
  <2>3. SessionRow(a) /\ process[a].started \in 0..1
    <3>1. process[a] \in Processes
      BY <1>1, <2>1
    <3>2. process[a].started <= 1 /\ SessionRow(a)
      BY <2>1 DEF IInv, SpawnedOnce
    <3> QED BY <3>1, <3>2 DEF Processes
  <2>4. CASE Materialize(o) \/ ProbeFails(o)
    BY <2>2, <2>4 DEF Materialize, ProbeFails
  <2>5. CASE StartProvedFailed(o) \/ StartUnproved(o)
    BY <2>2, <2>5 DEF StartProvedFailed, StartUnproved
  <2>6. CASE PersistIntent(o)
    <3>1. session'[a].reconciliation = "desired" /\ Proceed("admit")
      BY <1>1, <2>1, <2>6 DEF PersistIntent, Session
    <3> QED BY <2>1, <3>1 DEF Proceed, At, LoopInv, Recorded
  <2>7. CASE EnsureExistingLaunch(o)
    <3>1. CASE session[a].reconciliation = "desired"
      BY <2>1, <2>7, <3>1
         DEF EnsureExistingLaunch, Proceed, At, LoopInv, Recorded
    <3>2. CASE session[a].reconciliation = "observed"
               /\ agent[a].state # "quarantined"
      <4>1. session[a].identified
        BY <2>3, <3>2 DEF SessionRow
      <4>2. Proceed("finish") /\ UNCHANGED session
        BY <2>7, <3>2 DEF EnsureExistingLaunch
      <4> QED BY <2>1, <4>1, <4>2 DEF Proceed, At, LoopInv, Recorded
    <3>3. CASE ~(session[a].reconciliation = "desired")
               /\ ~(/\ session[a].reconciliation = "observed"
                    /\ agent[a].state # "quarantined")
      <4>1. Proceed("failed")
        BY <2>7, <3>3 DEF EnsureExistingLaunch
      <4> QED BY <2>2, <4>1
    <3> QED BY <3>1, <3>2, <3>3
  <2>8. CASE AdmitLaunch(o)
    <3>1. CASE Proceed("failed")
      BY <2>2, <3>1
    <3>2. ASSUME NEW attempts, MayLaunch(a), Proceed("start"),
                 session' = [session EXCEPT ![a] =
                            Session("desired", FALSE, attempts, TRUE, FALSE)]
          PROVE  LoopInv'
      <4>1. process[a].started = 0
        BY <2>3, <3>2 DEF MayLaunch, SessionRow
      <4>2. /\ session'[a].reconciliation = "desired"
            /\ session'[a].in_flight /\ UNCHANGED process
        BY <1>1, <2>1, <2>8, <3>2 DEF AdmitLaunch, Session
      <4> QED BY <2>1, <3>2, <4>1, <4>2 DEF Proceed, At, LoopInv, Recorded
    <3> QED BY <2>8, <3>1, <3>2 DEF AdmitLaunch
  <2>9. CASE StartProvider(o)
    <3>1. /\ session[a].in_flight /\ process[a].started = 0
          /\ session[a].reconciliation = "desired"
      BY <2>9, Launching DEF StartProvider
    <3>2. /\ process'[a].started = 1 /\ UNCHANGED session
          /\ Proceed("record")
      BY <1>1, <2>1, <2>9, <3>1 DEF StartProvider
    <3> QED BY <2>1, <3>1, <3>2 DEF Proceed, At, LoopInv, Recorded
  <2>10. CASE RecordLaunch(o)
    <3>1. session'[a].identified /\ Proceed("finish")
      BY <1>1, <2>1, <2>10 DEF RecordLaunch, Session
    <3> QED BY <2>1, <3>1 DEF Proceed, At, LoopInv, Recorded
  <2> QED BY <1>6, <2>4, <2>5, <2>6, <2>7, <2>8, <2>9, <2>10
<1>7. ASSUME NEW o \in Operations,
             \/ AttemptRefused(o) \/ AttemptAnswered(o) \/ Complete(o)
             \/ RecordFailure(o)
      PROVE  LoopInv'
  BY <1>2, <1>7 DEF AttemptRefused, AttemptAnswered, Complete, RecordFailure
<1>8. CASE LaunchForeground \/ LeadObserved
  BY <1>4, <1>8 DEF LaunchForeground, LeadObserved
<1>9. ASSUME NEW a \in Agents,
             Finishes(a) \/ RecoverTask(a) \/ WorkerObserved(a)
      PROVE  LoopInv'
  BY <1>4, <1>9
     DEF Finishes, FinishCompleted, FinishFailed, FinishAssignment,
         RecoverTask, WorkerObserved
<1>10. ASSUME NEW a \in Agents, WorkerExits(a) \/ BackoffElapses(a)
       PROVE  LoopInv'
  <2>1. loop \in {Serving, Down}
    BY <1>1, <1>10 DEF WorkerExits, BackoffElapses, LoopInv
  <2> QED BY <1>4, <1>10, <2>1 DEF WorkerExits, BackoffElapses
<1>12. ASSUME NEW o \in Operations, MinutePasses(o) PROVE LoopInv'
  BY <1>4, <1>12 DEF MinutePasses
<1>13. CASE Crash \/ Restart
  BY <1>2, <1>13 DEF Crash, Restart
<1>14. CASE UNCHANGED vars
  BY <1>1, <1>14 DEF vars, LoopInv, Recorded
<1>15. ASSUME Command PROVE LoopInv'
  BY <1>3, <1>8, <1>9, <1>15 DEF Command, Finishes
<1>16. ASSUME NEW o \in Operations, Attempt(o) PROVE LoopInv'
  BY <1>6, <1>7, <1>16 DEF Attempt
<1>17. ASSUME Outside PROVE LoopInv'
  BY <1>8, <1>10, <1>12, <1>17 DEF Outside
<1> QED BY <1>5, <1>9, <1>13, <1>14, <1>15, <1>16, <1>17 DEF Next

-----------------------------------------------------------------------------
(* The ceilings                                                             *)

(* The agents of a role that take a slot.                                   *)
ActiveOf(role) == {a \in Active : agent[a].role = role}

(* A set under its limit may grow by one member.                            *)
LEMMA RoomForOne ==
    ASSUME NEW S, NEW T, NEW x, IsFiniteSet(S), T \subseteq S \cup {x},
           NEW n \in Nat, Cardinality(S) < n
    PROVE  IsFiniteSet(T) /\ Cardinality(T) <= n
<1>1. /\ IsFiniteSet(S \cup {x})
      /\ Cardinality(S \cup {x})
            \in {Cardinality(S), Cardinality(S) + 1}
  BY FS_AddElement
<1>2. IsFiniteSet(T) /\ Cardinality(T) <= Cardinality(S \cup {x})
  BY <1>1, FS_Subset
<1>3. Cardinality(S) \in Nat /\ Cardinality(T) \in Nat
  BY <1>2, FS_CardinalityType
<1> QED BY <1>1, <1>2, <1>3

(* A set that loses members stays within its limit.                         *)
LEMMA NoMore ==
    ASSUME NEW S, NEW T, IsFiniteSet(S), T \subseteq S, NEW n \in Nat,
           Cardinality(S) <= n
    PROVE  IsFiniteSet(T) /\ Cardinality(T) <= n
<1>1. IsFiniteSet(T) /\ Cardinality(T) <= Cardinality(S)
  BY FS_Subset
<1>2. Cardinality(S) \in Nat /\ Cardinality(T) \in Nat
  BY <1>1, FS_CardinalityType
<1> QED BY <1>1, <1>2

(* The sets the ceilings count are finite.                                  *)
LEMMA FiniteSets ==
    ASSUME IInv
    PROVE  /\ IsFiniteSet(Active)
           /\ \A role \in Roles : IsFiniteSet(ActiveOf(role))
<1>1. IsFiniteSet(AgentsOfRun) /\ Active \subseteq AgentsOfRun
  BY DEF IInv, Finite, Active, AgentsOfRun
<1>2. \A role : ActiveOf(role) \subseteq AgentsOfRun
  BY <1>1 DEF ActiveOf
<1> QED BY <1>1, <1>2, FS_Subset

(* A step that admits no agent adds nothing to what the ceilings count.     *)
LEMMA NothingAdmitted ==
    ASSUME IInv, [Next]_vars, ~Admits, ~LaunchForeground
    PROVE  /\ AgentsOfRun' \subseteq AgentsOfRun
           /\ Active' \subseteq Active
           /\ \A role \in Roles : ActiveOf(role)' \subseteq ActiveOf(role)
           /\ recent' \subseteq recent
<1>1. agent \in [Everyone -> AgentRows]
  BY DEF IInv, TypeOK
<1>2. ASSUME NEW b \in Agents, ~Exists(b) PROVE agent'[b].state = "none"
  <2>1. CASE LeadObserved
    BY <1>1, <1>2, <2>1, NameAssumption DEF LeadObserved, Exists, Everyone
  <2>2. ASSUME NEW o \in Operations,
               \/ StartProvedFailed(o) \/ StartUnproved(o)
               \/ RecordFailure(o)
        PROVE  agent'[b] = agent[b]
    <3>1. operation[o].agent # b
      BY <1>2, Absent
    <3> QED BY <1>1, <2>2, <3>1
         DEF StartProvedFailed, StartUnproved, RecordFailure, Quarantined,
             Everyone
  <2>3. ASSUME NEW a \in Agents, WorkerObserved(a)
        PROVE  agent'[b] = agent[b]
    BY <1>1, <1>2, <2>3, Absent DEF WorkerObserved, Everyone
  <2>4. CASE Restart
    BY <1>2, <2>4, Absent DEF Restart, LiveSessions, Everyone, Exists
  <2> QED BY <1>2, <2>1, <2>2, <2>3, <2>4, Footprints
       DEF Footprint, AgentMoves, Exists
<1>3. /\ Exists(Lead)' => Exists(Lead)
      /\ Ended(Lead) => agent'[Lead] = agent[Lead]
  <2> USE DEF Everyone
  <2>1. CASE LeadObserved
    BY <2>1 DEF LeadObserved, Exists, Ended, TerminalStates
  <2>2. CASE agent'[Lead] = agent[Lead]
    BY <2>2 DEF Exists
  <2>3. ASSUME NEW o \in Operations,
               \/ StartProvedFailed(o) \/ StartUnproved(o)
               \/ RecordFailure(o)
        PROVE  agent'[Lead] = agent[Lead]
    <3>1. operation[o].agent \in Agents
      BY <2>3, Attended
         DEF StartProvedFailed, StartUnproved, RecordFailure, Attends
    <3> QED BY <1>1, <2>3, <3>1, NameAssumption
         DEF StartProvedFailed, StartUnproved, RecordFailure, Quarantined
  <2>4. ASSUME NEW a \in Agents, WorkerObserved(a)
        PROVE  agent'[Lead] = agent[Lead]
    BY <1>1, <2>4, NameAssumption DEF WorkerObserved
  <2>5. CASE Restart
    BY <2>2, <2>5, NameAssumption DEF Restart, LiveSessions
  <2> QED BY <2>1, <2>2, <2>3, <2>4, <2>5, Footprints
       DEF Footprint, AgentMoves
<1>4. \A a \in Everyone : Exists(a)' => Exists(a)
  BY <1>2, <1>3 DEF Exists, Everyone
<1>5. \A a \in Everyone : Ended(a) => agent'[a] = agent[a]
  BY <1>3, LastingStep DEF Lasting, Everyone
<1>6. \A a \in Active' : a \in Active
  BY <1>4, <1>5 DEF Active, Exists, Ended
<1>7. ASSUME NEW role \in Roles, NEW a \in ActiveOf(role)'
      PROVE  a \in ActiveOf(role)
  <2>1. a \in Active /\ agent'[a].role = role
    BY <1>6, <1>7 DEF ActiveOf
  <2>2. CASE a = Lead
    <3>1. Exists(Lead)' /\ RowsAgree'
      BY <1>7, <2>2, RowsAgreeStep DEF ActiveOf, Active
    <3> QED BY <2>1, <2>2, <3>1, NameAssumption DEF RowsAgree
  <2>3. CASE a \in Agents
    <3>1. agent'[a].role = agent[a].role
      BY <2>1, <2>3, LastingStep DEF Lasting, Active
    <3> QED BY <2>1, <3>1 DEF ActiveOf
  <2> QED BY <2>1, <2>2, <2>3 DEF Active, Everyone
<1>8. recent' \subseteq recent
  <2>1. ASSUME NEW o \in Operations, MinutePasses(o)
        PROVE  recent' \subseteq recent
    BY <2>1 DEF MinutePasses
  <2> QED BY <2>1, Footprints DEF Footprint, RecentMoves
<1> QED BY <1>4, <1>6, <1>7, <1>8 DEF AgentsOfRun

(* A step that admits asked for a free slot under every ceiling it uses.    *)
LEMMA CeilingsStep == IInv /\ [Next]_vars => Finite' /\ CeilingsHold'
<1> SUFFICES ASSUME IInv, [Next]_vars PROVE Finite' /\ CeilingsHold'
  OBVIOUS
<1>1. /\ IsFiniteSet(AgentsOfRun) /\ IsFiniteSet(recent)
      /\ IsFiniteSet(Active)
      /\ \A role \in Roles : IsFiniteSet(ActiveOf(role))
  BY FiniteSets DEF IInv, Finite
<1>2. /\ Cardinality(Active) <= MaxConcurrent
      /\ Cardinality(AgentsOfRun) <= MaxAgentsPerRun
      /\ Cardinality(recent) <= MaxPerMinute
      /\ \A role \in Roles : Cardinality(ActiveOf(role)) <= RoleLimit[role]
  BY DEF IInv, CeilingsHold, ActiveOf
<1>3. /\ MaxConcurrent \in Nat /\ MaxAgentsPerRun \in Nat
      /\ MaxPerMinute \in Nat
      /\ \A role \in Roles : RoleLimit[role] \in Nat
  BY LimitAssumption
<1>4. ASSUME NEW o \in Operations, NEW role \in Roles, NEW t \in Tasks,
             NEW a \in Agents, SpawnNew(o, role, t, a)
      PROVE  Finite' /\ CeilingsHold'
  <2>1. /\ agent \in [Everyone -> AgentRows] /\ a \in Everyone
        /\ agent' = [agent EXCEPT ![a] = Agent(role, "starting")]
        /\ recent' = recent \cup {o}
        /\ RateBudget /\ RoleBudget(role) /\ LifetimeBudget
        /\ ConcurrencyBudget
    BY <1>4 DEF SpawnNew, Admissible, IInv, TypeOK, Everyone
  <2>2. /\ AgentsOfRun' \subseteq AgentsOfRun \cup {a}
        /\ Active' \subseteq Active \cup {a}
    BY <2>1 DEF AgentsOfRun, Active, Exists, Ended
  <2>3. /\ ActiveOf(role)' \subseteq ActiveOf(role) \cup {a}
        /\ \A r \in Roles \ {role} : ActiveOf(r)' \subseteq ActiveOf(r)
    BY <2>1, <2>2 DEF ActiveOf, Agent
  <2>4. /\ IsFiniteSet(AgentsOfRun')
        /\ Cardinality(AgentsOfRun') <= MaxAgentsPerRun
    <3>1. Cardinality(AgentsOfRun) < MaxAgentsPerRun
      BY <2>1 DEF LifetimeBudget
    <3> QED BY <1>1, <1>3, <2>2, <3>1, RoomForOne
  <2>5. Cardinality(Active') <= MaxConcurrent
    <3>1. Cardinality(Active) < MaxConcurrent
      BY <2>1 DEF ConcurrencyBudget
    <3> QED BY <1>1, <1>3, <2>2, <3>1, RoomForOne
  <2>6. IsFiniteSet(recent') /\ Cardinality(recent') <= MaxPerMinute
    <3>1. Cardinality(recent) < MaxPerMinute
      BY <2>1 DEF RateBudget
    <3> QED BY <1>1, <1>3, <2>1, <3>1, RoomForOne
  <2>7. Cardinality(ActiveOf(role)') <= RoleLimit[role]
    <3>1. Cardinality(ActiveOf(role)) < RoleLimit[role]
      BY <2>1 DEF RoleBudget, ActiveOf
    <3> QED BY <1>1, <1>3, <2>3, <3>1, RoomForOne
  <2>8. ASSUME NEW r \in Roles \ {role}
        PROVE  Cardinality(ActiveOf(r)') <= RoleLimit[r]
    BY <1>1, <1>2, <1>3, <2>3, NoMore
  <2>9. \A r \in Roles : Cardinality(ActiveOf(r)') <= RoleLimit[r]
    BY <2>7, <2>8
  <2> QED BY <2>4, <2>5, <2>6, <2>9 DEF Finite, CeilingsHold, ActiveOf
<1>5. ASSUME LaunchForeground PROVE Finite' /\ CeilingsHold'
  <2>1. /\ agent \in [Everyone -> AgentRows] /\ Lead \in Everyone
        /\ agent' = [agent EXCEPT ![Lead] = Agent(LeadRole, "starting")]
        /\ UNCHANGED recent
        /\ ~Exists(Lead) => LifetimeBudget
        /\ ConcurrencyBudget
    BY <1>5 DEF LaunchForeground, IInv, TypeOK, Everyone
  <2>2. /\ AgentsOfRun' \subseteq AgentsOfRun \cup {Lead}
        /\ Exists(Lead) => AgentsOfRun' \subseteq AgentsOfRun
        /\ Active' \subseteq Active \cup {Lead}
    BY <2>1 DEF AgentsOfRun, Active, Exists, Ended
  <2>3. \A r \in Roles : ActiveOf(r)' \subseteq ActiveOf(r)
    BY <2>1, <2>2, NameAssumption DEF ActiveOf, Agent
  <2>4. /\ IsFiniteSet(AgentsOfRun')
        /\ Cardinality(AgentsOfRun') <= MaxAgentsPerRun
    <3>1. CASE Exists(Lead)
      BY <1>1, <1>2, <1>3, <2>2, <3>1, NoMore
    <3>2. CASE ~Exists(Lead)
      <4>1. Cardinality(AgentsOfRun) < MaxAgentsPerRun
        BY <2>1, <3>2 DEF LifetimeBudget
      <4> QED BY <1>1, <1>3, <2>2, <4>1, RoomForOne
    <3> QED BY <3>1, <3>2
  <2>5. Cardinality(Active') <= MaxConcurrent
    <3>1. Cardinality(Active) < MaxConcurrent
      BY <2>1 DEF ConcurrencyBudget
    <3> QED BY <1>1, <1>3, <2>2, <3>1, RoomForOne
  <2>6. ASSUME NEW r \in Roles
        PROVE  Cardinality(ActiveOf(r)') <= RoleLimit[r]
    BY <1>1, <1>2, <1>3, <2>3, NoMore
  <2>7. IsFiniteSet(recent') /\ Cardinality(recent') <= MaxPerMinute
    BY <1>1, <1>2, <2>1
  <2> QED BY <2>4, <2>5, <2>6, <2>7 DEF Finite, CeilingsHold, ActiveOf
<1>6. ASSUME ~Admits, ~LaunchForeground PROVE Finite' /\ CeilingsHold'
  <2>1. /\ AgentsOfRun' \subseteq AgentsOfRun
        /\ Active' \subseteq Active
        /\ \A role \in Roles : ActiveOf(role)' \subseteq ActiveOf(role)
        /\ recent' \subseteq recent
    BY <1>6, NothingAdmitted
  <2>2. /\ IsFiniteSet(AgentsOfRun')
        /\ Cardinality(AgentsOfRun') <= MaxAgentsPerRun
    BY <1>1, <1>2, <1>3, <2>1, NoMore
  <2>3. IsFiniteSet(recent') /\ Cardinality(recent') <= MaxPerMinute
    BY <1>1, <1>2, <1>3, <2>1, NoMore
  <2>4. Cardinality(Active') <= MaxConcurrent
    BY <1>1, <1>2, <1>3, <2>1, NoMore
  <2>5. ASSUME NEW r \in Roles
        PROVE  Cardinality(ActiveOf(r)') <= RoleLimit[r]
    BY <1>1, <1>2, <1>3, <2>1, NoMore
  <2> QED BY <2>2, <2>3, <2>4, <2>5 DEF Finite, CeilingsHold, ActiveOf
<1> QED BY <1>4, <1>5, <1>6 DEF Admits

-----------------------------------------------------------------------------
(* One agent and one process of an operation, and evidence of its end       *)

(* No process is started twice.                                             *)
LEMMA StartedOnceStep ==
    IInv /\ [Next]_vars => \A b \in Agents : process'[b].started <= 1
<1> SUFFICES ASSUME IInv, [Next]_vars, NEW b \in Agents
             PROVE  process'[b].started <= 1
  OBVIOUS
<1>1. /\ process \in [Agents -> Processes] /\ process[b] \in Processes
      /\ process[b].started <= 1
  BY DEF IInv, TypeOK, SpawnedOnce
<1>2. ASSUME NEW o \in Operations, StartProvider(o) \/ StartUnproved(o)
      PROVE  process'[b].started <= 1
  <2> DEFINE a == operation[o].agent
  <2>1. a \in Agents /\ process[a].started = 0
    BY <1>2, Launching DEF StartProvider, StartUnproved
  <2>2. PICK alive \in BOOLEAN : process' = [process EXCEPT ![a] =
            [started |-> @.started + 1, alive |-> alive]]
    BY <1>2 DEF StartProvider, StartUnproved
  <2> QED BY <1>1, <2>1, <2>2
<1>3. ASSUME NEW a \in Agents, WorkerExits(a)
      PROVE  process'[b].started <= 1
  BY <1>1, <1>3, Fields DEF WorkerExits
<1> QED BY <1>1, <1>2, <1>3, Footprints DEF Footprint, ProcessMoves

(* Each agent is the agent of one operation.                                *)
LEMMA AdmittedOnceStep ==
    ASSUME IInv, [Next]_vars, NEW b \in Agents, Exists(b)'
    PROVE  \E o \in Operations :
            /\ operation'[o].agent = b
            /\ \A other \in Operations :
                operation'[other].agent = b => other = o
<1>1. operation \in [Operations -> OperationRows]
      /\ agent \in [Everyone -> AgentRows] /\ b \in Everyone
  BY DEF IInv, TypeOK, Everyone
<1>2. b # NoAgent
  BY NameAssumption
<1>3. CASE Exists(b)
  <2>1. PICK o \in Operations :
            /\ operation[o].agent = b
            /\ \A other \in Operations :
                operation[other].agent = b => other = o
    BY <1>3 DEF IInv, SpawnedOnce
  <2>2. operation'[o].agent = b
    BY <1>2, <2>1, StandingStep DEF Standing, Recorded
  <2>3. ASSUME NEW other \in Operations, operation'[other].agent = b
        PROVE  other = o
    <3>1. CASE Recorded(other)
      BY <2>1, <2>3, <3>1, StandingStep DEF Standing
    <3>2. CASE operation'[other] = operation[other]
      BY <2>1, <2>3, <3>2
    <3>3. ASSUME NEW role \in Roles, NEW t \in Tasks, NEW a \in Agents,
                 SpawnNew(other, role, t, a)
          PROVE  FALSE
      <4>1. operation'[other].agent = a /\ ~Exists(a)
        BY <1>1, <3>3 DEF SpawnNew, Operation
      <4> QED BY <1>3, <2>3, <4>1
    <3> QED BY <3>1, <3>2, <3>3, StandingStep DEF Standing
  <2> QED BY <2>2, <2>3
<1>4. CASE ~Exists(b)
  <2>1. \A o \in Operations : operation[o].agent # b
    BY <1>4, Absent
  <2>2. Admits
    <3>1. ~Admits /\ ~LaunchForeground => ~Exists(b)'
      BY <1>1, <1>4, NothingAdmitted DEF AgentsOfRun, Exists
    <3>2. LaunchForeground => ~Exists(b)'
      BY <1>1, <1>4, NameAssumption DEF LaunchForeground, Exists
    <3>3. Exists(b)'
      OBVIOUS
    <3> QED BY <3>1, <3>2, <3>3
  <2>3. PICK o \in Operations, role \in Roles, t \in Tasks, a \in Agents :
            SpawnNew(o, role, t, a)
    BY <2>2 DEF Admits
  <2>4. a = b
    BY <1>1, <1>4, <2>3 DEF SpawnNew, Exists
  <2>5. /\ operation'[o].agent = b
        /\ \A other \in Operations :
            other # o => operation'[other] = operation[other]
    BY <1>1, <2>3, <2>4 DEF SpawnNew, Operation
  <2> QED BY <2>1, <2>5
<1> QED BY <1>3, <1>4

(* What an answer says of an operation stays true of it.                    *)
Truthful(o, answer) ==
    LET a == operation[o].agent
    IN /\ answer = <<<<agent[a].role, assignment[a].task>>, a>>
       /\ operation[o].reconciliation = "observed"

(* Every answer given is true of what its operation did.                    *)
LEMMA AnswersStep ==
    IInv /\ [Next]_vars =>
        \A o \in Operations : \A answer \in answers'[o] :
            Truthful(o, answer)'
<1> SUFFICES ASSUME IInv, [Next]_vars, NEW o \in Operations,
                    NEW answer \in answers'[o]
             PROVE  Truthful(o, answer)'
  OBVIOUS
<1>1. /\ operation \in [Operations -> OperationRows]
      /\ answers \in [Operations -> SUBSET (Requests \X Agents)]
  BY DEF IInv, TypeOK
<1>2. ASSUME Recorded(o), Truthful(o, answer) PROVE Truthful(o, answer)'
  <2>1. /\ operation'[o].agent = operation[o].agent
        /\ operation'[o].reconciliation = "observed"
    BY <1>2, StandingStep DEF Standing, Truthful
  <2>2. \A b \in Agents : Exists(b) =>
            agent'[b].role = agent[b].role
            /\ assignment'[b].task = assignment[b].task
    BY LastingStep, AssignmentStep DEF Lasting
  <2> QED BY <1>2, <2>1, <2>2, Known DEF Truthful
<1>3. CASE answer \in answers[o]
  <2>1. Recorded(o)
    BY <1>3, NameAssumption DEF IInv, RowsAgree, Recorded
  <2>2. Truthful(o, answer)
    BY <1>3 DEF IInv, SpawnedOnce, Truthful
  <2> QED BY <1>2, <2>1, <2>2
<1>4. ASSUME NEW x \in Operations, AttemptAnswered(x) \/ Complete(x),
             answer \notin answers[o]
      PROVE  Truthful(o, answer)'
  <2>1. Answered(x)
    BY <1>4 DEF AttemptAnswered, Complete
  <2>2. /\ x = o
        /\ answer = <<loop.asked, operation[o].agent>>
        /\ loop.asked # NoRequest
    BY <1>1, <1>4, <2>1 DEF Answered
  <2>3. /\ loop.operation = o /\ loop.stage \notin {"serve", "down"}
        /\ UNCHANGED <<agent, assignment>>
    BY <1>4, <2>2 DEF AttemptAnswered, Complete, Attends, ledger
  <2>4. /\ loop.asked = <<operation[o].role, operation[o].task>>
        /\ operation[o].role = agent[operation[o].agent].role
        /\ operation[o].task = assignment[operation[o].agent].task
        /\ operation[o].agent \in Agents
    BY <2>2, <2>3, Attended
  <2>5. operation'[o].agent = operation[o].agent
        /\ operation'[o].reconciliation = "observed"
    <3>1. CASE AttemptAnswered(o)
      BY <3>1 DEF AttemptAnswered
    <3>2. CASE Complete(o)
      <4>1. operation[o] \in OperationRows
        BY <1>1
      <4>2. operation'[o] = Reconciled(operation[o], "observed")
        BY <1>1, <3>2 DEF Complete
      <4> QED BY <4>1, <4>2, ReconciledTypes
    <3> QED BY <1>4, <2>2, <3>1, <3>2
  <2> QED BY <2>2, <2>3, <2>4, <2>5 DEF Truthful
<1> QED BY <1>3, <1>4, Footprints DEF Footprint, AnswerMoves

(* The steps keep a spawn single.                                           *)
LEMMA SpawnedOnceStep == IInv /\ [Next]_vars => SpawnedOnce'
<1> SUFFICES ASSUME IInv, [Next]_vars PROVE SpawnedOnce'
  OBVIOUS
<1>1. \A b \in Agents : process'[b].started <= 1
  BY StartedOnceStep
<1>2. \A b \in Agents : Exists(b)' => \E o \in Operations :
        /\ operation'[o].agent = b
        /\ \A other \in Operations :
            operation'[other].agent = b => other = o
  BY AdmittedOnceStep
<1>3. \A o \in Operations : \A answer \in answers'[o] :
        Truthful(o, answer)'
  BY AnswersStep
<1> QED BY <1>1, <1>2, <1>3 DEF SpawnedOnce, Truthful

(* The evidence for a settled operation: its worker was identified, or its  *)
(* launch was quarantined without a process.                                *)
Evidence(a) ==
    \/ session[a].identified /\ process[a].started = 1
    \/ agent[a].state = "quarantined" /\ process[a].started = 0

(* An operation without a session keeps its task, and tells by its row      *)
(* whether its agent was quarantined.                                       *)
Waiting(o) ==
    LET a == operation[o].agent
    IN /\ assignment[a] = Assignment(operation[o].task, "active")
       /\ task[operation[o].task].status = "in_progress"
       /\ (agent[a].state = "quarantined") =
                (operation[o].reconciliation = "observed")
       /\ operation[o].reconciliation = "desired" =>
                operation[o].attempts < MaxLaunchAttempts

Settled ==
    \A o \in Operations:
        /\ operation[o].reconciliation = "observed" =>
                Evidence(operation[o].agent)
        /\ Recorded(o) /\ Unstarted(operation[o].agent) => Waiting(o)

(* The property in terms of the evidence for an agent.                      *)
LEMMA SettledIs == SettledOnEvidence <=> Settled
  BY DEF SettledOnEvidence, Settled, Evidence, Waiting

(* Evidence is never lost.                                                  *)
LEMMA EvidenceStep ==
    ASSUME IInv, [Next]_vars, NEW b \in Agents, Evidence(b)
    PROVE  /\ \/ session'[b].identified /\ process'[b].started = 1
              \/ agent'[b].state = "quarantined" /\ process'[b].started = 0
  BY LastingStep DEF Evidence, Lasting, Ended, TerminalStates

(* An operation becomes settled only on evidence.                           *)
LEMMA SettlesStep ==
    ASSUME IInv, [Next]_vars, NEW op \in Operations, Recorded(op),
           operation[op].reconciliation # "observed",
           operation'[op].reconciliation = "observed"
    PROVE  LET a == operation[op].agent
           IN \/ session'[a].identified /\ process'[a].started = 1
              \/ agent'[a].state = "quarantined" /\ process'[a].started = 0
<1> DEFINE a == operation[op].agent
<1>1. /\ operation \in [Operations -> OperationRows]
      /\ operation[op] \in OperationRows
      /\ agent \in [Everyone -> AgentRows]
      /\ a \in Agents /\ a \in Everyone /\ Exists(a)
      /\ SessionRow(a)
  BY Known DEF IInv, TypeOK
<1>2. CASE Evidence(a)
  BY <1>1, <1>2, EvidenceStep
<1>3. ~Admits
  <2>1. ASSUME NEW o \in Operations, NEW role \in Roles, NEW t \in Tasks,
               NEW x \in Agents, SpawnNew(o, role, t, x)
        PROVE  operation'[op] = operation[op]
    BY <1>1, <2>1 DEF SpawnNew
  <2> QED BY <2>1 DEF Admits
<1>4. ASSUME NEW o \in Operations, Complete(o) PROVE Evidence(a)
  <2>1. o = op
    BY <1>1, <1>4 DEF Complete
  <2>2. session[a].identified
    BY <1>4, <2>1 DEF Complete, Attends, IInv, LoopInv
  <2> QED BY <1>1, <2>2 DEF SessionRow, Evidence
<1>5. ASSUME NEW o \in Operations, Reconcile(o) PROVE Evidence(a)
  <2>1. o = op
    BY <1>1, <1>5 DEF Reconcile
  <2>2. operation'[op] = Reconciled(operation[op],
                                    SpawnReconciliationState(a))
    BY <1>1, <1>5, <2>1 DEF Reconcile
  <2>3. SpawnReconciliationState(a) = "observed"
    BY <1>1, <2>2, StateTypes, ReconciledTypes
  <2> QED BY <1>1, <2>3, StateTypes DEF Evidence
<1>6. ASSUME NEW o \in Operations, RecordFailure(o)
      PROVE  \/ Evidence(a)
             \/ agent'[a].state = "quarantined" /\ process'[a].started = 0
  <2> DEFINE row == Reconciled(operation[op], SpawnReconciliationState(a))
             stop == Unstarted(a) /\ row.attempts >= MaxLaunchAttempts
  <2>1. o = op
    BY <1>1, <1>6 DEF RecordFailure
  <2>2. /\ ~stop => operation'[op] = row
        /\ stop => agent' = Quarantined(a)
        /\ UNCHANGED process
    BY <1>1, <1>6, <2>1 DEF RecordFailure
  <2>3. CASE ~stop
    <3>1. SpawnReconciliationState(a) = "observed"
      BY <1>1, <2>2, <2>3, StateTypes, ReconciledTypes
    <3> QED BY <1>1, <3>1, StateTypes DEF Evidence
  <2>4. CASE stop
    <3>1. /\ agent[a].state \in {"starting", "quarantined"}
          /\ process[a].started = 0
      BY <1>1, <2>4 DEF SessionRow, Exists
    <3>2. agent[a].state = "quarantined" => Evidence(a)
      BY <3>1 DEF Evidence
    <3>3. agent[a].state = "starting" => agent'[a].state = "quarantined"
      BY <1>1, <2>2, <2>4 DEF Quarantined, Agent
    <3> QED BY <2>2, <3>1, <3>2, <3>3
  <2> QED BY <2>3, <2>4
<1>7. Evidence(a) \/ (agent'[a].state = "quarantined"
                      /\ process'[a].started = 0)
  BY <1>3, <1>4, <1>5, <1>6, Footprints DEF Footprint, OperationMoves
<1> QED BY <1>2, <1>7

(* An agent without a session is touched by its own failure only.           *)
LEMMA UnstartedAgentStep ==
    ASSUME IInv, [Next]_vars, NEW b \in Agents, Exists(b), Unstarted(b),
           Unstarted(b)',
           \A o \in Operations : operation[o].agent = b => ~RecordFailure(o)
    PROVE  agent'[b] = agent[b]
<1>1. /\ agent \in [Everyone -> AgentRows] /\ b \in Everyone
      /\ SessionRow(b)
  BY DEF IInv, TypeOK, Everyone
<1>2. CASE Admits
  BY <1>1, <1>2 DEF Admits, SpawnNew
<1>3. CASE LaunchForeground \/ LeadObserved
  BY <1>1, <1>3, NameAssumption DEF LaunchForeground, LeadObserved
<1>4. ASSUME NEW o \in Operations, StartProvedFailed(o) \/ StartUnproved(o)
      PROVE  agent'[b] = agent[b]
  <2>1. operation[o].agent # b
    BY <1>4, Launching DEF StartProvedFailed, StartUnproved
  <2> QED BY <1>1, <1>4, <2>1 DEF StartProvedFailed, StartUnproved
<1>5. ASSUME NEW o \in Operations, RecordFailure(o)
      PROVE  agent'[b] = agent[b]
  BY <1>1, <1>5 DEF RecordFailure, Quarantined
<1>6. ASSUME NEW a \in Agents, WorkerObserved(a)
      PROVE  agent'[b] = agent[b]
  <2>1. a # b
    BY <1>1, <1>6 DEF WorkerObserved, SessionRow, NoSession, Session
  <2> QED BY <1>1, <1>6, <2>1 DEF WorkerObserved
<1>7. CASE Restart
  BY <1>1, <1>7 DEF Restart, LiveSessions
<1> QED BY <1>2, <1>3, <1>4, <1>5, <1>6, <1>7, Footprints
     DEF Footprint, AgentMoves

(* A task in progress whose assignment stays stays in progress.             *)
LEMMA TaskKept ==
    ASSUME IInv, [Next]_vars, NEW b \in Agents, NEW t \in Tasks,
           Exists(b), assignment[b] = Assignment(t, "active"),
           task[t].status = "in_progress",
           assignment'[b] = assignment[b]
    PROVE  task'[t].status = "in_progress"
<1>1. /\ task \in [Tasks -> TaskRows]
      /\ assignment \in [Agents -> AssignmentRows]
      /\ assignment[b].task = t /\ assignment[b].state = "active"
  BY DEF IInv, TypeOK, Assignment
<1>2. CASE Admits
  BY <1>1, <1>2 DEF Admits, SpawnNew
<1>3. ASSUME NEW a \in Agents, Finishes(a) \/ RecoverTask(a)
      PROVE  task'[t].status = "in_progress"
  <2>1. a # b
    <3>1. a = b => \E state \in {"completed", "released"} :
            assignment'[b] = [assignment[b] EXCEPT !.state = state]
      BY <1>1, <1>3
         DEF Finishes, FinishCompleted, FinishFailed, FinishAssignment,
             RecoverTask
    <3>2. assignment[b] \in AssignmentRows
      BY <1>1
    <3>3. \A state \in {"completed", "released"} :
            [assignment[b] EXCEPT !.state = state].state = state
      BY <3>2, Fields
    <3> QED BY <1>1, <3>1, <3>3
  <2>2. assignment[a].task # t
    BY <1>1, <1>3, <2>1
       DEF Finishes, FinishCompleted, FinishFailed, FinishAssignment,
           RecoverTask, IInv, TasksOwned
  <2> QED BY <1>1, <1>3, <2>2
     DEF Finishes, FinishCompleted, FinishFailed, FinishAssignment,
         RecoverTask
<1>5. CASE UNCHANGED ledger
  BY <1>5 DEF ledger
<1> QED
  BY <1>2, <1>3, <1>5, Footprints DEF Footprint, LedgerMoves

(* An operation that waits without a session goes on waiting or gets one.   *)
LEMMA WaitingStep ==
    ASSUME IInv, [Next]_vars, NEW op \in Operations, Recorded(op),
           Unstarted(operation[op].agent)',
           Unstarted(operation[op].agent)
    PROVE  Waiting(op)'
<1> DEFINE a == operation[op].agent
<1>1. /\ operation \in [Operations -> OperationRows]
      /\ operation[op] \in OperationRows
      /\ agent \in [Everyone -> AgentRows]
      /\ a \in Agents /\ a \in Everyone /\ Exists(a)
      /\ operation[op].task \in Tasks
      /\ SessionRow(a) /\ Waiting(op)
  BY Known, SettledIs DEF IInv, TypeOK, Settled
<1>2. /\ operation'[op].agent = a
      /\ operation'[op].task = operation[op].task
      /\ operation[op].reconciliation = "observed" =>
            operation'[op].reconciliation = "observed"
  BY StandingStep DEF Standing
<1>3. assignment'[a] = assignment[a]
  BY <1>1, AssignmentStep
<1>4. task'[operation[op].task].status = "in_progress"
  BY <1>1, <1>3, TaskKept DEF Waiting
<1>5. session'[a].reconciliation = "none"
  BY <1>2 DEF Unstarted
<1>6. CASE RecordFailure(op)
  <2> DEFINE row == Reconciled(operation[op], SpawnReconciliationState(a))
             stop == Unstarted(a) /\ row.attempts >= MaxLaunchAttempts
  <2>1. /\ operation'[op] = IF stop THEN Reconciled(row, "observed")
                            ELSE row
        /\ agent' = IF stop THEN Quarantined(a) ELSE agent
    BY <1>1, <1>6 DEF RecordFailure
  <2>2. /\ row \in OperationRows /\ row.reconciliation = "desired"
        /\ row.attempts \in Nat
    <3>1. SpawnReconciliationState(a) = "desired"
      BY <1>1, StateTypes
    <3>2. row \in OperationRows /\ row.reconciliation = "desired"
      BY <1>1, <3>1, ReconciledTypes
    <3> QED BY <3>2, LimitAssumption DEF OperationRows
  <2>3. agent[a].state = "starting"
    <3>1. operation[op].reconciliation # "observed"
      BY <1>6 DEF RecordFailure, Attends, IInv, LoopInv
    <3> QED BY <1>1, <3>1 DEF Waiting, SessionRow, Exists
  <2> HIDE DEF row
  <2>4. CASE stop
    <3>1. operation'[op].reconciliation = "observed"
      BY <2>1, <2>2, <2>4, ReconciledTypes
    <3>2. agent'[a].state = "quarantined"
      BY <1>1, <2>1, <2>3, <2>4 DEF Quarantined, Agent
    <3> QED BY <1>1, <1>2, <1>3, <1>4, <3>1, <3>2 DEF Waiting
  <2>5. CASE ~stop
    <3>1. operation'[op] = row /\ agent' = agent
      BY <2>1, <2>5
    <3>2. row.attempts < MaxLaunchAttempts
      BY <2>2, <2>5, LimitAssumption
    <3> QED BY <1>1, <1>2, <1>3, <1>4, <2>2, <2>3, <3>1, <3>2 DEF Waiting
  <2> QED BY <2>4, <2>5
<1>7. CASE ~RecordFailure(op)
  <2>1. agent'[a] = agent[a]
    <3>1. \A o \in Operations : operation[o].agent = a => o = op
      BY <1>1 DEF IInv, SpawnedOnce
    <3> QED BY <1>1, <1>2, <1>5, <1>7, <3>1, UnstartedAgentStep
         DEF Unstarted
  <2>2. operation'[op] = operation[op]
    <3>1. CASE Admits
      BY <1>1, <3>1 DEF Admits, SpawnNew
    <3>2. ASSUME NEW o \in Operations,
                 Complete(o) \/ RecordFailure(o) \/ Reconcile(o), o # op
          PROVE  operation'[op] = operation[op]
      BY <1>1, <3>2 DEF Complete, RecordFailure, Reconcile
    <3>3. ~Complete(op)
      BY <1>1 DEF Complete, Attends, IInv, LoopInv, SessionRow, NoSession,
         Session
    <3>4. Reconcile(op) => operation'[op] = operation[op]
      BY <1>1, StateTypes DEF Reconcile
    <3> QED BY <1>7, <3>1, <3>2, <3>3, <3>4, Footprints
         DEF Footprint, OperationMoves
  <2> QED BY <1>1, <1>2, <1>3, <1>4, <2>1, <2>2 DEF Waiting
<1> QED BY <1>6, <1>7

(* The steps keep what is settled founded.                                  *)
LEMMA SettledStep == IInv /\ [Next]_vars => SettledOnEvidence'
<1> SUFFICES ASSUME IInv, [Next]_vars, NEW op \in Operations
             PROVE  /\ operation'[op].reconciliation = "observed" =>
                        Evidence(operation[op].agent)'
                    /\ Recorded(op)' /\ Unstarted(operation[op].agent)'
                        => Waiting(op)'
  BY SettledIs DEF SettledOnEvidence, Evidence, Waiting
<1>1. CASE Recorded(op)
  <2>1. operation'[op].agent = operation[op].agent
        /\ operation[op].agent \in Agents
    BY <1>1, Known, StandingStep DEF Standing
  <2>2. operation'[op].reconciliation = "observed" =>
            Evidence(operation[op].agent)'
    <3>1. CASE operation[op].reconciliation = "observed"
      <4>1. Evidence(operation[op].agent)
        BY <3>1 DEF IInv, SettledOnEvidence, Evidence
      <4> QED BY <2>1, <4>1, EvidenceStep DEF Evidence
    <3>2. CASE operation[op].reconciliation # "observed"
      BY <1>1, <2>1, <3>2, SettlesStep DEF Evidence
    <3> QED BY <3>1, <3>2
  <2>3. Unstarted(operation[op].agent)' => Unstarted(operation[op].agent)
    <3>1. \A b \in Agents : session[b].reconciliation # "none" =>
            session'[b].reconciliation # "none"
      BY LastingStep DEF Lasting, Unstarted
    <3> QED BY <2>1, <3>1 DEF Unstarted
  <2> QED BY <1>1, <2>2, <2>3, WaitingStep
<1>2. ASSUME NEW role \in Roles, NEW t \in Tasks, NEW a \in Agents,
             SpawnNew(op, role, t, a)
      PROVE  /\ operation'[op].reconciliation = "desired"
             /\ Waiting(op)'
  <2>1. /\ operation'[op] = Operation(role, t, a, "desired", 0)
        /\ agent'[a] = Agent(role, "starting")
        /\ assignment'[a] = Assignment(t, "active")
        /\ task'[t].status = "in_progress"
    BY <1>2 DEF SpawnNew, IInv, TypeOK, Everyone
  <2> QED BY <2>1, LimitAssumption DEF Waiting, Operation, Agent
<1>3. CASE ~Recorded(op) /\ operation'[op] = operation[op]
  <2>1. operation[op] = NotRequested
    BY <1>3, NameAssumption DEF Recorded, IInv, RowsAgree
  <2> QED BY <1>3, <2>1 DEF Recorded, NotRequested, Operation
<1> QED BY <1>1, <1>2, <1>3, StandingStep DEF Standing

-----------------------------------------------------------------------------
(* The invariant, and what it gives                                         *)

(* An empty run: no operation, no agent but the names, the thread serving.  *)
LEMMA InitInv == Init => IInv
<1> SUFFICES ASSUME Init PROVE IInv
  OBVIOUS
<1>1. /\ \A o \in Operations :
            /\ operation[o] = NotRequested
            /\ answers[o] = {}
      /\ \A a \in Everyone : agent[a].state = "none"
      /\ \A t \in Tasks : task[t].status = "open"
      /\ \A a \in Agents :
            /\ assignment[a].state = "none"
            /\ session[a] = NoSession
            /\ process[a] = [started |-> 0, alive |-> FALSE]
      /\ recent = {} /\ loop = Serving /\ crashes = 0
  BY DEF Init, Agent, Assignment
<1>2. TypeOK
  <2>1. operation \in [Operations -> OperationRows]
    BY LimitAssumption DEF Init, NotRequested, Operation, OperationRows
  <2>2. agent \in [Everyone -> AgentRows]
    BY DEF Init, Agent, AgentRows
  <2>3. task \in [Tasks -> TaskRows]
    BY DEF Init, TaskRows
  <2>4. assignment \in [Agents -> AssignmentRows]
    BY DEF Init, Assignment, AssignmentRows
  <2>5. session \in [Agents -> SessionRows]
    BY LimitAssumption DEF Init, NoSession, Session, SessionRows
  <2>6. /\ process \in [Agents -> Processes]
        /\ workspace \in [Agents -> WorkspaceStates]
        /\ answers \in [Operations -> SUBSET (Requests \X Agents)]
    BY DEF Init, Processes, WorkspaceStates
  <2>7. recent \subseteq Operations /\ loop \in Threads
        /\ crashes \in 0..MaxCrashes
    BY <1>1, ThreadTypes, LimitAssumption
  <2> QED BY <2>1, <2>2, <2>3, <2>4, <2>5, <2>6, <2>7 DEF TypeOK
<1>3. \A a \in Agents : ~Exists(a) /\ a \in Everyone
  BY <1>1 DEF Exists, Everyone
<1>4. RowsAgree
  BY <1>1, <1>3 DEF RowsAgree, Exists, Everyone
<1>5. TasksOwned
  BY <1>1 DEF TasksOwned
<1>6. \A a \in Agents : SessionRow(a)
  BY <1>1, <1>3
     DEF SessionRow, NoSession, Session, Unstarted, Exists, TerminalStates
<1>7. LoopInv
  BY <1>1 DEF LoopInv, Serving, At
<1>8. OneHolder
  BY <1>3 DEF OneHolder, HoldsDirectory, Writes
<1>9. AgentsOfRun = {} /\ Active = {} /\ recent = {}
  BY <1>1 DEF AgentsOfRun, Active, Exists
<1>10. Finite
  BY <1>9, FS_EmptySet DEF Finite
<1>11. CeilingsHold
  <2>1. \A role \in Roles : {a \in Active : agent[a].role = role} = {}
    BY <1>9
  <2> QED BY <1>9, <2>1, FS_EmptySet, LimitAssumption DEF CeilingsHold
<1>12. SpawnedOnce
  BY <1>1, <1>3 DEF SpawnedOnce
<1>13. SettledOnEvidence
  BY <1>1 DEF SettledOnEvidence, NotRequested, Operation, Recorded
<1> QED BY <1>2, <1>4, <1>5, <1>6, <1>7, <1>8, <1>10, <1>11, <1>12, <1>13
     DEF IInv

(* Every behaviour keeps the invariant: what an operation, its agent, its   *)
(* session, its process and the thread owe each other.                      *)
THEOREM Inductive == Spec => []IInv
<1>1. IInv /\ [Next]_vars => IInv'
  BY TypeStep, RowsAgreeStep, TasksOwnedStep, SessionRowStep, LoopInvStep,
     OneHolderStep, CeilingsStep, SpawnedOnceStep, SettledStep DEF IInv
<1> QED BY InitInv, <1>1, PTL DEF Spec

(* Neither retries, restarts, recovered tasks nor new generations of the    *)
(* lead take a run past the ceilings it was admitted under.                 *)
THEOREM CeilingsNeverExceeded == Spec => []CeilingsHold
<1>1. IInv => CeilingsHold
  BY DEF IInv
<1> QED BY Inductive, <1>1, PTL

(* A repeated command never admits a second agent or starts a second        *)
(* process, and its answers name the agent that serves the request.         *)
THEOREM AdmittedOnce == Spec => []SpawnedOnce
<1>1. IInv => SpawnedOnce
  BY DEF IInv
<1> QED BY Inductive, <1>1, PTL

(* Two live workers never both write the project directory: a live process  *)
(* has an agent that has not ended, so it holds the directory still.        *)
THEOREM SingleWriter == Spec => []OneWriter
<1>1. IInv => OneWriter
  <2> SUFFICES ASSUME IInv, NEW a \in Agents, NEW b \in Agents,
                      process[a].alive, process[b].alive,
                      Writes(a), Writes(b)
               PROVE  a = b
    BY DEF OneWriter
  <2>1. \A x \in Agents : process[x].alive => agent[x].state # "exited"
    BY DEF IInv, SessionRow, TerminalStates
  <2>2. HoldsDirectory(a) /\ HoldsDirectory(b)
    BY <2>1 DEF HoldsDirectory
  <2> QED BY <2>2 DEF IInv, OneHolder
<1> QED BY Inductive, <1>1, PTL

(* No operation is settled on a guess: a worker was identified, or no       *)
(* process ever was, and what waits keeps its task.                         *)
THEOREM SettledTruly == Spec => []SettledOnEvidence
<1>1. IInv => SettledOnEvidence
  BY DEF IInv
<1> QED BY Inductive, <1>1, PTL

(* What is over stays over: a settled operation stays settled, an agent     *)
(* that ended stays as it ended and is never given another process, and a   *)
(* worker once identified is never taken for one that did not start.        *)
THEOREM NothingUndone ==
    Spec => [][/\ \A a \in Agents : Lasting(a)
               /\ \A o \in Operations : Standing(o)]_vars
<1>1. IInv /\ [Next]_vars =>
        [/\ \A a \in Agents : Lasting(a)
         /\ \A o \in Operations : Standing(o)]_vars
  BY LastingStep, StandingStep
<1> QED BY Inductive, <1>1, PTL DEF Spec

=============================================================================

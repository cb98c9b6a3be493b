------------------------ MODULE SessionLifecycle_proofs ------------------------
(***************************************************************************)
(* The safety of worker sessions for every set of sessions, launch budget  *)
(* and bound on frames, supervisor deaths and failed writes.               *)
(***************************************************************************)
EXTENDS SessionLifecycle, TLAPS

USE SessionAssumption, AttemptAssumption, BoundAssumption

-----------------------------------------------------------------------------
(* Types *)

(* A row stays a row whatever a transaction records in it. *)
LEMMA RowType ==
    ASSUME NEW row \in Rows, NEW observed \in LifecycleState,
           NEW r \in {"observed", "unknown", "lost"}
    PROVE  Recorded(row, r, observed) \in Rows
  BY DEF Recorded, Rows, Row, TerminalStates

(* What record_observation may leave of an observation o: nothing, or a row *)
(* the lifecycle allows, quarantined at the most where o is a failed exit.  *)
LEMMA ObserveFacts ==
    ASSUME TypeOK, NEW s \in Sessions, NEW o \in LifecycleState, Observe(s, o)
    PROVE  /\ session' \in [Sessions -> Rows]
           /\ loop' \in {loop, Serving, Halted}
           /\ failures' \in 0..MaxStoreFaults
           /\ \A t \in Sessions \ {s}: session'[t] = session[t]
           /\ \/ session'[s] = session[s]
              \/ \E v \in {o, "quarantined"}:
                    /\ v = o \/ (o = "exited" /\ ~Ended(s))
                    /\ Allows(session[s].state, v)
                    /\ session'[s] =
                        Recorded(session[s], ReconciliationOf(v), v)
<1>1. ASSUME NEW v \in LifecycleState
      PROVE  Recorded(session[s], ReconciliationOf(v), v) \in Rows
  BY RowType, ReconciliationOf(v) \in {"observed", "unknown", "lost"}
     DEF TypeOK, ReconciliationOf
<1>2. failures' \in 0..MaxStoreFaults
  BY DEF Observe, StoreFails, TypeOK
<1>3. loop' \in {loop, Serving, Halted}
  BY DEF Observe, EventRefused
<1>4. CASE UNCHANGED session
  BY <1>2, <1>3, <1>4 DEF TypeOK
<1>5. ASSUME NEW v \in {o, "quarantined"},
             v = o \/ (o = "exited" /\ ~Ended(s)),
             Allows(session[s].state, v),
             session' = [session EXCEPT ![s] =
                            Recorded(@, ReconciliationOf(v), v)]
      PROVE  /\ session' \in [Sessions -> Rows]
             /\ \A t \in Sessions \ {s}: session'[t] = session[t]
             /\ session'[s] = Recorded(session[s], ReconciliationOf(v), v)
  <2>1. v \in LifecycleState
    BY DEF LifecycleState
  <2> QED BY <1>1, <1>5, <2>1 DEF TypeOK
<1> QED
  BY <1>2, <1>3, <1>4, <1>5 DEF Observe, EventRefused

(* A held job has observed something of its worker. *)
LEMMA HeldJob ==
    ASSUME TypeOK, NEW s \in Sessions, job[s].held
    PROVE  /\ job[s].observation \in LifecycleState
           /\ job[s].exit_observed \in BOOLEAN
<1>1. job[s] \in Jobs
  BY DEF TypeOK
<1>2. job[s] # NoJob
  BY DEF NoJob
<1>3. job[s] \in [held: {TRUE}, observation: LifecycleState,
                 pending: BOOLEAN, exit_observed: BOOLEAN]
  BY <1>1, <1>2 DEF Jobs
<1> QED BY <1>3

(* The outcomes the provider may report. *)
LEMMA Outcomes ==
    {"running", "exited", "lost", "quarantined", "unknown"}
        \subseteq LifecycleState
  BY DEF LifecycleState

(* What a reconciliation pass may conclude of a session. *)
LEMMA ConcludedFacts ==
    ASSUME TypeOK, NEW s \in Sessions, NEW row \in Concluded(s)
    PROVE  /\ row \in Rows
           /\ \/ row = session[s]
              \/ row = Recorded(session[s], "unknown", "unknown")
              \/ /\ row = Recorded(session[s], "lost", "lost")
                 /\ worker[s].status = "gone"
<1>1. /\ session[s] \in Rows
      /\ Recorded(session[s], "unknown", "unknown") \in Rows
      /\ Recorded(session[s], "lost", "lost") \in Rows
  BY RowType DEF TypeOK, LifecycleState
<1> QED BY <1>1 DEF Concluded

(* The initial store is empty and no process runs. *)
LEMMA TypeInit == Init => TypeOK
  BY DEF Init, TypeOK, Rows, Budgets, Processes, Pipes, Jobs, Loops, Row,
         Attempts, Process, Pipe, NoJob, Serving, At

(* Every step keeps every column in its type. *)
LEMMA TypeStep == TypeOK /\ [Next]_vars => TypeOK'
<1> SUFFICES ASSUME TypeOK, [Next]_vars PROVE TypeOK'
  OBVIOUS
<1>1. \A s \in Sessions:
        At("admit", s) \in Loops /\ At("rotate", s) \in Loops
        /\ At("start", s) \in Loops /\ At("record", s) \in Loops
  BY DEF At, Loops
<1>2. Serving \in Loops /\ Halted \in Loops /\ At("down", NoSession) \in Loops
  BY DEF At, Loops, Serving, Halted
<1>3. \A S \in SUBSET Sessions: Recovering(S) \in Loops
  BY <1>2 DEF Recovering, Loops
<1>4. StoreFails => failures' \in 0..MaxStoreFaults
  BY DEF TypeOK, StoreFails
<1>5. ASSUME NEW s \in Sessions, PersistIntent(s) PROVE TypeOK'
  <2>1. Row("starting", "desired", FALSE, "active") \in Rows
    BY DEF Row, Rows, LifecycleState
  <2> QED BY <1>1, <1>5, <2>1 DEF PersistIntent, TypeOK, outside, faults
<1>6. ASSUME NEW s \in Sessions, RetryLaunch(s) PROVE TypeOK'
  BY <1>1, <1>6 DEF RetryLaunch, TypeOK, outside, faults
<1>7. ASSUME NEW s \in Sessions, Admitted(s) PROVE TypeOK'
  <2>1. \A n \in {launch[s].attempts + 1, 1}:
          n <= MaxLaunchAttempts => Attempts(n, TRUE, FALSE) \in Budgets
    BY DEF Attempts, Budgets, TypeOK
  <2> QED BY <1>1, <1>7, <2>1, ZenonT(60) DEF Admitted, TypeOK, outside, faults
<1>8. ASSUME NEW s \in Sessions, NotAdmitted(s) PROVE TypeOK'
  BY <1>2, <1>4, <1>8 DEF NotAdmitted, TypeOK, outside
<1>9. ASSUME NEW s \in Sessions, RotateCredential(s) PROVE TypeOK'
  BY <1>1, <1>2, <1>4, <1>9 DEF RotateCredential, TypeOK, outside
<1>10. ASSUME NEW s \in Sessions, StartProvider(s) PROVE TypeOK'
  <2>1. Process(worker[s].spawned + 1, "running", FALSE) \in Processes
    BY DEF Process, Processes, TypeOK
  <2>2. Pipe(TRUE, <<>>, 0) \in Pipes
    BY DEF Pipe, Pipes
  <2>3. Job("starting", TRUE, FALSE) \in Jobs
    BY DEF Job, Jobs, LifecycleState
  <2> QED BY <1>1, <1>10, <2>1, <2>2, <2>3 DEF StartProvider, TypeOK, faults
<1>11. ASSUME NEW s \in Sessions, StartProvedFailed(s) PROVE TypeOK'
  <2>1. Recorded(session[s], "observed", "quarantined") \in Rows
    BY RowType DEF TypeOK, LifecycleState
  <2>2. \A q \in BOOLEAN: Attempts(launch[s].attempts, FALSE, q) \in Budgets
    BY DEF Attempts, Budgets, TypeOK
  <2>3. launch' \in [Sessions -> Budgets]
    BY <1>11, <2>2, (launch[s].attempts >= MaxLaunchAttempts) \in BOOLEAN
       DEF StartProvedFailed, TypeOK
  <2>4. session' \in [Sessions -> Rows]
    BY <1>11, <2>1 DEF StartProvedFailed, TypeOK
  <2> QED BY <1>2, <1>4, <1>11, <2>3, <2>4
         DEF StartProvedFailed, TypeOK, outside
<1>12. ASSUME NEW s \in Sessions, StartUnproved(s) PROVE TypeOK'
  <2>1. Recorded(session[s], "unknown", "unknown") \in Rows
    BY RowType DEF TypeOK, LifecycleState
  <2>2. \A status \in {"killed", "gone"}:
          Process(worker[s].spawned + 1, status, TRUE) \in Processes
    BY DEF Process, Processes, TypeOK
  <2>3. worker' \in [Sessions -> Processes]
    BY <1>12, <2>2 DEF StartUnproved, TypeOK
  <2>4. session' \in [Sessions -> Rows]
    BY <1>12, <2>1 DEF StartUnproved, TypeOK
  <2> QED BY <1>2, <1>4, <1>12, <2>3, <2>4 DEF StartUnproved, TypeOK
<1>13. ASSUME NEW s \in Sessions, RecordLaunch(s) PROVE TypeOK'
  <2>1. Row(session[s].state, "observed", TRUE, session[s].credential) \in Rows
    BY DEF TypeOK, Rows, Row
  <2>2. session' \in [Sessions -> Rows]
    BY <1>13, <2>1 DEF RecordLaunch, TypeOK
  <2> QED BY <1>2, <1>4, <1>13, <2>2 DEF RecordLaunch, TypeOK, outside
<1>14. ASSUME NEW s \in Sessions, WorkerWrites(s) PROVE TypeOK'
  <2>1. \A f \in {"valid", "malformed"}:
          Pipe(pipe[s].open, Append(pipe[s].frames, f), pipe[s].written + 1)
            \in Pipes
    BY <1>14 DEF WorkerWrites, Pipe, Pipes, TypeOK
  <2> QED BY <1>14, <2>1 DEF WorkerWrites, TypeOK, faults
<1>15. ASSUME NEW s \in Sessions, WorkerExits(s) PROVE TypeOK'
  <2>1. \A failed \in BOOLEAN:
          Process(worker[s].spawned, "gone", failed) \in Processes
    BY DEF Process, Processes, TypeOK
  <2>2. (worker[s].status = "killed") \in BOOLEAN
    OBVIOUS
  <2>3. PICK failed \in BOOLEAN :
          worker' = [worker EXCEPT
                       ![s] = Process(worker[s].spawned, "gone", failed)]
    BY <1>15, <2>2 DEF WorkerExits
  <2>4. worker' \in [Sessions -> Processes]
    BY <2>1, <2>3 DEF TypeOK
  <2> QED BY <1>15, <2>4 DEF WorkerExits, TypeOK, faults
<1>16. ASSUME NEW s \in Sessions, PipeCloses(s) PROVE TypeOK'
  <2>1. Pipe(FALSE, pipe[s].frames, pipe[s].written) \in Pipes
    BY DEF Pipe, Pipes, TypeOK
  <2> QED BY <1>16, <2>1 DEF PipeCloses, TypeOK, faults
<1>17. ASSUME NEW s \in Sessions, NEW o \in LifecycleState, Observe(s, o)
       PROVE  /\ session' \in [Sessions -> Rows]
              /\ loop' \in Loops
              /\ failures' \in 0..MaxStoreFaults
  BY <1>2, <1>17, ObserveFacts DEF TypeOK
<1>18. ASSUME NEW s \in Sessions, NEW f, NextFrame(s, f)
       PROVE  pipe' \in [Sessions -> Pipes]
  <2>1. Pipe(pipe[s].open, Tail(pipe[s].frames), pipe[s].written) \in Pipes
    BY <1>18 DEF NextFrame, Pipe, Pipes, TypeOK
  <2> QED BY <1>18, <2>1 DEF NextFrame, TypeOK
<1>19. ASSUME NEW s \in Sessions, NEW o \in LifecycleState,
              NEW e \in BOOLEAN
       PROVE  Job(o, FALSE, e) \in Jobs
  BY DEF Job, Jobs
<1>20. ASSUME NEW s \in Sessions
       PROVE  job[s].exit_observed \in BOOLEAN
  <2>1. CASE job[s].held
    BY <2>1, HeldJob
  <2>2. CASE ~job[s].held
    <3>1. job[s] = NoJob
      BY <2>2 DEF TypeOK, Jobs
    <3> QED BY <3>1 DEF NoJob
  <2> QED BY <2>1, <2>2
<1>21. {"running", "exited", "quarantined", "unknown"} \subseteq LifecycleState
  BY Outcomes
<1>22. ASSUME NEW s \in Sessions, ReadPending(s) PROVE TypeOK'
  <2>1. job' \in [Sessions -> Jobs]
    BY <1>19, <1>20, <1>21, <1>22 DEF ReadPending, TypeOK
  <2> QED BY <1>17, <1>21, <1>22, <2>1 DEF ReadPending, TypeOK, outside
<1>23. ASSUME NEW s \in Sessions, ReadFrame(s) PROVE TypeOK'
  <2>1. job' \in [Sessions -> Jobs]
    BY <1>19, <1>20, <1>21, <1>23 DEF ReadFrame, TypeOK
  <2> QED BY <1>17, <1>18, <1>21, <1>23, <2>1 DEF ReadFrame, TypeOK
<1>24. ASSUME NEW s \in Sessions, ReadMalformed(s) PROVE TypeOK'
  <2>1. PICK o \in {"quarantined", "unknown"} : Observe(s, o)
    BY <1>24 DEF ReadMalformed
  <2>2. PICK v \in LifecycleState, e \in BOOLEAN :
          job' = [job EXCEPT ![s] = Job(v, FALSE, e)]
    BY <1>20, <1>21, <1>24 DEF ReadMalformed
  <2>6. job' \in [Sessions -> Jobs]
    BY <1>19, <2>2 DEF TypeOK
  <2>3. \A status \in {"gone", "killed"}:
          Process(worker[s].spawned, status, TRUE) \in Processes
    BY DEF Process, Processes, TypeOK
  <2>4. worker' \in [Sessions -> Processes]
    BY <1>24, <2>3 DEF ReadMalformed, TypeOK
  <2>5. pipe' \in [Sessions -> Pipes] /\ UNCHANGED <<launch, crashes>>
    BY <1>18, <1>24 DEF ReadMalformed
  <2> QED BY <1>17, <1>21, <2>1, <2>4, <2>5, <2>6 DEF TypeOK
<1>25. ASSUME NEW s \in Sessions, ReadExit(s) PROVE TypeOK'
  <2>1. job' \in [Sessions -> Jobs]
    BY <1>19, <1>20, <1>21, <1>25 DEF ReadExit, TypeOK
  <2> QED BY <1>17, <1>21, <1>25, <2>1 DEF ReadExit, TypeOK, outside
<1>26. ASSUME NEW s \in Sessions, NEW row \in Concluded(s),
              session' = [session EXCEPT ![s] = row]
       PROVE  session' \in [Sessions -> Rows]
  BY <1>26, ConcludedFacts DEF TypeOK
<1>27. ASSUME NEW s \in Sessions, RecoverSession(s) PROVE TypeOK'
  <2>1. session' \in [Sessions -> Rows]
    BY <1>26, <1>27 DEF RecoverSession, TypeOK
  <2>2. loop.todo \ {s} \in SUBSET Sessions
    BY DEF TypeOK, Loops
  <2> QED BY <1>2, <1>3, <1>4, <1>27, <2>1, <2>2
          DEF RecoverSession, TypeOK, outside
<1>28. ASSUME NEW s \in Sessions, CheckUnknown(s) PROVE TypeOK'
  <2>1. Row(session[s].state, "observed", TRUE, session[s].credential) \in Rows
    BY DEF TypeOK, Rows, Row
  <2>2. CASE job[s].held /\ Observe(s, job[s].observation)
    <3>1. job[s].observation \in LifecycleState
      BY <2>2, HeldJob
    <3>2. UNCHANGED <<launch, outside, job, crashes>>
      BY <1>28 DEF CheckUnknown
    <3> QED BY <1>17, <2>2, <3>1, <3>2 DEF TypeOK, outside
  <2>3. CASE ~(job[s].held /\ Observe(s, job[s].observation))
    <3>1. session' \in [Sessions -> Rows]
      BY <1>26, <1>28, <2>1, <2>3 DEF CheckUnknown, EventRefused, TypeOK
    <3>2. loop' \in {loop, Serving, Halted}
      BY <1>28, <2>3 DEF CheckUnknown, EventRefused
    <3>3. failures' \in 0..MaxStoreFaults
      BY <1>4, <1>28, <2>3 DEF CheckUnknown, TypeOK
    <3> QED BY <1>2, <1>28, <3>1, <3>2, <3>3 DEF CheckUnknown, TypeOK, outside
  <2> QED BY <2>2, <2>3
<1>29. ASSUME Crash PROVE TypeOK'
  BY <1>2, <1>29 DEF Crash, TypeOK, outside
<1>30. ASSUME Restart PROVE TypeOK'
  <2>1. NoJob \in Jobs
    BY DEF NoJob, Jobs
  <2>2. \A s \in Sessions: Pipe(FALSE, <<>>, pipe[s].written) \in Pipes
    BY DEF Pipe, Pipes, TypeOK
  <2>3. Reconcilable \in SUBSET Sessions
    BY DEF Reconcilable
  <2> QED BY <1>3, <1>30, <2>1, <2>2, <2>3 DEF Restart, TypeOK, faults
<1>31. CASE UNCHANGED vars
  BY <1>31 DEF vars, TypeOK
<1> QED
  BY <1>5, <1>6, <1>7, <1>8, <1>9, <1>10, <1>11, <1>12, <1>13, <1>14, <1>15,
     <1>16, <1>22, <1>23, <1>24, <1>25, <1>27, <1>28, <1>29, <1>30, <1>31
     DEF Next, LaunchStep, ProviderEvent

-----------------------------------------------------------------------------
(* What a launch leaves behind *)

(* An observed row is never again a desired one. *)
LEMMA ObservedLaunch ==
    ASSUME IInv, NEW s \in Sessions, NEW o \in LifecycleState, Observe(s, o)
    PROVE  \A t \in Sessions:
              session'[t].reconciliation = "desired" =>
                  session'[t].state = "starting"
<1>1. \A v \in LifecycleState:
        Recorded(session[s], ReconciliationOf(v), v).reconciliation # "desired"
  BY DEF Recorded, Row, ReconciliationOf
<1>2. \/ session'[s] = session[s]
      \/ \E v \in {o, "quarantined"}:
            session'[s] = Recorded(session[s], ReconciliationOf(v), v)
  BY ObserveFacts DEF IInv
<1>3. \A t \in Sessions \ {s}: session'[t] = session[t]
  BY ObserveFacts DEF IInv
<1> QED BY <1>1, <1>2, <1>3 DEF IInv, LaunchInv, LifecycleState

(* Every step keeps what a launch leaves behind. *)
LEMMA LaunchStepInv == IInv /\ [Next]_vars => LaunchInv'
<1> SUFFICES ASSUME IInv, [Next]_vars PROVE LaunchInv'
  OBVIOUS
<1>1. ASSUME NEW s \in Sessions, PersistIntent(s) PROVE LaunchInv'
  BY <1>1 DEF PersistIntent, IInv, TypeOK, LaunchInv, Row, outside
<1>2. ASSUME NEW s \in Sessions, RetryLaunch(s) PROVE LaunchInv'
  BY <1>2 DEF RetryLaunch, IInv, TypeOK, LaunchInv, outside
<1>3. ASSUME NEW s \in Sessions, Admitted(s) PROVE LaunchInv'
  BY <1>3 DEF Admitted, IInv, TypeOK, LaunchInv, Attempts, outside
<1>4. ASSUME NEW s \in Sessions, NotAdmitted(s) PROVE LaunchInv'
  BY <1>4 DEF NotAdmitted, IInv, TypeOK, LaunchInv, outside
<1>5. ASSUME NEW s \in Sessions, RotateCredential(s) PROVE LaunchInv'
  BY <1>5 DEF RotateCredential, IInv, TypeOK, LaunchInv, outside
<1>6. ASSUME NEW s \in Sessions, StartProvider(s) PROVE LaunchInv'
  BY <1>6 DEF StartProvider, IInv, TypeOK, LaunchInv, Process, Pipe, Job,
     LoopInv, InLaunch
<1>7. ASSUME NEW s \in Sessions, StartProvedFailed(s) PROVE LaunchInv'
  BY <1>7 DEF StartProvedFailed, IInv, TypeOK, LaunchInv, Row, Attempts,
     outside, Recorded, LoopInv, InLaunch
<1>8. ASSUME NEW s \in Sessions, StartUnproved(s) PROVE LaunchInv'
  BY <1>8 DEF StartUnproved, IInv, TypeOK, LaunchInv, Row, Process,
     Recorded, LoopInv, InLaunch
<1>9. ASSUME NEW s \in Sessions, RecordLaunch(s) PROVE LaunchInv'
  BY <1>9 DEF RecordLaunch, IInv, TypeOK, LaunchInv, Row, outside
<1>10. ASSUME NEW s \in Sessions, WorkerWrites(s) PROVE LaunchInv'
  BY <1>10 DEF WorkerWrites, IInv, TypeOK, LaunchInv, Pipe
<1>11. ASSUME NEW s \in Sessions, WorkerExits(s) PROVE LaunchInv'
  BY <1>11 DEF WorkerExits, IInv, TypeOK, LaunchInv, Process
<1>12. ASSUME NEW s \in Sessions, PipeCloses(s) PROVE LaunchInv'
  BY <1>12 DEF PipeCloses, IInv, TypeOK, LaunchInv, Pipe
<1>13. ASSUME NEW s \in Sessions, ReadPending(s) PROVE LaunchInv'
  BY <1>13, ObservedLaunch, Outcomes
     DEF ReadPending, NextFrame, Polled, IInv, TypeOK, LaunchInv, Job, outside
<1>14. ASSUME NEW s \in Sessions, ReadFrame(s) PROVE LaunchInv'
  BY <1>14, ObservedLaunch, Outcomes
     DEF ReadFrame, NextFrame, Polled, IInv, TypeOK, LaunchInv, Job, outside
<1>15. ASSUME NEW s \in Sessions, ReadMalformed(s) PROVE LaunchInv'
  BY <1>15, ObservedLaunch, Outcomes
     DEF ReadMalformed, NextFrame, Polled, IInv, TypeOK, LaunchInv, Process,
         Job
<1>16. ASSUME NEW s \in Sessions, ReadExit(s) PROVE LaunchInv'
  BY <1>16, ObservedLaunch, Outcomes
     DEF ReadExit, NextFrame, Polled, IInv, TypeOK, LaunchInv, Job, outside
<1>17. ASSUME NEW s \in Sessions, RecoverSession(s) PROVE LaunchInv'
  <2>1. \A t \in Sessions: session'[t] = session[t] \/ t = s
    BY <1>17 DEF RecoverSession, IInv, TypeOK
  <2>2. \/ session'[s] = session[s]
        \/ session'[s] = Recorded(session[s], "unknown", "unknown")
        \/ session'[s] = Recorded(session[s], "lost", "lost")
    BY <1>17, ConcludedFacts DEF RecoverSession, IInv, TypeOK
  <2> QED BY <1>17, <2>1, <2>2
          DEF RecoverSession, IInv, LaunchInv, Recorded, Row, outside
<1>18. ASSUME NEW s \in Sessions, CheckUnknown(s) PROVE LaunchInv'
  <2>1. session[s].state \notin TerminalStates
    BY <1>18 DEF CheckUnknown, Ended
  <2>2. CASE job[s].held /\ Observe(s, job[s].observation)
    BY <1>18, <2>2, ObservedLaunch, HeldJob
       DEF CheckUnknown, IInv, LaunchInv, outside
  <2>3. CASE ~(job[s].held /\ Observe(s, job[s].observation))
    <3>1. \A t \in Sessions: session'[t] = session[t] \/ t = s
      BY <1>18, <2>3 DEF CheckUnknown, EventRefused, IInv, TypeOK
    <3>2. \/ session'[s] = session[s]
          \/ session'[s] = Recorded(session[s], "unknown", "unknown")
          \/ session'[s] = Recorded(session[s], "lost", "lost")
          \/ session'[s] =
                Row(session[s].state, "observed", TRUE, session[s].credential)
      BY <1>18, <2>3, ConcludedFacts
         DEF CheckUnknown, EventRefused, IInv, TypeOK
    <3> QED BY <1>18, <3>1, <3>2
            DEF CheckUnknown, IInv, LaunchInv, Recorded, Row, outside
  <2> QED BY <2>2, <2>3
<1>19. ASSUME Crash PROVE LaunchInv'
  BY <1>19 DEF Crash, IInv, TypeOK, LaunchInv, outside
<1>20. ASSUME Restart PROVE LaunchInv'
  BY <1>20 DEF Restart, IInv, TypeOK, LaunchInv, Pipe, NoJob
<1>21. CASE UNCHANGED vars
  BY <1>21 DEF vars, IInv, LaunchInv
<1> QED
  BY <1>1, <1>2, <1>3, <1>4, <1>5, <1>6, <1>7, <1>8, <1>9, <1>10, <1>11,
     <1>12, <1>13, <1>14, <1>15, <1>16, <1>17, <1>18, <1>19, <1>20, <1>21
     DEF Next, LaunchStep, ProviderEvent

-----------------------------------------------------------------------------
(* Where the thread stands *)

(* Every step keeps what the thread knows where it stands. *)
LEMMA LoopStepInv == IInv /\ [Next]_vars => LoopInv'
<1> SUFFICES ASSUME IInv, [Next]_vars PROVE LoopInv'
  OBVIOUS
<1>1. ASSUME NEW s \in Sessions, PersistIntent(s) PROVE LoopInv'
  BY <1>1 DEF PersistIntent, IInv, TypeOK, LaunchInv, LoopInv, Ended, Row,
     InLaunch, At, Serving, TerminalStates, outside, faults
<1>2. ASSUME NEW s \in Sessions, RetryLaunch(s) PROVE LoopInv'
  BY <1>2 DEF RetryLaunch, IInv, TypeOK, LaunchInv, LoopInv, Ended,
     InLaunch, At, Serving, TerminalStates, outside, faults
<1>3. ASSUME NEW s \in Sessions, Admitted(s) PROVE LoopInv'
  BY <1>3 DEF Admitted, IInv, TypeOK, LaunchInv, LoopInv, Ended, Attempts,
     InLaunch, At, TerminalStates, outside, faults
<1>4. ASSUME NEW s \in Sessions, NotAdmitted(s) PROVE LoopInv'
  BY <1>4 DEF NotAdmitted, IInv, TypeOK, LaunchInv, LoopInv, Ended,
     InLaunch, At, Serving, TerminalStates, outside, faults
<1>5. ASSUME NEW s \in Sessions, RotateCredential(s) PROVE LoopInv'
  BY <1>5 DEF RotateCredential, IInv, TypeOK, LaunchInv, LoopInv, Ended,
     InLaunch, At, Serving, TerminalStates, outside, faults
<1>6. ASSUME NEW s \in Sessions, StartProvider(s) PROVE LoopInv'
  BY <1>6 DEF StartProvider, IInv, TypeOK, LaunchInv, LoopInv, Ended,
     InLaunch, At, TerminalStates, faults
<1>7. ASSUME NEW s \in Sessions, StartProvedFailed(s) PROVE LoopInv'
  BY <1>7 DEF StartProvedFailed, IInv, TypeOK, LaunchInv, LoopInv, Ended,
     Row, Attempts, Recorded, InLaunch, At, Serving, TerminalStates, outside,
     faults
<1>8. ASSUME NEW s \in Sessions, StartUnproved(s) PROVE LoopInv'
  BY <1>8 DEF StartUnproved, IInv, TypeOK, LaunchInv, LoopInv, Ended, Row,
     Recorded, InLaunch, At, Serving, TerminalStates
<1>9. ASSUME NEW s \in Sessions, RecordLaunch(s) PROVE LoopInv'
  BY <1>9 DEF RecordLaunch, IInv, TypeOK, LaunchInv, LoopInv, Ended, Row,
     InLaunch, At, Serving, TerminalStates, outside, faults
<1>10. ASSUME NEW s \in Sessions, WorkerWrites(s) PROVE LoopInv'
  BY <1>10 DEF WorkerWrites, IInv, TypeOK, LaunchInv, LoopInv, Ended,
     InLaunch, TerminalStates, faults
<1>11. ASSUME NEW s \in Sessions, WorkerExits(s) PROVE LoopInv'
  BY <1>11 DEF WorkerExits, IInv, TypeOK, LaunchInv, LoopInv, Ended,
     InLaunch, TerminalStates, faults
<1>12. ASSUME NEW s \in Sessions, PipeCloses(s) PROVE LoopInv'
  BY <1>12 DEF PipeCloses, IInv, TypeOK, LaunchInv, LoopInv, Ended,
     InLaunch, TerminalStates, faults
<1>13. ASSUME NEW s \in Sessions, ReadPending(s) PROVE LoopInv'
  <2>1. loop' \in {Serving, Halted}
    BY <1>13, ObserveFacts, Outcomes DEF ReadPending, NextFrame, Polled, IInv
  <2> QED BY <2>1 DEF LoopInv, InLaunch, Serving, Halted, At
<1>14. ASSUME NEW s \in Sessions, ReadFrame(s) PROVE LoopInv'
  <2>1. loop' \in {Serving, Halted}
    BY <1>14, ObserveFacts, Outcomes DEF ReadFrame, NextFrame, Polled, IInv
  <2> QED BY <2>1 DEF LoopInv, InLaunch, Serving, Halted, At
<1>15. ASSUME NEW s \in Sessions, ReadMalformed(s) PROVE LoopInv'
  <2>1. PICK o \in {"quarantined", "unknown"}: Observe(s, o)
    BY <1>15 DEF ReadMalformed
  <2>2. loop' \in {Serving, Halted}
    BY <1>15, <2>1, ObserveFacts, Outcomes
       DEF ReadMalformed, NextFrame, Polled, IInv
  <2> QED BY <2>2 DEF LoopInv, InLaunch, Serving, Halted, At
<1>16. ASSUME NEW s \in Sessions, ReadExit(s) PROVE LoopInv'
  <2>1. loop' \in {Serving, Halted}
    BY <1>16, ObserveFacts, Outcomes DEF ReadExit, NextFrame, Polled, IInv
  <2> QED BY <2>1 DEF LoopInv, InLaunch, Serving, Halted, At
<1>17. ASSUME NEW s \in Sessions, RecoverSession(s) PROVE LoopInv'
  <2>1. \A t \in Sessions \ {s}: session'[t] = session[t]
    BY <1>17 DEF RecoverSession, IInv, TypeOK
  <2>2. loop' \in {Halted, Recovering(loop.todo \ {s})}
    BY <1>17 DEF RecoverSession
  <2>3. loop.todo \subseteq Sessions
    BY DEF IInv, TypeOK, Loops
  <2> QED BY <2>1, <2>2, <2>3
          DEF IInv, LoopInv, Ended, InLaunch, Recovering, Serving, Halted, At
<1>18. ASSUME NEW s \in Sessions, CheckUnknown(s) PROVE LoopInv'
  <2>1. CASE job[s].held /\ Observe(s, job[s].observation)
    <3>1. loop' \in {Serving, Halted}
      BY <1>18, <2>1, ObserveFacts, HeldJob DEF CheckUnknown, IInv
    <3> QED BY <3>1 DEF LoopInv, InLaunch, Serving, Halted, At
  <2>2. CASE ~(job[s].held /\ Observe(s, job[s].observation))
    <3>1. loop' \in {Serving, Halted}
      BY <1>18, <2>2 DEF CheckUnknown, EventRefused
    <3> QED BY <3>1 DEF LoopInv, InLaunch, Serving, Halted, At
  <2> QED BY <2>1, <2>2
<1>19. ASSUME Crash PROVE LoopInv'
  BY <1>19 DEF Crash, IInv, TypeOK, LaunchInv, LoopInv, Ended, InLaunch,
     At, TerminalStates, outside, faults
<1>20. ASSUME Restart PROVE LoopInv'
  BY <1>20 DEF Restart, Recovering, Reconcilable, Ended, LoopInv,
     InLaunch, Serving, At
<1>21. CASE UNCHANGED vars
  BY <1>21 DEF vars, IInv, LoopInv, InLaunch, Ended
<1> QED
  BY <1>1, <1>2, <1>3, <1>4, <1>5, <1>6, <1>7, <1>8, <1>9, <1>10, <1>11,
     <1>12, <1>13, <1>14, <1>15, <1>16, <1>17, <1>18, <1>19, <1>20, <1>21
     DEF Next, LaunchStep, ProviderEvent

-----------------------------------------------------------------------------
(* What ended sessions rest on *)

(* Every step keeps the evidence behind every end. *)
LEMMA EndStepInv == IInv /\ [Next]_vars => EndInv'
<1> SUFFICES ASSUME IInv, [Next]_vars PROVE EndInv'
  OBVIOUS
<1>1. ASSUME NEW s \in Sessions, PersistIntent(s) PROVE EndInv'
  BY <1>1 DEF PersistIntent, IInv, TypeOK, LaunchInv, LoopInv, EndInv,
     Ended, Exists, Row, ReconciliationOf, InLaunch, TerminalStates, outside
<1>2. ASSUME NEW s \in Sessions, RetryLaunch(s) PROVE EndInv'
  BY <1>2 DEF RetryLaunch, IInv, TypeOK, LaunchInv, EndInv, Ended,
     ReconciliationOf, TerminalStates, outside
<1>3. ASSUME NEW s \in Sessions, Admitted(s) PROVE EndInv'
  BY <1>3 DEF Admitted, IInv, TypeOK, LaunchInv, EndInv, Ended,
     ReconciliationOf, Attempts, TerminalStates, outside
<1>4. ASSUME NEW s \in Sessions, NotAdmitted(s) PROVE EndInv'
  BY <1>4 DEF NotAdmitted, IInv, TypeOK, LaunchInv, EndInv, Ended,
     ReconciliationOf, TerminalStates, outside
<1>5. ASSUME NEW s \in Sessions, RotateCredential(s) PROVE EndInv'
  BY <1>5 DEF RotateCredential, IInv, TypeOK, LaunchInv, EndInv, Ended,
     ReconciliationOf, TerminalStates, outside
<1>6. ASSUME NEW s \in Sessions, StartProvider(s) PROVE EndInv'
  BY <1>6 DEF StartProvider, IInv, TypeOK, LaunchInv, LoopInv, EndInv,
     Ended, ReconciliationOf, Process, Pipe, Job, InLaunch, TerminalStates
<1>7. ASSUME NEW s \in Sessions, StartProvedFailed(s) PROVE EndInv'
  BY <1>7 DEF StartProvedFailed, IInv, TypeOK, LaunchInv, LoopInv, EndInv,
     Ended, Row, Recorded, ReconciliationOf, Attempts, InLaunch,
     TerminalStates, outside
<1>8. ASSUME NEW s \in Sessions, StartUnproved(s) PROVE EndInv'
  BY <1>8 DEF StartUnproved, IInv, TypeOK, LaunchInv, LoopInv, EndInv,
     Ended, Row, Recorded, ReconciliationOf, Process, InLaunch, TerminalStates
<1>9. ASSUME NEW s \in Sessions, RecordLaunch(s) PROVE EndInv'
  BY <1>9 DEF RecordLaunch, IInv, TypeOK, LaunchInv, LoopInv, EndInv, Ended,
     Row, ReconciliationOf, InLaunch, TerminalStates, outside
<1>10. ASSUME NEW s \in Sessions, WorkerWrites(s) PROVE EndInv'
  BY <1>10 DEF WorkerWrites, IInv, TypeOK, LaunchInv, EndInv, Ended,
     ReconciliationOf, Pipe, Up, TerminalStates
<1>11. ASSUME NEW s \in Sessions, WorkerExits(s) PROVE EndInv'
  BY <1>11 DEF WorkerExits, IInv, TypeOK, LaunchInv, EndInv, Ended,
     ReconciliationOf, Process, TerminalStates
<1>12. ASSUME NEW s \in Sessions, PipeCloses(s) PROVE EndInv'
  BY <1>12 DEF PipeCloses, IInv, TypeOK, LaunchInv, EndInv, Ended,
     ReconciliationOf, Pipe, TerminalStates
<1>13. ASSUME NEW s \in Sessions, ReadPending(s) PROVE EndInv'
  <2>1. /\ \A t \in Sessions \ {s}: session'[t] = session[t]
        /\ \/ session'[s] = session[s]
           \/ \E v \in {"running", "quarantined"}:
                /\ v = "running" \/ ("running" = "exited" /\ ~Ended(s))
                /\ Allows(session[s].state, v)
                /\ session'[s] = Recorded(session[s], ReconciliationOf(v), v)
    BY <1>13, ObserveFacts, Outcomes DEF ReadPending, IInv
  <2> QED BY <1>13, <2>1
          DEF ReadPending, NextFrame, Polled, IInv, TypeOK, EndInv, LaunchInv,
              Ended,
              Allows, Recorded, Row, ReconciliationOf, Job, Pipe,
              TerminalStates, outside
<1>14. ASSUME NEW s \in Sessions, ReadFrame(s) PROVE EndInv'
  <2>1. /\ \A t \in Sessions \ {s}: session'[t] = session[t]
        /\ \/ session'[s] = session[s]
           \/ \E v \in {"running", "quarantined"}:
                /\ v = "running" \/ ("running" = "exited" /\ ~Ended(s))
                /\ Allows(session[s].state, v)
                /\ session'[s] = Recorded(session[s], ReconciliationOf(v), v)
    BY <1>14, ObserveFacts, Outcomes DEF ReadFrame, IInv
  <2> QED BY <1>14, <2>1
          DEF ReadFrame, NextFrame, Polled, IInv, TypeOK, EndInv, LaunchInv,
              Ended,
              Allows, Recorded, Row, ReconciliationOf, Job, Pipe,
              TerminalStates, outside
<1>15. ASSUME NEW s \in Sessions, ReadMalformed(s) PROVE EndInv'
  <2>1. PICK o \in {"quarantined", "unknown"}, e \in BOOLEAN:
          /\ Observe(s, o)
          /\ job' = [job EXCEPT ![s] = Job(o, FALSE, e)]
          /\ \/ worker' = worker /\ worker[s].status = "gone"
             \/ /\ worker' = [worker EXCEPT ![s] =
                                Process(@.spawned, "gone", TRUE)]
                /\ worker[s].status # "gone"
             \/ /\ worker' = [worker EXCEPT ![s] =
                                Process(@.spawned, "killed", TRUE)]
                /\ worker[s].status # "gone" /\ o = "unknown"
    BY <1>15, HeldJob DEF ReadMalformed, NextFrame, Polled, IInv
  <2>2. /\ \A t \in Sessions \ {s}: session'[t] = session[t]
        /\ \/ session'[s] = session[s]
           \/ /\ Allows(session[s].state, o)
              /\ session'[s] = Recorded(session[s], ReconciliationOf(o), o)
    BY <2>1, ObserveFacts, Outcomes DEF IInv
  <2>3. /\ o = "quarantined" => worker'[s].status = "gone"
        /\ worker[s].status = "gone" => worker'[s].status = "gone"
        /\ \A t \in Sessions \ {s}: worker'[t] = worker[t]
    BY <2>1 DEF Process, IInv, TypeOK
  <2>4. /\ pipe[s].frames # <<>>
        /\ \A t \in Sessions \ {s}: pipe'[t] = pipe[t]
    BY <1>15 DEF ReadMalformed, NextFrame, IInv, TypeOK
  <2>5. worker[s].status # "none"
    BY <1>15 DEF ReadMalformed, NextFrame, Polled, IInv, LaunchInv
  <2> QED BY <2>1, <2>2, <2>3, <2>4, <2>5
          DEF IInv, TypeOK, EndInv, Ended, Allows, Recorded, Row,
              ReconciliationOf, Job, TerminalStates
<1>16. ASSUME NEW s \in Sessions, ReadExit(s) PROVE EndInv'
  <2>1. /\ \A t \in Sessions \ {s}: session'[t] = session[t]
        /\ \/ session'[s] = session[s]
           \/ \E v \in {"exited", "quarantined"}:
                /\ v = "exited" \/ ("exited" = "exited" /\ ~Ended(s))
                /\ Allows(session[s].state, v)
                /\ session'[s] = Recorded(session[s], ReconciliationOf(v), v)
    BY <1>16, ObserveFacts, Outcomes DEF ReadExit, IInv
  <2> QED BY <1>16, <2>1
          DEF ReadExit, NextFrame, Polled, IInv, TypeOK, EndInv, LaunchInv,
              Ended,
              Allows, Recorded, Row, ReconciliationOf, Job, Pipe,
              TerminalStates, outside
<1>17. ASSUME NEW s \in Sessions, RecoverSession(s) PROVE EndInv'
  <2>1. /\ \A t \in Sessions \ {s}: session'[t] = session[t]
        /\ UNCHANGED <<worker, pipe, job>>
    BY <1>17 DEF RecoverSession, IInv, TypeOK, outside
  <2>2. ~Ended(s)
    BY <1>17 DEF RecoverSession, IInv, LoopInv
  <2>3. \/ session'[s] = session[s]
        \/ session'[s] = Recorded(session[s], "unknown", "unknown")
        \/ /\ session'[s] = Recorded(session[s], "lost", "lost")
           /\ worker[s].status = "gone"
    BY <1>17, ConcludedFacts DEF RecoverSession, IInv, TypeOK
  <2> QED BY <2>1, <2>2, <2>3
          DEF IInv, EndInv, Ended, Recorded, Row, ReconciliationOf,
              TerminalStates
<1>18. ASSUME NEW s \in Sessions, CheckUnknown(s) PROVE EndInv'
  <2>1. UNCHANGED <<worker, pipe, job>> /\ ~Ended(s)
    BY <1>18 DEF CheckUnknown, outside
  <2>2. CASE job[s].held /\ Observe(s, job[s].observation)
    <3>1. PICK o \in LifecycleState: o = job[s].observation
      BY <2>2, HeldJob DEF IInv
    <3>2. /\ \A t \in Sessions \ {s}: session'[t] = session[t]
          /\ \/ session'[s] = session[s]
             \/ \E v \in {o, "quarantined"}:
                  /\ v = o \/ o = "exited"
                  /\ session'[s] =
                        Recorded(session[s], ReconciliationOf(v), v)
      BY <2>2, <3>1, ObserveFacts DEF IInv
    <3>3. /\ o \in TerminalStates => worker[s].status = "gone"
          /\ o = "exited" => pipe[s].frames = <<>>
      BY <2>2, <3>1 DEF IInv, EndInv, TerminalStates
    <3> QED BY <2>1, <3>2, <3>3
            DEF IInv, EndInv, Ended, Recorded, Row, ReconciliationOf,
                TerminalStates
  <2>3. CASE ~(job[s].held /\ Observe(s, job[s].observation))
    <3>1. \A t \in Sessions \ {s}: session'[t] = session[t]
      BY <1>18, <2>3 DEF CheckUnknown, EventRefused, IInv, TypeOK
    <3>2. \/ session'[s] = session[s]
          \/ session'[s] = Recorded(session[s], "unknown", "unknown")
          \/ /\ session'[s] = Recorded(session[s], "lost", "lost")
             /\ worker[s].status = "gone"
          \/ session'[s] =
                Row(session[s].state, "observed", TRUE, session[s].credential)
      BY <1>18, <2>3, ConcludedFacts
         DEF CheckUnknown, EventRefused, IInv, TypeOK
    <3> QED BY <2>1, <3>1, <3>2
            DEF IInv, EndInv, Ended, Recorded, Row, ReconciliationOf,
                TerminalStates
  <2> QED BY <2>2, <2>3
<1>19. ASSUME Crash PROVE EndInv'
  BY <1>19 DEF Crash, IInv, TypeOK, LaunchInv, EndInv, Ended,
     ReconciliationOf, Up, TerminalStates, outside
<1>20. ASSUME Restart PROVE EndInv'
  BY <1>20 DEF Restart, IInv, TypeOK, LaunchInv, EndInv, Ended,
     ReconciliationOf, Pipe, NoJob, Up, TerminalStates
<1>21. CASE UNCHANGED vars
  BY <1>21 DEF vars, IInv, EndInv, Ended
<1> QED
  BY <1>1, <1>2, <1>3, <1>4, <1>5, <1>6, <1>7, <1>8, <1>9, <1>10, <1>11,
     <1>12, <1>13, <1>14, <1>15, <1>16, <1>17, <1>18, <1>19, <1>20, <1>21
     DEF Next, LaunchStep, ProviderEvent

-----------------------------------------------------------------------------
(* Theorems *)

(* The empty store with no process satisfies the inductive invariant.      *)
LEMMA InitInv == Init => IInv
<1>1. ASSUME Init, NEW s \in Sessions
      PROVE  /\ session[s].state = "none" /\ session[s].reconciliation = "none"
             /\ worker[s].spawned = 0 /\ worker[s].status = "none"
             /\ ~job[s].held
  BY <1>1 DEF Init, Row, Process, NoJob
<1>4. ASSUME Init PROVE LaunchInv
  <2> SUFFICES ASSUME NEW s \in Sessions
               PROVE  /\ session[s].reconciliation # "desired"
                      /\ worker[s].spawned \in {0, 1}
                      /\ worker[s].spawned # 1
                      /\ worker[s].spawned = 0 <=> worker[s].status = "none"
                      /\ ~job[s].held
    BY DEF LaunchInv
  <2> QED BY <1>1, <1>4
<1>2. Init => LoopInv
  BY DEF Init, LoopInv, InLaunch, Serving, At
<1>3. Init => EndInv
  BY <1>1 DEF EndInv, Ended, TerminalStates
<1> QED BY <1>2, <1>3, <1>4, TypeInit DEF IInv

(* Every step keeps it. *)
LEMMA StepInv == IInv /\ [Next]_vars => IInv'
<1>1. IInv /\ [Next]_vars => TypeOK'
  BY TypeStep DEF IInv
<1> QED BY <1>1, LaunchStepInv, LoopStepInv, EndStepInv DEF IInv

(* What the store, the provider and the thread hold about every session    *)
(* agrees at every point of every behaviour (state.rs:1849,                *)
(* supervisor/session.rs:682).                                             *)
THEOREM Inductive == Spec => []IInv
<1> QED BY InitInv, StepInv, PTL DEF Spec

(* Type correctness of every column, process, job and of the loop. *)
THEOREM TypeCorrect == Spec => []TypeOK
<1>1. IInv => TypeOK
  BY DEF IInv
<1> QED BY <1>1, Inductive, PTL

(* One launch intent starts at most one worker, through any failed write   *)
(* and any death of the supervisor (state/supervision.rs:171).             *)
THEOREM AtMostOneWorker == Spec => []LaunchedOnce
<1>1. ASSUME IInv, NEW s \in Sessions PROVE worker[s].spawned <= 1
  <2>1. worker[s].spawned \in {0, 1}
    BY <1>1 DEF IInv, LaunchInv
  <2> QED BY <2>1
<1>2. IInv => LaunchedOnce
  BY <1>1 DEF LaunchedOnce
<1> QED BY <1>2, Inductive, PTL

(* A session that the store calls ended has no process left and no usable  *)
(* credential (state.rs:1925, providers.rs:1400).                          *)
THEOREM NoProcessAfterEnd == Spec => []EndedMeansGone
<1>1. IInv => EndedMeansGone
  BY DEF IInv, EndInv, EndedMeansGone
<1> QED BY <1>1, Inductive, PTL

(* The store records an exit only after the last frame the worker wrote    *)
(* (providers.rs:1335).                                                    *)
THEOREM ExitAfterOutput == Spec => []OutputBeforeExit
<1>1. IInv => OutputBeforeExit
  BY DEF IInv, EndInv, OutputBeforeExit, Ended, TerminalStates
<1> QED BY <1>1, Inductive, PTL

(* Recording an end again leaves the row as it is. *)
LEMMA RecordedAgain ==
    ASSUME IInv, NEW s \in Sessions, Ended(s)
    PROVE  Recorded(session[s], ReconciliationOf(session[s].state),
                    session[s].state) = session[s]
<1>1. session[s] \in Rows
  BY DEF IInv, TypeOK
<1>2. /\ session[s].credential = "revoked"
      /\ session[s].reconciliation = ReconciliationOf(session[s].state)
      /\ session[s].state \in TerminalStates
  BY DEF IInv, EndInv, Ended
<1>3. session[s] = Row(session[s].state, session[s].reconciliation,
                       session[s].identified, session[s].credential)
  BY <1>1 DEF Rows, Row
<1> QED BY <1>2, <1>3 DEF Recorded

(* An observation of an ended session changes nothing. *)
LEMMA ObservedAfterEnd ==
    ASSUME IInv, NEW s \in Sessions, Ended(s),
           NEW o \in LifecycleState, Observe(s, o)
    PROVE  session'[s] = session[s]
<1>1. \/ session'[s] = session[s]
      \/ \E v \in {o, "quarantined"}:
            /\ Allows(session[s].state, v)
            /\ session'[s] = Recorded(session[s], ReconciliationOf(v), v)
  BY ObserveFacts DEF IInv
<1>2. \A v: Allows(session[s].state, v) => v = session[s].state
  BY DEF Allows, Ended, TerminalStates
<1> QED BY <1>1, <1>2, RecordedAgain

(* A step leaves an ended session as it is. *)
LEMMA EndedStep ==
    IInv /\ [Next]_vars =>
        \A s \in Sessions: Ended(s) => session'[s] = session[s]
<1> SUFFICES ASSUME IInv, [Next]_vars, NEW t \in Sessions, Ended(t)
             PROVE  session'[t] = session[t]
  OBVIOUS
<1>1. ASSUME NEW s \in Sessions, PersistIntent(s)
       PROVE session'[t] = session[t]
  BY <1>1 DEF PersistIntent, Exists, Ended, TerminalStates, IInv, TypeOK
<1>2. ASSUME NEW s \in Sessions, RetryLaunch(s) PROVE session'[t] = session[t]
  BY <1>2 DEF RetryLaunch
<1>3. ASSUME NEW s \in Sessions, Admitted(s) PROVE session'[t] = session[t]
  BY <1>3 DEF Admitted
<1>4. ASSUME NEW s \in Sessions, NotAdmitted(s) PROVE session'[t] = session[t]
  BY <1>4 DEF NotAdmitted
<1>5. ASSUME NEW s \in Sessions, RotateCredential(s)
       PROVE session'[t] = session[t]
  BY <1>5 DEF RotateCredential
<1>6. ASSUME NEW s \in Sessions, StartProvider(s)
       PROVE session'[t] = session[t]
  BY <1>6 DEF StartProvider
<1>7. ASSUME NEW s \in Sessions, StartProvedFailed(s)
       PROVE session'[t] = session[t]
  <2>1. s # t
    BY <1>7
       DEF StartProvedFailed, Ended, TerminalStates, IInv, LaunchInv, LoopInv
  <2> QED BY <1>7, <2>1 DEF StartProvedFailed, IInv, TypeOK
<1>8. ASSUME NEW s \in Sessions, StartUnproved(s)
       PROVE session'[t] = session[t]
  <2>1. s # t
    BY <1>8 DEF StartUnproved, Ended, TerminalStates, IInv, LaunchInv, LoopInv
  <2> QED BY <1>8, <2>1 DEF StartUnproved, IInv, TypeOK
<1>9. ASSUME NEW s \in Sessions, RecordLaunch(s) PROVE session'[t] = session[t]
  <2>1. s # t
    BY <1>9 DEF RecordLaunch, Ended, TerminalStates, IInv, LaunchInv, LoopInv
  <2> QED BY <1>9, <2>1 DEF RecordLaunch, IInv, TypeOK
<1>10. ASSUME NEW s \in Sessions, WorkerWrites(s)
       PROVE session'[t] = session[t]
  BY <1>10 DEF WorkerWrites
<1>11. ASSUME NEW s \in Sessions, WorkerExits(s) PROVE session'[t] = session[t]
  BY <1>11 DEF WorkerExits
<1>12. ASSUME NEW s \in Sessions, PipeCloses(s) PROVE session'[t] = session[t]
  BY <1>12 DEF PipeCloses
<1>13. ASSUME NEW s \in Sessions, ReadPending(s) PROVE session'[t] = session[t]
  BY <1>13, ObservedAfterEnd, ObserveFacts, Outcomes
     DEF ReadPending, IInv
<1>14. ASSUME NEW s \in Sessions, ReadFrame(s) PROVE session'[t] = session[t]
  BY <1>14, ObservedAfterEnd, ObserveFacts, Outcomes
     DEF ReadFrame, IInv
<1>15. ASSUME NEW s \in Sessions, ReadMalformed(s)
       PROVE session'[t] = session[t]
  <2>1. PICK o \in {"quarantined", "unknown"}: Observe(s, o)
    BY <1>15 DEF ReadMalformed
  <2> QED BY <2>1, ObservedAfterEnd, ObserveFacts, Outcomes DEF IInv
<1>16. ASSUME NEW s \in Sessions, ReadExit(s) PROVE session'[t] = session[t]
  BY <1>16, ObservedAfterEnd, ObserveFacts, Outcomes
     DEF ReadExit, IInv
<1>17. ASSUME NEW s \in Sessions, RecoverSession(s)
       PROVE session'[t] = session[t]
  BY <1>17 DEF RecoverSession, IInv, TypeOK, LoopInv
<1>18. ASSUME NEW s \in Sessions, CheckUnknown(s)
       PROVE session'[t] = session[t]
  <2>1. s # t
    BY <1>18 DEF CheckUnknown
  <2>2. CASE job[s].held /\ Observe(s, job[s].observation)
    BY <2>1, <2>2, ObserveFacts, HeldJob DEF IInv
  <2> QED BY <1>18, <2>1, <2>2
          DEF CheckUnknown, EventRefused, IInv, TypeOK
<1>19. ASSUME Crash PROVE session'[t] = session[t]
  BY <1>19 DEF Crash
<1>20. ASSUME Restart PROVE session'[t] = session[t]
  BY <1>20 DEF Restart
<1>21. CASE UNCHANGED vars
  BY <1>21 DEF vars
<1> QED
  BY <1>1, <1>2, <1>3, <1>4, <1>5, <1>6, <1>7, <1>8, <1>9, <1>10, <1>11,
     <1>12, <1>13, <1>14, <1>15, <1>16, <1>17, <1>18, <1>19, <1>20, <1>21
     DEF Next, LaunchStep, ProviderEvent

(* No late frame, exit, poll, write or restart changes a session that has  *)
(* ended (providers.rs:412, state.rs:1925).                                *)
THEOREM EndIsFinal == Spec => EndedStaysEnded
<1>1. IInv /\ [Next]_vars =>
        [\A s \in Sessions: Ended(s) => session'[s] = session[s]]_vars
  BY EndedStep
<1> QED BY <1>1, Inductive, PTL DEF Spec, EndedStaysEnded
=============================================================================

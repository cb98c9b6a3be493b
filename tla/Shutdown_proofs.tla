--------------------------- MODULE Shutdown_proofs ---------------------------
(***************************************************************************)
(* The safety of stopping a run, for every set of workers, of foreground   *)
(* sessions and of stop requests, every grace and timeout, and every bound *)
(* on supervisor deaths and failed inspections.                            *)
(***************************************************************************)
EXTENDS Shutdown, TLAPS

USE OwnerAssumption, StopOpAssumption, PolicyAssumption, BoundAssumption

(* What the constructors build. *)
LEMMA RowTypes ==
    /\ \A st \in {"active", "stopped"}, ph \in ShutdownPhases,
          op \in StopOps \cup {NoOp}, age \in RunAges :
            Run(st, ph, op, age) \in RunRows
    /\ \A st \in {"none", "desired", "running", "unknown", "exited", "lost",
                  "quarantined"}, i \in BOOLEAN, r \in BOOLEAN :
            Row(st, i, r) \in SessionRows
    /\ \A ph \in ControlPhases, d \in BOOLEAN, age \in RunAges :
            Control(ph, d, age) \in ControlRows
  BY DEF Run, Row, Control, RunRows, SessionRows, ControlRows

(* Time stays within its bound. *)
LEMMA OlderType == \A age \in RunAges : Older(age) \in RunAges
  BY DEF RunAges, Older

(* The phases of a control. *)
LEMMA PhaseSets ==
    /\ ControlPhases = {"none", "interrupt", "terminate", "kill",
                        "timed_out", "completed"}
    /\ ShutdownPhases = {"none", "interrupting", "terminating",
                         "reconciling", "timed_out", "completed"}
  BY DEF ControlPhases, ShutdownPhases, ControlRank, ShutdownRank

(* A phase never goes back. *)
LEMMA LaterFacts ==
    /\ \A p \in ControlPhases, q \in ControlPhases :
        /\ Later(ControlRank, p, q) \in {p, q}
        /\ Later(ControlRank, p, q) = "none" => p = "none" /\ q = "none"
        /\ p = "completed" => Later(ControlRank, p, q) = "completed"
    /\ \A p \in ShutdownPhases, q \in ShutdownPhases :
        Later(ShutdownRank, p, q) \in {p, q}
  BY PhaseSets DEF Later, ControlRank, ShutdownRank

(* What one pass makes of a control. *)
LEMMA AdvancedFacts ==
    ASSUME NEW s \in Sessions, NEW row \in ControlRows
    PROVE  /\ Advanced(s, row) \in ControlRows
           /\ Advanced(s, row).phase = "none" <=> row.phase = "none"
           /\ Advanced(s, row).phase = "completed" =>
                row.phase = "completed" \/ Ended(s)
<1> DEFINE p == Later(ControlRank, DuePhase(s, row.age), row.phase)
<1>1. /\ row.phase \in ControlPhases
      /\ row.age \in RunAges
      /\ 0 \in RunAges
  BY DEF ControlRows, RunAges
<1>2. /\ DuePhase(s, row.age) \in ControlPhases \ {"none"}
      /\ DuePhase(s, row.age) = "completed" => Ended(s)
  BY PhaseSets DEF DuePhase
<1>3. /\ p \in {DuePhase(s, row.age), row.phase}
      /\ p # "none"
  BY <1>1, <1>2, LaterFacts
<1>4. p \in ControlPhases
  BY <1>1, <1>2, <1>3
<1> HIDE DEF p
<1>5. Advanced(s, row) =
        IF row.phase = "none" \/ p = row.phase THEN row
        ELSE Control(p, FALSE,
                     IF p \in {"completed", "timed_out"} THEN 0 ELSE row.age)
  BY DEF Advanced, p
<1>6. CASE row.phase = "none" \/ p = row.phase
  BY <1>5, <1>6
<1>7. CASE ~(row.phase = "none" \/ p = row.phase)
  <2>1. Advanced(s, row) =
          Control(p, FALSE,
                  IF p \in {"completed", "timed_out"} THEN 0 ELSE row.age)
    BY <1>5, <1>7
  <2>2. Advanced(s, row).phase = p
    BY <2>1 DEF Control
  <2>3. Advanced(s, row) \in ControlRows
    BY <2>1, <1>1, <1>4, RowTypes
  <2> QED BY <2>2, <2>3, <1>2, <1>3, <1>7
<1> QED BY <1>6, <1>7

(* The controls a pass opens. *)
LEMMA RequestedFacts ==
    ASSUME TypeOK, NEW overdue
    PROVE  /\ Requested(overdue) \in [Sessions -> ControlRows]
           /\ \A s \in Sessions :
                /\ Requested(overdue)[s].phase = "none" =>
                    /\ control[s].phase = "none"
                    /\ ~(Active(s) /\ Stopping)
                /\ Requested(overdue)[s].phase = "completed" =>
                    control[s].phase = "completed"
                /\ control[s].phase = "none" /\ ~Active(s) =>
                    Requested(overdue)[s].phase = "none"
<1>1. ASSUME NEW s \in Sessions
      PROVE  /\ control[s] \in ControlRows
             /\ Control("interrupt", FALSE,
                        IF Stopping THEN run.age ELSE 0) \in ControlRows
             /\ Control("interrupt", FALSE,
                        IF Stopping THEN run.age ELSE 0).phase = "interrupt"
  <2>1. run.age \in RunAges /\ 0 \in RunAges
    BY DEF TypeOK, RunRows, RunAges
  <2>2. "interrupt" \in ControlPhases
    BY PhaseSets
  <2> QED BY <2>1, <2>2, RowTypes DEF TypeOK, Control
<1> QED BY <1>1 DEF Requested

(* The controls after a pass. *)
LEMMA DrivenFacts ==
    ASSUME TypeOK, NEW overdue,
           control' = [s \in Sessions |-> Advanced(s, Requested(overdue)[s])]
    PROVE  /\ control' \in [Sessions -> ControlRows]
           /\ \A s \in Sessions :
                /\ control'[s].phase = "none" => control[s].phase = "none"
                /\ Stopping /\ Active(s) => control'[s].phase # "none"
                /\ control'[s].phase = "completed" =>
                    control[s].phase = "completed" \/ Ended(s)
                /\ control[s].phase = "none" /\ ~Active(s) =>
                    control'[s].phase = "none"
  BY RequestedFacts, AdvancedFacts

(* What a pass over the controls leaves of the row of each session. *)
LEMMA ControlsDriven ==
    ASSUME TypeOK, DriveControls
    PROVE  /\ UNCHANGED session
           /\ \A s \in Sessions :
                /\ control'[s].phase = "none" => control[s].phase = "none"
                /\ Stopping /\ Active(s) => control'[s].phase # "none"
                /\ control'[s].phase = "completed" =>
                    control[s].phase = "completed" \/ Ended(s)
                /\ control[s].phase = "none" /\ ~Active(s) =>
                    control'[s].phase = "none"
<1>1. UNCHANGED session
  BY DEF DriveControls
<1>2. PICK overdue :
        control' = [s \in Sessions |-> Advanced(s, Requested(overdue)[s])]
  BY DEF DriveControls
<1> QED BY <1>1, <1>2, DrivenFacts

(* What reconciliation makes of sessions that have not ended. *)
LEMMA ReconciledFacts ==
    ASSUME TypeOK, NEW those \in SUBSET Sessions,
           \A s \in those : Active(s),
           ReconcileSessions(those)
    PROVE  /\ session' \in [Sessions -> SessionRows]
           /\ \A s \in Sessions \ those : session'[s] = session[s]
           /\ \A s \in those :
                /\ session'[s].state \in {"desired", "running", "unknown",
                                          "lost"}
                /\ session'[s].identified = session[s].identified
                /\ session'[s].state = "lost" =>
                    session[s].identified /\ process[s] = "gone"
                /\ session'[s].state = "desired" => session'[s] = session[s]
                /\ session'[s].retryable => session[s].retryable
<1>1. ASSUME NEW s \in those
      PROVE  /\ Reconciled(s) \in SessionRows
             /\ Reconciled(s).state \in {"desired", "running", "unknown",
                                         "lost"}
             /\ Reconciled(s).identified = session[s].identified
             /\ Reconciled(s).state = "lost" =>
                    session[s].identified /\ process[s] = "gone"
             /\ Reconciled(s).state = "desired" => Reconciled(s) = session[s]
             /\ Reconciled(s).retryable => session[s].retryable
  <2>1. session[s] \in SessionRows
    BY DEF TypeOK
  <2>2. session[s].identified \in BOOLEAN
    BY <2>1 DEF SessionRows
  <2>3. \/ /\ Reconciled(s) = session[s]
           /\ session[s].state = "desired"
        \/ /\ Reconciled(s) = Row("running", TRUE, FALSE)
           /\ session[s].identified
        \/ /\ Reconciled(s) = Row("lost", TRUE, FALSE)
           /\ session[s].identified
           /\ process[s] = "gone"
        \/ Reconciled(s) = Row("unknown", session[s].identified, FALSE)
    BY DEF Reconciled
  <2>4. \A st \in {"running", "lost", "unknown"}, i \in BOOLEAN :
          /\ Row(st, i, FALSE) \in SessionRows
          /\ Row(st, i, FALSE).state = st
          /\ Row(st, i, FALSE).identified = i
          /\ Row(st, i, FALSE).retryable = FALSE
    BY RowTypes DEF Row
  <2> QED BY <2>1, <2>2, <2>3, <2>4
<1> QED BY <1>1 DEF ReconcileSessions, TypeOK

(* Every step keeps the types. *)
LEMMA TypeOKStep == IInv /\ [Next]_vars => TypeOK'
<1> SUFFICES ASSUME IInv, [Next]_vars PROVE TypeOK'
  OBVIOUS
<1> USE DEF IInv, TypeOK, stores, memory, world, bounds, Go, At, LoopStages
<1>1. ASSUME NEW w \in Workers, LaunchWorker(w) PROVE TypeOK'
  <2>1. \A t \in {"running", "unknown", "desired", "quarantined"},
        i \in BOOLEAN, r \in BOOLEAN :
          Row(t, i, r) \in SessionRows
    BY RowTypes
  <2>2. PICK row \in SessionRows : session' = [session EXCEPT ![w] = row]
    BY <1>1, <2>1 DEF LaunchWorker, WorkerLaunched
  <2>3. session' \in [Sessions -> SessionRows]
    BY <2>2
  <2>4. \/ UNCHANGED process
        \/ \E status \in {"alive",
              "gone"} : process' = [process EXCEPT ![w] = status]
    BY <1>1 DEF LaunchWorker, WorkerLaunched
  <2>5. process' \in [Sessions -> {"none", "alive", "killed", "gone"}]
    BY <2>4
  <2>6. UNCHANGED held \/ held' = [held EXCEPT ![w] = TRUE]
    BY <1>1 DEF LaunchWorker, WorkerLaunched
  <2>7. held' \in [Sessions -> BOOLEAN]
    BY <2>6
  <2> QED BY <1>1, <2>3, <2>5, <2>7 DEF LaunchWorker
<1>2. ASSUME NEW w \in Workers, LaunchCut(w) PROVE TypeOK'
  <2>1. Row("desired", FALSE, FALSE) \in SessionRows
    BY RowTypes
  <2>2. session' \in [Sessions -> SessionRows]
    BY <1>2, <2>1 DEF LaunchCut
  <2>3. PICK status \in {"none",
        "alive"} : process' = [process EXCEPT ![w] = status]
    BY <1>2 DEF LaunchCut
  <2>4. process' \in [Sessions -> {"none", "alive", "killed", "gone"}]
    BY <2>3
  <2>5. held' = [t \in Sessions |-> FALSE]
    BY <1>2 DEF LaunchCut
  <2>6. held' \in [Sessions -> BOOLEAN]
    BY <2>5
  <2>7. wrapper' \in [Fronts -> {"none", "granted", "spawned", "started",
        "waiting", "told", "done", "dead"}]
    BY <1>2 DEF LaunchCut
  <2>8. crashes' \in 0..MaxCrashes
    BY <1>2 DEF LaunchCut
  <2> QED BY <1>2, <2>2, <2>4, <2>6, <2>7, <2>8 DEF LaunchCut
<1>3. ASSUME NEW f \in Fronts, LaunchForeground(f) PROVE TypeOK'
  BY <1>3
     DEF LaunchForeground, MayLaunch, Sessions, SessionRows, Row, ControlRows,
         Control
<1>4. ASSUME NEW op \in StopOps, AskRecovered(op) PROVE TypeOK'
  BY <1>4 DEF AskRecovered, Answered
<1>5. ASSUME NEW op \in StopOps, AskNew(op) PROVE TypeOK'
  <2>1. 0 \in RunAges /\ "interrupting" \in ShutdownPhases
    BY PhaseSets DEF RunAges
  <2>2. Run("active", "interrupting", op, 0) \in RunRows
    BY <2>1, RowTypes
  <2> QED BY <1>5, <2>2 DEF AskNew, MayBegin, BeginRunShutdown, Answered
<1>6. ASSUME NEW op \in StopOps, AskAgain(op) PROVE TypeOK'
  <2>1. /\ request' \in [StopOps -> {"none", "waiting", "ok", "refused"}]
        /\ pending' \in BOOLEAN
        /\ loop' = loop \/ loop' = Go("inspect")
        /\ UNCHANGED <<stores, held, idle, process, wrapper, polled, bounds>>
    BY <1>6 DEF AskAgain, Answered
  <2> QED BY <2>1
<1>7. ASSUME NEW op \in StopOps, AskConflict(op) PROVE TypeOK'
  BY <1>7 DEF AskConflict, Answered, MayBegin
<1>8. ASSUME NEW op \in StopOps, AnswerOffline(op) PROVE TypeOK'
  BY <1>8 DEF AnswerOffline, Answered
<1>9. ASSUME NEW op \in StopOps, RestartToStop(op) PROVE TypeOK'
  <2>1. run' \in RunRows
    BY <1>9, RowTypes, PhaseSets
       DEF RestartToStop, MayBegin, BeginRunShutdown, RunAges
  <2>2. session' \in [Sessions -> SessionRows]
    BY <1>9, ReconciledFacts DEF RestartToStop, Restarted
  <2>3. pending' \in BOOLEAN
    BY <1>9 DEF RestartToStop, Restarted, Stopping
  <2> QED
    BY <1>9, <2>1, <2>2, <2>3
       DEF RestartToStop, Restarted, MayBegin, BeginRunShutdown
<1>10. ASSUME Tick PROVE TypeOK'
  <2>1. 0 \in RunAges /\ "interrupting" \in ShutdownPhases
    BY PhaseSets DEF RunAges
  <2>2. \A op \in StopOps : Run("active", "interrupting", op, 0) \in RunRows
    BY <2>1, RowTypes
  <2>3. \/ UNCHANGED <<run, operation, pending>>
        \/ /\ \E op \in StopOps : BeginRunShutdown(op)
           /\ pending' = TRUE
    BY <1>10 DEF Tick
  <2>4. /\ run' \in RunRows
        /\ operation' \in [StopOps -> {"none", "pending", "completed"}]
    BY <2>2, <2>3 DEF BeginRunShutdown
  <2>5. pending' \in BOOLEAN
    BY <2>3
  <2>6. idle' \in {"unset", "watching", "due"}
    BY <1>10 DEF Tick, IdleObserved
  <2>7. /\ loop' = Go("inspect")
        /\ UNCHANGED <<recovered, session, control, held, world, polled,
              bounds>>
    BY <1>10 DEF Tick
  <2> QED BY <2>4, <2>5, <2>6, <2>7
<1>11. ASSUME InspectUnknown PROVE TypeOK'
  <2>2. session' \in [Sessions -> SessionRows]
    BY <1>11, ReconciledFacts DEF InspectUnknown, Active, Terminal
  <2> QED BY <1>11, <2>2 DEF InspectUnknown
<1>12. ASSUME DriveControls PROVE TypeOK'
  <2>1. control' \in [Sessions -> ControlRows]
    BY <1>12, DrivenFacts DEF DriveControls
  <2> QED BY <1>12, <2>1 DEF DriveControls
<1>13. ASSUME NEW s \in Sessions, Signal(s) PROVE TypeOK'
  BY <1>13 DEF Signal
<1>14. ASSUME MarkDelivered PROVE TypeOK'
  BY <1>14 DEF MarkDelivered, Sessions, SessionRows, Row, ControlRows, Control
<1>15. ASSUME NoStopToProgress PROVE TypeOK'
  BY <1>15 DEF NoStopToProgress, PassDone, Told
<1>16. ASSUME AwaitSessions PROVE TypeOK'
  <2>1. PICK due \in {"timed_out", "terminating", "interrupting"} :
          run' = Run(run.status, Later(ShutdownRank, due, run.phase),
                run.op, run.age)
    BY <1>16 DEF AwaitSessions
  <2>2. run' \in RunRows
    BY <2>1, RowTypes, PhaseSets, LaterFacts DEF RunRows
  <2>3. request' \in [StopOps -> {"none", "waiting", "ok", "refused"}]
    BY <1>16 DEF AwaitSessions, AllAnswered
  <2> QED BY <1>16, <2>2, <2>3 DEF AwaitSessions, PassDone, Told
<1>17. ASSUME SessionsGone PROVE TypeOK'
  <2>1. run' \in RunRows
    BY <1>17, RowTypes, PhaseSets, ZenonT(60)
       DEF SessionsGone, PassDone, Told, RunRows, RunAges
  <2> QED BY <1>17, <2>1 DEF SessionsGone, PassDone, Told
<1>18. ASSUME PersistShutdown PROVE TypeOK'
  <2>1. run' \in RunRows
    BY <1>18, RowTypes, PhaseSets
       DEF PersistShutdown, AllAnswered, RunRows, RunAges
  <2> QED BY <1>18, <2>1 DEF PersistShutdown, AllAnswered
<1>19. ASSUME InspectionFails PROVE TypeOK'
  BY <1>19 DEF InspectionFails, AllAnswered
<1>20. ASSUME Retire PROVE TypeOK'
  BY <1>20 DEF Retire
<1>21. ASSUME NEW f \in Fronts, WrapperSpawns(f) PROVE TypeOK'
  BY <1>21 DEF WrapperSpawns
<1>22. ASSUME NEW f \in Fronts, ForegroundStarted(f) PROVE TypeOK'
  BY <1>22
     DEF ForegroundStarted, Sessions, SessionRows, Row, ControlRows, Control
<1>23. ASSUME NEW f \in Fronts, WaitForegroundControl(f) PROVE TypeOK'
  BY <1>23 DEF WaitForegroundControl
<1>24. ASSUME NEW f \in Fronts, ForegroundExited(f) PROVE TypeOK'
  BY <1>24
     DEF ForegroundExited, Reported, Sessions, SessionRows, Row, ControlRows,
         Control
<1>25. ASSUME NEW f \in Fronts, ForegroundLaunchFailed(f) PROVE TypeOK'
  BY <1>25
     DEF ForegroundLaunchFailed, Reported, Sessions, SessionRows, Row,
         ControlRows, Control
<1>26. ASSUME NEW f \in Fronts, ForegroundObservationLost(f) PROVE TypeOK'
  BY <1>26
     DEF ForegroundObservationLost, Reported, Sessions, SessionRows, Row,
         ControlRows, Control
<1>27. ASSUME NEW f \in Fronts, WrapperDies(f) PROVE TypeOK'
  BY <1>27 DEF WrapperDies
<1>28. ASSUME NEW s \in Sessions, ProcessEnds(s) PROVE TypeOK'
  BY <1>28 DEF ProcessEnds
<1>29. ASSUME NEW w \in Workers, RecordExit(w) PROVE TypeOK'
  BY <1>29 DEF RecordExit, Sessions, SessionRows, Row, ControlRows, Control
<1>30. ASSUME TimePasses PROVE TypeOK'
  <2>1. run' \in RunRows
    BY <1>30, RowTypes, OlderType DEF TimePasses, RunRows
  <2>2. control' \in [Sessions -> ControlRows]
    <3>1. ASSUME NEW s \in Sessions
          PROVE Control(control[s].phase, control[s].delivered,
                Older(control[s].age)) \in ControlRows
      BY RowTypes, OlderType DEF ControlRows
    <3> QED BY <1>30, <3>1 DEF TimePasses
  <2> QED BY <1>30, <2>1, <2>2 DEF TimePasses
<1>31. ASSUME Crash PROVE TypeOK'
  <2>1. request' \in [StopOps -> {"none", "waiting", "ok", "refused"}]
    BY <1>31 DEF Crash, AllAnswered
  <2>2. wrapper' \in [Fronts -> {"none", "granted", "spawned", "started",
        "waiting", "told", "done", "dead"}]
    BY <1>31 DEF Crash
  <2>3. held' = [t \in Sessions |-> FALSE]
    BY <1>31 DEF Crash
  <2>4. held' \in [Sessions -> BOOLEAN]
    BY <2>3
  <2>5. crashes' \in 0..MaxCrashes
    BY <1>31 DEF Crash
  <2>6. /\ pending' = FALSE /\ polled' = FALSE /\ idle' = "unset"
        /\ loop' = Go("down")
        /\ UNCHANGED <<stores, process, faults>>
    BY <1>31 DEF Crash
  <2> QED BY <2>1, <2>2, <2>4, <2>5, <2>6
<1>32. ASSUME Restart PROVE TypeOK'
  <2>2. session' \in [Sessions -> SessionRows]
    BY <1>32, ReconciledFacts DEF Restart, Restarted
  <2>3. pending' \in BOOLEAN
    BY <1>32 DEF Restart, Restarted, Stopping
  <2> QED BY <1>32, <2>2, <2>3 DEF Restart, Restarted
<1>33. ASSUME ReactivateRun PROVE TypeOK'
  <2>1. 0 \in RunAges /\ "none" \in ShutdownPhases
        /\ "completed" \in ControlPhases
    BY PhaseSets DEF RunAges
  <2>2. run' \in RunRows
    BY <1>33, <2>1, RowTypes DEF ReactivateRun
  <2>3. Control("completed", FALSE, 0) \in ControlRows
    BY <2>1, RowTypes
  <2>4. control' \in [Sessions -> ControlRows]
    BY <1>33, <2>3 DEF ReactivateRun
  <2>5. recovered' \subseteq StopOps
    BY <1>33 DEF ReactivateRun, RecoveryPreflight, StopInv, RunRows
  <2> QED BY <1>33, <2>2, <2>4, <2>5 DEF ReactivateRun
<1>34. CASE UNCHANGED vars
  BY <1>34 DEF vars
<1> QED
  BY <1>1, <1>2, <1>3, <1>4, <1>5, <1>6, <1>7, <1>8, <1>9, <1>10, <1>11,
     <1>12, <1>13, <1>14, <1>15, <1>16, <1>17, <1>18, <1>19, <1>20, <1>21,
     <1>22, <1>23, <1>24, <1>25, <1>26, <1>27, <1>28, <1>29, <1>30, <1>31,
     <1>32, <1>33, <1>34
     DEF Next, Pass, Asks, Launches, Wrappers, Sessions


(* Every step keeps ended sessions without a process. *)
LEMMA EndInvStep == IInv /\ [Next]_vars => EndInv'
<1> SUFFICES ASSUME IInv, [Next]_vars PROVE EndInv'
  OBVIOUS
<1> USE DEF IInv, TypeOK, stores, memory, world, bounds, Go, At, Sessions,
      EndInv, Ended, Terminal, Active, SessionRows, Row, Serving
<1>1. ASSUME NEW w \in Workers, LaunchWorker(w) PROVE EndInv'
  BY <1>1, SMTT(60) DEF LaunchWorker, MayLaunch, WorkerLaunched
<1>2. ASSUME NEW w \in Workers, LaunchCut(w) PROVE EndInv'
  BY <1>2 DEF LaunchCut, MayLaunch
<1>3. ASSUME NEW f \in Fronts, LaunchForeground(f) PROVE EndInv'
  BY <1>3 DEF LaunchForeground, MayLaunch
<1>4. ASSUME NEW op \in StopOps, AskRecovered(op) PROVE EndInv'
  BY <1>4 DEF AskRecovered, Answered
<1>5. ASSUME NEW op \in StopOps, AskNew(op) PROVE EndInv'
  BY <1>5 DEF AskNew, MayBegin, BeginRunShutdown, Answered
<1>6. ASSUME NEW op \in StopOps, AskAgain(op) PROVE EndInv'
  BY <1>6 DEF AskAgain, Answered
<1>7. ASSUME NEW op \in StopOps, AskConflict(op) PROVE EndInv'
  BY <1>7 DEF AskConflict, Answered, MayBegin
<1>8. ASSUME NEW op \in StopOps, AnswerOffline(op) PROVE EndInv'
  BY <1>8 DEF AnswerOffline, Answered
<1>9. ASSUME NEW op \in StopOps, RestartToStop(op) PROVE EndInv'
  <2>1. PICK those \in SUBSET Sessions :
          ReconcileSessions(those) /\ (\A s \in those : Active(s))
    BY <1>9 DEF RestartToStop, Restarted
  <2>2. UNCHANGED <<process, held, wrapper>>
    BY <1>9 DEF RestartToStop, Restarted
  <2>3. \A s \in Sessions : session'[s] = session[s] \/
          (/\ session'[s].state \in {"desired", "running", "unknown", "lost"}
           /\ session'[s].identified = session[s].identified
           /\ (session'[s].state = "lost" => session[s].identified
                 /\ process[s] = "gone")
           /\ (session'[s].state = "desired" => session'[s] = session[s])
           /\ (session'[s].retryable => session[s].retryable))
    BY <2>1, ReconciledFacts
  <2> QED BY <2>2, <2>3, SMTT(60)
<1>10. ASSUME Tick PROVE EndInv'
  BY <1>10 DEF Tick, MayBegin, BeginRunShutdown, IdleDue, IdleObserved
<1>11. ASSUME InspectUnknown PROVE EndInv'
  <2>1. PICK those \in SUBSET Sessions :
          ReconcileSessions(those) /\ (\A s \in those : Active(s))
    BY <1>11 DEF InspectUnknown
  <2>2. UNCHANGED <<process, held, wrapper>>
    BY <1>11 DEF InspectUnknown
  <2>3. \A s \in Sessions : session'[s] = session[s] \/
          (/\ session'[s].state \in {"desired", "running", "unknown", "lost"}
           /\ session'[s].identified = session[s].identified
           /\ (session'[s].state = "lost" => session[s].identified
                 /\ process[s] = "gone")
           /\ (session'[s].state = "desired" => session'[s] = session[s])
           /\ (session'[s].retryable => session[s].retryable))
    BY <2>1, ReconciledFacts
  <2> QED BY <2>2, <2>3
<1>12. ASSUME DriveControls PROVE EndInv'
  BY <1>12 DEF DriveControls
<1>13. ASSUME NEW s \in Sessions, Signal(s) PROVE EndInv'
  BY <1>13 DEF Signal
<1>14. ASSUME MarkDelivered PROVE EndInv'
  BY <1>14 DEF MarkDelivered
<1>15. ASSUME NoStopToProgress PROVE EndInv'
  BY <1>15 DEF NoStopToProgress, PassDone, Told
<1>16. ASSUME AwaitSessions PROVE EndInv'
  BY <1>16 DEF AwaitSessions, PassDone, Told
<1>17. ASSUME SessionsGone PROVE EndInv'
  BY <1>17 DEF SessionsGone, PassDone, Told
<1>18. ASSUME PersistShutdown PROVE EndInv'
  BY <1>18 DEF PersistShutdown, AllAnswered
<1>19. ASSUME InspectionFails PROVE EndInv'
  BY <1>19 DEF InspectionFails, AllAnswered
<1>20. ASSUME Retire PROVE EndInv'
  BY <1>20 DEF Retire
<1>21. ASSUME NEW f \in Fronts, WrapperSpawns(f) PROVE EndInv'
  <2>1. f \in Sessions /\ Active(f)
    BY <1>21 DEF WrapperSpawns
  <2>2. UNCHANGED <<session, held>>
    BY <1>21 DEF WrapperSpawns
  <2>3. /\ process' = [process EXCEPT ![f] = "alive"]
        /\ wrapper' = [wrapper EXCEPT ![f] = "spawned"]
    BY <1>21 DEF WrapperSpawns
  <2> QED BY <2>1, <2>2, <2>3
<1>22. ASSUME NEW f \in Fronts, ForegroundStarted(f) PROVE EndInv'
  <2>1. f \in Sessions /\ process[f] # "none"
    BY <1>22 DEF ForegroundStarted
  <2>2. session' = [session EXCEPT ![f] = Row("running", TRUE, FALSE)]
    BY <1>22 DEF ForegroundStarted
  <2>3. UNCHANGED <<process, held>>
        /\ wrapper' = [wrapper EXCEPT ![f] = "started"]
    BY <1>22 DEF ForegroundStarted
  <2> QED BY <2>1, <2>2, <2>3
<1>23. ASSUME NEW f \in Fronts, WaitForegroundControl(f) PROVE EndInv'
  BY <1>23 DEF WaitForegroundControl
<1>24. ASSUME NEW f \in Fronts, ForegroundExited(f) PROVE EndInv'
  BY <1>24 DEF ForegroundExited, Reported
<1>25. ASSUME NEW f \in Fronts, ForegroundLaunchFailed(f) PROVE EndInv'
  BY <1>25 DEF ForegroundLaunchFailed, Reported
<1>26. ASSUME NEW f \in Fronts, ForegroundObservationLost(f) PROVE EndInv'
  BY <1>26 DEF ForegroundObservationLost, Reported
<1>27. ASSUME NEW f \in Fronts, WrapperDies(f) PROVE EndInv'
  BY <1>27 DEF WrapperDies
<1>28. ASSUME NEW s \in Sessions, ProcessEnds(s) PROVE EndInv'
  BY <1>28 DEF ProcessEnds
<1>29. ASSUME NEW w \in Workers, RecordExit(w) PROVE EndInv'
  BY <1>29 DEF RecordExit
<1>30. ASSUME TimePasses PROVE EndInv'
  BY <1>30 DEF TimePasses
<1>31. ASSUME Crash PROVE EndInv'
  BY <1>31 DEF Crash, AllAnswered
<1>32. ASSUME Restart PROVE EndInv'
  <2>1. PICK those \in SUBSET Sessions :
          ReconcileSessions(those) /\ (\A s \in those : Active(s))
    BY <1>32 DEF Restart, Restarted
  <2>2. UNCHANGED <<process, held, wrapper>>
    BY <1>32 DEF Restart, Restarted
  <2>3. \A s \in Sessions : session'[s] = session[s] \/
          (/\ session'[s].state \in {"desired", "running", "unknown", "lost"}
           /\ session'[s].identified = session[s].identified
           /\ (session'[s].state = "lost" => session[s].identified
                 /\ process[s] = "gone")
           /\ (session'[s].state = "desired" => session'[s] = session[s])
           /\ (session'[s].retryable => session[s].retryable))
    BY <2>1, ReconciledFacts
  <2> QED BY <2>2, <2>3
<1>33. ASSUME ReactivateRun PROVE EndInv'
  BY <1>33 DEF ReactivateRun, RecoveryPreflight
<1>34. CASE UNCHANGED vars
  BY <1>34 DEF vars
<1> QED
  BY <1>1, <1>2, <1>3, <1>4, <1>5, <1>6, <1>7, <1>8, <1>9, <1>10, <1>11,
     <1>12, <1>13, <1>14, <1>15, <1>16, <1>17, <1>18, <1>19, <1>20, <1>21,
     <1>22, <1>23, <1>24, <1>25, <1>26, <1>27, <1>28, <1>29, <1>30, <1>31,
     <1>32, <1>33, <1>34
     DEF Next, Pass, Asks, Launches, Wrappers, Sessions


(* Every step keeps the stop, its operation and its clients consistent. *)
LEMMA StopInvStep == IInv /\ [Next]_vars => StopInv'
<1> SUFFICES ASSUME IInv, [Next]_vars PROVE StopInv'
  OBVIOUS
<1> USE DEF IInv, TypeOK, stores, memory, world, bounds, Go, At, Sessions,
      StopInv, LoopInv, RunRows, Run, Stopping, Serving, Up
<1>1. ASSUME NEW w \in Workers, LaunchWorker(w) PROVE StopInv'
  BY <1>1 DEF LaunchWorker, MayLaunch, WorkerLaunched
<1>2. ASSUME NEW w \in Workers, LaunchCut(w) PROVE StopInv'
  BY <1>2 DEF LaunchCut, MayLaunch
<1>3. ASSUME NEW f \in Fronts, LaunchForeground(f) PROVE StopInv'
  BY <1>3 DEF LaunchForeground, MayLaunch
<1>4. ASSUME NEW op \in StopOps, AskRecovered(op) PROVE StopInv'
  BY <1>4 DEF AskRecovered, Answered
<1>5. ASSUME NEW op \in StopOps, AskNew(op) PROVE StopInv'
  BY <1>5 DEF AskNew, MayBegin, BeginRunShutdown, Answered
<1>6. ASSUME NEW op \in StopOps, AskAgain(op) PROVE StopInv'
  BY <1>6 DEF AskAgain, Answered
<1>7. ASSUME NEW op \in StopOps, AskConflict(op) PROVE StopInv'
  BY <1>7 DEF AskConflict, Answered, MayBegin
<1>8. ASSUME NEW op \in StopOps, AnswerOffline(op) PROVE StopInv'
  BY <1>8 DEF AnswerOffline, Answered
<1>9. ASSUME NEW op \in StopOps, RestartToStop(op) PROVE StopInv'
  <2>1. /\ run' = Run("active", "interrupting", op, 0)
        /\ run.phase = "none" /\ run.status = "active"
              /\ operation[op] = "none"
        /\ operation' = [operation EXCEPT ![op] = "pending"]
        /\ UNCHANGED <<request, recovered>>
        /\ pending' = Stopping' /\ loop.stage = "down"
    BY <1>9 DEF RestartToStop, Restarted, MayBegin, BeginRunShutdown
  <2>2. pending'
    BY <2>1
  <2>3. \A o \in StopOps : request[o] # "waiting"
    BY <2>1
  <2> QED BY <2>1, <2>2, <2>3
<1>10. ASSUME Tick PROVE StopInv'
  BY <1>10 DEF Tick, MayBegin, BeginRunShutdown, IdleDue, IdleObserved
<1>11. ASSUME InspectUnknown PROVE StopInv'
  BY <1>11 DEF InspectUnknown, ReconcileSessions
<1>12. ASSUME DriveControls PROVE StopInv'
  BY <1>12 DEF DriveControls
<1>13. ASSUME NEW s \in Sessions, Signal(s) PROVE StopInv'
  BY <1>13 DEF Signal
<1>14. ASSUME MarkDelivered PROVE StopInv'
  BY <1>14 DEF MarkDelivered
<1>15. ASSUME NoStopToProgress PROVE StopInv'
  BY <1>15 DEF NoStopToProgress, PassDone, Told
<1>16. ASSUME AwaitSessions PROVE StopInv'
  <2>1. PICK due \in {"timed_out", "terminating", "interrupting"} :
          run' = Run(run.status, Later(ShutdownRank, due, run.phase),
                run.op, run.age)
    BY <1>16 DEF AwaitSessions
  <2>2. /\ run'.status = run.status
        /\ run'.op = run.op
        /\ run'.phase \notin {"none", "completed"}
    BY <1>16, <2>1, LaterFacts, PhaseSets DEF AwaitSessions
  <2>3. \A o \in StopOps : request'[o] = "waiting" => request[o] = "waiting"
    BY <1>16 DEF AwaitSessions, AllAnswered
  <2>4. UNCHANGED <<operation, recovered, pending>> /\ Up /\ Up'
    BY <1>16 DEF AwaitSessions, PassDone
  <2> QED BY <1>16, <2>2, <2>3, <2>4 DEF AwaitSessions
<1>17. ASSUME SessionsGone PROVE StopInv'
  BY <1>17 DEF SessionsGone, PassDone, Told
<1>18. ASSUME PersistShutdown PROVE StopInv'
  BY <1>18 DEF PersistShutdown, AllAnswered
<1>19. ASSUME InspectionFails PROVE StopInv'
  BY <1>19 DEF InspectionFails, AllAnswered
<1>20. ASSUME Retire PROVE StopInv'
  BY <1>20 DEF Retire
<1>21. ASSUME NEW f \in Fronts, WrapperSpawns(f) PROVE StopInv'
  BY <1>21 DEF WrapperSpawns
<1>22. ASSUME NEW f \in Fronts, ForegroundStarted(f) PROVE StopInv'
  BY <1>22 DEF ForegroundStarted
<1>23. ASSUME NEW f \in Fronts, WaitForegroundControl(f) PROVE StopInv'
  BY <1>23 DEF WaitForegroundControl
<1>24. ASSUME NEW f \in Fronts, ForegroundExited(f) PROVE StopInv'
  BY <1>24 DEF ForegroundExited, Reported
<1>25. ASSUME NEW f \in Fronts, ForegroundLaunchFailed(f) PROVE StopInv'
  BY <1>25 DEF ForegroundLaunchFailed, Reported
<1>26. ASSUME NEW f \in Fronts, ForegroundObservationLost(f) PROVE StopInv'
  BY <1>26 DEF ForegroundObservationLost, Reported
<1>27. ASSUME NEW f \in Fronts, WrapperDies(f) PROVE StopInv'
  BY <1>27 DEF WrapperDies
<1>28. ASSUME NEW s \in Sessions, ProcessEnds(s) PROVE StopInv'
  BY <1>28 DEF ProcessEnds
<1>29. ASSUME NEW w \in Workers, RecordExit(w) PROVE StopInv'
  BY <1>29 DEF RecordExit
<1>30. ASSUME TimePasses PROVE StopInv'
  BY <1>30 DEF TimePasses
<1>31. ASSUME Crash PROVE StopInv'
  BY <1>31 DEF Crash, AllAnswered
<1>32. ASSUME Restart PROVE StopInv'
  BY <1>32 DEF Restart, Restarted, ReconcileSessions
<1>33. ASSUME ReactivateRun PROVE StopInv'
  BY <1>33 DEF ReactivateRun, RecoveryPreflight
<1>34. CASE UNCHANGED vars
  BY <1>34 DEF vars
<1> QED
  BY <1>1, <1>2, <1>3, <1>4, <1>5, <1>6, <1>7, <1>8, <1>9, <1>10, <1>11,
     <1>12, <1>13, <1>14, <1>15, <1>16, <1>17, <1>18, <1>19, <1>20, <1>21,
     <1>22, <1>23, <1>24, <1>25, <1>26, <1>27, <1>28, <1>29, <1>30, <1>31,
     <1>32, <1>33, <1>34
     DEF Next, Pass, Asks, Launches, Wrappers, Sessions


(* Every step keeps controls to sessions that were launched. *)
LEMMA ControlInvStep == IInv /\ [Next]_vars => ControlInv'
<1> SUFFICES ASSUME IInv, [Next]_vars PROVE ControlInv'
  OBVIOUS
<1> USE DEF IInv, TypeOK, stores, memory, world, bounds, Go, At, Sessions,
      ControlInv, EndInv, SessionRows, Row, ControlRows, Control, Active,
            Ended, Terminal, Controlled
<1>1. ASSUME NEW w \in Workers, LaunchWorker(w) PROVE ControlInv'
  BY <1>1 DEF LaunchWorker, MayLaunch, WorkerLaunched
<1>2. ASSUME NEW w \in Workers, LaunchCut(w) PROVE ControlInv'
  BY <1>2 DEF LaunchCut, MayLaunch
<1>3. ASSUME NEW f \in Fronts, LaunchForeground(f) PROVE ControlInv'
  BY <1>3 DEF LaunchForeground, MayLaunch
<1>4. ASSUME NEW op \in StopOps, AskRecovered(op) PROVE ControlInv'
  BY <1>4 DEF AskRecovered, Answered
<1>5. ASSUME NEW op \in StopOps, AskNew(op) PROVE ControlInv'
  BY <1>5 DEF AskNew, MayBegin, BeginRunShutdown, Answered
<1>6. ASSUME NEW op \in StopOps, AskAgain(op) PROVE ControlInv'
  BY <1>6 DEF AskAgain, Answered
<1>7. ASSUME NEW op \in StopOps, AskConflict(op) PROVE ControlInv'
  BY <1>7 DEF AskConflict, Answered, MayBegin
<1>8. ASSUME NEW op \in StopOps, AnswerOffline(op) PROVE ControlInv'
  BY <1>8 DEF AnswerOffline, Answered
<1>9. ASSUME NEW op \in StopOps, RestartToStop(op) PROVE ControlInv'
  <2>1. PICK those \in SUBSET Sessions :
          ReconcileSessions(those) /\ (\A s \in those : Active(s))
    BY <1>9 DEF RestartToStop, Restarted
  <2>2. UNCHANGED control
    BY <1>9 DEF RestartToStop, Restarted
  <2>3. \A s \in Sessions : session'[s] = session[s] \/
          (Active(s) /\ session'[s].state # "none")
    BY <2>1, ReconciledFacts
  <2> QED BY <2>2, <2>3
<1>10. ASSUME Tick PROVE ControlInv'
  BY <1>10 DEF Tick, MayBegin, BeginRunShutdown, IdleDue, IdleObserved
<1>11. ASSUME InspectUnknown PROVE ControlInv'
  <2>1. PICK those \in SUBSET Sessions :
          ReconcileSessions(those) /\ (\A s \in those : Active(s))
    BY <1>11 DEF InspectUnknown
  <2>2. UNCHANGED control
    BY <1>11 DEF InspectUnknown
  <2>3. \A s \in Sessions : session'[s] = session[s] \/
          (Active(s) /\ session'[s].state # "none")
    BY <2>1, ReconciledFacts
  <2> QED BY <2>2, <2>3
<1>12. ASSUME DriveControls PROVE ControlInv'
  <2>1. UNCHANGED session
    BY <1>12 DEF DriveControls
  <2>2. ASSUME NEW s \in Sessions
        PROVE  /\ control'[s].phase = "none" => control[s].phase = "none"
               /\ control'[s].phase = "completed" =>
                    control[s].phase = "completed" \/ Ended(s)
               /\ control[s].phase = "none" /\ ~Active(s) =>
                    control'[s].phase = "none"
    <3> HIDE DEF Ended, Active, TypeOK
    <3> QED BY <1>12, ControlsDriven DEF IInv
  <2>3. \A s \in Sessions : session[s].state = "none" => ~Active(s)
    OBVIOUS
  <2> QED BY <2>1, <2>2, <2>3
<1>13. ASSUME NEW s \in Sessions, Signal(s) PROVE ControlInv'
  BY <1>13 DEF Signal
<1>14. ASSUME MarkDelivered PROVE ControlInv'
  BY <1>14 DEF MarkDelivered
<1>15. ASSUME NoStopToProgress PROVE ControlInv'
  BY <1>15 DEF NoStopToProgress, PassDone, Told
<1>16. ASSUME AwaitSessions PROVE ControlInv'
  BY <1>16 DEF AwaitSessions, PassDone, Told
<1>17. ASSUME SessionsGone PROVE ControlInv'
  BY <1>17 DEF SessionsGone, PassDone, Told
<1>18. ASSUME PersistShutdown PROVE ControlInv'
  BY <1>18 DEF PersistShutdown, AllAnswered
<1>19. ASSUME InspectionFails PROVE ControlInv'
  BY <1>19 DEF InspectionFails, AllAnswered
<1>20. ASSUME Retire PROVE ControlInv'
  BY <1>20 DEF Retire
<1>21. ASSUME NEW f \in Fronts, WrapperSpawns(f) PROVE ControlInv'
  BY <1>21 DEF WrapperSpawns
<1>22. ASSUME NEW f \in Fronts, ForegroundStarted(f) PROVE ControlInv'
  BY <1>22 DEF ForegroundStarted
<1>23. ASSUME NEW f \in Fronts, WaitForegroundControl(f) PROVE ControlInv'
  BY <1>23 DEF WaitForegroundControl
<1>24. ASSUME NEW f \in Fronts, ForegroundExited(f) PROVE ControlInv'
  BY <1>24 DEF ForegroundExited, Reported
<1>25. ASSUME NEW f \in Fronts, ForegroundLaunchFailed(f) PROVE ControlInv'
  BY <1>25 DEF ForegroundLaunchFailed, Reported
<1>26. ASSUME NEW f \in Fronts, ForegroundObservationLost(f) PROVE ControlInv'
  BY <1>26 DEF ForegroundObservationLost, Reported
<1>27. ASSUME NEW f \in Fronts, WrapperDies(f) PROVE ControlInv'
  BY <1>27 DEF WrapperDies
<1>28. ASSUME NEW s \in Sessions, ProcessEnds(s) PROVE ControlInv'
  BY <1>28 DEF ProcessEnds
<1>29. ASSUME NEW w \in Workers, RecordExit(w) PROVE ControlInv'
  BY <1>29 DEF RecordExit
<1>30. ASSUME TimePasses PROVE ControlInv'
  BY <1>30 DEF TimePasses
<1>31. ASSUME Crash PROVE ControlInv'
  BY <1>31 DEF Crash, AllAnswered
<1>32. ASSUME Restart PROVE ControlInv'
  <2>1. PICK those \in SUBSET Sessions :
          ReconcileSessions(those) /\ (\A s \in those : Active(s))
    BY <1>32 DEF Restart, Restarted
  <2>2. UNCHANGED control
    BY <1>32 DEF Restart, Restarted
  <2>3. \A s \in Sessions : session'[s] = session[s] \/
          (Active(s) /\ session'[s].state # "none")
    BY <2>1, ReconciledFacts
  <2> QED BY <2>2, <2>3
<1>33. ASSUME ReactivateRun PROVE ControlInv'
  BY <1>33 DEF ReactivateRun, RecoveryPreflight
<1>34. CASE UNCHANGED vars
  BY <1>34 DEF vars
<1> QED
  BY <1>1, <1>2, <1>3, <1>4, <1>5, <1>6, <1>7, <1>8, <1>9, <1>10, <1>11,
     <1>12, <1>13, <1>14, <1>15, <1>16, <1>17, <1>18, <1>19, <1>20, <1>21,
     <1>22, <1>23, <1>24, <1>25, <1>26, <1>27, <1>28, <1>29, <1>30, <1>31,
     <1>32, <1>33, <1>34
     DEF Next, Pass, Asks, Launches, Wrappers, Sessions


(* Every step keeps what the thread may assume where it stands. *)
LEMMA LoopInvStep == IInv /\ [Next]_vars => LoopInv'
<1> SUFFICES ASSUME IInv, [Next]_vars PROVE LoopInv'
  OBVIOUS
<1> USE DEF IInv, TypeOK, stores, memory, world, bounds, Go, At, Sessions,
      LoopInv, StopInv, ControlInv, Run, Row, Control, Active, AnyActive,
            Terminal, Controlled, Stopping, Serving, Up, Settled
<1>1. ASSUME NEW w \in Workers, LaunchWorker(w) PROVE LoopInv'
  BY <1>1 DEF LaunchWorker, MayLaunch, WorkerLaunched
<1>2. ASSUME NEW w \in Workers, LaunchCut(w) PROVE LoopInv'
  BY <1>2 DEF LaunchCut, MayLaunch
<1>3. ASSUME NEW f \in Fronts, LaunchForeground(f) PROVE LoopInv'
  BY <1>3 DEF LaunchForeground, MayLaunch
<1>4. ASSUME NEW op \in StopOps, AskRecovered(op) PROVE LoopInv'
  BY <1>4 DEF AskRecovered, Answered
<1>5. ASSUME NEW op \in StopOps, AskNew(op) PROVE LoopInv'
  BY <1>5 DEF AskNew, MayBegin, BeginRunShutdown, Answered
<1>6. ASSUME NEW op \in StopOps, AskAgain(op) PROVE LoopInv'
  BY <1>6 DEF AskAgain, Answered
<1>7. ASSUME NEW op \in StopOps, AskConflict(op) PROVE LoopInv'
  BY <1>7 DEF AskConflict, Answered, MayBegin
<1>8. ASSUME NEW op \in StopOps, AnswerOffline(op) PROVE LoopInv'
  BY <1>8 DEF AnswerOffline, Answered
<1>9. ASSUME NEW op \in StopOps, RestartToStop(op) PROVE LoopInv'
  BY <1>9
     DEF RestartToStop, Restarted, MayBegin, BeginRunShutdown,
         ReconcileSessions
<1>10. ASSUME Tick PROVE LoopInv'
  BY <1>10 DEF Tick, MayBegin, BeginRunShutdown, IdleDue, IdleObserved
<1>11. ASSUME InspectUnknown PROVE LoopInv'
  BY <1>11 DEF InspectUnknown, ReconcileSessions
<1>12. ASSUME DriveControls PROVE LoopInv'
  <2>2. UNCHANGED <<session, run, polled>>
    BY <1>12 DEF DriveControls
  <2>3. loop' = At("signal", {s \in Sessions : SignalDue(s)}, NoSession)
    BY <1>12 DEF DriveControls
  <2>4. loop'.stage = "signal"
        /\ loop'.todo \subseteq {w \in Workers : control'[w].phase # "none"}
    BY <2>3 DEF SignalDue
  <2>5. ASSUME NEW s \in Sessions, Stopping, Active(s)
        PROVE  control'[s].phase \notin {"none", "completed"}
    <3>1. /\ control'[s].phase # "none"
          /\ control'[s].phase = "completed" =>
                control[s].phase = "completed" \/ Ended(s)
      <4> HIDE DEF Active, Stopping, TypeOK
      <4> QED BY <1>12, <2>5, ControlsDriven DEF IInv
    <3>2. ~Ended(s) /\ control[s].phase # "completed"
      BY <2>5 DEF Ended
    <3> QED BY <3>1, <3>2
  <2> QED BY <2>2, <2>4, <2>5
<1>13. ASSUME NEW s \in Sessions, Signal(s) PROVE LoopInv'
  <2>1. UNCHANGED <<session, run, polled, control>>
    BY <1>13 DEF Signal
  <2>2. /\ loop.stage = "signal" /\ s \in Workers /\ control[s].phase # "none"
        /\ loop.todo \subseteq Workers
    BY <1>13 DEF Signal
  <2>3. loop' = At("signal", loop.todo \ {s},
        NoSession) \/ loop' = At("mark", loop.todo \ {s}, s)
    BY <1>13 DEF Signal
  <2> QED BY <2>1, <2>2, <2>3
<1>14. ASSUME MarkDelivered PROVE LoopInv'
  BY <1>14 DEF MarkDelivered
<1>15. ASSUME NoStopToProgress PROVE LoopInv'
  BY <1>15 DEF NoStopToProgress, PassDone, Told
<1>16. ASSUME AwaitSessions PROVE LoopInv'
  BY <1>16 DEF AwaitSessions, PassDone, Told
<1>17. ASSUME SessionsGone PROVE LoopInv'
  BY <1>17 DEF SessionsGone, PassDone, Told
<1>18. ASSUME PersistShutdown PROVE LoopInv'
  BY <1>18 DEF PersistShutdown, AllAnswered
<1>19. ASSUME InspectionFails PROVE LoopInv'
  BY <1>19 DEF InspectionFails, AllAnswered
<1>20. ASSUME Retire PROVE LoopInv'
  BY <1>20 DEF Retire
<1>21. ASSUME NEW f \in Fronts, WrapperSpawns(f) PROVE LoopInv'
  BY <1>21 DEF WrapperSpawns
<1>22. ASSUME NEW f \in Fronts, ForegroundStarted(f) PROVE LoopInv'
  BY <1>22 DEF ForegroundStarted
<1>23. ASSUME NEW f \in Fronts, WaitForegroundControl(f) PROVE LoopInv'
  BY <1>23 DEF WaitForegroundControl
<1>24. ASSUME NEW f \in Fronts, ForegroundExited(f) PROVE LoopInv'
  BY <1>24 DEF ForegroundExited, Reported
<1>25. ASSUME NEW f \in Fronts, ForegroundLaunchFailed(f) PROVE LoopInv'
  BY <1>25 DEF ForegroundLaunchFailed, Reported
<1>26. ASSUME NEW f \in Fronts, ForegroundObservationLost(f) PROVE LoopInv'
  BY <1>26 DEF ForegroundObservationLost, Reported
<1>27. ASSUME NEW f \in Fronts, WrapperDies(f) PROVE LoopInv'
  BY <1>27 DEF WrapperDies
<1>28. ASSUME NEW s \in Sessions, ProcessEnds(s) PROVE LoopInv'
  BY <1>28 DEF ProcessEnds
<1>29. ASSUME NEW w \in Workers, RecordExit(w) PROVE LoopInv'
  BY <1>29 DEF RecordExit
<1>30. ASSUME TimePasses PROVE LoopInv'
  BY <1>30 DEF TimePasses
<1>31. ASSUME Crash PROVE LoopInv'
  BY <1>31 DEF Crash, AllAnswered
<1>32. ASSUME Restart PROVE LoopInv'
  BY <1>32 DEF Restart, Restarted, ReconcileSessions
<1>33. ASSUME ReactivateRun PROVE LoopInv'
  BY <1>33 DEF ReactivateRun, RecoveryPreflight
<1>34. CASE UNCHANGED vars
  BY <1>34 DEF vars
<1> QED
  BY <1>1, <1>2, <1>3, <1>4, <1>5, <1>6, <1>7, <1>8, <1>9, <1>10, <1>11,
     <1>12, <1>13, <1>14, <1>15, <1>16, <1>17, <1>18, <1>19, <1>20, <1>21,
     <1>22, <1>23, <1>24, <1>25, <1>26, <1>27, <1>28, <1>29, <1>30, <1>31,
     <1>32, <1>33, <1>34
     DEF Next, Pass, Asks, Launches, Wrappers, Sessions


(* Every tick tells the wrappers that wait. *)
LEMMA WrappersToldStep == IInv /\ [Next]_vars => WrappersTold'
<1> SUFFICES ASSUME IInv, [Next]_vars PROVE WrappersTold'
  OBVIOUS
<1> USE DEF IInv, TypeOK, stores, memory, world, bounds, Go, At, Sessions,
      LoopInv, StopInv, ControlInv, WrappersTold, RunRows, Run, SessionRows,
            Row, Active, AnyActive, Terminal, Controlled, Stopping, Serving,
                  Up, Settled
<1>1. ASSUME NEW w \in Workers, LaunchWorker(w) PROVE WrappersTold'
  BY <1>1 DEF LaunchWorker, MayLaunch, WorkerLaunched
<1>2. ASSUME NEW w \in Workers, LaunchCut(w) PROVE WrappersTold'
  BY <1>2 DEF LaunchCut, MayLaunch
<1>3. ASSUME NEW f \in Fronts, LaunchForeground(f) PROVE WrappersTold'
  BY <1>3 DEF LaunchForeground, MayLaunch
<1>4. ASSUME NEW op \in StopOps, AskRecovered(op) PROVE WrappersTold'
  BY <1>4 DEF AskRecovered, Answered
<1>5. ASSUME NEW op \in StopOps, AskNew(op) PROVE WrappersTold'
  BY <1>5 DEF AskNew, MayBegin, BeginRunShutdown, Answered
<1>6. ASSUME NEW op \in StopOps, AskAgain(op) PROVE WrappersTold'
  BY <1>6 DEF AskAgain, Answered
<1>7. ASSUME NEW op \in StopOps, AskConflict(op) PROVE WrappersTold'
  BY <1>7 DEF AskConflict, Answered, MayBegin
<1>8. ASSUME NEW op \in StopOps, AnswerOffline(op) PROVE WrappersTold'
  BY <1>8 DEF AnswerOffline, Answered
<1>9. ASSUME NEW op \in StopOps, RestartToStop(op) PROVE WrappersTold'
  BY <1>9
     DEF RestartToStop, Restarted, MayBegin, BeginRunShutdown,
         ReconcileSessions
<1>10. ASSUME Tick PROVE WrappersTold'
  BY <1>10 DEF Tick, MayBegin, BeginRunShutdown, IdleDue, IdleObserved
<1>11. ASSUME InspectUnknown PROVE WrappersTold'
  BY <1>11 DEF InspectUnknown, ReconcileSessions
<1>12. ASSUME DriveControls PROVE WrappersTold'
  BY <1>12 DEF DriveControls
<1>13. ASSUME NEW s \in Sessions, Signal(s) PROVE WrappersTold'
  BY <1>13 DEF Signal
<1>14. ASSUME MarkDelivered PROVE WrappersTold'
  BY <1>14 DEF MarkDelivered
<1>15. ASSUME NoStopToProgress PROVE WrappersTold'
  BY <1>15 DEF NoStopToProgress, PassDone, Told
<1>16. ASSUME AwaitSessions PROVE WrappersTold'
  BY <1>16 DEF AwaitSessions, PassDone, Told
<1>17. ASSUME SessionsGone PROVE WrappersTold'
  BY <1>17 DEF SessionsGone, PassDone, Told
<1>18. ASSUME PersistShutdown PROVE WrappersTold'
  BY <1>18 DEF PersistShutdown, AllAnswered
<1>19. ASSUME InspectionFails PROVE WrappersTold'
  BY <1>19 DEF InspectionFails, AllAnswered
<1>20. ASSUME Retire PROVE WrappersTold'
  BY <1>20 DEF Retire
<1>21. ASSUME NEW f \in Fronts, WrapperSpawns(f) PROVE WrappersTold'
  BY <1>21 DEF WrapperSpawns
<1>22. ASSUME NEW f \in Fronts, ForegroundStarted(f) PROVE WrappersTold'
  BY <1>22 DEF ForegroundStarted
<1>23. ASSUME NEW f \in Fronts, WaitForegroundControl(f) PROVE WrappersTold'
  BY <1>23 DEF WaitForegroundControl
<1>24. ASSUME NEW f \in Fronts, ForegroundExited(f) PROVE WrappersTold'
  BY <1>24 DEF ForegroundExited, Reported
<1>25. ASSUME NEW f \in Fronts, ForegroundLaunchFailed(f) PROVE WrappersTold'
  BY <1>25 DEF ForegroundLaunchFailed, Reported
<1>26. ASSUME NEW f \in Fronts, ForegroundObservationLost(f)
       PROVE  WrappersTold'
  BY <1>26 DEF ForegroundObservationLost, Reported
<1>27. ASSUME NEW f \in Fronts, WrapperDies(f) PROVE WrappersTold'
  BY <1>27 DEF WrapperDies
<1>28. ASSUME NEW s \in Sessions, ProcessEnds(s) PROVE WrappersTold'
  BY <1>28 DEF ProcessEnds
<1>29. ASSUME NEW w \in Workers, RecordExit(w) PROVE WrappersTold'
  BY <1>29 DEF RecordExit
<1>30. ASSUME TimePasses PROVE WrappersTold'
  BY <1>30 DEF TimePasses
<1>31. ASSUME Crash PROVE WrappersTold'
  BY <1>31 DEF Crash, AllAnswered
<1>32. ASSUME Restart PROVE WrappersTold'
  BY <1>32 DEF Restart, Restarted, ReconcileSessions
<1>33. ASSUME ReactivateRun PROVE WrappersTold'
  BY <1>33 DEF ReactivateRun, RecoveryPreflight
<1>34. CASE UNCHANGED vars
  BY <1>34 DEF vars
<1> QED
  BY <1>1, <1>2, <1>3, <1>4, <1>5, <1>6, <1>7, <1>8, <1>9, <1>10, <1>11,
     <1>12, <1>13, <1>14, <1>15, <1>16, <1>17, <1>18, <1>19, <1>20, <1>21,
     <1>22, <1>23, <1>24, <1>25, <1>26, <1>27, <1>28, <1>29, <1>30, <1>31,
     <1>32, <1>33, <1>34
     DEF Next, Pass, Asks, Launches, Wrappers, Sessions


(* Every step keeps a stopped run without processes. *)
LEMMA StoppedMeansGoneStep == IInv /\ [Next]_vars => StoppedMeansGone'
<1> SUFFICES ASSUME IInv, [Next]_vars PROVE StoppedMeansGone'
  OBVIOUS
<1> USE DEF IInv, TypeOK, stores, memory, world, bounds, Go, At, Sessions,
      EndInv, StopInv, LoopInv, StoppedMeansGone, RunRows, Run, SessionRows,
            Row, Active, Ended, Terminal, AnyActive, Serving, Settled
<1>1. ASSUME NEW w \in Workers, LaunchWorker(w) PROVE StoppedMeansGone'
  BY <1>1 DEF LaunchWorker, MayLaunch, WorkerLaunched
<1>2. ASSUME NEW w \in Workers, LaunchCut(w) PROVE StoppedMeansGone'
  BY <1>2 DEF LaunchCut, MayLaunch
<1>3. ASSUME NEW f \in Fronts, LaunchForeground(f) PROVE StoppedMeansGone'
  BY <1>3 DEF LaunchForeground, MayLaunch
<1>4. ASSUME NEW op \in StopOps, AskRecovered(op) PROVE StoppedMeansGone'
  BY <1>4 DEF AskRecovered, Answered
<1>5. ASSUME NEW op \in StopOps, AskNew(op) PROVE StoppedMeansGone'
  BY <1>5 DEF AskNew, MayBegin, BeginRunShutdown, Answered
<1>6. ASSUME NEW op \in StopOps, AskAgain(op) PROVE StoppedMeansGone'
  BY <1>6 DEF AskAgain, Answered
<1>7. ASSUME NEW op \in StopOps, AskConflict(op) PROVE StoppedMeansGone'
  BY <1>7 DEF AskConflict, Answered, MayBegin
<1>8. ASSUME NEW op \in StopOps, AnswerOffline(op) PROVE StoppedMeansGone'
  BY <1>8 DEF AnswerOffline, Answered
<1>9. ASSUME NEW op \in StopOps, RestartToStop(op) PROVE StoppedMeansGone'
  BY <1>9
     DEF RestartToStop, Restarted, MayBegin, BeginRunShutdown,
         ReconcileSessions
<1>10. ASSUME Tick PROVE StoppedMeansGone'
  BY <1>10 DEF Tick, MayBegin, BeginRunShutdown, IdleDue, IdleObserved
<1>11. ASSUME InspectUnknown PROVE StoppedMeansGone'
  BY <1>11 DEF InspectUnknown, ReconcileSessions
<1>12. ASSUME DriveControls PROVE StoppedMeansGone'
  BY <1>12 DEF DriveControls
<1>13. ASSUME NEW s \in Sessions, Signal(s) PROVE StoppedMeansGone'
  BY <1>13 DEF Signal
<1>14. ASSUME MarkDelivered PROVE StoppedMeansGone'
  BY <1>14 DEF MarkDelivered
<1>15. ASSUME NoStopToProgress PROVE StoppedMeansGone'
  BY <1>15 DEF NoStopToProgress, PassDone, Told
<1>16. ASSUME AwaitSessions PROVE StoppedMeansGone'
  BY <1>16 DEF AwaitSessions, PassDone, Told
<1>17. ASSUME SessionsGone PROVE StoppedMeansGone'
  BY <1>17 DEF SessionsGone, PassDone, Told
<1>18. ASSUME PersistShutdown PROVE StoppedMeansGone'
  BY <1>18 DEF PersistShutdown, AllAnswered
<1>19. ASSUME InspectionFails PROVE StoppedMeansGone'
  BY <1>19 DEF InspectionFails, AllAnswered
<1>20. ASSUME Retire PROVE StoppedMeansGone'
  BY <1>20 DEF Retire
<1>21. ASSUME NEW f \in Fronts, WrapperSpawns(f) PROVE StoppedMeansGone'
  BY <1>21 DEF WrapperSpawns
<1>22. ASSUME NEW f \in Fronts, ForegroundStarted(f) PROVE StoppedMeansGone'
  <2>1. f \in Sessions /\ process[f] # "none"
    BY <1>22 DEF ForegroundStarted
  <2>2. Active(f) /\ UNCHANGED run
    BY <1>22, <2>1 DEF ForegroundStarted
  <2> QED BY <2>1, <2>2
<1>23. ASSUME NEW f \in Fronts, WaitForegroundControl(f)
       PROVE  StoppedMeansGone'
  BY <1>23 DEF WaitForegroundControl
<1>24. ASSUME NEW f \in Fronts, ForegroundExited(f) PROVE StoppedMeansGone'
  BY <1>24 DEF ForegroundExited, Reported
<1>25. ASSUME NEW f \in Fronts, ForegroundLaunchFailed(f)
       PROVE  StoppedMeansGone'
  BY <1>25 DEF ForegroundLaunchFailed, Reported
<1>26. ASSUME NEW f \in Fronts, ForegroundObservationLost(f)
       PROVE  StoppedMeansGone'
  BY <1>26 DEF ForegroundObservationLost, Reported
<1>27. ASSUME NEW f \in Fronts, WrapperDies(f) PROVE StoppedMeansGone'
  BY <1>27 DEF WrapperDies
<1>28. ASSUME NEW s \in Sessions, ProcessEnds(s) PROVE StoppedMeansGone'
  BY <1>28 DEF ProcessEnds
<1>29. ASSUME NEW w \in Workers, RecordExit(w) PROVE StoppedMeansGone'
  BY <1>29 DEF RecordExit
<1>30. ASSUME TimePasses PROVE StoppedMeansGone'
  BY <1>30 DEF TimePasses
<1>31. ASSUME Crash PROVE StoppedMeansGone'
  BY <1>31 DEF Crash, AllAnswered
<1>32. ASSUME Restart PROVE StoppedMeansGone'
  BY <1>32 DEF Restart, Restarted, ReconcileSessions
<1>33. ASSUME ReactivateRun PROVE StoppedMeansGone'
  BY <1>33 DEF ReactivateRun, RecoveryPreflight
<1>34. CASE UNCHANGED vars
  BY <1>34 DEF vars
<1> QED
  BY <1>1, <1>2, <1>3, <1>4, <1>5, <1>6, <1>7, <1>8, <1>9, <1>10, <1>11,
     <1>12, <1>13, <1>14, <1>15, <1>16, <1>17, <1>18, <1>19, <1>20, <1>21,
     <1>22, <1>23, <1>24, <1>25, <1>26, <1>27, <1>28, <1>29, <1>30, <1>31,
     <1>32, <1>33, <1>34
     DEF Next, Pass, Asks, Launches, Wrappers, Sessions


(* The run starts within the invariant. *)
LEMMA InitInv == Init => IInv
<1>1. Run("active", "none", NoOp, 0) \in RunRows
  BY RowTypes, PhaseSets DEF RunAges
<1>2. Row("none", FALSE, FALSE) \in SessionRows
  BY RowTypes
<1>3. NoControl \in ControlRows
  <2>1. 0 \in RunAges /\ "none" \in ControlPhases
    BY PhaseSets DEF RunAges
  <2>2. Control("none", FALSE, 0) \in ControlRows
    BY <2>1, RowTypes
  <2> QED BY <2>2 DEF NoControl
<1>4. ASSUME Init PROVE TypeOK
  <2>1. /\ run \in RunRows
        /\ session \in [Sessions -> SessionRows]
        /\ control \in [Sessions -> ControlRows]
    BY <1>1, <1>2, <1>3, <1>4 DEF Init
  <2>2. held = [s \in Sessions |-> FALSE]
    BY <1>4 DEF Init
  <2>3. held \in [Sessions -> BOOLEAN]
    BY <2>2
  <2>4. /\ operation = [o \in StopOps |-> "none"]
        /\ process = [t \in Sessions |-> "none"]
        /\ wrapper = [f \in Fronts |-> "none"]
        /\ request = [o \in StopOps |-> "none"]
    BY <1>4 DEF Init
  <2>5. /\ recovered = {} /\ pending = FALSE /\ polled = FALSE
        /\ idle = "unset" /\ loop = Go("serve")
        /\ crashes = 0 /\ faults = 0
    BY <1>4 DEF Init
  <2>6. pending \in BOOLEAN /\ polled \in BOOLEAN
    BY <2>5
  <2>7. loop \in [stage: LoopStages, todo: SUBSET Sessions,
        current: Sessions \cup {NoSession}]
    BY <2>5 DEF Go, At, LoopStages
  <2>8. crashes \in 0..MaxCrashes /\ faults \in 0..MaxFaults
    BY <2>5
  <2>9. /\ operation \in [StopOps -> {"none", "pending", "completed"}]
        /\ process \in [Sessions -> {"none", "alive", "killed", "gone"}]
        /\ wrapper \in [Fronts -> {"none", "granted", "spawned", "started",
                                    "waiting", "told", "done", "dead"}]
        /\ request \in [StopOps -> {"none", "waiting", "ok", "refused"}]
    BY <2>4
  <2> QED BY <2>1, <2>3, <2>5, <2>6, <2>7, <2>8, <2>9 DEF TypeOK
<1>5. ASSUME Init
      PROVE  EndInv /\ StopInv /\ ControlInv /\ LoopInv /\ WrappersTold
              /\ StoppedMeansGone
  BY <1>5
     DEF Init, EndInv, StopInv, ControlInv, LoopInv, WrappersTold,
         StoppedMeansGone,
     Run, Row, NoControl, Control, Go, At, Serving, Stopping, Up, Sessions,
           Ended, Active, Terminal
<1> QED BY <1>4, <1>5 DEF IInv

(* Every step keeps the invariant. *)
LEMMA StepInv == IInv /\ [Next]_vars => IInv'
  BY TypeOKStep, EndInvStep, StopInvStep, ControlInvStep, LoopInvStep,
     WrappersToldStep, StoppedMeansGoneStep DEF IInv

(* The phases, controls, sessions and wrappers of a stop agree, and a run  *)
(* is stopped only when nothing of it is left (supervisor.rs:2826, 6147).  *)
THEOREM Inductive == Spec => []IInv
<1>1. Init => IInv
  BY InitInv
<1>2. IInv /\ [Next]_vars => IInv'
  BY StepInv
<1> QED BY <1>1, <1>2, PTL DEF Spec

(* A run that is stopped has no process left (supervisor.rs:6147,          *)
(* workspace.rs:258).                                                      *)
THEOREM NothingLeftRunning == Spec => []StoppedMeansGone
<1>1. IInv => StoppedMeansGone
  BY DEF IInv
<1> QED BY <1>1, Inductive, PTL

(* No step answers a completed stop with anything but success. *)
LEMMA ReplayStep ==
    IInv /\ [Next]_vars =>
        \A o \in StopOps :
            operation[o] = "completed" /\ request'[o] # request[o]
                => request'[o] = "ok"
<1> SUFFICES ASSUME IInv, [Next]_vars, NEW o \in StopOps,
                    operation[o] = "completed", request'[o] # request[o]
             PROVE  request'[o] = "ok"
  OBVIOUS
<1>1. ASSUME NEW w \in Workers, LaunchWorker(w) PROVE request'[o] = "ok"
  BY <1>1
     DEF IInv, TypeOK, StopInv, stores, memory, world, bounds, Stopping,
         LaunchWorker, MayLaunch, WorkerLaunched
<1>2. ASSUME NEW w \in Workers, LaunchCut(w) PROVE request'[o] = "ok"
  BY <1>2
     DEF IInv, TypeOK, StopInv, stores, memory, world, bounds, Stopping,
         LaunchCut, MayLaunch
<1>3. ASSUME NEW f \in Fronts, LaunchForeground(f) PROVE request'[o] = "ok"
  BY <1>3
     DEF IInv, TypeOK, StopInv, stores, memory, world, bounds, Stopping,
         LaunchForeground, MayLaunch
<1>4. ASSUME NEW op \in StopOps, AskRecovered(op) PROVE request'[o] = "ok"
  BY <1>4
     DEF IInv, TypeOK, StopInv, stores, memory, world, bounds, Stopping,
         AskRecovered, Answered
<1>5. ASSUME NEW op \in StopOps, AskNew(op) PROVE request'[o] = "ok"
  BY <1>5
     DEF IInv, TypeOK, StopInv, stores, memory, world, bounds, Stopping,
         AskNew, MayBegin, BeginRunShutdown, Answered
<1>6. ASSUME NEW op \in StopOps, AskAgain(op) PROVE request'[o] = "ok"
  BY <1>6
     DEF IInv, TypeOK, StopInv, stores, memory, world, bounds, Stopping,
         AskAgain, Answered
<1>7. ASSUME NEW op \in StopOps, AskConflict(op) PROVE request'[o] = "ok"
  BY <1>7
     DEF IInv, TypeOK, StopInv, stores, memory, world, bounds, Stopping,
         AskConflict, Answered, MayBegin
<1>8. ASSUME NEW op \in StopOps, AnswerOffline(op) PROVE request'[o] = "ok"
  BY <1>8
     DEF IInv, TypeOK, StopInv, stores, memory, world, bounds, Stopping,
         AnswerOffline, Answered
<1>9. ASSUME NEW op \in StopOps, RestartToStop(op) PROVE request'[o] = "ok"
  BY <1>9
     DEF IInv, TypeOK, StopInv, stores, memory, world, bounds, Stopping,
         RestartToStop, Restarted, MayBegin, BeginRunShutdown,
         ReconcileSessions
<1>10. ASSUME Tick PROVE request'[o] = "ok"
  BY <1>10
     DEF IInv, TypeOK, StopInv, stores, memory, world, bounds, Stopping, Tick,
         MayBegin, BeginRunShutdown, IdleDue, IdleObserved
<1>11. ASSUME InspectUnknown PROVE request'[o] = "ok"
  BY <1>11
     DEF IInv, TypeOK, StopInv, stores, memory, world, bounds, Stopping,
         InspectUnknown, ReconcileSessions
<1>12. ASSUME DriveControls PROVE request'[o] = "ok"
  BY <1>12
     DEF IInv, TypeOK, StopInv, stores, memory, world, bounds, Stopping,
         DriveControls
<1>13. ASSUME NEW s \in Sessions, Signal(s) PROVE request'[o] = "ok"
  BY <1>13
     DEF IInv, TypeOK, StopInv, stores, memory, world, bounds, Stopping, Signal
<1>14. ASSUME MarkDelivered PROVE request'[o] = "ok"
  BY <1>14
     DEF IInv, TypeOK, StopInv, stores, memory, world, bounds, Stopping,
         MarkDelivered
<1>15. ASSUME NoStopToProgress PROVE request'[o] = "ok"
  BY <1>15
     DEF IInv, TypeOK, StopInv, stores, memory, world, bounds, Stopping,
         NoStopToProgress, PassDone, Told
<1>16. ASSUME AwaitSessions PROVE request'[o] = "ok"
  <2>1. request[o] # "waiting"
    BY <1>16 DEF AwaitSessions, Stopping, IInv, StopInv
  <2> QED BY <1>16, <2>1 DEF AwaitSessions, AllAnswered, IInv, TypeOK
<1>17. ASSUME SessionsGone PROVE request'[o] = "ok"
  BY <1>17
     DEF IInv, TypeOK, StopInv, stores, memory, world, bounds, Stopping,
         SessionsGone, PassDone, Told
<1>18. ASSUME PersistShutdown PROVE request'[o] = "ok"
  BY <1>18
     DEF IInv, TypeOK, StopInv, stores, memory, world, bounds, Stopping,
         PersistShutdown, AllAnswered
<1>19. ASSUME InspectionFails PROVE request'[o] = "ok"
  BY <1>19
     DEF IInv, TypeOK, StopInv, stores, memory, world, bounds, Stopping,
         InspectionFails, AllAnswered
<1>20. ASSUME Retire PROVE request'[o] = "ok"
  BY <1>20
     DEF IInv, TypeOK, StopInv, stores, memory, world, bounds, Stopping, Retire
<1>21. ASSUME NEW f \in Fronts, WrapperSpawns(f) PROVE request'[o] = "ok"
  BY <1>21
     DEF IInv, TypeOK, StopInv, stores, memory, world, bounds, Stopping,
         WrapperSpawns
<1>22. ASSUME NEW f \in Fronts, ForegroundStarted(f) PROVE request'[o] = "ok"
  BY <1>22
     DEF IInv, TypeOK, StopInv, stores, memory, world, bounds, Stopping,
         ForegroundStarted
<1>23. ASSUME NEW f \in Fronts, WaitForegroundControl(f)
       PROVE  request'[o] = "ok"
  BY <1>23
     DEF IInv, TypeOK, StopInv, stores, memory, world, bounds, Stopping,
         WaitForegroundControl
<1>24. ASSUME NEW f \in Fronts, ForegroundExited(f) PROVE request'[o] = "ok"
  BY <1>24
     DEF IInv, TypeOK, StopInv, stores, memory, world, bounds, Stopping,
         ForegroundExited, Reported
<1>25. ASSUME NEW f \in Fronts, ForegroundLaunchFailed(f)
       PROVE  request'[o] = "ok"
  BY <1>25
     DEF IInv, TypeOK, StopInv, stores, memory, world, bounds, Stopping,
         ForegroundLaunchFailed, Reported
<1>26. ASSUME NEW f \in Fronts, ForegroundObservationLost(f)
       PROVE  request'[o] = "ok"
  BY <1>26
     DEF IInv, TypeOK, StopInv, stores, memory, world, bounds, Stopping,
         ForegroundObservationLost, Reported
<1>27. ASSUME NEW f \in Fronts, WrapperDies(f) PROVE request'[o] = "ok"
  BY <1>27
     DEF IInv, TypeOK, StopInv, stores, memory, world, bounds, Stopping,
         WrapperDies
<1>28. ASSUME NEW s \in Sessions, ProcessEnds(s) PROVE request'[o] = "ok"
  BY <1>28
     DEF IInv, TypeOK, StopInv, stores, memory, world, bounds, Stopping,
         ProcessEnds
<1>29. ASSUME NEW w \in Workers, RecordExit(w) PROVE request'[o] = "ok"
  BY <1>29
     DEF IInv, TypeOK, StopInv, stores, memory, world, bounds, Stopping,
         RecordExit
<1>30. ASSUME TimePasses PROVE request'[o] = "ok"
  BY <1>30
     DEF IInv, TypeOK, StopInv, stores, memory, world, bounds, Stopping,
         TimePasses
<1>31. ASSUME Crash PROVE request'[o] = "ok"
  BY <1>31
     DEF IInv, TypeOK, StopInv, stores, memory, world, bounds, Stopping, Crash,
         AllAnswered
<1>32. ASSUME Restart PROVE request'[o] = "ok"
  BY <1>32
     DEF IInv, TypeOK, StopInv, stores, memory, world, bounds, Stopping,
         Restart, Restarted, ReconcileSessions
<1>33. ASSUME ReactivateRun PROVE request'[o] = "ok"
  BY <1>33
     DEF IInv, TypeOK, StopInv, stores, memory, world, bounds, Stopping,
         ReactivateRun, RecoveryPreflight
<1>34. CASE UNCHANGED vars
  BY <1>34 DEF vars, world
<1> QED
  BY <1>1, <1>2, <1>3, <1>4, <1>5, <1>6, <1>7, <1>8, <1>9, <1>10, <1>11,
     <1>12, <1>13, <1>14, <1>15, <1>16, <1>17, <1>18, <1>19, <1>20, <1>21,
     <1>22, <1>23, <1>24, <1>25, <1>26, <1>27, <1>28, <1>29, <1>30, <1>31,
     <1>32, <1>33, <1>34
     DEF Next, Pass, Asks, Launches, Wrappers, Sessions

(* Whoever asks again for a completed stop hears that it was (state/       *)
(* run_recovery.rs:8, supervisor/stop.rs:139).                             *)
THEOREM CompletedStaysAnswered == Spec => StopReplayed
<1>1. IInv /\ [Next]_vars =>
        [\A o \in StopOps :
            operation[o] = "completed" /\ request'[o] # request[o]
                => request'[o] = "ok"]_vars
  BY ReplayStep
<1> QED BY <1>1, Inductive, PTL DEF Spec, StopReplayed

(* While the thread serves, only an idle tick and a client that asks begin *)
(* a stop: whatever else it does leaves a run without a stop as it is.     *)
LEMMA ServingBegins ==
    ASSUME IInv, Next, Serving, run.phase = "none",
           run'.phase = "interrupting"
    PROVE  Tick \/ \E op \in StopOps : AskNew(op)
<1>1. run' # run
  OBVIOUS
<1>2. ASSUME Pass PROVE FALSE
  BY <1>2
     DEF Pass, Serving, InspectUnknown, DriveControls, Signal, MarkDelivered,
         NoStopToProgress, AwaitSessions, SessionsGone, PersistShutdown,
         PassDone
<1>3. ~InspectionFails /\ ~Restart
  BY DEF Serving, InspectionFails, Restart
<1>4. ~Retire
  BY <1>1 DEF Retire, stores
<1>5. ASSUME NEW op \in StopOps,
             \/ AskRecovered(op)
             \/ AskAgain(op)
             \/ AskConflict(op)
             \/ AnswerOffline(op)
             \/ RestartToStop(op)
      PROVE  FALSE
  BY <1>1, <1>5
     DEF AskRecovered, AskAgain, AskConflict, AnswerOffline, RestartToStop,
         Serving, stores
<1>6. ~Launches
  BY <1>1 DEF Launches, LaunchWorker, LaunchCut, LaunchForeground
<1>7. ~Wrappers
  BY <1>1
     DEF Wrappers, WrapperSpawns, ForegroundStarted, WaitForegroundControl,
         ForegroundExited, ForegroundLaunchFailed, ForegroundObservationLost,
         WrapperDies, Reported, stores
<1>8. /\ \A s \in Sessions : ~ProcessEnds(s)
      /\ \A w \in Workers : ~RecordExit(w)
  BY <1>1 DEF ProcessEnds, RecordExit, stores
<1>9. ~TimePasses
  BY <1>1 DEF TimePasses, Stopping
<1>10. ~Crash /\ ~ReactivateRun
  BY <1>1 DEF Crash, ReactivateRun, Serving, stores
<1> QED
  BY <1>2, <1>3, <1>4, <1>5, <1>6, <1>7, <1>8, <1>9, <1>10
     DEF Next, Asks

(* A quiescent run has no process: a session that has not been launched    *)
(* has none, and one that exited has none any more.                        *)
LEMMA QuiescentMeansGone ==
    ASSUME IInv, Quiescent, NEW s \in Sessions
    PROVE  process[s] \in {"none", "gone"}
<1>1. CASE session[s].state = "none"
  BY <1>1 DEF IInv, EndInv
<1>2. CASE session[s].state = "exited"
  BY <1>2 DEF IInv, EndInv, Ended, Terminal
<1> QED BY <1>1, <1>2 DEF Quiescent

LEMMA IdleStep ==
    ASSUME IInv, [Next]_vars, loop.stage = "serve", run.phase = "none",
           run'.phase = "interrupting", request' = request
    PROVE  \A s \in Sessions : process[s] \in {"none", "gone"}
<1>1. Next
  BY DEF vars, stores
<1>2. Tick \/ \E op \in StopOps : AskNew(op)
  BY <1>1, ServingBegins DEF Serving
<1>3. ASSUME NEW op \in StopOps, AskNew(op) PROVE FALSE
  <2>1. request'[op] = "waiting"
    BY <1>3 DEF AskNew, Answered, IInv, TypeOK
  <2> QED BY <1>3, <2>1 DEF AskNew
<1>4. ASSUME Tick PROVE Quiescent
  BY <1>4 DEF Tick, IdleDue
<1> QED BY <1>2, <1>3, <1>4, QuiescentMeansGone

(* The stop that nobody asked for begins only when nothing of the run is   *)
(* left running (supervisor/idle.rs, supervisor.rs:2052).                    *)
THEOREM IdleStopIsSafe == Spec => IdleStopsNobody
<1>1. IInv /\ [Next]_vars =>
        [loop.stage = "serve" /\ run.phase = "none"
            /\ run'.phase = "interrupting" /\ request' = request
            => \A s \in Sessions : process[s] \in {"none", "gone"}]_vars
  BY IdleStep
<1> QED BY <1>1, Inductive, PTL DEF Spec, IdleStopsNobody
=============================================================================

------------------------------- MODULE Shutdown -------------------------------
(***************************************************************************)
(* Stopping a run: the durable stop with its phases and deadlines, the     *)
(* control of every session that is left, the answers to the clients that  *)
(* asked, retirement of the supervisor, and the reactivation of a run that *)
(* was stopped.  The supervisor is one thread; one of its ticks is several *)
(* transactions and signals (`loop`), and workers, foreground wrappers,    *)
(* time and crashes move between any two of them.                          *)
(*                                                                         *)
(* Source: supervisor.rs (begin_shutdown .. persist_shutdown),             *)
(* supervisor/session.rs (drive_controls), supervisor/stop.rs, idle.rs,    *)
(* run_recovery.rs, state/supervision.rs and state/run_recovery.rs.        *)
(***************************************************************************)
EXTENDS Naturals

CONSTANTS
    Workers,     \* sessions whose process the supervisor owns
    Fronts,      \* foreground sessions, owned by their wrapper
    StopOps,     \* operation ids of stop requests
    NoOp,        \* no stop is recorded
    NoSession,   \* no control is being delivered
    Unkillable,  \* sessions whose process outlives every signal
    Grace,       \* policy.interrupt_grace_ms, in ticks
    Timeout,     \* policy.shutdown_timeout_ms, in ticks
    MaxCrashes,  \* bound: supervisor deaths
    MaxFaults    \* bound: workspace inspections that fail during a stop

Sessions == Workers \cup Fronts

ASSUME OwnerAssumption == Workers \cap Fronts = {} /\ NoSession \notin Sessions
ASSUME StopOpAssumption == NoOp \notin StopOps
ASSUME PolicyAssumption == Grace \in Nat /\ Timeout \in Nat /\ Grace < Timeout
ASSUME BoundAssumption == MaxCrashes \in Nat /\ MaxFaults \in Nat

VARIABLES
    run,        \* the row of runs joined with its row of run_shutdowns
    operation,  \* status of each run.stop operation
    recovered,  \* stop operations that a run.recovered event names
    session,    \* rows of sessions
    control,    \* rows of session_controls
    process,    \* the process of each session (outside)
    held,       \* provider handles, in memory
    wrapper,    \* the foreground wrapper of each foreground session (outside)
    request,    \* what the client of each stop operation sees (outside)
    pending,    \* ForegroundCoordination.pending_shutdown is set, in memory
    idle,       \* IdleShutdown.observed, in memory
    loop,       \* where the supervisor's thread stands
    polled,     \* a tick ended since time last passed
    crashes, faults

stores == <<run, operation, recovered, session, control>>
memory == <<held, pending, idle>>
world == <<process, wrapper, request>>
bounds == <<crashes, faults>>
vars == <<stores, memory, world, loop, polled, bounds>>

-----------------------------------------------------------------------------
(* Rows and their orders *)

Run(status, phase, op, age) ==
    [status |-> status, phase |-> phase, op |-> op, age |-> age]

Row(state, identified, retryable) ==
    [state |-> state, identified |-> identified, retryable |-> retryable]

Control(phase, delivered, age) ==
    [phase |-> phase, delivered |-> delivered, age |-> age]

NoControl == Control("none", FALSE, 0)

RunAges == 0..Timeout

ShutdownRank == [none |-> 0, interrupting |-> 1, terminating |-> 2,
                 reconciling |-> 3, timed_out |-> 4, completed |-> 5]

ControlRank == [none |-> 0, interrupt |-> 1, terminate |-> 2, kill |-> 3,
                timed_out |-> 4, completed |-> 5]

Later(rank, p, q) == IF rank[p] >= rank[q] THEN p ELSE q

Terminal == {"exited", "lost", "quarantined"}

Ended(s) == session[s].state \in Terminal

Active(s) == session[s].state \notin Terminal \cup {"none"}

AnyActive == \E s \in Sessions : Active(s)

(* Control rows outlive their session: only an unfinished one counts.      *)
Controlled(s) == control[s].phase \notin {"none", "completed"}

Stopping == run.phase \notin {"none", "completed"}

Older(age) == IF age < Timeout THEN age + 1 ELSE age

-----------------------------------------------------------------------------
(* The supervisor's thread *)

At(stage, todo, current) ==
    [stage |-> stage, todo |-> todo, current |-> current]

Go(stage) == At(stage, {}, NoSession)

Serving == loop.stage = "serve"

Up == loop.stage \notin {"down", "retired"}

(* Steps outside that fall within a pass are taken after it: nothing of a  *)
(* pass reads what they change before they could be taken again.           *)
Settled == loop.stage \in {"serve", "down", "retired"}

Init ==
    /\ run = Run("active", "none", NoOp, 0)
    /\ operation = [o \in StopOps |-> "none"]
    /\ recovered = {}
    /\ session = [s \in Sessions |-> Row("none", FALSE, FALSE)]
    /\ control = [s \in Sessions |-> NoControl]
    /\ process = [s \in Sessions |-> "none"]
    /\ held = [s \in Sessions |-> FALSE]
    /\ wrapper = [f \in Fronts |-> "none"]
    /\ request = [o \in StopOps |-> "none"]
    /\ pending = FALSE
    /\ idle = "unset"
    /\ loop = Go("serve")
    /\ polled = FALSE
    /\ crashes = 0
    /\ faults = 0

-----------------------------------------------------------------------------
(* Launches, which a stop forbids *)

(* Slip: only the stop in memory blocks launches, not the one on record.   *)
MayLaunchUnfenced == Serving /\ ~pending

MayLaunch ==
    /\ Serving
    /\ ~pending
    /\ run.phase = "none"
    /\ run.status = "active"

(* What an admitted launch leaves behind (module SessionLifecycle): a held *)
(* worker, a process it cannot account for, a proved failure, or a spent   *)
(* budget.                                                                 *)
WorkerLaunched(s) ==
    \/ /\ session' = [session EXCEPT ![s] = Row("running", TRUE, FALSE)]
       /\ process' = [process EXCEPT ![s] = "alive"]
       /\ held' = [held EXCEPT ![s] = TRUE]
    \/ /\ session' = [session EXCEPT ![s] = Row("unknown", FALSE, FALSE)]
       /\ \E status \in {"alive", "gone"} :
            process' = [process EXCEPT ![s] = status]
       /\ UNCHANGED held
    \/ /\ \E state \in {"desired", "quarantined"} :
            session' = [session EXCEPT ![s] = Row(state, FALSE, TRUE)]
       /\ UNCHANGED <<process, held>>

LaunchWorker(s) ==
    /\ MayLaunch
    /\ \/ session[s].state = "none"
       \/ session[s].state = "desired" /\ session[s].retryable
    /\ WorkerLaunched(s)
    /\ idle' = "unset"
    /\ UNCHANGED <<run, operation, recovered, control, wrapper, request,
                   pending, loop, polled, bounds>>

(* The supervisor dies between the intent and the recorded launch.         *)
LaunchCut(s) ==
    /\ MayLaunch
    /\ session[s].state = "none"
    /\ crashes < MaxCrashes
    /\ session' = [session EXCEPT ![s] = Row("desired", FALSE, FALSE)]
    /\ \E status \in {"none", "alive"} :
        process' = [process EXCEPT ![s] = status]
    /\ crashes' = crashes + 1
    /\ held' = [w \in Sessions |-> FALSE]
    /\ wrapper' = [f \in Fronts |->
                    IF wrapper[f] = "waiting" THEN "started" ELSE wrapper[f]]
    /\ loop' = Go("down")
    /\ idle' = "unset"
    /\ polled' = FALSE
    /\ UNCHANGED <<run, operation, recovered, control, request, pending,
                   faults>>

LaunchForeground(f) ==
    /\ MayLaunch
    /\ session[f].state = "none"
    /\ session' = [session EXCEPT ![f] = Row("desired", FALSE, FALSE)]
    /\ wrapper' = [wrapper EXCEPT ![f] = "granted"]
    /\ idle' = "unset"
    /\ UNCHANGED <<run, operation, recovered, control, process, held, request,
                   pending, loop, polled, bounds>>

-----------------------------------------------------------------------------
(* The stop: intent, answers *)

(* begin_run_shutdown: one stop at a time, under an unused operation id.   *)
MayBegin(op) ==
    /\ run.phase = "none"
    /\ run.status = "active"
    /\ operation[op] = "none"

BeginRunShutdown(op) ==
    /\ run' = Run("active", "interrupting", op, 0)
    /\ operation' = [operation EXCEPT ![op] = "pending"]

Answered(op, answer) == [request EXCEPT ![op] = answer]

AllAnswered(answer) ==
    [o \in StopOps |-> IF request[o] = "waiting" THEN answer ELSE request[o]]

(* Slip: the historical stop is looked up as if it were a new one.         *)
AskRecoveredConflict(op) ==
    /\ Serving
    /\ request[op] # "waiting"
    /\ op \in recovered
    /\ request' = Answered(op, "refused")
    /\ UNCHANGED <<stores, memory, process, wrapper, loop, polled, bounds>>

(* A stop that a recovery followed keeps its answer and stops nothing.     *)
AskRecovered(op) ==
    /\ Serving
    /\ request[op] # "waiting"
    /\ op \in recovered
    /\ request' = Answered(op, "ok")
    /\ UNCHANGED <<stores, memory, process, wrapper, loop, polled, bounds>>

AskNew(op) ==
    /\ Serving
    /\ request[op] # "waiting"
    /\ op \notin recovered
    /\ MayBegin(op)
    /\ BeginRunShutdown(op)
    /\ request' = Answered(op, "waiting")
    /\ pending' = TRUE
    /\ idle' = "unset"
    /\ loop' = Go("inspect")
    /\ UNCHANGED <<recovered, session, control, held, process, wrapper,
                   polled, bounds>>

(* The same operation id joins the stop in progress, or is told its end.   *)
AskAgain(op) ==
    /\ Serving
    /\ request[op] # "waiting"
    /\ op \notin recovered
    /\ run.op = op
    /\ IF run.phase = "completed"
       THEN request' = Answered(op, "ok") /\ UNCHANGED <<pending, loop>>
       ELSE /\ request' = Answered(op, "waiting")
            /\ pending' = TRUE
            /\ loop' = Go("inspect")
    /\ UNCHANGED <<stores, held, idle, process, wrapper, polled, bounds>>

AskConflict(op) ==
    /\ Serving
    /\ request[op] # "waiting"
    /\ op \notin recovered
    /\ run.op # op
    /\ ~MayBegin(op)
    /\ request' = Answered(op, "refused")
    /\ UNCHANGED <<stores, memory, process, wrapper, loop, polled, bounds>>

-----------------------------------------------------------------------------
(* The idle stop *)

(* Slip: a session that is only presumed to be gone counts as inactive.    *)
QuiescentUnknown ==
    /\ run.phase = "none"
    /\ run.status = "active"
    /\ \A s \in Sessions : session[s].state \notin {"desired", "running"}
    /\ \A s \in Sessions : ~Controlled(s)

(* Inactivity is positively established: every session reaped and recorded,*)
(* no control open, no stop.                                               *)
Quiescent ==
    /\ run.phase = "none"
    /\ run.status = "active"
    /\ \A s \in Sessions : session[s].state \in {"none", "exited"}
    /\ \A s \in Sessions : ~Controlled(s)

IdleDue == idle = "due" /\ Quiescent /\ ~pending

IdleObserved ==
    IF ~Quiescent THEN "unset" ELSE IF idle = "unset" THEN "watching" ELSE idle

Tick ==
    /\ Serving
    /\ ~polled
    /\ \/ \E op \in StopOps :
            /\ IdleDue
            /\ MayBegin(op)
            /\ request[op] = "none"
            /\ BeginRunShutdown(op)
            /\ pending' = TRUE
            /\ idle' = "unset"
       \/ /\ ~IdleDue \/ \A op \in StopOps : operation[op] # "none"
          /\ idle' = IF pending THEN idle ELSE IdleObserved
          /\ UNCHANGED <<run, operation, pending>>
    /\ loop' = Go("inspect")
    /\ UNCHANGED <<recovered, session, control, held, world, polled, bounds>>

-----------------------------------------------------------------------------
(* One pass over the sessions: inspect, control, tell, conclude *)

(* What reconciliation records of a session that has not ended.  Only its  *)
(* wrapper owns a foreground process; without an identity nothing is known,*)
(* and a launch proved to have failed stays desired.                       *)
Reconciled(s) ==
    LET row == session[s]
        absent == row.identified /\ process[s] = "gone"
    IN CASE ~row.identified /\ row.state = "desired" /\ row.retryable -> row
         [] row.identified /\ held[s] -> Row("running", TRUE, FALSE)
         [] absent /\ ~held[s] -> Row("lost", TRUE, FALSE)
         [] OTHER -> Row("unknown", row.identified, FALSE)

ReconcileSessions(those) ==
    session' = [s \in Sessions |->
                 IF s \in those THEN Reconciled(s) ELSE session[s]]

InspectUnknown ==
    /\ loop.stage = "inspect"
    /\ ReconcileSessions({s \in Sessions : session[s].state = "unknown"})
    /\ loop' = Go("control")
    /\ UNCHANGED <<run, operation, recovered, control, memory, world, polled,
                   bounds>>

(* One transaction opens a control for every session that is left when the *)
(* run stops, or for those whose own deadline has passed.                  *)
Requested(overdue) ==
    [s \in Sessions |->
        IF /\ control[s].phase = "none"
           /\ Active(s)
           /\ Stopping \/ s \in overdue
        THEN Control("interrupt", FALSE, IF Stopping THEN run.age ELSE 0)
        ELSE control[s]]

DuePhase(s, age) ==
    IF Ended(s) THEN "completed"
    ELSE IF age >= Timeout THEN "timed_out"
    ELSE IF age >= Timeout \div 2 THEN "kill"
    ELSE IF age >= Grace THEN "terminate"
    ELSE "interrupt"

(* The phases then follow the clock, and never back; a new phase clears    *)
(* the delivery of the last.                                               *)
Advanced(s, row) ==
    LET phase == Later(ControlRank, DuePhase(s, row.age), row.phase)
    IN IF row.phase = "none" \/ phase = row.phase THEN row
       ELSE Control(phase, FALSE,
                    IF phase \in {"completed", "timed_out"} THEN 0
                    ELSE row.age)

(* A signal is due only to a process of this supervisor's own, and only    *)
(* once per phase.                                                         *)
SignalDue(s) ==
    /\ Controlled(s)'
    /\ control'[s].phase # "timed_out"
    /\ ~control'[s].delivered
    /\ s \in Workers
    /\ held[s]

DriveControls ==
    /\ loop.stage = "control"
    /\ \E overdue \in SUBSET {s \in Sessions : ~Stopping /\ Active(s)} :
        control' = [s \in Sessions |-> Advanced(s, Requested(overdue)[s])]
    /\ loop' = At("signal", {s \in Sessions : SignalDue(s)}, NoSession)
    /\ UNCHANGED <<run, operation, recovered, session, memory, world, polled,
                   bounds>>

(* Only a kill is sure to end the process; interrupt and terminate may be  *)
(* ignored, and a signal the provider cannot send stays undelivered.       *)
Signal(s) ==
    /\ loop.stage = "signal"
    /\ s \in loop.todo
    /\ IF s \in Unkillable
       THEN /\ loop' = At("signal", loop.todo \ {s}, NoSession)
            /\ UNCHANGED process
       ELSE /\ loop' = At("mark", loop.todo \ {s}, s)
            /\ process' =
                 IF process[s] = "alive" /\ control[s].phase = "kill"
                 THEN [process EXCEPT ![s] = "killed"] ELSE process
    /\ UNCHANGED <<stores, memory, wrapper, request, polled, bounds>>

MarkDelivered ==
    /\ loop.stage = "mark"
    /\ control' = [control EXCEPT ![loop.current] =
                     Control(@.phase, TRUE, @.age)]
    /\ loop' = At("signal", loop.todo, NoSession)
    /\ UNCHANGED <<run, operation, recovered, session, memory, world, polled,
                   bounds>>

(* Slip: only the wrappers that ask later are told.                        *)
ToldNobody == wrapper

(* Every wrapper that waits for a control still open is told to terminate. *)
Told ==
    [f \in Fronts |-> IF wrapper[f] = "waiting" /\ Controlled(f)
                      THEN "told" ELSE wrapper[f]]

PassDone == loop.stage = "signal" /\ loop.todo = {}

NoStopToProgress ==
    /\ PassDone
    /\ ~Stopping
    /\ wrapper' = Told
    /\ loop' = Go("serve")
    /\ polled' = TRUE
    /\ UNCHANGED <<stores, memory, process, request, bounds>>

(* Sessions are left: the phase advances, and at the deadline every client *)
(* that waits is refused, while the stop itself stays in force.            *)
AwaitSessions ==
    /\ PassDone
    /\ Stopping
    /\ AnyActive
    /\ wrapper' = Told
    /\ LET due == IF run.age >= Timeout THEN "timed_out"
                  ELSE IF run.age >= Grace THEN "terminating"
                  ELSE "interrupting"
           phase == Later(ShutdownRank, due, run.phase)
       IN /\ run' = Run(run.status, phase, run.op, run.age)
          /\ request' = IF phase = "timed_out" THEN AllAnswered("refused")
                        ELSE request
    /\ loop' = Go("serve")
    /\ polled' = TRUE
    /\ UNCHANGED <<operation, recovered, session, control, memory, process,
                   bounds>>

SessionsGone ==
    /\ PassDone
    /\ Stopping
    /\ ~AnyActive
    /\ wrapper' = Told
    /\ run' = Run(run.status, "reconciling", run.op, run.age)
    /\ loop' = Go("persist")
    /\ UNCHANGED <<operation, recovered, session, control, memory, process,
                   request, polled, bounds>>

(* The worktrees that remain could not be inspected: clients are refused   *)
(* and the next tick tries again.                                          *)
InspectionFails ==
    /\ loop.stage = "persist"
    /\ faults < MaxFaults
    /\ faults' = faults + 1
    /\ request' = AllAnswered("refused")
    /\ loop' = Go("serve")
    /\ polled' = TRUE
    /\ UNCHANGED <<stores, memory, process, wrapper, crashes>>

(* One transaction stops the run and completes its operation; a stop that  *)
(* nobody waits for retires the supervisor at once.                        *)
PersistShutdown ==
    /\ loop.stage = "persist"
    /\ run' = Run("stopped", "completed", run.op, run.age)
    /\ operation' = [operation EXCEPT ![run.op] = "completed"]
    /\ pending' = FALSE
    /\ request' = AllAnswered("ok")
    /\ loop' = Go(IF \E o \in StopOps : request[o] = "waiting"
                  THEN "serve" ELSE "retired")
    /\ polled' = TRUE
    /\ UNCHANGED <<recovered, session, control, held, idle, process, wrapper,
                   bounds>>

(* A client was told: the loop ends if the run is stopped at that time.    *)
Retire ==
    /\ loop.stage \in {"serve", "down"}
    /\ run.status = "stopped"
    /\ loop' = Go("retired")
    /\ UNCHANGED <<stores, memory, world, polled, bounds>>

-----------------------------------------------------------------------------
(* Foreground wrappers (outside) and what they report *)

WrapperSpawns(f) ==
    /\ Settled
    /\ wrapper[f] = "granted"
    /\ process' = [process EXCEPT ![f] = "alive"]
    /\ wrapper' = [wrapper EXCEPT ![f] = "spawned"]
    /\ UNCHANGED <<stores, memory, request, loop, polled, bounds>>

ForegroundStarted(f) ==
    /\ Serving
    /\ wrapper[f] = "spawned"
    /\ ~Ended(f)
    /\ session' = [session EXCEPT ![f] = Row("running", TRUE, FALSE)]
    /\ wrapper' = [wrapper EXCEPT ![f] = "started"]
    /\ UNCHANGED <<run, operation, recovered, control, memory, process,
                   request, loop, polled, bounds>>

(* A control that already exists, or a stop, answers at once.              *)
WaitForegroundControl(f) ==
    /\ Serving
    /\ wrapper[f] = "started"
    /\ Active(f)
    /\ wrapper' = [wrapper EXCEPT ![f] =
                    IF pending \/ control[f].phase # "none"
                    THEN "told" ELSE "waiting"]
    /\ UNCHANGED <<stores, memory, process, request, loop, polled, bounds>>

(* The end of a foreground session, reported once, moves a stop on.        *)
Reported(f, state) ==
    /\ session' = [session EXCEPT ![f] = Row(state, @.identified, FALSE)]
    /\ wrapper' = [wrapper EXCEPT ![f] = "done"]
    /\ UNCHANGED <<run, operation, recovered, control, memory, process,
                   request, polled, bounds>>

ForegroundExited(f) ==
    /\ Serving
    /\ wrapper[f] \in {"spawned", "started", "waiting", "told"}
    /\ process[f] = "gone"
    /\ session[f].state # "exited"
    /\ Reported(f, "exited")
    /\ loop' = Go("inspect")

ForegroundLaunchFailed(f) ==
    /\ Serving
    /\ wrapper[f] = "granted"
    /\ Active(f)
    /\ Reported(f, "lost")
    /\ loop' = Go("inspect")

ForegroundObservationLost(f) ==
    /\ Serving
    /\ wrapper[f] \in {"started", "waiting", "told"}
    /\ Active(f)
    /\ Reported(f, "unknown")
    /\ UNCHANGED loop

WrapperDies(f) ==
    /\ Settled
    /\ wrapper[f] \in {"granted", "spawned", "started", "waiting", "told"}
    /\ wrapper' = [wrapper EXCEPT ![f] = "dead"]
    /\ UNCHANGED <<stores, memory, process, request, loop, polled, bounds>>

-----------------------------------------------------------------------------
(* Processes, time, crashes *)

ProcessEnds(s) ==
    /\ Settled
    /\ process[s] \in {"alive", "killed"}
    /\ process' = [process EXCEPT ![s] = "gone"]
    /\ UNCHANGED <<stores, memory, wrapper, request, loop, polled, bounds>>

(* advance_available: the exit of a held worker is read and recorded.      *)
RecordExit(w) ==
    /\ Serving
    /\ held[w]
    /\ process[w] = "gone"
    /\ session' = [session EXCEPT ![w] = Row("exited", TRUE, FALSE)]
    /\ held' = [held EXCEPT ![w] = FALSE]
    /\ UNCHANGED <<run, operation, recovered, control, pending, idle, world,
                   loop, polled, bounds>>

(* Time passes while the supervisor is down, or between two of its ticks.  *)
TimePasses ==
    /\ Up => Serving /\ polled
    /\ run' = IF ~Stopping THEN run
              ELSE Run(run.status, run.phase, run.op, Older(run.age))
    /\ control' = [s \in Sessions |->
                    IF Controlled(s) /\ control[s].phase # "timed_out"
                    THEN Control(control[s].phase, control[s].delivered,
                                 Older(control[s].age))
                    ELSE control[s]]
    /\ idle' = IF idle = "watching" THEN "due" ELSE idle
    /\ polled' = FALSE
    /\ UNCHANGED <<operation, recovered, session, held, pending, world, loop,
                   bounds>>

Crash ==
    /\ Up
    /\ crashes < MaxCrashes
    /\ crashes' = crashes + 1
    /\ held' = [s \in Sessions |-> FALSE]
    /\ wrapper' = [f \in Fronts |->
                    IF wrapper[f] = "waiting" THEN "started" ELSE wrapper[f]]
    /\ request' = AllAnswered("refused")
    /\ pending' = FALSE
    /\ idle' = "unset"
    /\ loop' = Go("down")
    /\ polled' = FALSE
    /\ UNCHANGED <<stores, process, faults>>

(* A new supervisor of an active run inspects every session that has not   *)
(* ended; a stop on record is resumed, and `coterie stop` brings its own.  *)
Restarted ==
    /\ ReconcileSessions({s \in Sessions : Active(s)})
    /\ pending' = Stopping'
    /\ loop' = Go("serve")
    /\ UNCHANGED <<recovered, control, held, idle, world, polled, bounds>>

Restart ==
    /\ loop.stage = "down"
    /\ run.status = "active"
    /\ UNCHANGED <<run, operation>>
    /\ Restarted

RestartToStop(op) ==
    /\ loop.stage = "down"
    /\ op \notin recovered
    /\ MayBegin(op)
    /\ BeginRunShutdown(op)
    /\ Restarted

(* With no supervisor, the client reads the answer of a finished stop.     *)
AnswerOffline(op) ==
    /\ loop.stage = "down"
    /\ request[op] # "waiting"
    /\ operation[op] = "completed"
    /\ request' = Answered(op, "ok")
    /\ UNCHANGED <<stores, memory, process, wrapper, loop, polled, bounds>>

(* Reactivation: only on a completed stop and on the recorded exit of      *)
(* every session, whose process is inspected once more.                    *)
RecoveryPreflight ==
    /\ run.status = "stopped"
    /\ run.phase = "completed"
    /\ operation[run.op] = "completed"
    /\ \A s \in Sessions : session[s].state \in {"none", "exited"}
    /\ \A s \in Sessions :
        session[s].state = "exited" =>
            session[s].identified /\ process[s] = "gone"

ReactivateRun ==
    /\ loop.stage = "retired"
    /\ RecoveryPreflight
    /\ run' = Run("active", "none", NoOp, 0)
    /\ recovered' = recovered \cup {run.op}
    /\ control' = [s \in Sessions |->
                    IF Controlled(s)
                    THEN Control("completed", FALSE, 0)
                    ELSE control[s]]
    /\ pending' = FALSE
    /\ held' = [s \in Sessions |-> FALSE]
    /\ idle' = "unset"
    /\ loop' = Go("serve")
    /\ polled' = FALSE
    /\ UNCHANGED <<operation, session, world, bounds>>

-----------------------------------------------------------------------------
Pass ==
    \/ InspectUnknown
    \/ DriveControls
    \/ \E s \in Sessions : Signal(s)
    \/ MarkDelivered
    \/ NoStopToProgress
    \/ AwaitSessions
    \/ SessionsGone
    \/ PersistShutdown

Asks ==
    \E op \in StopOps :
        \/ AskRecovered(op)
        \/ AskNew(op)
        \/ AskAgain(op)
        \/ AskConflict(op)
        \/ AnswerOffline(op)
        \/ RestartToStop(op)

Launches ==
    \/ \E w \in Workers : LaunchWorker(w) \/ LaunchCut(w)
    \/ \E f \in Fronts : LaunchForeground(f)

Wrappers ==
    \E f \in Fronts :
        \/ WrapperSpawns(f)
        \/ ForegroundStarted(f)
        \/ WaitForegroundControl(f)
        \/ ForegroundExited(f)
        \/ ForegroundLaunchFailed(f)
        \/ ForegroundObservationLost(f)
        \/ WrapperDies(f)

Next ==
    \/ Tick
    \/ Pass
    \/ InspectionFails
    \/ Retire
    \/ Asks
    \/ Launches
    \/ Wrappers
    \/ \E s \in Sessions : ProcessEnds(s)
    \/ \E w \in Workers : RecordExit(w)
    \/ TimePasses
    \/ Crash
    \/ Restart
    \/ ReactivateRun

Spec == Init /\ [][Next]_vars

-----------------------------------------------------------------------------
(* Fairness.  The thread polls on, and time passes between its ticks; an   *)
(* exit that a poll can read is read by one of them; requests are served;  *)
(* a killed process ends, and so does one whose wrapper was told, because  *)
(* the wrapper escalates to SIGKILL by itself.  What is strong is taken    *)
(* between passes only (Settled), and passes go on for ever.               *)

KilledEnds(s) == process[s] = "killed" /\ ProcessEnds(s)

ToldEnds(f) == wrapper[f] = "told" /\ ProcessEnds(f)

Fairness ==
    /\ WF_vars(Tick)
    /\ WF_vars(Pass)
    /\ SF_vars(TimePasses)
    /\ \A w \in Workers : SF_vars(KilledEnds(w)) /\ SF_vars(RecordExit(w))
    /\ \A f \in Fronts \ Unkillable :
        SF_vars(ToldEnds(f)) /\ SF_vars(ForegroundExited(f))

FairSpec == Spec /\ Fairness

-----------------------------------------------------------------------------
(* Properties *)

ShutdownPhases == DOMAIN ShutdownRank
ControlPhases == DOMAIN ControlRank

RunRows ==
    [status: {"active", "stopped"}, phase: ShutdownPhases,
     op: StopOps \cup {NoOp}, age: RunAges]

SessionRows ==
    [state: {"none", "desired", "running", "unknown", "exited", "lost",
             "quarantined"},
     identified: BOOLEAN, retryable: BOOLEAN]

ControlRows ==
    [phase: ControlPhases, delivered: BOOLEAN, age: RunAges]

LoopStages ==
    {"serve", "inspect", "control", "signal", "mark", "persist",
     "down", "retired"}

TypeOK ==
    /\ run \in RunRows
    /\ operation \in [StopOps -> {"none", "pending", "completed"}]
    /\ recovered \subseteq StopOps
    /\ session \in [Sessions -> SessionRows]
    /\ control \in [Sessions -> ControlRows]
    /\ process \in [Sessions -> {"none", "alive", "killed", "gone"}]
    /\ held \in [Sessions -> BOOLEAN]
    /\ wrapper \in [Fronts -> {"none", "granted", "spawned", "started",
                               "waiting", "told", "done", "dead"}]
    /\ request \in [StopOps -> {"none", "waiting", "ok", "refused"}]
    /\ pending \in BOOLEAN
    /\ idle \in {"unset", "watching", "due"}
    /\ loop \in [stage: LoopStages, todo: SUBSET Sessions,
                 current: Sessions \cup {NoSession}]
    /\ polled \in BOOLEAN
    /\ crashes \in 0..MaxCrashes
    /\ faults \in 0..MaxFaults

(* A session that has ended has no process and never gets one; an identity *)
(* is recorded only of a process; a wrapper may still start the process of *)
(* a session that has not ended only.                                      *)
EndInv ==
    /\ \A s \in Sessions : Ended(s) => process[s] \in {"none", "gone"}
    /\ \A s \in Sessions :
        (session[s].identified \/ held[s]) => process[s] # "none"
    /\ \A s \in Sessions :
        session[s].state \in {"none", "quarantined"} => process[s] = "none"
    /\ \A s \in Sessions :
        (session[s].state = "desired" /\ session[s].retryable) =>
            process[s] = "none"
    /\ \A f \in Fronts : wrapper[f] = "granted" => Active(f)
    /\ \A f \in Fronts : wrapper[f] \in {"none", "granted"} =>
                            process[f] = "none"
    /\ \A f \in Fronts :
        wrapper[f] \in {"spawned", "started", "waiting", "told"} =>
            process[f] # "none"
    /\ \A f \in Fronts : ~session[f].retryable

(* The rows of one stop agree with each other and with the operation.      *)
StopInv ==
    /\ run.phase = "none" <=> run.op = NoOp
    /\ run.status = "stopped" <=> run.phase = "completed"
    /\ run.op # NoOp =>
        operation[run.op] =
            IF run.phase = "completed" THEN "completed" ELSE "pending"
    /\ \A o \in StopOps : operation[o] = "pending" => o = run.op
    /\ \A o \in StopOps :
        operation[o] = "completed" <=>
            (o \in recovered \/ (o = run.op /\ run.phase = "completed"))
    /\ \A o \in StopOps : request[o] = "waiting" => o = run.op /\ pending
    /\ pending => Stopping
    /\ Up => (pending <=> Stopping)

(* Controls belong to sessions that were launched, and only the control of *)
(* one that ended is completed.                                            *)
ControlInv ==
    \A s \in Sessions :
        /\ session[s].state = "none" => control[s].phase = "none"
        /\ control[s].phase = "completed" => ~Active(s)

(* Where the thread stands while it concludes a stop.                      *)
LoopInv ==
    /\ loop.stage = "persist" => run.phase = "reconciling" /\ ~AnyActive
    /\ loop.todo \subseteq {w \in Workers : control[w].phase # "none"}
    /\ loop.stage = "mark" =>
        loop.current \in Workers /\ control[loop.current].phase # "none"
    /\ loop.stage = "retired" => run.status = "stopped"
    /\ loop.stage = "down" => ~polled
    /\ (loop.stage \in {"signal", "mark"} /\ Stopping) =>
        \A s \in Sessions : Active(s) => Controlled(s)

(* After a tick of a stop no wrapper of a session that is left still waits *)
(* to be told.                                                             *)
WrappersTold ==
    (Serving /\ polled /\ Stopping) =>
        \A f \in Fronts : wrapper[f] = "waiting" => ~Active(f)

(* A run is stopped only when nothing of it runs: every session has ended  *)
(* and has no process, not even one that a wrapper has yet to start.       *)
StoppedMeansGone ==
    run.status = "stopped" =>
        \A s \in Sessions :
            ~Active(s) /\ process[s] \in {"none", "gone"}

IInv ==
    /\ TypeOK
    /\ EndInv
    /\ StopInv
    /\ ControlInv
    /\ LoopInv
    /\ WrappersTold
    /\ StoppedMeansGone

(* Whoever asks again for a stop that was completed is told so, also after *)
(* the run was reactivated and even while another stop is in progress.     *)
StopReplayed ==
    [][\A o \in StopOps :
        operation[o] = "completed" /\ request'[o] # request[o]
            => request'[o] = "ok"]_vars

(* The idle stop, which nobody asked for, begins only when no process of   *)
(* the run is left.                                                        *)
IdleStopsNobody ==
    [][loop.stage = "serve" /\ run.phase = "none"
        /\ run'.phase = "interrupting" /\ request' = request
            => \A s \in Sessions : process[s] \in {"none", "gone"}]_vars

(* Whoever waits for a stop hears of its end, its failure or its deadline, *)
(* or loses the supervisor.                                                *)
StopAnswered ==
    \A o \in StopOps : request[o] = "waiting" ~> request[o] # "waiting"

(* A stop ends every worker it holds and every foreground process whose    *)
(* wrapper waits, whatever happens with the signals of the others.  The    *)
(* exception is a worker whose control was already far along when its      *)
(* launch was retried.                                                     *)
EachIsStopped ==
    /\ \A w \in Workers \ Unkillable :
        (/\ Stopping /\ held[w] /\ control[w].age < Timeout
         /\ control[w].phase \in {"none", "interrupt"})
            ~> (Ended(w) \/ ~Up)
    /\ \A f \in Fronts \ Unkillable :
        (Stopping /\ wrapper[f] = "waiting")
            ~> (process[f] = "gone" \/ ~Up \/ wrapper[f] \in {"done", "dead"})

(* A stop completes, before or after its deadline, if each session that is *)
(* left can still be reached: its worker is held and its control has not   *)
(* run out, or its wrapper listens.                                        *)
Reachable(s) ==
    /\ s \notin Unkillable
    /\ IF s \in Workers THEN held[s] /\ control[s].phase # "timed_out"
       ELSE wrapper[s] \in {"waiting", "told"}

StopCompletes ==
    (Stopping /\ Up)
        ~> (\/ ~Stopping
            \/ ~Up
            \/ \E s \in Sessions : Active(s) /\ ~Reachable(s))

(* What a stop promises in the end to those who wait for it, for each      *)
(* session, and for the run.                                               *)
StopsEnd == StopAnswered /\ EachIsStopped /\ StopCompletes
=============================================================================

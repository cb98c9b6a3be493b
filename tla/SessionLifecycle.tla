--------------------------- MODULE SessionLifecycle ---------------------------
(***************************************************************************)
(* Background worker sessions: the durable session row and its launch      *)
(* budget, the provider's in-memory job, and the worker process outside.   *)
(* The supervisor is one thread: a launch runs from its durable intent to  *)
(* its recorded observation with no other supervisor step between, but the *)
(* worker moves, a store write fails and the supervisor dies at any point. *)
(*                                                                         *)
(* Source: supervisor/session.rs, state.rs, state/supervision.rs and       *)
(* providers.rs (the Codex job process).  The session and its agent, which *)
(* every transaction here writes together, are one lifecycle.              *)
(***************************************************************************)
EXTENDS Naturals, Sequences

CONSTANTS
    Sessions,           \* supervisor-owned sessions, one per worker agent
    NoSession,          \* the loop serves no launch
    MaxLaunchAttempts,  \* policy.max_launch_attempts
    MaxOutput,          \* bound: frames one worker writes
    MaxCrashes,         \* bound: supervisor deaths
    MaxStoreFaults      \* bound: store transactions that fail

ASSUME SessionAssumption == NoSession \notin Sessions
ASSUME AttemptAssumption == MaxLaunchAttempts \in Nat \ {0}
ASSUME BoundAssumption ==
    MaxOutput \in Nat /\ MaxCrashes \in Nat /\ MaxStoreFaults \in Nat

VARIABLES
    session,  \* the row of sessions, with its credential
    launch,   \* the row of session_launch_attempts
    worker,   \* the processes started for the session (outside)
    pipe,     \* the worker's standard output and the frames read from it
    job,      \* CodexJobProcess and the handle kept for it, in memory
    loop,     \* where the supervisor's thread stands
    crashes,  \* supervisor deaths so far
    failures  \* failed store transactions so far

outside == <<worker, pipe>>
faults == <<crashes, failures>>
vars == <<session, launch, worker, pipe, job, loop, crashes, failures>>

-----------------------------------------------------------------------------
(* Lifecycles *)

LifecycleState ==
    {"starting", "running", "unknown", "exited", "lost", "quarantined"}

TerminalStates == {"exited", "lost", "quarantined"}

Allows(current, next) ==
    \/ current = next
    \/ /\ current \in {"starting", "running", "unknown"}
       /\ next \in LifecycleState \ {"starting"}

Exists(s) == session[s].state # "none"

Ended(s) == session[s].state \in TerminalStates

Row(state, reconciliation, identified, credential) ==
    [state |-> state, reconciliation |-> reconciliation,
     identified |-> identified, credential |-> credential]

Attempts(attempts, in_flight, quarantined) ==
    [attempts |-> attempts, in_flight |-> in_flight,
     quarantined |-> quarantined]

Process(spawned, status, failed) ==
    [spawned |-> spawned, status |-> status, failed |-> failed]

Pipe(open, frames, written) ==
    [open |-> open, frames |-> frames, written |-> written]

(* A held job: its last observation, whether the launch's own "running"    *)
(* event is still queued, and whether its exit was reaped.                 *)
Job(observation, pending, exit_observed) ==
    [held |-> TRUE, observation |-> observation, pending |-> pending,
     exit_observed |-> exit_observed]

NoJob == [held |-> FALSE, observation |-> "none", pending |-> FALSE,
          exit_observed |-> FALSE]

(* A session row after one transaction that records both what is known of  *)
(* the resource and the lifecycle; an ended session loses its credential.  *)
Recorded(row, reconciliation, observed) ==
    Row(observed, reconciliation, row.identified,
        IF observed \in TerminalStates THEN "revoked" ELSE row.credential)

ReconciliationOf(observed) ==
    IF observed \in {"lost", "unknown"} THEN observed ELSE "observed"

Retryable(s) ==
    launch[s].attempts > 0 /\ ~launch[s].in_flight /\ ~launch[s].quarantined

-----------------------------------------------------------------------------
(* The supervisor's thread and what can go wrong with it *)

At(stage, s) == [stage |-> stage, launching |-> s, todo |-> {}]

Serving == At("serve", NoSession)

Halted == At("halted", NoSession)

Recovering(todo) ==
    IF todo = {} THEN Serving
    ELSE [stage |-> "recover", launching |-> NoSession, todo |-> todo]

InLaunch(stage, s) == loop.stage = stage /\ loop.launching = s

Up == loop.stage \notin {"down", "halted"}

StoreFails ==
    /\ failures < MaxStoreFaults
    /\ failures' = failures + 1

(* An error while a provider event is applied: the poll's `?` ends the      *)
(* serve loop, an RPC's only fails that request.                           *)
EventRefused ==
    /\ loop' \in {Serving, Halted}
    /\ UNCHANGED session

Init ==
    /\ session = [s \in Sessions |-> Row("none", "none", FALSE, "none")]
    /\ launch = [s \in Sessions |-> Attempts(0, FALSE, FALSE)]
    /\ worker = [s \in Sessions |-> Process(0, "none", FALSE)]
    /\ pipe = [s \in Sessions |-> Pipe(FALSE, <<>>, 0)]
    /\ job = [s \in Sessions |-> NoJob]
    /\ loop = Serving
    /\ crashes = 0
    /\ failures = 0

-----------------------------------------------------------------------------
(* Launch: intent, admission, credential, process, observation *)

PersistIntent(s) ==
    /\ loop = Serving
    /\ ~Exists(s)
    /\ session' = [session EXCEPT ![s] =
                    Row("starting", "desired", FALSE, "active")]
    /\ loop' = At("admit", s)
    /\ UNCHANGED <<launch, outside, job, faults>>

(* reconcile_operations meets a spawn whose session is still only desired. *)
RetryLaunch(s) ==
    /\ loop = Serving
    /\ ~session[s].identified
    /\ session[s].reconciliation = "desired"
    /\ loop' = At(IF job[s].held THEN "record" ELSE "admit", s)
    /\ UNCHANGED <<session, launch, outside, job, faults>>

(* Slip: admission forgets the attempt whose outcome was never recorded. *)
AdmittedInFlight(s) ==
    /\ InLaunch("admit", s)
    /\ ~launch[s].quarantined
    /\ \E attempts \in {launch[s].attempts + 1, 1}:
        /\ attempts <= MaxLaunchAttempts
        /\ launch' = [launch EXCEPT ![s] = Attempts(attempts, TRUE, FALSE)]
    /\ loop' = At("rotate", s)
    /\ UNCHANGED <<session, outside, job, faults>>

Admitted(s) ==
    /\ InLaunch("admit", s)
    /\ ~launch[s].quarantined
    /\ ~launch[s].in_flight
    /\ \E attempts \in {launch[s].attempts + 1, 1}:
        /\ attempts <= MaxLaunchAttempts
        /\ launch' = [launch EXCEPT ![s] = Attempts(attempts, TRUE, FALSE)]
    /\ loop' = At("rotate", s)
    /\ UNCHANGED <<session, outside, job, faults>>

(* Backoff, quarantine, a launch already in flight, or a failed write.     *)
NotAdmitted(s) ==
    /\ InLaunch("admit", s)
    /\ \/ launch[s].attempts > 0 /\ UNCHANGED failures
       \/ StoreFails
    /\ loop' = Serving
    /\ UNCHANGED <<session, launch, outside, job, crashes>>

RotateCredential(s) ==
    /\ InLaunch("rotate", s)
    /\ \/ /\ session[s].reconciliation = "desired"
          /\ session[s].credential = "active"
          /\ loop' = At("start", s)
          /\ UNCHANGED failures
       \/ StoreFails /\ loop' = Serving
    /\ UNCHANGED <<session, launch, outside, job, crashes>>

StartProvider(s) ==
    /\ InLaunch("start", s)
    /\ worker' = [worker EXCEPT ![s] =
                    Process(@.spawned + 1, "running", FALSE)]
    /\ pipe' = [pipe EXCEPT ![s] = Pipe(TRUE, <<>>, 0)]
    /\ job' = [job EXCEPT ![s] = Job("starting", TRUE, FALSE)]
    /\ loop' = At("record", s)
    /\ UNCHANGED <<session, launch, faults>>

(* The failure proves that no process started: the budget is charged and   *)
(* the intent stays desired until the budget is spent.                     *)
StartProvedFailed(s) ==
    /\ InLaunch("start", s)
    /\ LET spent == launch[s].attempts >= MaxLaunchAttempts
       IN \/ /\ launch' = [launch EXCEPT ![s] =
                                Attempts(@.attempts, FALSE, spent)]
             /\ session' = IF spent
                           THEN [session EXCEPT ![s] =
                                    Recorded(@, "observed", "quarantined")]
                           ELSE session
             /\ UNCHANGED failures
          \/ StoreFails /\ UNCHANGED <<session, launch>>
    /\ loop' = Serving
    /\ UNCHANGED <<outside, job, crashes>>

(* The process was spawned but its job could not be set up; the cleanup's  *)
(* kill may not have been reaped, so the session becomes unknown.          *)
StartUnproved(s) ==
    /\ InLaunch("start", s)
    /\ \E status \in {"killed", "gone"}:
        worker' = [worker EXCEPT ![s] = Process(@.spawned + 1, status, TRUE)]
    /\ \/ /\ session' = [session EXCEPT ![s] =
                            Recorded(@, "unknown", "unknown")]
          /\ UNCHANGED failures
       \/ StoreFails /\ UNCHANGED session
    /\ loop' = Serving
    /\ UNCHANGED <<launch, pipe, job, crashes>>

RecordLaunch(s) ==
    /\ InLaunch("record", s)
    /\ \/ /\ session' = [session EXCEPT ![s] =
                            Row(@.state, "observed", TRUE, @.credential)]
          /\ UNCHANGED failures
       \/ StoreFails /\ UNCHANGED session
    /\ loop' = Serving
    /\ UNCHANGED <<launch, outside, job, crashes>>

-----------------------------------------------------------------------------
(* The worker process (outside the supervisor) *)

WorkerWrites(s) ==
    /\ Up
    /\ worker[s].status = "running"
    /\ job[s].held
    /\ pipe[s].written < MaxOutput
    /\ \E frame \in {"valid", "malformed"}:
        pipe' = [pipe EXCEPT ![s] =
                    Pipe(@.open, Append(@.frames, frame), @.written + 1)]
    /\ UNCHANGED <<session, launch, worker, job, loop, faults>>

WorkerExits(s) ==
    /\ worker[s].status \in {"running", "killed"}
    /\ \E failed \in {TRUE, worker[s].status = "killed"}:
        worker' = [worker EXCEPT ![s] = Process(@.spawned, "gone", failed)]
    /\ UNCHANGED <<session, launch, pipe, job, loop, faults>>

(* The last holder of the worker's standard output closes it. *)
PipeCloses(s) ==
    /\ worker[s].status = "gone"
    /\ pipe[s].open
    /\ pipe' = [pipe EXCEPT ![s] = Pipe(FALSE, @.frames, @.written)]
    /\ UNCHANGED <<session, launch, worker, job, loop, faults>>

-----------------------------------------------------------------------------
(* Provider events, in the order advance reads and records them *)

(* record_observation: a failed exit may be quarantined as a crash loop,   *)
(* and the observation counts only where the lifecycle allows it.          *)
Observe(s, observation) ==
    LET crash_loop == /\ observation = "exited"
                      /\ worker[s].failed
                      /\ ~Ended(s)
                      /\ MaxLaunchAttempts = 1
        observed == IF crash_loop THEN "quarantined" ELSE observation
    IN \/ /\ Allows(session[s].state, observed)
          /\ session' = [session EXCEPT ![s] =
                Recorded(@, ReconciliationOf(observed), observed)]
          /\ UNCHANGED <<loop, failures>>
       \/ /\ ~Allows(session[s].state, observed)
          /\ EventRefused
          /\ UNCHANGED failures
       \/ StoreFails /\ EventRefused

Polled(s) == loop = Serving /\ job[s].held

ReadPending(s) ==
    /\ Polled(s)
    /\ job[s].pending
    /\ job' = [job EXCEPT ![s] =
                Job("running", FALSE, @.exit_observed)]
    /\ Observe(s, "running")
    /\ UNCHANGED <<launch, outside, crashes>>

(* The next frame is taken from the channel, after any pending event. *)
NextFrame(s, frame) ==
    /\ Polled(s)
    /\ ~job[s].pending
    /\ pipe[s].frames # <<>>
    /\ Head(pipe[s].frames) = frame
    /\ pipe' = [pipe EXCEPT ![s] =
                    Pipe(@.open, Tail(@.frames), @.written)]

ReadFrame(s) ==
    /\ NextFrame(s, "valid")
    /\ job' = [job EXCEPT ![s] =
                Job("running", FALSE, @.exit_observed)]
    /\ Observe(s, "running")
    /\ UNCHANGED <<launch, worker, crashes>>

(* Slip: the quarantine is claimed as soon as the signal is sent. *)
ReadMalformedUnreaped(s) ==
    /\ NextFrame(s, "malformed")
    /\ worker' = IF worker[s].status = "gone" THEN worker
                 ELSE [worker EXCEPT ![s] = Process(@.spawned, "killed", TRUE)]
    /\ job' = [job EXCEPT ![s] =
                Job("quarantined", FALSE, @.exit_observed)]
    /\ Observe(s, "quarantined")
    /\ UNCHANGED <<launch, crashes>>

(* The job is killed; unless the kernel delivers its exit within the       *)
(* reap deadline, only "unknown" may be claimed of it.                     *)
ReadMalformed(s) ==
    /\ NextFrame(s, "malformed")
    /\ \/ /\ worker[s].status = "gone"
          /\ job' = [job EXCEPT ![s] =
                        Job("quarantined", FALSE, @.exit_observed)]
          /\ Observe(s, "quarantined")
          /\ UNCHANGED worker
       \/ /\ worker[s].status # "gone"
          /\ \E reaped \in BOOLEAN:
                LET found == IF reaped THEN "quarantined" ELSE "unknown"
                    status == IF reaped THEN "gone" ELSE "killed"
                IN /\ worker' = [worker EXCEPT ![s] =
                                    Process(@.spawned, status, TRUE)]
                   /\ job' = [job EXCEPT ![s] = Job(found, FALSE, reaped)]
                   /\ Observe(s, found)
    /\ UNCHANGED <<launch, crashes>>

(* Slip: the exit is looked for before the output is drained. *)
ReadExitEarly(s) ==
    /\ Polled(s)
    /\ ~job[s].pending
    /\ worker[s].status = "gone"
    /\ ~job[s].exit_observed
    /\ job[s].observation \notin TerminalStates
    /\ job' = [job EXCEPT ![s] = Job("exited", FALSE, TRUE)]
    /\ Observe(s, "exited")
    /\ UNCHANGED <<launch, outside, crashes>>

(* The exit is looked for only once the output is drained and closed.      *)
ReadExit(s) ==
    /\ Polled(s)
    /\ ~job[s].pending
    /\ pipe[s].frames = <<>>
    /\ ~pipe[s].open
    /\ worker[s].status = "gone"
    /\ ~job[s].exit_observed
    /\ job[s].observation \notin TerminalStates
    /\ job' = [job EXCEPT ![s] = Job("exited", FALSE, TRUE)]
    /\ Observe(s, "exited")
    /\ UNCHANGED <<launch, outside, crashes>>

-----------------------------------------------------------------------------
(* Death, restart and reconciliation *)

Crash ==
    /\ Up
    /\ crashes < MaxCrashes
    /\ crashes' = crashes + 1
    /\ loop' = At("down", NoSession)
    /\ UNCHANGED <<session, launch, outside, job, failures>>

Reconcilable == {s \in Sessions: Exists(s) /\ ~Ended(s)}

(* A new supervisor holds no job and reads no pipe of its predecessor's.   *)
Restart ==
    /\ ~Up
    /\ job' = [s \in Sessions |-> NoJob]
    /\ pipe' = [s \in Sessions |-> Pipe(FALSE, <<>>, pipe[s].written)]
    /\ loop' = Recovering(Reconcilable)
    /\ UNCHANGED <<session, launch, worker, faults>>

(* Slip: no process is ever proved absent. *)
ConcludedNothing(s) ==
    IF ~session[s].identified /\ session[s].reconciliation = "desired"
       /\ Retryable(s)
    THEN {session[s]}
    ELSE {Recorded(session[s], "unknown", "unknown")}

(* What one pass over a live session concludes when no job is held for it. *)
(* A worker is lost only when its process identity is proved absent; a     *)
(* live process, or another under the same identity, proves nothing.       *)
Concluded(s) ==
    IF ~session[s].identified
    THEN IF session[s].reconciliation = "desired" /\ Retryable(s)
         THEN {session[s]}
         ELSE {Recorded(session[s], "unknown", "unknown")}
    ELSE {Recorded(session[s], found, found): found \in
            {"unknown"} \cup (IF worker[s].status = "gone"
                              THEN {"lost"} ELSE {})}

RecoverSession(s) ==
    /\ loop.stage = "recover"
    /\ s \in loop.todo
    /\ \/ /\ \E row \in Concluded(s): session' = [session EXCEPT ![s] = row]
          /\ loop' = Recovering(loop.todo \ {s})
          /\ UNCHANGED failures
       \/ /\ StoreFails
          /\ loop' = Halted
          /\ UNCHANGED session
    /\ UNCHANGED <<launch, outside, job, crashes>>

CheckUnknown(s) ==
    /\ loop = Serving
    /\ session[s].reconciliation = "unknown"
    /\ ~Ended(s)
    /\ \/ /\ session[s].identified => ~job[s].held
          /\ \/ /\ \E row \in Concluded(s):
                    session' = [session EXCEPT ![s] = row]
                /\ UNCHANGED <<loop, failures>>
             \/ StoreFails /\ EventRefused
       \/ /\ session[s].identified /\ job[s].held
          /\ \/ Observe(s, job[s].observation)
             \/ /\ StoreFails
                /\ session' = [session EXCEPT ![s] =
                        Row(@.state, "observed", TRUE, @.credential)]
                /\ loop' \in {Serving, Halted}
    /\ UNCHANGED <<launch, outside, job, crashes>>

-----------------------------------------------------------------------------

LaunchStep(s) ==
    \/ Admitted(s)
    \/ NotAdmitted(s)
    \/ RotateCredential(s)
    \/ StartProvider(s)
    \/ StartProvedFailed(s)
    \/ StartUnproved(s)
    \/ RecordLaunch(s)

ProviderEvent(s) ==
    \/ ReadPending(s)
    \/ ReadFrame(s)
    \/ ReadMalformed(s)
    \/ ReadExit(s)

Next ==
    \/ Crash
    \/ Restart
    \/ \E s \in Sessions:
        \/ PersistIntent(s)
        \/ RetryLaunch(s)
        \/ LaunchStep(s)
        \/ WorkerWrites(s)
        \/ WorkerExits(s)
        \/ PipeCloses(s)
        \/ ProviderEvent(s)
        \/ RecoverSession(s)
        \/ CheckUnknown(s)

Spec == Init /\ [][Next]_vars

(* The thread never stops on its own; every tick polls every session; an   *)
(* absent process is found absent unless its identity is reused for ever.  *)
FindLost(s) == CheckUnknown(s) /\ session'[s].state = "lost"

Fairness ==
    /\ \A s \in Sessions:
        /\ WF_vars(LaunchStep(s))
        /\ WF_vars(RecoverSession(s))
        /\ WF_vars(PipeCloses(s))
        /\ SF_vars(ProviderEvent(s))
        /\ SF_vars(FindLost(s))

FairSpec == Spec /\ Fairness

-----------------------------------------------------------------------------
(* Properties *)

Rows ==
    [state: LifecycleState \cup {"none"},
     reconciliation: {"none", "desired", "observed", "unknown", "lost"},
     identified: BOOLEAN,
     credential: {"none", "active", "revoked"}]

Budgets ==
    [attempts: 0..MaxLaunchAttempts, in_flight: BOOLEAN, quarantined: BOOLEAN]

Processes ==
    [spawned: Nat,
     status: {"none", "running", "killed", "gone"},
     failed: BOOLEAN]

Pipes ==
    [open: BOOLEAN,
     frames: Seq({"valid", "malformed"}),
     written: 0..MaxOutput]

Jobs ==
    {NoJob} \cup [held: {TRUE},
                 observation: LifecycleState,
                 pending: BOOLEAN,
                 exit_observed: BOOLEAN]

Loops ==
    [stage: {"serve", "admit", "rotate", "start", "record",
             "recover", "down", "halted"},
     launching: Sessions \cup {NoSession},
     todo: SUBSET Sessions]

(* Every column, process, job and the loop keep to their types; attempts    *)
(* never pass the limit (admit_session_launch).                            *)
TypeOK ==
    /\ session \in [Sessions -> Rows]
    /\ launch \in [Sessions -> Budgets]
    /\ worker \in [Sessions -> Processes]
    /\ pipe \in [Sessions -> Pipes]
    /\ job \in [Sessions -> Jobs]
    /\ loop \in Loops
    /\ crashes \in 0..MaxCrashes
    /\ failures \in 0..MaxStoreFaults

(* What the launch leaves behind: an intent is desired only before its     *)
(* first observation, a spawned process always leaves its attempt in       *)
(* flight, and a job is held only for a spawned process.                   *)
LaunchInv ==
    \A s \in Sessions:
        /\ session[s].reconciliation = "desired" =>
                session[s].state = "starting"
        /\ worker[s].spawned \in {0, 1}
        /\ worker[s].spawned = 0 <=> worker[s].status = "none"
        /\ worker[s].spawned = 1 => launch[s].in_flight
        /\ job[s].held => worker[s].spawned = 1

(* What the thread knows where it stands. *)
LoopInv ==
    /\ \A s \in Sessions:
        /\ InLaunch("admit", s) \/ InLaunch("rotate", s)
              \/ InLaunch("start", s) \/ InLaunch("record", s)
            => session[s].reconciliation = "desired"
        /\ InLaunch("rotate", s) \/ InLaunch("start", s)
            => worker[s].spawned = 0 /\ launch[s].in_flight
    /\ \A s \in loop.todo: ~Ended(s)

(* The evidence behind every end, in the provider and in the store. *)
EndInv ==
    \A s \in Sessions:
        /\ job[s].held /\ job[s].observation \in TerminalStates =>
            /\ worker[s].status = "gone"
            /\ job[s].observation = "exited" => pipe[s].frames = <<>>
        /\ Ended(s) =>
            /\ worker[s].status \in {"none", "gone"}
            /\ session[s].credential = "revoked"
            /\ session[s].reconciliation = ReconciliationOf(session[s].state)
            /\ session[s].state = "exited" => pipe[s].frames = <<>>

(* The inductive invariant: the store, the provider and the thread agree   *)
(* about every session between any two steps of the supervisor.            *)
IInv == TypeOK /\ LaunchInv /\ LoopInv /\ EndInv

(* One launch intent starts at most one worker, whatever write fails and   *)
(* wherever the supervisor dies between the spawn and its record           *)
(* (admit_session_launch's in_flight, ensure_existing_launch).             *)
LaunchedOnce == \A s \in Sessions: worker[s].spawned <= 1

(* A session the store calls ended has no process left and no credential:  *)
(* quarantine claims a reaped job, loss a proved absence.                  *)
EndedMeansGone ==
    \A s \in Sessions: Ended(s) =>
        /\ worker[s].status \in {"none", "gone"}
        /\ session[s].credential = "revoked"

(* An exit is believed only after the last frame the worker wrote.         *)
OutputBeforeExit ==
    \A s \in Sessions:
        session[s].state = "exited" => pipe[s].frames = <<>>

(* No late frame, exit, poll or restart changes a session that has ended.  *)
EndedStaysEnded ==
    [][\A s \in Sessions: Ended(s) => session'[s] = session[s]]_vars

(* A worker whose identity is recorded and whose process is gone is        *)
(* recorded as ended, unless the supervisor goes down first or a store     *)
(* transaction fails: an event is taken off the provider before it is      *)
(* written, so a failed write can lose the exit for this supervisor's life.*)
EndRecorded ==
    \A s \in Sessions:
        (session[s].identified /\ worker[s].status = "gone")
            ~> (Ended(s) \/ ~Up \/ failures > 0)
=============================================================================

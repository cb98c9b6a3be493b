# A verification of coterie's run supervisor

This directory holds TLA+ models of coterie's supervisor, the TLC
configurations that check them on small instances, and proofs of their main
safety properties for every instance, checked by TLAPS. Paths such as
`state.rs:2337` are relative to the crate's `src/`; `DESIGN.md`, `docs/` and
`website/` are at the repository's root.

Run everything from this directory:

    tlc -config MCTaskLedger_closure.cfg MCTaskLedger   # any configuration, its module
    tlapm TaskLedger_proofs.tla                         # any module of proofs

## 1. The system

One *run* of coterie has one *supervisor*: a process with a single-threaded
select loop (`supervisor.rs:1956`) that is the only writer of the run's SQLite
store. It serves RPCs of the operator, of the foreground lead and of worker
agents over a Unix socket; starts worker processes through a provider; gives
each worker a Git worktree; and publishes accepted work to the project's target
branch. Everything that has an effect outside the store follows one pattern:
a durable intent is committed, the effect is attempted, what was observed is
recorded in a later transaction, and a reconciler repairs what a crash or an
error left between the two.

### Components

| Component | State | Operations | Talks to |
|---|---|---|---|
| Tasks, claims, assignments (`tasks.rs`, `state.rs`, `supervisor/closure_override.rs`) | tables `tasks`, `task_dependencies`, `claims`, `assignments` | create, claim by spawn, finish, close, override | every handler, in one transaction each |
| Recovery, retained submission, resubmission (`state/recovery.rs`, `state/retained.rs`, `state/resubmit.rs` and their handlers) | `task.recovered` and `assignment.continued` events | `task recover`, `task submit-retained`, `task resubmit` | tasks, sessions, workspaces |
| Workspaces and Git (`workspace.rs`) | table `workspaces`; worktrees, target branch and checkout | materialise, observe, record a result, integrate | Git, operations |
| Sessions and launches (`supervisor/session.rs`, `state/supervision.rs`) | tables `sessions`, `session_credentials`, `session_launch_attempts`, `session_failures`; job handles in memory | persist intent, admit, start, record, poll, reconcile, control | provider, store |
| Providers (`providers.rs`, `providers/`) | child processes, output channels, pending events | launch, next event, quarantine, recover, interrupt, terminate | operating system |
| Operations and dispatch (`supervisor.rs`, `supervisor/admission.rs`) | table `operations` (`desired`, `unknown`, `observed`) | idempotent mutation by operation id, reconciliation of spawn, foreground and integrate intents | all of the above |
| Shutdown and run recovery (`supervisor/stop.rs`, `supervisor/run_recovery.rs`, `supervisor/idle.rs`) | `run_shutdown`, `session_controls`, idle timer | stop, drain, escalate, finish; recover a stale run | sessions, workspaces |
| Projects, leases, index (`project.rs`, `supervisor/projects.rs`) | lease and index files, socket | acquire, publish, release | other supervisors, through the file system |
| Inbox and notifications (`state/notifications.rs`, `supervisor/notifications.rs`) | messages, deliveries, claims | send, deliver, acknowledge, claim | foreground wrapper |
| Progress, context, commit handoff | cursors, read-only reports | read and render | store, Git |
| Configuration, policy, lock (`config.rs`, `config/`) | resolved snapshot | merge layers, check the policy lattice | start-up only |
| CLI, MCP bridge, protocol, auth, ids (`mcp/`) | the bridge: a connection, saved mutations | translate, authenticate, retry | socket |
| Transcripts, redaction, terminal (`transcript.rs`) | files, screen state | append, page, follow, redact, render | providers |
| Doctor, fault points | none | diagnostics, crash points of the tests | store, Git |

### What is hard

* **Atomicity.** A handler such as `finish --completed` commits its result in
  one transaction and the submission in another; `GitWorkspace::integrate`
  moves a reference before the store hears of it; a worker process starts
  before its identity is stored. A crash, or an ordinary error, may fall
  between any two of those.
* **Stale actors.** A worker keeps running with a live credential after its
  task was recovered or submitted for it; the operator commits, edits and
  resets in the checkout the supervisor integrates into; frames of a killed
  worker are still in a channel.
* **Evidence.** "Exited", "quarantined" and "lost" are claims about a process;
  the supervisor may make them only on a reaped exit or a proved absence, and
  must say "unknown" otherwise. "Integrated" is a claim about a branch.
* **Retries.** An unresolved intent is retried by the reconciler and by the
  client; neither may start a second worker or publish twice. An outcome that is
  unknown may become known later, through an answer to a request given up long ago.
* **No two files change together.** Ownership of a project is a lock, an index entry, a
  socket and a row, and a supervisor may die between any two of them.
* **Waiting.** A stop waits for sessions, wrappers wait to be told, starts wait for
  each other, readers wait for changes: deadlines and evidence must end every wait.

`PROJECT.json` lists each such hazard at the line where it bites, with the
properties that watch it.

### What makes each component correct

* Tasks: one owner at a time; dependents wait for *accepted* work; acceptance is
  final; what a submission says is what the worktree recorded.
* Recovery: interrupted work is handed on once, and its source never changes
  afterwards.
* Integration: the operator's history and files survive; nothing is recorded
  that was not published, nothing published twice; an interrupted attempt is
  completed.
* Sessions: one process per intent; an ended session has no process, no
  credential and no unread output, and stays ended; a dead worker is noticed.
* Shutdown: a stop ends and leaves no process behind; whoever asks again is told so
  and stops nothing else.
* Leases: at most one supervisor serves a project, and what a dead one left in lock,
  index, socket and store can be repaired by the next.
* Operations: one effect per operation id, whoever repeats it on whatever connection;
  an answer is the answer to the request; a spawn is settled on evidence only.
* Inbox: an update is shown by a notice or by a poll, a notice is queued once, and only
  what was handled is acknowledged.
* Worktrees: an interrupted creation can go on, and never over somebody's work.
* Streams and progress: nothing is skipped, repeated or cut, and a reader ends.
* Policy: no layer widens what an outer one forbids.

## 2. The modules

    TaskLifecycle            what the ledger promises its callers (abstract)
        ^ refinement
    TaskLedger               the store's task, worker and integration rows
        ^ EXTENDS
    TaskLedgerInvariants     the inductive invariant, in named parts
        ^ EXTENDS
    TaskLedger_proofs        theorems about TaskLedger
    Integration              one integration attempt step by step; its steps are
                             steps of TaskLedger (INSTANCE, property LedgerSteps)
    Worktrees                creation and observation of one worktree
    Workspaces_proofs        theorems about Integration and Worktrees
    SessionLifecycle         a worker from launch intent to recorded end
    SessionLifecycle_proofs
    Shutdown                 stopping a run, and reactivating it
    Shutdown_proofs
    RunCoordination          several supervisors, runs and projects
    RunCoordination_proofs   theorems about RunCoordination, and about Policy
    Spawn                    the spawn command, admission and reconciliation
    Spawn_proofs
    Delivery                 inbox, notices, and the agent they wake
    Bridge                   mutations of an agent on their way to the store
    Bridge_proofs            theorems about Bridge, and about Progress
    Streams                  followers of events and logs
    Readers_proofs           theorems about Delivery and Streams
    Progress                 progress pages and the poll that drains them
    Policy                   resolution of configuration (no states)
    MC...                    symmetry sets and constants for TLC

Three abstractions connect them. The steps that `Integration` takes in Git and in the
store are checked and proved to be steps of `TaskLedger`; `TaskLedger` refines `TaskLifecycle`; and
`Spawn`, `Shutdown`, `Delivery` and `Bridge` each keep only as much of sessions, tasks
and credentials as their own decisions read, always with at least the behaviours of
the module that has the detail (a process may exit, a credential be revoked, a
session become unknown at any time). `Worktrees` and `Streams` prefix the names that every
module has (`WorktreesInit`, `StreamsSpec`), so that one module of proofs can extend either
beside another component.

### TaskLedger

A variable per column that a decision of the code reads; an action per store
transaction, with the checks its handler makes before it. `Spawn` claims the
task and creates claim, assignment, workspace and operation in one transaction
(`supervisor.rs:4434`), `Submit`/`Reopen` and `ReleaseOwnership` are the three
parts of `apply_task_transition` (`state.rs:2337`), `InterruptFinish` is a
finish whose second transaction never runs, `FinishCompleted` one whose does.
`PublishResult` is the effect in Git, `RecordIntegration` the transaction after
it; between the two a crash is simply the second not being taken. Everything in
the module survives a restart, so a restart is no step.

Abstractions, each chosen so that more behaviours are allowed, not fewer:

* a worker agent has one assignment, claim, session, workspace and spawn
  operation (`supervisor.rs:4434` creates them together), so one identity stands
  for the five; foreground agents own no task;
* commits of a worktree are their distance from the base; only "is it recorded",
  "is it the tip" and "does it descend from" are asked of them;
* a refusal (dirty tree, missing capability, spent budget, a process that cannot
  be inspected) is the action not being taken; the run is taken to be active, since
  stops are in `Shutdown`;
* an integration may be published, fail or be adopted whenever its operation is
  unresolved; where the target stands is left to `Integration`;
* read-only workspaces behave as project ones; `Cancel` and reopening a
  submission exist in `tasks.rs` but no RPC reaches them, and they are left out;
* the replay of an operation by its id is in `Spawn` and `Bridge`.

### Integration

Commits are histories (sets of changes), so "contains" is inclusion. An attempt
has a program counter, `stage`, following `GitWorkspace::integrate`
(`workspace.rs:1287`): inspect the target and choose what is left to do, check
out the candidate tree, advance the reference if it is still the expected one,
verify what the branch now holds, record. The operator may commit, commit the
tree an interrupted attempt left staged, edit, or reset between any two of those
steps. The submitted worktree is checked too: a worker that lives on after its finish, or
anybody else, may alter it, move it and put it back (`TouchWorktree`, `altered`), and an
attempt that finds it not `AsSubmitted` fails. A crash forgets the attempt; a failed
write sends it to `Fail`. `Request`, `Replay` and `Reconcile` start attempts. A pass of the reconciler over several
operations is several `Reconcile` steps. All worktrees start from one base, and
conflicts are given by two constants: pairs of authors that conflict in a merge,
and assignments whose commits conflict only when replayed one by one.

`LedgerSteps` maps every step to `TaskLedger!IntegrationStep` or to no step: it is
what justifies the freedom TaskLedger gives to `PublishResult` and the rest.

### SessionLifecycle

The row of a session with its credential, its launch budget, the process
outside, the pipe and channel between them, the provider's `CodexJobProcess`,
and the supervisor's thread (`loop`): `serve`; `admit`, `rotate`, `start` and
`record` while one launch runs (`start_and_record`, `session.rs:192`);
`recover` at start-up; `down` and `halted`. Because the supervisor is one
thread, no other action of its own interleaves with a launch; the worker's
(`WorkerWrites`, `WorkerExits`, `PipeCloses`), a crash and a failed write
(`StoreFails`) do. `ReadPending`, `ReadFrame`, `ReadMalformed` and `ReadExit` are
the four ways `next_event_kind` (`providers.rs:1309`) produces an event, each
with the transaction `record_observation` makes of it. `RecoverSession` and
`CheckUnknown` are the start-up and the periodic reconciliation, whose findings
are `Concluded`.

Abstractions: times of backoff and restart window are a choice (`Admitted` may
restart the count, `NotAdmitted` may always refuse a retry); a good frame and the
observation queued for it are one step, since only the transcript tells them
apart, and failures to append to a transcript are left out; a process whose
identity may have been reused is "unknown" by choice; the session's and the
agent's lifecycle, which every transaction here writes together
(`state.rs:1925`), are one. Process controls return the job's last recorded
observation, so their effect on this module is that of `WorkerExits`.

### Shutdown

`run` is the row of `runs` joined with `run_shutdowns`: status, phase, the operation
that asked, and the age of the stop in ticks; `control` the row of
`session_controls`. One tick of the supervisor is several steps (`loop`): `inspect`
the workspaces, `control` the sessions that are left, `signal` and `mark` each of
them, `persist` the end, retire. Clients may ask at any time, before or after a stop,
offline or again with an old identifier (`request`); foreground wrappers are granted a
launch, spawn, report, wait to be told to stop and escalate by themselves (`wrapper`).
`Settled` keeps steps of the outside between two ticks apart from the steps of a tick
where their order cannot matter.

Abstractions: deadlines are ages of one clock that only moves forward, in ticks of the
constants `Grace` and `Timeout`; an inspection of workspaces succeeds or fails
(`MaxFaults`); launches (`LaunchWorker`, `LaunchCut`, `LaunchForeground`) have no attempts.

### RunCoordination

Every supervisor process is a record with its program point, the locks it holds and
what is left of its startup, attachment, retirement or recovery; what survives it is the
index, the sockets, and the rows of each run's database. Every step that reads or writes
a file is an action, so any number of supervisors stand anywhere in their startup at
once, and a `Crash` releases exactly the locks of one. An error that makes a process exit
is a crash at that point. Removing a lock file while somebody holds it is not modelled:
the code never does.

### Spawn

The admission counters are computed from the rows, as in `admission.rs`. A spawn runs
from its claim to its answer with no other command between (`loop` carries the
operation it attends); what a dead supervisor left is finished by `Reconcile`. The launch
is an abstraction of `SessionLifecycle` with its outcomes only, the assignment one of
`TaskLedger`, which may end three ways while its worker lives or may live: `finish
--completed` submits, `finish --failed` releases the assignment and reopens the task at once,
and `task recover` takes over what an ended session left. A finish asks for a credential
that is still honoured (`CredentialActive`), not for a worker that is known to run. An admission
may find the restart window over and count from one again (`Attempts`). Read-only roles, the
workspace pass of the periodic reconciliation and
the quarantine of the lead are not modelled; a running or lost lead is folded into
unknown and exited. What becomes of a submission is left to `TaskLedger`: no closed task
is spawned again.

### Delivery

One foreground agent with its generations; its inbox and the lifecycle events of the
run; the claims of the supervisor, the wrapper that owns the provider's child, the
provider's queue, and what the agent knows. Every request can lose its answer
after its commit. What happens while no supervisor runs commutes with its crash, so that a
crash and the restart after it are one step. A wrapper whose delivery loop is over, or that
was killed, is "gone"; the first still reports its child's exit (`ReportExit`), the second
never does, so the report stays possible and is never forced. Sending, acknowledging and the cursors are per
sequence number; an event is somebody else's or the agent's own.

### Bridge

The bridge's connection is two queues and the number of answers that are still in
front of the one it waits for ("behind"), which is what matching answers by growing
request numbers amounts to when both ends serve in order. `Authenticate` and `Execute` are
two steps of the server, with the end of the session possible between them; requests of
a dropped connection stay with the server (`abandoned`) and are executed in any order or
never. Queries are left out; `poll` is in `Progress` and `Delivery`.

### Streams, Progress

A transcript is a sequence of bytes of which only the length of characters is known; a
page ends where the byte limit and the character boundaries allow. Pages of events end
where the event limit or the frame size (by choice) cuts them. A follower is connected,
reconnecting, reading the final pages of a stopped run by itself, or done. `Progress` is
the page that is filled from a window of the log, the wait, and the poll that reads up to
16 pages, for any number of readers; a lost call may be sent again more often than the
bridge does; the inbox and the deadlines shown with a page are left out.

### Worktrees

One assignment; the branch, Git's record of the worktree, its directory and its HEAD are
separate, and `git worktree add` is four writes between which it may be killed.
`Observation` is what `observe` concludes from them. Commits of the agent move
the branch, and where it has worked is remembered (`agent`); `Meddle` lets anyone remove or
replace branch, record or directory. Retired assignments and
directories that are shared, where nothing is created, are left out.

### Policy

Resolution is a function of four layers, so the module has operators only: the
intersection of permission profiles, limits, roles, provenance, the comparison with the
lock and the validity of a snapshot, written as `config/resolver.rs`, `config/policy.rs`,
`config/lock.rs` and `config/snapshot.rs` compute them. A snapshot is a row with its schema
version, its configuration and its fingerprint, which is what it digests (`Portable`). What
an agent may do stands twice in the code, and in the module: `Advertised` is the table an agent
is told of when it starts (`Told`, `supervisor.rs:5775`), `Permitted` the capability each
handler asks for, handler by handler (`supervisor.rs:3174` and what it calls). A resolution
that fails is a predicate that is false. Parsing, names, instructions and root directories are
left out.

## 3. The runs

Bounds are named constants. Symmetric sets are used only where no liveness
property is checked.

| Run | Question | Instance | States |
|---|---|---|---|
| `ledger_composed` | Do dependents wait for accepted work, and is `TaskLifecycle` implemented? | 2 tasks, 2 workers of either workspace kind, 1 integration, 1 commit | 559 k |
| `ledger_closure` | Is interrupted work handed on once and its source fenced; do submitted, published, recorded and accepted work agree? | 1 task, 2 worktree workers, 2 competing integrations, one worktree that may be damaged | 855 k |
| `integration` | Does a step lose the operator's commits or edits, record what was not published, publish twice; is an interrupted plan completed? | 2 assignments, 2 operations of either strategy, 1 operator step, submitted worktrees altered at any time, 1 fault | 639 k |
| `sessions` | Can a failed write or a crash start a second worker or end one that still lives; is a dead worker noticed? | 1 session, 3 attempts, 3 frames, 3 crashes, 2 failed writes | 84 k |
| `shutdown` | Is a stopped run empty, a completed stop answered for ever, an idle run really idle? | 1 worker, 1 foreground, 2 requests, 1 crash | 5.3 M |
| `shutdown_live` | Does a stop end, is everyone answered, and every wrapper told? | 1 worker, 1 foreground, 1 request, 1 failed inspection | 111 k |
| `leases` | Is a project served by one supervisor; is what the dead left repaired and never stolen? | 2 supervisors, 2 runs, 2 projects, 1 recovery, deaths at any step | 432 k |
| `spawn` | Do ceilings hold, is a spawn done once, does one writer have the directory, does what is settled rest on evidence? | 2 operations, 2 tasks, 2 roles (one writes the directory), 2 attempts, restart windows, 1 crash | 4.3 M |
| `delivery` | Can an update fall between notices and polls, or a notice be queued twice? | 2 messages, 1 event, 2 notices, 1 generation, 2 faults | 1.35 M |
| `bridge` | Is an answer true, an effect done once, an uncertain outcome kept and resolved? | 2 operations, 2 arguments, room for 1, 2 generations, 2 faults | 371 k |
| `streams` | Do followers end, after everything, at character boundaries? | 3 events, 4 bytes in characters of 1 and 3, 1 recovery, 1 crash | 514 k |
| `worktrees` | Can an interrupted creation go on, is nobody's work touched, and a used worktree not begun anew? | 1 worktree, 2 crashes, 2 failed writes, 3 outside changes | 50 k |

Why the bounds are enough: tasks interact only through dependencies and
competition for workers, which two show; a chain of recoveries hands each source on to
one successor, which two show, and the proofs cover any length; two operations are the
least that race for one assignment and for the branch; more frames than two let one
be queued behind another while a third is being read; two stop requests are the
running stop and the one that is repeated or arrives late; two supervisors and two projects
are the least that can wait for each other in opposite orders; an agent with room for
one saved mutation and two operations fills its memory; four bytes hold a character
that does not fit a page of two, cut at each of its places; one crash or failed write
can fall between any two steps, and every later retry then starts from each state it
can leave behind. The proved properties hold without any bound.

Larger instances that passed and are not kept because of their time: `Delivery` with two
generations (one message, one event, one fault: 1.8 M states; safety with two faults: 6.3 M);
`Bridge` with three faults and one argument; `Shutdown` with two workers, one of which
outlives every signal, and with a crash and liveness (550 k, 3 minutes);
`RunCoordination` with liveness (`EachSettles`: every startup, attachment and retirement ends,
also when two supervisors attach each other's projects; no recovery, 714 k, 2 minutes; an
attachment that waited for its lock violates it); `Spawn` with liveness (`SpawnSettles` under
`LiveSpec`, one task, 37 k); safety of `Integration` with two operator steps (8.3 M). `Progress`
was model-checked with two readers,
three events, a crash and a lost call (351 k states, `CatchesUp` included) before it was
proved; its theorems, and those of `Policy`, have no run of their own.

`CHECK_DEADLOCK FALSE` is set where the system may really stop: a ledger whose
tasks are all closed, a target branch nobody asks to advance, workers that have all
ended, a stopped run nobody reactivates, supervisors that are all idle, an agent with
nothing left to do.

Every property of a run has a mutant in `PROJECT.json`: an operator in the module,
marked "Slip", with a mistake someone could make in that code, under which TLC finds
the property violated.

## 4. Fairness

* `Integration`: `WF(Proceed)`, because the supervisor's thread finishes an attempt
  it started unless it dies; `SF(Reconcile(o))`, because the reconciliation tick
  visits every unresolved operation and other requests only delay it.
* `SessionLifecycle`: `WF` of a launch step and of start-up recovery, for the same
  reason; `WF(PipeCloses)`, an assumption about workers: a process that keeps a dead
  worker's output open for ever hides its exit (the code does depend on it);
  `SF(ProviderEvent)`, because the 20 ms tick polls every session and a launch in
  between only disables it for a while; `SF(FindLost)`, because process identities are
  not reused for ever. `Restart` is not fair: `EndRecorded` excuses a supervisor that
  is down.
* `Shutdown`: `WF` of the tick and its passes; time passes between ticks; a killed process
  ends, as does one whose wrapper was told, since the wrapper escalates to SIGKILL by
  itself, except for sessions in `Unkillable`; a poll reads an exit it can read. What is
  strong is so because the outside moves between passes only, and passes go on
  for ever.
* `RunCoordination`: `WF` of each supervisor's own thread, all `EachSettles` needs (section 3). A lock is
  only ever tried, never waited for, so nobody waits for a supervisor that waits for him.
* `Spawn`: `WF` of the attempt in progress and of a restart; `SF(Reconcile)`, because the
  select loop is fair among its branches; backoff elapses. `LiveSpec` adds that, once a
  session exists, workspace and provider can be used again and a start comes to
  something (`Recovers`): section 6 says why.
* `Delivery`: the wrapper's loop, the provider's hand-over, and an agent that was given a
  notice reports its receipt and polls. It does not poll for ever without a notice, and
  faults are bounded.
* `Bridge`: the server authenticates and executes what it reads, is started again by
  whoever needs it, and the agent repeats what is uncertain, as its instructions say.
* `Streams`: followers read on and reconnect. `Worktrees`: passes go on, each finishing its
  creation unless it fails.
* Nothing makes a worker exit, an operator act or a client retry elsewhere.
  `IntentApplied` excuses a plan that somebody else's commit or edit, or a change of the
  submitted worktree, has invalidated,
  `Materializes` a worktree somebody meddled with.

## 5. What is proved

`TaskLedger_proofs`, for all sets of tasks, workers and operations, all bounds
and all dependency graphs, from the four assumptions in `TaskLedger` (bounds are
naturals, sentinels are no identities, roles use known workspace kinds):

* `Invariance`: `Spec => []IInv`. None of the safety properties is inductive. For
  example `OwnershipExclusive` does not forbid a completed assignment of an open
  task, from which a second submission would break `SubmissionConsistent`;
  `PublishedIsRecorded` needs to know that published work has an integrate intent,
  which is why a resubmission cannot replace it. `TaskLedgerInvariants` states what each
  table owes the others: claims and assignments open and close together
  (`RowsAgree`, `LatestRow`), an assignment without a row has no trace
  (`WorkRows`), integration touches completed work only and leaves an intent
  (`IntegrationRows`), closing evidence is true (`EvidenceRows`).
* From it, `TypeCorrect`, `Exclusive`, `Dependencies`, `Submission`, `Published`,
  `Evidence`, `Override`, `Recovery`; the action properties `Fenced` and `Accepted`;
  and `Refinement`: every step of the ledger is a step of `TaskLifecycle` under the
  mapping in `TaskLedger` or leaves it alone.

`SessionLifecycle_proofs`, for all sets of sessions, launch budgets, and bounds on
frames, crashes and failed writes:

* `Inductive`: `Spec => []IInv`, with `IInv` the type invariant and three parts.
  `LaunchInv`: a spawned process leaves its attempt in flight, which is what stops
  a second admission after a lost write; `LoopInv`: what the thread knows at each
  stage of a launch and of recovery; `EndInv`: the evidence behind every end, in
  the provider's job as well as in the row, since `CheckUnknown` stores what the
  job observed earlier.
* From it, `TypeCorrect`, `AtMostOneWorker`, `NoProcessAfterEnd`,
  `ExitAfterOutput` and the action property `EndIsFinal`.

`Shutdown_proofs`, for all sets of workers, wrappers and requests, and all deadlines:

* `Inductive`: `Spec => []IInv`. That a stopped run is empty (`NothingLeftRunning`) is not
  inductive: it needs that an ended session never gets a process (`EndInv`), that the
  stop, its phase and its operation agree (`StopInv`), that a control ends only with its
  session (`ControlInv`), and that the thread, once it has decided that nothing is
  active, is not overtaken before it persists the end (`LoopInv`). `WrappersTold` is the part
  about waiting.
* `CompletedStaysAnswered`: whoever repeats a completed stop hears that it was
  completed, also after the run was reactivated and stopped again.
* `IdleStopIsSafe`, the action property `IdleStopsNobody`: of all the thread does while it
  serves, only an idle tick begins a stop without a request (`ServingBegins`), and a tick
  finds every session unlaunched or exited, which by `EndInv` leaves no process
  (`QuiescentMeansGone`).

`Spawn_proofs`, for all sets of agents, roles, tasks and operations, all ceilings and attempts,
from the two assumptions in `Spawn`:

* `Inductive`: `Spec => []IInv`. The properties need to know which rows exist together
  (`RowsAgree`, `SessionRow`), that a task in progress has its agent's assignment
  (`TasksOwned`), what the thread that attends an operation has found (`LoopInv`), and that
  one assignment at a time holds the project directory (`OneHolder`: the holder may be a
  worker whose exit nobody has seen, or one that has finished, with success or without, and
  lives on while its task is open again). That agents are finitely many at any time is part of
  the invariant (`Finite`), not an assumption: without it a ceiling could not be counted.
* From it `CeilingsNeverExceeded`, `AdmittedOnce`, `SingleWriter`, `SettledTruly`, and the action
  property `NothingUndone`. The argument about ceilings, answers and evidence does not
  look at each action: every step leaves a footprint (`Footprint`: which rows of which agent
  and operation it may change, and how), nothing lasting is lost by it (`Lasting`,
  `Standing`), and the properties follow from these.

`RunCoordination_proofs`, for all sets of projects, runs, supervisors and recoveries, from the
assumption that the names for "none" are no identities:

* `Coherent`: `Spec => []IInv`. The argument is one of rely and guarantee. The invariant is
  cut into what each supervisor relies on (`Local(s)`) and what all of them share (`Shared`);
  `Within(s)` is all a step of `s` may touch: its own process, a lock nobody holds, an index
  entry under a lock it holds, the row and the socket of its own run. Two supervisors that
  have got their first lock never share a run (`Alone`), so that a step within one leaves
  alone what another relies on (`OthersRely`); what is left is one lemma for each action about
  its own supervisor, a crash being the same everywhere (`QuitStep`).
* `Owned` names the conjuncts a reader cares for: `OneOwner`, `IndexBacked`, `ServingReachable`,
  `StoppedEntryPoint` and `WholeRunRetired`. None is inductive: that a stopped run is found
  from its primary needs that a supervisor that stops has published it (`PublishedOK`) and
  retires it last, with nothing of its run left elsewhere (`RetireOK`).
* `OwnershipDecided`: the two action properties of `OwnershipMoves`, from what `Within` says
  about the index and about the rows of runs.

`Bridge_proofs`, for all sets of operations and arguments, any memory of the bridge, and any
numbers of faults and sessions:

* `Inductive`: `Spec => []IInv`. What makes a late answer harmless is a relation between the
  call the bridge waits for and what is on its connections (`InStep`): on a connection on
  which no request was given up (`behind = 0`), the call is the only thing on its way, as a
  request or as an answer, and an idle connection is empty. With `LinksTruthful` (a
  success on the wire is the recorded effect of the operation and arguments it names)
  an answer that matches is the truth about the call. `Memory` says that the bridge
  remembers the operation it calls, each operation once, and as succeeded only what the
  agent was told; it is why the eviction of the oldest success loses no open outcome.
* From it `AnswersMatched` and `UncertainRepeatable`; `EffectsAppliedOnce` is the action property
  `AppliedOnce`. The bound on the memory, `MaxRetries`, is any positive number.

`Readers_proofs`, about `Delivery`, for any numbers of notices, generations, messages, events,
receipts and faults:

* `Inductive`: `Spec => []IInv`. Three parts say where a notice may stand: the rows of a
  delivery, the provider's queue and the receipts agree (`DeliveryRows`), a session has one
  delivery whose outcome is open (`OneUnsettled`), and each stage of a wrapper's loop and each
  request of it is about a delivery of its own that was or was not queued before (`LoopRows`,
  `ClaimsApart`). `NoticesCarried` says that a claimed notice is in somebody's hands until
  it is received, suspended or refused; `AgentRows` that a new agent owes a poll;
  `HandledThrough` that an acknowledgement names only what was handled.
* From it `NoticesAreQueuedOnce`, `AcknowledgedAfterHandling` and `UpdatesReachTheAgent`. The
  last is part of the invariant. Its argument: an agent that owes a poll or awaits a notice does so
  until it polls (`AwaitedUntilPolled`); a poll shows all that the cursors have passed
  (`PollShows`), and what was shown stays shown while the cursors stay (`ShownStays`); the
  cursors move only with a claim, which `NoticesCarried` then awaits, and with a receipt, after
  which the agent owes a poll (`ReceiptAwaited`).

Its last section is about `Streams`, for any page size and any numbers of bytes, events, crashes
and recoveries: `NoCharacterIsCut`, from what is missing of a character at each byte (`Characters`,
by `LastLead`: the last byte that begins a character decides) and from the cursor's being between
characters (`CursorWhole`), and the action property `FollowersShowAll`, which needs that whoever
has seen the run's stop has seen it rightly (`StoppedSeen`).

`Workspaces_proofs`, about `Integration`, for all sets of assignments, operations and clashes,
and any numbers of crashes, failed writes and steps of the operator:

* `Inductive`: `Spec => []IInv`. That an operation adds its commits once is not inductive,
  and no attempt knows what earlier ones did. What carries it is that a merge or rebase made
  by coterie is determined by the plan (assignment, strategy, expected tip), so that every
  such change on any commit the branch has been at belongs to a durable plan of its own
  (`Sourced`); a plan is never replaced (`PlansKept`). `MadeOnce` then counts: the change
  determines the operation, an injection into the operations that name the assignment,
  which are finitely many at any time (`FewPlans`, part of the invariant and not an
  assumption). `Attempting` and `Found` say what an attempt has seen of the branch by each stage
  and what a record stands for.
* From it `ResultsPublishedOnce`; `OperatorsWorkKept` and `AttemptsAreLedgerSteps` are action
  properties. The latter is the refinement: one lemma for each step of the ledger says
  when a change of what the ledger is shown is that step (`RequestSeen` to `AdoptionSeen`), and
  the theorem finds for each action here the one it is. Publication is seen at most once
  per assignment, and an operation already observed has been (`Found`).

The last section of `Workspaces_proofs`, about `Worktrees`: the inductive invariant says how far
a creation that nobody disturbed has come at each of its steps (`Undisturbed`), from which
`CreationResumes`; `SupervisorKeepsWork` is an action property from the same invariant. `NotMadeAnew` says
that no one act on a worktree an agent has used, at whatever point, makes any later pass begin to
create it. It is inductive only with what one act can leave (`Settled`): a worktree that is
recorded as unknown after one act is damaged and not gone, so that no pass finds nothing there.

The last section of `Bridge_proofs`, about `Progress` (instantiated there as `P`), for any number of
readers, page limits and window sizes, under `Bounds`:
`ChangesExactlyOnce` (what a reader was given is exactly what lies behind its cursor, and
no page that its call has read or may still read brings what the call or an earlier answer
has brought) and `DrainAdvances` (an answer that promises more has moved its cursor).

The last section of `RunCoordination_proofs`, about `Policy`, for all layers and grants: `MeetIsBelow` and `ProfilesAreOrdered` (the intersection
is below both sides, and comparison with it is an order on the profiles a global layer
may define), `LimitsWithinTrust`, `RolesWithinTrust`, `ProvenanceIsTrue`,
`AcceptedIsRecoverable` (the snapshot a new run writes passes the check of its recovery: schema,
roles, an enabled lead, runnable commands, fingerprint) and `AdvertisedIsAllowed` (the table an
agent is told of and the handlers' own checks agree, with the exceptions that section 6 lists).

In the other modules each proof that a step keeps a part of an invariant has one step per
action. Two facts carry most of the session proof: `ObserveFacts`, what a recorded observation
may leave of a row, and `ConcludedFacts`, what reconciliation may conclude.

Only model-checked: the liveness properties (`IntentApplied`, `EndRecorded`, `StopsEnd`,
`Awake`, `Resolves`, `FollowersEnd`, `Materializes`), since liveness under fairness is
beyond the proof system. Every safety and action property of a run is a theorem.

## 6. Disagreements with the documents

Found while modelling, at the source and the document that disagree. None is needed for
a property above, which say what the code does keep.

Work and Git:

* `finish --completed` records the result commit before, and in another transaction
  than, the submission. If the second does not happen and the worker exits or is lost,
  `task recover`, with or without `--acknowledge-lost`, refuses because a result is
  recorded (`state/recovery.rs:141`), where the guide offers it as the alternative.
* A retry of an integration that already advanced the target, and was recorded, fails
  once another integration has advanced the target further (`supervisor.rs:5160`); the
  contract says that it succeeds idempotently.
* A worktree that was observed, is damaged and therefore recorded as unknown, and is then removed
  with its registration while its branch is at its base is created anew, although
  `workspace.rs:235` speaks of not repeating observed side effects: two acts, which is
  why `NoFreshStart` promises for one. A creation cut off inside Git's own checkout is later
  observed as complete (HEAD is written before the files), where
  `docs/git-publication.md:52` says that a failed creation remains unknown.

Sessions and spawns:

* After a malformed frame the provider still classifies the frames already queued, and
  reports the job running again; the contract says such frames quarantine the session.
  That late observation is refused by the store as a transition of a quarantined session,
  and the error ends the supervisor's loop although the run was neither stopped nor idle.
* The limit on failures of a spawn is applied while no session row exists only
  (`supervisor.rs:4743`). Afterwards the workspace or the provider may fail without limit,
  and failing starts are forgiven with every restart window that passes
  (`state/supervision.rs:193`), so that an operation may be retried for ever, where
  `DESIGN.md:1724` and `DESIGN.md:1728` promise quarantine. This is why `SpawnSettles` assumes
  `Recovers`. An agent quarantined before its session gives up its place under the ceilings
  but keeps its task in progress and the project directory.

Stopping and coordination:

* A launch retried after its control had timed out is never signalled: the row of the
  control is not renewed (`state/supervision.rs:482`, `INSERT OR IGNORE`; `DESIGN.md:1754`).
  A wall-clock jump past the deadline skips SIGKILL. Sessions that are desired, unidentified
  or whose wrapper is dead keep a timed-out stop waiting for the operator: `StopsEnd`
  excepts them (`Reachable`) and promises nothing about a control that has run out.
* A recovered run publishes its secondary projects before its primary one
  (`supervisor.rs:1822`, `supervisor.rs:1893`): a death in between leaves an indexed run that
  cannot be stopped through its primary project (`DESIGN.md:1787`). A fresh run initialises its
  database before it is published, so that a start that loses a race leaves an "active" run
  nobody serves. A failed attachment leaves an operation that blocks idle shutdown and a
  later recovery until it is retried.

Agents and readers:

* A receipt that is reported while the session is unknown after a restart is refused, and
  the refusal is recorded under its operation id (`state/notifications.rs:185`,
  `docs/cli-contract.md:1264`), so the notice counts as never received. The wrapper's
  delivery loop ends with any error that is not transient, while `prime` still says that
  delivery is automatic.
* `retry_mutation` is promised to settle an unknown outcome (`docs/client-bookkeeping.md:63`),
  but a connection that is kept and out of step with its responses never does
  (`OutOfStep` in `Resolves`). Rejected mutations stay in the bridge's memory of 64.
* `events --follow` of a run that was recovered ends at the first empty page
  (`supervisor.rs:433`; `docs/cli-contract.md:1054`), the exception in `EndsComplete`. A follower
  asks again at once when the frame size cuts a page to nothing.
* `task ready` is advertised to every agent but refused without `task:read`
  (`supervisor.rs:5796`, `supervisor.rs:4288`); `task resubmit` and `spawn` are allowed to some
  and advertised to none. With `send`, of which every agent is told and which needs a grant for
  whom it addresses, and the logs of a single role, of which nobody is told, these are the
  exceptions of `AdvertisedIsAllowed`.

## 7. What is not modelled

* Rendering of `prime`, context, handoff reports and the doctor: read-only and wording.
* The command line, framing, redaction, parsing of configuration, generation of
  identifiers, terminal screens, MCP registration: conversions without state.
* Numbers of launch windows and backoff, wall-clock arithmetic of deadlines: choices and
  ages in the models.
* Workspaces shared by assignments beyond the rule that one writer has the directory;
  contents of merges beyond which commits conflict.
* Late reports that refine a lost foreground session to an exited one (`state.rs:1917`).
* Several foreground agents with inboxes of their own: they share no state of `Delivery`
  but the numbering of events.
* Failures of the file system that corrupt what was written: the store is taken to be
  atomic and durable per transaction.

What would be worth doing next: a refinement of the launch in `Spawn` by `SessionLifecycle`, and
of the sessions of `Shutdown` by the same module; both are abstractions argued in section 2 only.

---------------------------- MODULE RunCoordination ----------------------------
(***************************************************************************)
(* Who owns a project.  Every supervisor process of every run meets the    *)
(* others only through files: an exclusive lock per project, the index of  *)
(* active runs, the socket of a run, and the row of the run in its own     *)
(* database.  No two of them change together, and a process may die        *)
(* between any two steps, so each step looks again at what it relies on.   *)
(*                                                                         *)
(* Source: project.rs, supervisor/projects.rs, supervisor/run_recovery.rs, *)
(* supervisor/stop.rs and the startup and retirement in supervisor.rs.     *)
(***************************************************************************)
CONSTANTS
    Projects,     \* project identities
    Runs,         \* run ids
    Supervisors,  \* slots for supervisor processes
    RecoverOps,   \* operation ids of run.recover
    NoProject, NoRun, NoOp,
    NoFile,       \* the run has no socket file
    Dead          \* a socket file whose listener is gone

ASSUME AbsentAssumption ==
    /\ NoProject \notin Projects
    /\ NoRun \notin Runs
    /\ NoOp \notin RecoverOps
    /\ NoFile # Dead /\ {NoFile, Dead} \cap Supervisors = {}

VARIABLES
    run,       \* the row of runs and the rows of projects, in each database
    attach,    \* the project.attach operation of each run for each project
    recovery,  \* the run each run.recover operation reactivated
    index,     \* the active-run index: one entry per project
    socket,    \* the socket file of each run: who bound it
    sup        \* the supervisor processes

stored == <<run, attach, recovery>>
vars == <<stored, index, socket, sup>>

-----------------------------------------------------------------------------
(* Records *)

Row(status, home, projects) ==
    [status |-> status, home |-> home, projects |-> projects]

NoRow == Row("none", NoProject, {})

Process(stage, r, home, mode, op) ==
    [stage |-> stage, run |-> r, home |-> home, mode |-> mode, op |-> op,
     held |-> {}, todo |-> {}, project |-> NoProject, resume |-> "none",
     stopped |-> FALSE]

Nothing == Process("none", NoRun, NoProject, "none", NoOp)

Alive(s) == sup[s].stage # "none"

(* Locks are per open file: they end with the process that holds them.     *)
HeldElsewhere(s, p) == \E t \in Supervisors \ {s} : p \in sup[t].held

Foreign(r, p) == index[p] \notin {NoRun, r}

AttachStages == {"attach_lease", "attach_record", "attach_index",
                 "attach_observe"}

Listening(s) ==
    sup[s].stage \in {"publish", "serve", "attach_lease", "attach_record",
                      "attach_index", "attach_observe"}
    /\ (sup[s].stage \in AttachStages => sup[s].resume = "serve")

(* The handshake through project p: its lease, its entry, this run.        *)
Proof(s, p) == p \in sup[s].held /\ index[p] = sup[s].run

(* A client that follows the index entry of r reaches its supervisor.      *)
Reachable(r) ==
    \E s \in Supervisors : socket[r] = s /\ sup[s].run = r /\ Listening(s)

Init ==
    /\ run = [r \in Runs |-> NoRow]
    /\ attach = [r \in Runs |-> [p \in Projects |-> "none"]]
    /\ recovery = [o \in RecoverOps |-> NoRun]
    /\ index = [p \in Projects |-> NoRun]
    /\ socket = [r \in Runs |-> NoFile]
    /\ sup = [s \in Supervisors |-> Nothing]

-----------------------------------------------------------------------------
(* Clients start supervisors *)

Spawn(s, r, home, mode, op) ==
    /\ ~Alive(s)
    /\ sup' = [sup EXCEPT ![s] = Process("spawned", r, home, mode, op)]
    /\ UNCHANGED <<stored, index, socket>>

(* An id is fresh until a database or a process has it.                    *)
Fresh(r) == run[r].status = "none" /\ \A s \in Supervisors : sup[s].run # r

(* `coterie` at the project of an indexed run: from a secondary it is      *)
(* refused, and a run that answers is connected to.                        *)
StartIndexed(s, p) ==
    LET r == index[p]
    IN /\ r # NoRun
       /\ run[r].home = p
       /\ ~Reachable(r)
       /\ Spawn(s, r, p, "start", NoOp)

StartFresh(s, p) ==
    /\ index[p] = NoRun
    /\ \E r \in Runs : Fresh(r) /\ Spawn(s, r, p, "start", NoOp)

(* `coterie stop` from any attached project of a run that is not there.    *)
StopOffline(s, p) ==
    LET r == index[p]
    IN /\ r # NoRun
       /\ p \in run[r].projects
       /\ ~Reachable(r)
       /\ Spawn(s, r, run[r].home, "stop", NoOp)

Unresolved(r) == \E p \in Projects : attach[r][p] \in {"desired", "unknown"}

(* stopped_run_preflight, as far as projects go.                           *)
Recoverable(r) == run[r].status = "stopped" /\ ~Unresolved(r)

(* `coterie run list`: the databases, not the index, say which runs hold   *)
(* a project.                                                              *)
Retained(p) == {r \in Runs : run[r].status # "none" /\ p \in run[r].projects}

(* A retry of a recovery that finds its run stopped again only answers.    *)
RecoverRun(s, p, r, o) ==
    /\ r \in Retained(p)
    /\ recovery[o] \in {NoRun, r}
    /\ IF recovery[o] = r
       THEN run[r].status # "stopped" /\ ~Reachable(r)
       ELSE Recoverable(r)
    /\ ~Foreign(r, run[r].home)
    /\ Spawn(s, r, run[r].home, "recover", o)

-----------------------------------------------------------------------------
(* A supervisor comes up *)

Enter(s, stage) == sup' = [sup EXCEPT ![s].stage = stage]

(* The process ends: locks go with it, a bound socket file stays behind.   *)
Quit(s) ==
    /\ sup' = [sup EXCEPT ![s] = Nothing]
    /\ socket' = [r \in Runs |-> IF socket[r] = s THEN Dead ELSE socket[r]]
    /\ UNCHANGED <<stored, index>>

TryAcquire(s) ==
    /\ sup[s].stage = "spawned"
    /\ ~HeldElsewhere(s, sup[s].home)
    /\ sup' = [sup EXCEPT ![s].stage = "store", ![s].held = {sup[s].home}]
    /\ UNCHANGED <<stored, index, socket>>

LeaseHeld(s) ==
    /\ sup[s].stage = "spawned"
    /\ HeldElsewhere(s, sup[s].home)
    /\ Quit(s)

Restoring(s, row) ==
    LET stopped == row.status = "stopped"
    IN sup' = [sup EXCEPT
                 ![s].stage = "restore",
                 ![s].stopped = stopped,
                 ![s].todo = {p \in row.projects :
                                 stopped => index[p] = sup[s].run}]

InitializeStore(s) ==
    LET r == sup[s].run
        row == IF run[r].status = "none"
               THEN Row("active", sup[s].home, {sup[s].home})
               ELSE run[r]
    IN /\ sup[s].stage = "store"
       /\ sup[s].mode = "start"
       /\ run' = [run EXCEPT ![r] = row]
       /\ Restoring(s, row)
       /\ UNCHANGED <<attach, recovery, index, socket>>

(* An offline stop never serves a run its index does not name.             *)
OpenToStop(s) ==
    LET r == sup[s].run
    IN /\ sup[s].stage = "store"
       /\ sup[s].mode = "stop"
       /\ IF index[sup[s].home] = r
          THEN /\ Restoring(s, run[r])
               /\ UNCHANGED <<stored, index, socket>>
          ELSE Quit(s)

OpenToRecover(s) ==
    /\ sup[s].stage = "store"
    /\ sup[s].mode = "recover"
    /\ sup' = [sup EXCEPT ![s].stage = "claim",
                          ![s].todo = run[sup[s].run].projects]
    /\ UNCHANGED <<stored, index, socket>>

(* The whole set of projects is owned before anything is published.        *)
Claim(s, p) ==
    /\ sup[s].stage = "claim"
    /\ p \in sup[s].todo
    /\ IF Foreign(sup[s].run, p) \/ HeldElsewhere(s, p)
       THEN Quit(s)
       ELSE /\ sup' = [sup EXCEPT ![s].held = @ \cup {p},
                                  ![s].todo = @ \ {p}]
            /\ UNCHANGED <<stored, index, socket>>

MayReactivate(r, o) == Recoverable(r) /\ recovery[o] = NoRun

Reactivate(s) ==
    LET r == sup[s].run
        o == sup[s].op
    IN /\ sup[s].stage = "claim"
       /\ sup[s].todo = {}
       /\ \/ /\ MayReactivate(r, o)
             /\ run' = [run EXCEPT ![r].status = "active"]
             /\ recovery' = [recovery EXCEPT ![o] = r]
             /\ Restoring(s, [run[r] EXCEPT !.status = "active"])
             /\ UNCHANGED <<attach, index, socket>>
          \/ /\ ~MayReactivate(r, o)
             /\ recovery[o] = r
             /\ Restoring(s, run[r])
             /\ UNCHANGED <<stored, index, socket>>
          \/ /\ ~MayReactivate(r, o)
             /\ recovery[o] # r
             /\ Quit(s)

MayOwn(s, p) ==
    \/ p \in sup[s].held
    \/ ~HeldElsewhere(s, p) /\ ~Foreign(sup[s].run, p)

Own(s, p) == [sup EXCEPT ![s].held = @ \cup {p}]

MayPublish(s, p) == p \in sup[s].held /\ ~Foreign(sup[s].run, p)

Publish(r, p) == index' = [index EXCEPT ![p] = r]

(* A run that is to serve owns and publishes its secondaries; one that is  *)
(* stopped owns what its index still names, to retire it.                  *)
RestoreLease(s, p) ==
    /\ sup[s].stage = "restore"
    /\ p \in sup[s].todo \ sup[s].held
    /\ IF MayOwn(s, p)
       THEN sup' = Own(s, p) /\ UNCHANGED <<stored, index, socket>>
       ELSE Quit(s)

RestoreIndex(s, p) ==
    /\ sup[s].stage = "restore"
    /\ p \in sup[s].todo \cap sup[s].held
    /\ IF sup[s].stopped \/ p = sup[s].home \/ index[p] = sup[s].run
       THEN /\ sup' = [sup EXCEPT ![s].todo = @ \ {p}]
            /\ UNCHANGED <<stored, index, socket>>
       ELSE IF ~MayPublish(s, p)
       THEN Quit(s)
       ELSE /\ sup' = [sup EXCEPT ![s].todo = @ \ {p}]
            /\ Publish(sup[s].run, p)
            /\ UNCHANGED <<stored, socket>>

Interrupted(r) == {p \in Projects : attach[r][p] = "desired"}

Restored(s) ==
    /\ sup[s].stage = "restore"
    /\ sup[s].todo = {}
    /\ sup' = [sup EXCEPT
                 ![s].stage = IF sup[s].stopped THEN "socket"
                              ELSE "attachments",
                 ![s].todo = IF sup[s].stopped THEN {}
                             ELSE Interrupted(sup[s].run)]
    /\ UNCHANGED <<stored, index, socket>>

Completing(s, p, resume) ==
    sup' = [sup EXCEPT ![s].stage = "attach_lease",
                       ![s].project = p,
                       ![s].resume = resume,
                       ![s].todo = @ \ {p}]

CompleteInterrupted(s, p) ==
    /\ sup[s].stage = "attachments"
    /\ p \in sup[s].todo
    /\ Completing(s, p, "attachments")
    /\ UNCHANGED <<stored, index, socket>>

NoneInterrupted(s) ==
    /\ sup[s].stage = "attachments"
    /\ sup[s].todo = {}
    /\ Enter(s, "socket")
    /\ UNCHANGED <<stored, index, socket>>

(* A probe of the socket is not refused.                                   *)
Answers(r) == socket[r] \in Supervisors /\ Listening(socket[r])

(* A socket is removed only when nobody accepts behind it.                 *)
RemoveStaleSocket(s) ==
    LET r == sup[s].run
    IN /\ sup[s].stage = "socket"
       /\ IF Answers(r)
          THEN Quit(s)
          ELSE /\ socket' = [socket EXCEPT ![r] = NoFile]
               /\ sup' = [sup EXCEPT
                            ![s].stage = IF sup[s].stopped THEN "retire"
                                         ELSE IF sup[s].mode = "stop"
                                         THEN "begin_stop" ELSE "bind",
                            ![s].todo = IF sup[s].stopped THEN sup[s].held
                                        ELSE {}]
               /\ UNCHANGED <<stored, index>>

BeginOfflineStop(s) ==
    /\ sup[s].stage = "begin_stop"
    /\ run' = [run EXCEPT ![sup[s].run].status = "stopping"]
    /\ Enter(s, "bind")
    /\ UNCHANGED <<attach, recovery, index, socket>>

Bind(s) ==
    /\ sup[s].stage = "bind"
    /\ IF socket[sup[s].run] = NoFile
       THEN /\ socket' = [socket EXCEPT ![sup[s].run] = s]
            /\ Enter(s, "listen")
            /\ UNCHANGED <<stored, index>>
       ELSE Quit(s)

Listen(s) ==
    /\ sup[s].stage = "listen"
    /\ IF socket[sup[s].run] = s
       THEN /\ Enter(s, "publish")
            /\ UNCHANGED <<stored, index, socket>>
       ELSE Quit(s)

PublishPrimary(s) ==
    /\ sup[s].stage = "publish"
    /\ IF index[sup[s].home] # sup[s].run /\ ~MayPublish(s, sup[s].home)
       THEN Quit(s)
       ELSE /\ Publish(sup[s].run, sup[s].home)
            /\ Enter(s, "serve")
            /\ UNCHANGED <<stored, socket>>

-----------------------------------------------------------------------------
(* A supervisor serves: attachments and stops *)

Attach(s, p) ==
    LET r == sup[s].run
    IN /\ sup[s].stage = "serve"
       /\ run[r].status = "active"
       /\ p \notin run[r].projects \/ attach[r][p] = "unknown"
       /\ attach' = IF attach[r][p] = "none"
                    THEN [attach EXCEPT ![r][p] = "desired"]
                    ELSE attach
       /\ Completing(s, p, "serve")
       /\ UNCHANGED <<run, recovery, index, socket>>

AttachFailed(s) ==
    /\ attach' = [attach EXCEPT ![sup[s].run][sup[s].project] = "unknown"]
    /\ Enter(s, sup[s].resume)

AttachLease(s) ==
    LET p == sup[s].project
    IN /\ sup[s].stage = "attach_lease"
       /\ IF MayOwn(s, p)
          THEN /\ sup' = [Own(s, p) EXCEPT ![s].stage = "attach_record"]
               /\ attach' = attach
          ELSE AttachFailed(s)
       /\ UNCHANGED <<run, recovery, index, socket>>

AttachRecord(s) ==
    /\ sup[s].stage = "attach_record"
    /\ run' = [run EXCEPT ![sup[s].run].projects = @ \cup {sup[s].project}]
    /\ Enter(s, "attach_index")
    /\ UNCHANGED <<attach, recovery, index, socket>>

AttachIndex(s) ==
    /\ sup[s].stage = "attach_index"
    /\ IF index[sup[s].project] # sup[s].run /\ ~MayPublish(s, sup[s].project)
       THEN AttachFailed(s) /\ index' = index
       ELSE /\ Publish(sup[s].run, sup[s].project)
            /\ Enter(s, "attach_observe")
            /\ attach' = attach
    /\ UNCHANGED <<run, recovery, socket>>

AttachObserve(s) ==
    /\ sup[s].stage = "attach_observe"
    /\ attach' = [attach EXCEPT ![sup[s].run][sup[s].project] = "observed"]
    /\ Enter(s, sup[s].resume)
    /\ UNCHANGED <<run, recovery, index, socket>>

(* A client or the idle timer asks for the stop.                           *)
RequestStop(s) ==
    /\ sup[s].stage = "serve"
    /\ run[sup[s].run].status = "active"
    /\ run' = [run EXCEPT ![sup[s].run].status = "stopping"]
    /\ UNCHANGED <<attach, recovery, index, socket, sup>>

(* Its sessions are gone: the run is stopped, and the listener is dropped. *)
PersistStop(s) ==
    /\ sup[s].stage = "serve"
    /\ run[sup[s].run].status = "stopping"
    /\ run' = [run EXCEPT ![sup[s].run].status = "stopped"]
    /\ Enter(s, "close")
    /\ UNCHANGED <<attach, recovery, index, socket>>

-----------------------------------------------------------------------------
(* A supervisor retires *)

(* Only the file this supervisor bound is removed: anything else keeps the *)
(* index as it is.                                                         *)
RemoveOwnedSocket(s) ==
    LET r == sup[s].run
    IN /\ sup[s].stage = "close"
       /\ IF socket[r] \in {s, NoFile}
          THEN /\ socket' = [socket EXCEPT ![r] = NoFile]
               /\ sup' = [sup EXCEPT ![s].stage = "retire",
                                     ![s].todo = sup[s].held]
               /\ UNCHANGED <<stored, index>>
          ELSE Quit(s)

(* Slip: the indexes are retired in the order of their keys.               *)
RetiresAny(s, p) == p \in sup[s].todo

Retires(s, p) ==
    /\ p \in sup[s].todo
    /\ p = sup[s].home => sup[s].todo = {p}

(* Slip: whatever the entry names, it is removed.                          *)
RetiredAnyEntry(s, entry) == NoRun

(* The entry of a newer run stays.                                         *)
RetiredEntry(s, entry) == IF entry = sup[s].run THEN NoRun ELSE entry

RetireIndex(s, p) ==
    /\ sup[s].stage = "retire"
    /\ Retires(s, p)
    /\ IF p \in sup[s].held
       THEN /\ index' = [index EXCEPT ![p] = RetiredEntry(s, @)]
            /\ sup' = [sup EXCEPT ![s].todo = @ \ {p}]
            /\ UNCHANGED <<stored, socket>>
       ELSE Quit(s)

(* What a stopping client waits for, from whichever project it asked.      *)
Retired(r) ==
    socket[r] = NoFile /\ \A p \in run[r].projects : index[p] # r

ReleaseLeases(s) ==
    /\ sup[s].stage = "retire"
    /\ sup[s].todo = {}
    /\ Quit(s)

(* It dies, or a step of it fails with an error it cannot go on from.      *)
Crash(s) == Alive(s) /\ Quit(s)

-----------------------------------------------------------------------------

Clients ==
    \E s \in Supervisors :
        \/ \E p \in Projects :
              StartIndexed(s, p) \/ StartFresh(s, p) \/ StopOffline(s, p)
        \/ \E p \in Projects, r \in Runs, o \in RecoverOps :
              RecoverRun(s, p, r, o)
        \/ \E p \in Projects : Attach(s, p)
        \/ RequestStop(s)

Startup(s) ==
    \/ TryAcquire(s) \/ LeaseHeld(s)
    \/ InitializeStore(s) \/ OpenToStop(s) \/ OpenToRecover(s)
    \/ Reactivate(s)
    \/ \E p \in Projects :
          Claim(s, p) \/ RestoreLease(s, p) \/ RestoreIndex(s, p)
          \/ CompleteInterrupted(s, p)
    \/ Restored(s) \/ NoneInterrupted(s)
    \/ RemoveStaleSocket(s) \/ BeginOfflineStop(s)
    \/ Bind(s) \/ Listen(s) \/ PublishPrimary(s)

Attaching(s) ==
    AttachLease(s) \/ AttachRecord(s) \/ AttachIndex(s) \/ AttachObserve(s)

Retiring(s) ==
    \/ PersistStop(s) \/ RemoveOwnedSocket(s) \/ ReleaseLeases(s)
    \/ \E p \in Projects : RetireIndex(s, p)

Next ==
    \/ Clients
    \/ \E s \in Supervisors :
          Startup(s) \/ Attaching(s) \/ Retiring(s) \/ Crash(s)

(* A supervisor's thread never sleeps on another: it goes on until it dies.*)
Spec == Init /\ [][Next]_vars /\ \A s \in Supervisors :
            WF_vars(Startup(s) \/ Attaching(s) \/ Retiring(s))

-----------------------------------------------------------------------------
(* Properties *)

Stages == {"none", "spawned", "store", "claim", "restore", "attachments",
           "socket", "begin_stop", "bind", "listen", "publish", "serve",
           "close", "retire"} \cup AttachStages

RowType == [status : {"none", "active", "stopping", "stopped"},
            home : Projects \cup {NoProject},
            projects : SUBSET Projects]

ProcessType ==
    [stage : Stages, run : Runs \cup {NoRun}, home : Projects \cup {NoProject},
     mode : {"none", "start", "stop", "recover"},
     op : RecoverOps \cup {NoOp},
     held : SUBSET Projects, todo : SUBSET Projects,
     project : Projects \cup {NoProject},
     resume : {"none", "attachments", "serve"}, stopped : BOOLEAN]

(* Every variable keeps its shape: tables of the run's database, project   *)
(* index, sockets and supervisor processes (project.rs, projects.rs).      *)
TypeOK ==
    /\ run \in [Runs -> RowType]
    /\ attach \in [Runs -> [Projects -> {"none", "desired", "unknown",
                                         "observed"}]]
    /\ recovery \in [RecoverOps -> Runs \cup {NoRun}]
    /\ index \in [Projects -> Runs \cup {NoRun}]
    /\ socket \in [Runs -> Supervisors \cup {NoFile, Dead}]
    /\ sup \in [Supervisors -> ProcessType]

(* Locks exclude: a project has one owner among all the processes that     *)
(* share nothing but its lock file (ProjectLease::try_acquire).            *)
OneOwner ==
    \A s, t \in Supervisors : s # t => sup[s].held \cap sup[t].held = {}

Past == {"restore", "attachments", "socket", "begin_stop", "bind", "listen",
         "publish", "serve", "close", "retire"} \cup AttachStages

Going == Past \ {"close", "retire"}

Published(s) ==
    \/ sup[s].stage \in {"serve", "close"}
    \/ sup[s].stage \in AttachStages /\ sup[s].resume = "serve"

Bound(s) == sup[s].stage \in {"listen", "publish"} \/ Published(s)

(* The supervisor of a run owns every project of it while it comes up and  *)
(* serves, also across recovery and in an attachment (AttachedProjects).   *)
ServesWhatItOwns ==
    \A s \in Supervisors :
        sup[s].stage \in Going \ {"restore"} /\ ~sup[s].stopped =>
            run[sup[s].run].projects \subseteq sup[s].held

(* What the index promises exists: an entry names a run whose database     *)
(* holds both the run and the project (initialize_store before publish).   *)
IndexBacked ==
    \A p \in Projects :
        index[p] # NoRun =>
            /\ run[index[p]].status # "none"
            /\ p \in run[index[p]].projects

(* A serving supervisor can be reached from each of its projects: nobody   *)
(* removed its socket or took an index entry away (remove_stale_socket,    *)
(* ActiveRunIndex::publish, retire).                                       *)
ServingReachable ==
    \A s \in Supervisors :
        sup[s].stage = "serve" =>
            /\ socket[sup[s].run] = s
            /\ \A p \in run[sup[s].run].projects : Proof(s, p)

(* A stopped run that still holds a secondary project is found from its    *)
(* primary, whatever crash interrupted retirement (AttachedProjects::      *)
(* retire: secondaries first).                                             *)
StoppedEntryPoint ==
    \A p \in Projects :
        LET r == index[p]
        IN r # NoRun /\ run[r].status = "stopped" => index[run[r].home] = r

(* A supervisor that releases its leases leaves nothing of its run behind: *)
(* what a stopping client waits for is final (await_retirement).           *)
WholeRunRetired ==
    \A s \in Supervisors :
        sup[s].stage = "retire" /\ sup[s].todo = {} => Retired(sup[s].run)

(* An index entry goes only after its run stopped and by a supervisor of   *)
(* that run: none is replaced, none is taken by another run                *)
(* (ActiveRunIndex::publish and retire).                                   *)
EntriesKept ==
    [][\A p \in Projects :
          index[p] # NoRun /\ index'[p] # index[p] =>
              /\ index'[p] = NoRun
              /\ \E s \in Supervisors :
                    sup[s].run = index[p] /\ p \in sup[s].held
              /\ run[index[p]].status = "stopped"]_vars

(* A run comes back only by a recovery not used before, and only when no   *)
(* other run holds or is indexed for any of its projects                   *)
(* (acquire_for_reactivation, run_recovery::reactivate).                   *)
ReactivatedAlone ==
    [][\A r \in Runs :
          run[r].status = "stopped" /\ run'[r].status # "stopped" =>
              /\ \E o \in RecoverOps : recovery[o] = NoRun /\ recovery'[o] = r
              /\ \A p \in run[r].projects :
                    /\ ~Foreign(r, p)
                    /\ \A s \in Supervisors :
                          p \in sup[s].held => sup[s].run = r]_vars

(* The two together: what a run holds in the index, and when it gets it    *)
(* back, is never decided by another run.                                  *)
OwnershipMoves == EntriesKept /\ ReactivatedAlone

(* A supervisor never waits for another one: it ends up serving or gone,   *)
(* also when two runs attach each other's project or start on the same one *)
(* (ProjectLease::try_acquire; DESIGN.md:688, fail visibly rather than     *)
(* deadlock).                                                              *)
EachSettles ==
    \A s \in Supervisors :
        (sup[s].stage \notin {"none", "serve"})
            ~> (sup[s].stage \in {"none", "serve"})

-----------------------------------------------------------------------------
(* The inductive invariant *)

RowOK ==
    \A r \in Runs :
        IF run[r].status = "none" THEN run[r] = NoRow
        ELSE run[r].home \in run[r].projects

ProcessOK ==
    \A s \in Supervisors :
        IF sup[s].stage = "none" THEN sup[s] = Nothing
        ELSE /\ sup[s].run \in Runs
             /\ sup[s].home \in Projects
             /\ sup[s].stage # "spawned" => sup[s].home \in sup[s].held
             /\ sup[s].stage = "spawned" => sup[s].held = {}
             /\ sup[s].stopped => sup[s].stage \in {"restore", "socket",
                                                    "retire"}
             /\ sup[s].stage = "claim" => sup[s].mode = "recover"
             /\ sup[s].mode = "recover" => sup[s].op \in RecoverOps

HomeOK ==
    \A s \in Supervisors :
        /\ sup[s].stage # "none" /\ run[sup[s].run].status # "none" =>
              sup[s].home = run[sup[s].run].home
        /\ sup[s].stage \in Past \cup {"claim"} \/ sup[s].mode \in {"stop", "recover"}
              => run[sup[s].run].status # "none"
        /\ \A t \in Supervisors :
              sup[s].run = sup[t].run => sup[s].home = sup[t].home

StatusOK ==
    \A s \in Supervisors :
        sup[s].stage \in Past =>
            (run[sup[s].run].status = "stopped"
             <=> sup[s].stopped \/ sup[s].stage \in {"close", "retire"})

HeldNotForeign ==
    \A s \in Supervisors :
        \A p \in sup[s].held \ {sup[s].home} : ~Foreign(sup[s].run, p)

Current(s) == sup[s].project

AttachOK ==
    /\ \A r \in Runs, p \in Projects :
          attach[r][p] # "none" =>
              run[r].status # "none" /\ p # run[r].home
    /\ \A s \in Supervisors :
          sup[s].stage \in AttachStages =>
              /\ Current(s) \in Projects
              /\ Current(s) # sup[s].home
              /\ sup[s].resume \in {"attachments", "serve"}
              /\ attach[sup[s].run][Current(s)] # "none"
              /\ sup[s].stage # "attach_lease" => Current(s) \in sup[s].held
              /\ sup[s].stage \in {"attach_index", "attach_observe"} =>
                    Current(s) \in run[sup[s].run].projects
    /\ \A s \in Supervisors :
          \/ sup[s].stage = "attachments"
          \/ sup[s].stage \in AttachStages /\ sup[s].resume = "attachments"
          => \A p \in sup[s].todo : attach[sup[s].run][p] # "none"

RestoreOK ==
    \A s \in Supervisors :
        LET r == sup[s].run
        IN /\ sup[s].stage = "claim" =>
                 \A p \in run[r].projects \ sup[s].todo :
                     p \in sup[s].held /\ ~Foreign(r, p)
           /\ sup[s].stage = "restore" => sup[s].todo \subseteq run[r].projects
           /\ sup[s].stage = "restore" /\ sup[s].stopped =>
                 \A p \in Projects : index[p] = r =>
                     p \in sup[s].held \cup sup[s].todo
           /\ sup[s].stage = "restore" /\ ~sup[s].stopped =>
                 \A p \in run[r].projects \ sup[s].todo :
                     /\ p \in sup[s].held
                     /\ p # sup[s].home => index[p] = r
           /\ sup[s].stage = "socket" /\ sup[s].stopped =>
                 \A p \in Projects : index[p] = r => p \in sup[s].held

SecondariesPublished ==
    \A s \in Supervisors :
        sup[s].stage \in (Going \ {"restore"}) \cup {"close"} /\ ~sup[s].stopped =>
            \A p \in run[sup[s].run].projects \ {sup[s].home} :
                \/ index[p] = sup[s].run
                \/ sup[s].stage = "attach_index" /\ p = Current(s)

PublishedOK ==
    \A s \in Supervisors :
        /\ Published(s) => index[sup[s].home] = sup[s].run
        /\ sup[s].stage = "close" =>
              run[sup[s].run].projects \subseteq sup[s].held

SocketOK ==
    \A s \in Supervisors :
        /\ Bound(s) => socket[sup[s].run] = s
        /\ \A r \in Runs : socket[r] = s => Bound(s) /\ sup[s].run = r
        /\ sup[s].stage \in {"begin_stop", "bind", "retire"} =>
              socket[sup[s].run] = NoFile

RetireOK ==
    \A s \in Supervisors :
        sup[s].stage = "retire" =>
            \A p \in Projects : index[p] = sup[s].run => p \in sup[s].todo

(* What every step keeps, and what makes the properties above follow:      *)
(* files, rows and processes agree as the startup, attachment and          *)
(* retirement of supervisor.rs and projects.rs leave them.                 *)
IInv ==
    /\ TypeOK /\ OneOwner /\ RowOK /\ ProcessOK /\ HomeOK /\ StatusOK
    /\ HeldNotForeign /\ AttachOK /\ RestoreOK /\ SecondariesPublished
    /\ ServesWhatItOwns /\ PublishedOK /\ SocketOK /\ RetireOK
    /\ IndexBacked /\ StoppedEntryPoint
    /\ ServingReachable /\ WholeRunRetired
=============================================================================

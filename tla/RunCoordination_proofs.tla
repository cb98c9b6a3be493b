------------------------ MODULE RunCoordination_proofs ------------------------
(***************************************************************************)
(* Proofs about RunCoordination: for any projects, runs, supervisors and   *)
(* recoveries, what the locks, the index, the sockets and the rows of runs *)
(* promise each other is kept by every step of every supervisor, and what  *)
(* a run owns is never decided by another run.                             *)
(*                                                                         *)
(* The argument is one of rely and guarantee.  Local(s) is what supervisor *)
(* s relies on; Within(s) is all that a step of s may touch.  Each action  *)
(* is shown to stay Within(s) and to establish Local(s) again; two         *)
(* supervisors past their first lock never share a run, so a step within   *)
(* s leaves what another supervisor relies on as it is.                    *)
(*                                                                         *)
(* At the end, what a run is configured with, for all layers and grants    *)
(* (Policy).                                                               *)
(***************************************************************************)
EXTENDS RunCoordination, Policy, TLAPS

-----------------------------------------------------------------------------
(* The invariant by supervisor                                              *)

RowPart(s) ==
    IF sup[s].stage = "none" THEN sup[s] = Nothing
    ELSE /\ sup[s].run \in Runs
         /\ sup[s].home \in Projects
         /\ sup[s].stage # "spawned" => sup[s].home \in sup[s].held
         /\ sup[s].stage = "spawned" => sup[s].held = {}
         /\ sup[s].stopped => sup[s].stage \in {"restore", "socket", "retire"}
         /\ sup[s].stage = "claim" => sup[s].mode = "recover"
         /\ sup[s].mode = "recover" => sup[s].op \in RecoverOps

HomePart(s) ==
    /\ sup[s].stage # "none" /\ run[sup[s].run].status # "none" =>
          sup[s].home = run[sup[s].run].home
    /\ sup[s].stage \in Past \cup {"claim"}
            \/ sup[s].mode \in {"stop", "recover"}
          => run[sup[s].run].status # "none"

StatusPart(s) ==
    sup[s].stage \in Past =>
        (run[sup[s].run].status = "stopped"
         <=> sup[s].stopped \/ sup[s].stage \in {"close", "retire"})

ForeignPart(s) ==
    \A p \in sup[s].held \ {sup[s].home} : ~Foreign(sup[s].run, p)

AttachPart(s) ==
    /\ sup[s].stage \in AttachStages =>
          /\ Current(s) \in Projects
          /\ Current(s) # sup[s].home
          /\ sup[s].resume \in {"attachments", "serve"}
          /\ attach[sup[s].run][Current(s)] # "none"
          /\ sup[s].stage # "attach_lease" => Current(s) \in sup[s].held
          /\ sup[s].stage \in {"attach_index", "attach_observe"} =>
                Current(s) \in run[sup[s].run].projects
    /\ \/ sup[s].stage = "attachments"
       \/ sup[s].stage \in AttachStages /\ sup[s].resume = "attachments"
       => \A p \in sup[s].todo : attach[sup[s].run][p] # "none"

RestorePart(s) ==
    LET r == sup[s].run
    IN /\ sup[s].stage = "claim" =>
             \A p \in run[r].projects \ sup[s].todo :
                 p \in sup[s].held /\ ~Foreign(r, p)
       /\ sup[s].stage = "restore" => sup[s].todo \subseteq run[r].projects
       /\ sup[s].stage = "restore" /\ sup[s].stopped =>
             \A p \in Projects : index[p] = r =>
                 p \in sup[s].held \cup sup[s].todo
       /\ sup[s].stage = "restore" /\ ~sup[s].stopped =>
             \A p \in run[r].projects \ sup[s].todo :
                 /\ p \in sup[s].held
                 /\ p # sup[s].home => index[p] = r
       /\ sup[s].stage = "socket" /\ sup[s].stopped =>
             \A p \in Projects : index[p] = r => p \in sup[s].held

ServesPart(s) ==
    sup[s].stage \in Going \ {"restore"} /\ ~sup[s].stopped =>
        run[sup[s].run].projects \subseteq sup[s].held

SecondaryPart(s) ==
    sup[s].stage \in (Going \ {"restore"}) \cup {"close"} /\ ~sup[s].stopped =>
        \A p \in run[sup[s].run].projects \ {sup[s].home} :
            \/ index[p] = sup[s].run
            \/ sup[s].stage = "attach_index" /\ p = Current(s)

PublishPart(s) ==
    /\ Published(s) => index[sup[s].home] = sup[s].run
    /\ sup[s].stage = "close" =>
          run[sup[s].run].projects \subseteq sup[s].held

SocketPart(s) ==
    /\ Bound(s) => socket[sup[s].run] = s
    /\ sup[s].stage \in {"begin_stop", "bind", "retire"} =>
          socket[sup[s].run] = NoFile

RetirePart(s) ==
    sup[s].stage = "retire" =>
        \A p \in Projects : index[p] = sup[s].run => p \in sup[s].todo

(* What supervisor s relies on.                                             *)
Local(s) ==
    /\ RowPart(s) /\ HomePart(s) /\ StatusPart(s) /\ ForeignPart(s)
    /\ AttachPart(s) /\ RestorePart(s) /\ ServesPart(s) /\ SecondaryPart(s)
    /\ PublishPart(s) /\ SocketPart(s) /\ RetirePart(s)

SameHome ==
    \A s, t \in Supervisors :
        sup[s].run = sup[t].run => sup[s].home = sup[t].home

AttachRows ==
    \A r \in Runs, p \in Projects :
        attach[r][p] # "none" => run[r].status # "none" /\ p # run[r].home

Binders ==
    \A s \in Supervisors, r \in Runs :
        socket[r] = s => Bound(s) /\ sup[s].run = r

(* What no supervisor has to itself.                                        *)
Shared ==
    /\ OneOwner /\ RowOK /\ SameHome /\ AttachRows /\ Binders
    /\ IndexBacked /\ StoppedEntryPoint

(* The invariant follows from its parts: a serving supervisor is reachable  *)
(* and a retired run is whole because of what their supervisors rely on.    *)
LEMMA FromParts ==
    TypeOK /\ Shared /\ (\A s \in Supervisors : Local(s)) => IInv
<1> SUFFICES ASSUME TypeOK, Shared, \A s \in Supervisors : Local(s)
             PROVE  IInv
    OBVIOUS
<1>1. OneOwner /\ RowOK /\ IndexBacked /\ StoppedEntryPoint
  BY DEF Shared
<1>2. ProcessOK
  BY DEF Local, RowPart, ProcessOK
<1>3. HomeOK
  BY DEF Shared, SameHome, Local, HomePart, HomeOK
<1>4. StatusOK /\ HeldNotForeign
  BY DEF Local, StatusPart, ForeignPart, StatusOK, HeldNotForeign
<1>5. AttachOK
  BY DEF Shared, AttachRows, Local, AttachPart, AttachOK
<1>6. RestoreOK
  BY DEF Local, RestorePart, RestoreOK
<1>7. SecondariesPublished /\ ServesWhatItOwns
  BY DEF Local, SecondaryPart, ServesPart, SecondariesPublished,
     ServesWhatItOwns
<1>8. PublishedOK
  BY DEF Local, PublishPart, PublishedOK
<1>9. SocketOK
  BY DEF Shared, Binders, Local, SocketPart, SocketOK
<1>10. RetireOK
  BY DEF Local, RetirePart, RetireOK
<1>11. ServingReachable
  <2> SUFFICES ASSUME NEW s \in Supervisors, sup[s].stage = "serve"
               PROVE  /\ socket[sup[s].run] = s
                      /\ \A p \in run[sup[s].run].projects : Proof(s, p)
    BY DEF ServingReachable
  <2>1. ~sup[s].stopped
    BY <1>2 DEF ProcessOK
  <2>2. socket[sup[s].run] = s /\ index[sup[s].home] = sup[s].run
    BY <1>8, <1>9 DEF PublishedOK, SocketOK, Published, Bound
  <2>3. \A p \in run[sup[s].run].projects :
            /\ p \in sup[s].held
            /\ p # sup[s].home => index[p] = sup[s].run
    BY <1>7, <2>1
       DEF ServesWhatItOwns, SecondariesPublished, Going, Past
  <2> QED BY <2>2, <2>3 DEF Proof
<1>12. WholeRunRetired
  <2> SUFFICES ASSUME NEW s \in Supervisors, sup[s].stage = "retire",
                      sup[s].todo = {}
               PROVE  Retired(sup[s].run)
    BY DEF WholeRunRetired
  <2>1. sup[s].run \in Runs
    BY <1>2 DEF ProcessOK
  <2>2. run[sup[s].run].projects \subseteq Projects
    BY <2>1 DEF TypeOK, RowType
  <2> QED BY <1>9, <1>10, <2>2 DEF SocketOK, RetireOK, Retired
<1> QED
  BY <1>1, <1>2, <1>3, <1>4, <1>5, <1>6, <1>7, <1>8, <1>9, <1>10, <1>11,
     <1>12 DEF IInv

(* The same of the next state.                                             *)
LEMMA FromPartsNext ==
    TypeOK' /\ Shared' /\ (\A s \in Supervisors : Local(s))' => IInv'
  BY FromParts, PTL

(* The invariant is made of those parts.                                    *)
LEMMA ToParts ==
    ASSUME IInv
    PROVE  /\ TypeOK /\ Shared
           /\ \A s \in Supervisors : Local(s)
<1>1. TypeOK /\ Shared
  <2>1. SameHome /\ AttachRows /\ Binders
    BY DEF IInv, HomeOK, AttachOK, SocketOK, SameHome, AttachRows, Binders
  <2> QED BY <2>1 DEF IInv, Shared
<1>2. ASSUME NEW s \in Supervisors PROVE Local(s)
  <2>1. RowPart(s) /\ HomePart(s) /\ StatusPart(s) /\ ForeignPart(s)
    BY DEF IInv, ProcessOK, HomeOK, StatusOK, HeldNotForeign, RowPart,
       HomePart, StatusPart, ForeignPart
  <2>2. AttachPart(s) /\ RestorePart(s)
    BY DEF IInv, AttachOK, RestoreOK, AttachPart, RestorePart
  <2>3. ServesPart(s) /\ SecondaryPart(s) /\ PublishPart(s)
    BY DEF IInv, ServesWhatItOwns, SecondariesPublished, PublishedOK,
       ServesPart, SecondaryPart, PublishPart
  <2>4. SocketPart(s) /\ RetirePart(s)
    BY DEF IInv, SocketOK, RetireOK, SocketPart, RetirePart
  <2> QED BY <2>1, <2>2, <2>3, <2>4 DEF Local
<1> QED BY <1>1, <1>2

-----------------------------------------------------------------------------
(* What a step of a supervisor may touch                                    *)

(* Its own process, and a lock that nobody holds.                           *)
ProcessMoves(s) ==
    /\ \A t \in Supervisors : t # s => sup'[t] = sup[t]
    /\ \A p \in sup'[s].held : p \in sup[s].held \/ ~HeldElsewhere(s, p)
    /\ \/ sup'[s] = Nothing
       \/ sup'[s].run = sup[s].run /\ sup'[s].home = sup[s].home

(* Nothing before its first lock, and never the rows of another run.        *)
OthersKept(s) ==
    /\ sup[s].stage = "spawned" =>
          run' = run /\ attach' = attach /\ index' = index /\ socket' = socket
    /\ \A r \in Runs : r # sup[s].run =>
          run'[r] = run[r] /\ attach'[r] = attach[r] /\ socket'[r] = socket[r]

(* An entry under its lock: a free one for its run, or its own once the run *)
(* is stopped, the primary's last.                                          *)
IndexMoves(s) ==
    LET r == sup[s].run
    IN \A p \in Projects :
        \/ index'[p] = index[p]
        \/ /\ p \in sup[s].held /\ index[p] = NoRun /\ index'[p] = r
           /\ run[r].status \notin {"none", "stopped"}
           /\ p \in run[r].projects
           /\ run' = run
        \/ /\ p \in sup[s].held /\ index[p] = r /\ index'[p] = NoRun
           /\ run[r].status = "stopped"
           /\ run' = run
           /\ p = run[r].home => \A q \in Projects : index'[q] # r

(* Its run: founded at its home, then stopped once its entries stand, and   *)
(* active again by an unused recovery of a run whose projects it holds.     *)
RunMoves(s) ==
    LET r == sup[s].run
    IN \/ run' = run
       \/ /\ index' = index
          /\ run'[r].status # "none"
          /\ run'[r].home \in run'[r].projects
          /\ run[r].status # "none" =>
                /\ run'[r].home = run[r].home
                /\ run[r].projects \subseteq run'[r].projects
          /\ run[r].status = "none" =>
                run'[r].status # "stopped" /\ run'[r].home = sup[s].home
          /\ run'[r].status = "stopped" =>
                run[r].status = "stopped" \/ index[run[r].home] = r
          /\ run[r].status = "stopped" /\ run'[r].status # "stopped" =>
                /\ \E o \in RecoverOps : recovery[o] = NoRun /\ recovery'[o] = r
                /\ \A p \in run[r].projects :
                      p \in sup[s].held /\ ~Foreign(r, p)

SocketMoves(s) ==
    LET r == sup[s].run
    IN \A q \in Runs :
        /\ socket'[q] \in {socket[q], NoFile, Dead, s}
        /\ socket'[q] = s => q = r /\ Bound(s)' /\ sup'[s].run = r

AttachMoves(s) ==
    LET r == sup[s].run
    IN \A p \in Projects :
        attach'[r][p] # "none" =>
            \/ attach[r][p] # "none"
            \/ run[r].status # "none" /\ p # run[r].home

Within(s) ==
    /\ ProcessMoves(s) /\ OthersKept(s) /\ IndexMoves(s) /\ RunMoves(s)
    /\ SocketMoves(s) /\ AttachMoves(s)

-----------------------------------------------------------------------------
(* A step within one supervisor keeps what the others rely on               *)

(* Two supervisors past their first lock do not share a run: they would     *)
(* both hold the lock of its home.                                          *)
LEMMA Alone ==
    ASSUME IInv, NEW s \in Supervisors, NEW t \in Supervisors,
           sup[s].run = sup[t].run,
           sup[s].stage \notin {"none", "spawned"},
           sup[t].stage \notin {"none", "spawned"}
    PROVE  s = t
<1>1. RowPart(s) /\ RowPart(t) /\ SameHome /\ OneOwner
  BY ToParts DEF Local, Shared
<1> QED BY <1>1 DEF RowPart, SameHome, OneOwner

(* What a supervisor past its first lock sees of a step of another.         *)
Unseen(t) ==
    LET r == sup[t].run
    IN /\ run'[r] = run[r] /\ attach'[r] = attach[r] /\ socket'[r] = socket[r]
       /\ \A p \in sup[t].held : index'[p] = index[p]
       /\ \A p \in Projects : (index'[p] = r) = (index[p] = r)

(* Such a step leaves what is under its lock or of its run.                 *)
LEMMA UnseenStep ==
    ASSUME IInv, NEW s \in Supervisors, NEW t \in Supervisors, s # t,
           sup[s].stage # "none", Within(s),
           sup[t].stage \notin {"none", "spawned"}
    PROVE  Unseen(t)
<1>1. /\ RowPart(s) /\ RowPart(t) /\ OneOwner
      /\ sup[t].held \subseteq Projects
  BY ToParts DEF Local, Shared, TypeOK, ProcessType
<1>2. sup[t].run \in Runs /\ sup[s].run \in Runs
  BY <1>1 DEF RowPart
<1>3. sup[s].stage # "spawned" => sup[s].run # sup[t].run
  BY Alone
<1>4. /\ run'[sup[t].run] = run[sup[t].run]
      /\ attach'[sup[t].run] = attach[sup[t].run]
      /\ socket'[sup[t].run] = socket[sup[t].run]
  BY <1>2, <1>3 DEF Within, OthersKept
<1>5. CASE sup[s].stage = "spawned"
  BY <1>4, <1>5 DEF Within, OthersKept, Unseen
<1>6. CASE sup[s].stage # "spawned"
  <2>1. \A p \in sup[t].held : p \notin sup[s].held
    BY <1>1 DEF OneOwner
  <2>2. \A p \in sup[t].held : index'[p] = index[p]
    BY <1>1, <2>1 DEF Within, IndexMoves
  <2>3. \A p \in Projects : (index'[p] = sup[t].run) = (index[p] = sup[t].run)
    BY <1>2, <1>3, <1>6, AbsentAssumption DEF Within, IndexMoves
  <2> QED BY <1>4, <2>2, <2>3 DEF Unseen
<1> QED BY <1>5, <1>6

(* What another supervisor relies on stands after the step.                 *)
LEMMA OthersRely ==
    ASSUME IInv, NEW s \in Supervisors, NEW t \in Supervisors, s # t,
           sup[s].stage # "none", Within(s)
    PROVE  Local(t)'
<1>1. sup'[t] = sup[t] /\ Local(t)
  BY ToParts DEF Within, ProcessMoves
<1>2. CASE sup[t].stage = "none"
  BY <1>1, <1>2
     DEF Local, RowPart, HomePart, StatusPart, ForeignPart, AttachPart,
         RestorePart, ServesPart, SecondaryPart, PublishPart, SocketPart,
         RetirePart, Published, Bound, Past, Going, AttachStages, Nothing,
         Process
<1>3. CASE sup[t].stage = "spawned"
  <2>1. HomePart(t)'
    <3>1. /\ sup[t].run \in Runs /\ sup[s].run \in Runs /\ SameHome
          /\ HomePart(s) /\ HomePart(t)
      BY <1>3, ToParts DEF Local, RowPart, Shared
    <3>2. CASE sup[t].run # sup[s].run
      <4>1. run'[sup[t].run] = run[sup[t].run]
        BY <3>1, <3>2 DEF Within, OthersKept
      <4> QED BY <1>1, <3>1, <4>1 DEF HomePart
    <3>3. CASE sup[t].run = sup[s].run
      <4>1. sup[t].home = sup[s].home
        BY <3>1, <3>3 DEF SameHome
      <4>2. CASE run' = run
        BY <1>1, <3>1, <4>2 DEF HomePart
      <4>3. CASE run' # run
        <5> DEFINE r == sup[t].run
        <5>1. /\ run'[r].status # "none"
              /\ run[r].status # "none" => run'[r].home = run[r].home
          BY <3>3, <4>3 DEF Within, RunMoves
        <5>2. run[r].status = "none" => run'[r].home = sup[s].home
          BY <3>3, <4>3 DEF Within, RunMoves
        <5> QED BY <1>1, <3>1, <3>3, <4>1, <5>1, <5>2 DEF HomePart
      <4> QED BY <4>2, <4>3
    <3> QED BY <3>2, <3>3
  <2>2. sup[t].held = {}
    BY <1>1, <1>3 DEF Local, RowPart
  <2> QED BY <1>1, <1>3, <2>1, <2>2
       DEF Local, RowPart, StatusPart, ForeignPart, AttachPart, RestorePart,
           ServesPart, SecondaryPart, PublishPart, SocketPart, RetirePart,
           Published, Bound, Past, Going, AttachStages
<1>4. CASE sup[t].stage \notin {"none", "spawned"}
  <2>1. Unseen(t)
    BY <1>4, UnseenStep
  <2>2. RowPart(t)' /\ HomePart(t)' /\ StatusPart(t)'
    BY <1>1, <2>1 DEF Unseen, Local, RowPart, HomePart, StatusPart
  <2>3. ForeignPart(t)'
    BY <1>1, <2>1 DEF Unseen, Local, ForeignPart, Foreign
  <2>4. AttachPart(t)'
    BY <1>1, <2>1 DEF Unseen, Local, AttachPart, Current
  <2>5. sup[t].held \subseteq Projects
        /\ run[sup[t].run].projects \subseteq Projects
        /\ sup[t].home \in Projects
    BY <1>1, <1>4, ToParts
       DEF Local, RowPart, TypeOK, ProcessType, RowType
  <2>6. RestorePart(t)'
    BY <1>1, <2>1, <2>5 DEF Unseen, Local, RestorePart, Foreign
  <2>7. ServesPart(t)' /\ SecondaryPart(t)' /\ PublishPart(t)'
    BY <1>1, <2>1, <2>5
       DEF Unseen, Local, ServesPart, SecondaryPart, PublishPart, Published,
           Current
  <2>8. SocketPart(t)' /\ RetirePart(t)'
    BY <1>1, <2>1, <2>5
       DEF Unseen, Local, SocketPart, RetirePart, Bound, Published
  <2> QED BY <2>2, <2>3, <2>4, <2>6, <2>7, <2>8 DEF Local
<1> QED BY <1>2, <1>3, <1>4

(* What is shared stands too.                                               *)
LEMMA SharedKept ==
    ASSUME IInv, NEW s \in Supervisors, sup[s].stage # "none", Within(s)
    PROVE  Shared'
<1> DEFINE r == sup[s].run
<1>1. TypeOK /\ Shared /\ Local(s) /\ r \in Runs
  BY ToParts DEF Local, RowPart
<1>2. OneOwner'
  <2>1. \A t, u \in Supervisors : t # u /\ t # s /\ u # s =>
            sup'[t].held \cap sup'[u].held = {}
    BY <1>1 DEF Within, ProcessMoves, Shared, OneOwner
  <2>2. \A t \in Supervisors : t # s =>
            sup'[t].held \cap sup'[s].held = {}
    BY <1>1 DEF Within, ProcessMoves, Shared, OneOwner, HeldElsewhere
  <2> QED BY <2>1, <2>2 DEF OneOwner
<1>3. RowOK'
  <2>1. \A q \in Runs : q # r => run'[q] = run[q]
    BY DEF Within, OthersKept
  <2>2. \/ run' = run
        \/ /\ run'[r].status # "none"
           /\ run'[r].home \in run'[r].projects
    BY DEF Within, RunMoves
  <2> QED BY <1>1, <2>1, <2>2 DEF Shared, RowOK
<1>4. SameHome'
  <2>1. \A t \in Supervisors : t # s => sup'[t] = sup[t]
    BY DEF Within, ProcessMoves
  <2>2. CASE sup'[s] = Nothing
    <3>1. \A t \in Supervisors : t # s =>
            sup[t].run \in Runs \/ sup[t] = Nothing
      BY ToParts DEF Local, RowPart
    <3>2. Nothing.run \notin Runs
      BY AbsentAssumption DEF Nothing, Process
    <3> QED BY <1>1, <2>1, <2>2, <3>1, <3>2 DEF Shared, SameHome
  <2>3. CASE sup'[s].run = sup[s].run /\ sup'[s].home = sup[s].home
    BY <1>1, <2>1, <2>3 DEF Shared, SameHome
  <2> QED BY <2>2, <2>3 DEF Within, ProcessMoves
<1>5. /\ \A q \in Runs : run[q].status # "none" =>
            run'[q].status # "none" /\ run'[q].home = run[q].home
      /\ \A q \in Runs : run[q].status # "none" =>
            run[q].projects \subseteq run'[q].projects
  BY DEF Within, OthersKept, RunMoves
<1>6. AttachRows'
  <2>1. \A q \in Runs, p \in Projects : attach'[q][p] # "none" =>
            run[q].status # "none" /\ p # run[q].home
    BY <1>1 DEF Within, OthersKept, AttachMoves, Shared, AttachRows
  <2> QED BY <1>5, <2>1 DEF AttachRows
<1>7. Binders'
  <2>1. ASSUME NEW t \in Supervisors, NEW q \in Runs, socket'[q] = t, t # s
        PROVE  Bound(t)' /\ sup'[t].run = q
    <3>1. socket[q] = t
      BY <2>1, AbsentAssumption DEF Within, SocketMoves
    <3>2. Bound(t) /\ sup[t].run = q
      BY <1>1, <3>1 DEF Shared, Binders
    <3>3. sup'[t] = sup[t]
      BY <2>1 DEF Within, ProcessMoves
    <3> QED BY <3>2, <3>3 DEF Bound, Published
  <2>2. ASSUME NEW q \in Runs, socket'[q] = s
        PROVE  Bound(s)' /\ sup'[s].run = q
    BY <2>2 DEF Within, SocketMoves
  <2> QED BY <2>1, <2>2 DEF Binders
<1>8. IndexBacked'
  <2> SUFFICES ASSUME NEW p \in Projects, index'[p] # NoRun
               PROVE  /\ run'[index'[p]].status # "none"
                      /\ p \in run'[index'[p]].projects
    BY DEF IndexBacked
  <2>1. CASE index'[p] = index[p]
    <3>1. index[p] \in Runs
      BY <1>1, <2>1 DEF TypeOK
    <3>2. run[index[p]].status # "none" /\ p \in run[index[p]].projects
      BY <1>1, <2>1 DEF Shared, IndexBacked
    <3> QED BY <1>5, <2>1, <3>1, <3>2
  <2>2. CASE index'[p] # index[p]
    BY <2>2 DEF Within, IndexMoves
  <2> QED BY <2>1, <2>2
<1>9. StoppedEntryPoint'
  <2> SUFFICES ASSUME NEW p \in Projects, index'[p] # NoRun,
                      run'[index'[p]].status = "stopped"
               PROVE  index'[run'[index'[p]].home] = index'[p]
    BY DEF StoppedEntryPoint
  <2> DEFINE q == index'[p]
  <2>1. index'[p] = index[p]
    BY DEF Within, IndexMoves
  <2>2. /\ q \in Runs /\ run[q].status # "none"
        /\ run'[q].home = run[q].home /\ run[q].home \in Projects
    <3>1. q \in Runs /\ run[q].status # "none"
      BY <1>1, <2>1 DEF TypeOK, Shared, IndexBacked
    <3>2. run[q].home \in run[q].projects /\ run[q] \in RowType
      BY <1>1, <3>1 DEF Shared, RowOK, TypeOK
    <3> QED BY <1>5, <3>1, <3>2 DEF RowType
  <2>3. index[run[q].home] = q
    <3>1. CASE run[q].status = "stopped"
      BY <1>1, <2>1, <3>1 DEF Shared, StoppedEntryPoint
    <3>2. CASE run[q].status # "stopped"
      <4>1. q = r /\ run' # run
        BY <2>2, <3>2 DEF Within, OthersKept
      <4> QED BY <3>2, <4>1 DEF Within, RunMoves
    <3> QED BY <3>1, <3>2
  <2>4. index'[run[q].home] = index[run[q].home]
    <3>1. CASE q # r
      BY <1>1, <2>2, <2>3, <3>1, AbsentAssumption DEF Within, IndexMoves
    <3>2. CASE q = r
      <4>1. index'[p] = r
        BY <3>2
      <4>2. index[run[q].home] # NoRun
        BY <2>2, <2>3, AbsentAssumption
      <4> QED BY <2>2, <3>2, <4>1, <4>2 DEF Within, IndexMoves
    <3> QED BY <3>1, <3>2
  <2> QED BY <2>2, <2>3, <2>4
<1> QED
  BY <1>2, <1>3, <1>4, <1>6, <1>7, <1>8, <1>9 DEF Shared

(* So an action has only its own supervisor to answer for.                  *)
LEMMA StepKeeps ==
    ASSUME IInv, NEW s \in Supervisors, sup[s].stage # "none",
           Within(s), Local(s)', TypeOK'
    PROVE  IInv'
<1>1. \A t \in Supervisors : Local(t)'
  BY OthersRely
<1>2. Shared'
  BY SharedKept
<1> QED BY <1>1, <1>2, FromPartsNext


-----------------------------------------------------------------------------
(* How a process changes                                                    *)

(* Supervisor s goes on with these values, every other as it was.           *)
Moves(s, stage, held, todo, project, resume, stopped) ==
    /\ sup' \in [Supervisors -> ProcessType]
    /\ \A t \in Supervisors : t # s => sup'[t] = sup[t]
    /\ sup'[s].run = sup[s].run /\ sup'[s].home = sup[s].home
    /\ sup'[s].mode = sup[s].mode /\ sup'[s].op = sup[s].op
    /\ sup'[s].stage = stage /\ sup'[s].held = held /\ sup'[s].todo = todo
    /\ sup'[s].project = project /\ sup'[s].resume = resume
    /\ sup'[s].stopped = stopped

(* The whole of an update, when the process fits its shape.                 *)
LEMMA MovesTo ==
    ASSUME TypeOK, NEW s \in Supervisors, NEW x \in ProcessType,
           sup' = [sup EXCEPT ![s] = x],
           x.run = sup[s].run, x.home = sup[s].home,
           x.mode = sup[s].mode, x.op = sup[s].op
    PROVE  Moves(s, x.stage, x.held, x.todo, x.project, x.resume, x.stopped)
  BY DEF TypeOK, Moves

(* One form of an update after the other: the stage alone.                  *)
LEMMA MovesStage ==
    ASSUME TypeOK, NEW s \in Supervisors, NEW x \in Stages,
           sup' = [sup EXCEPT ![s].stage = x]
    PROVE  Moves(s, x, sup[s].held, sup[s].todo, sup[s].project,
                 sup[s].resume, sup[s].stopped)
<1> DEFINE y == [sup[s] EXCEPT !.stage = x]
<1>3. sup[s] \in ProcessType
  BY DEF TypeOK
<1>4. y \in ProcessType
  BY <1>3 DEF ProcessType
<1>5. /\ y.run = sup[s].run /\ y.home = sup[s].home /\ y.mode = sup[s].mode
      /\ y.op = sup[s].op /\ y.stage = x /\ y.held = sup[s].held
      /\ y.todo = sup[s].todo /\ y.project = sup[s].project
      /\ y.resume = sup[s].resume /\ y.stopped = sup[s].stopped
  BY <1>3 DEF ProcessType
<1>6. sup' = [sup EXCEPT ![s] = y]
  OBVIOUS
<1> HIDE DEF y
<1> QED BY <1>4, <1>5, <1>6, MovesTo

(* The stage and the locks.                                                 *)
LEMMA MovesHeld ==
    ASSUME TypeOK, NEW s \in Supervisors, NEW x \in Stages,
           NEW held \in SUBSET Projects,
           sup' = [sup EXCEPT ![s].stage = x, ![s].held = held]
    PROVE  Moves(s, x, held, sup[s].todo, sup[s].project, sup[s].resume,
                 sup[s].stopped)
<1> DEFINE y == [sup[s] EXCEPT !.stage = x, !.held = held]
<1>3. sup[s] \in ProcessType
  BY DEF TypeOK
<1>4. y \in ProcessType
  BY <1>3 DEF ProcessType
<1>5. /\ y.run = sup[s].run /\ y.home = sup[s].home /\ y.mode = sup[s].mode
      /\ y.op = sup[s].op /\ y.stage = x /\ y.held = held
      /\ y.todo = sup[s].todo /\ y.project = sup[s].project
      /\ y.resume = sup[s].resume /\ y.stopped = sup[s].stopped
  BY <1>3 DEF ProcessType
<1>6. sup' = [sup EXCEPT ![s] = y]
  OBVIOUS
<1> HIDE DEF y
<1> QED BY <1>4, <1>5, <1>6, MovesTo

(* The stage and what is to do.                                             *)
LEMMA MovesTodo ==
    ASSUME TypeOK, NEW s \in Supervisors, NEW x \in Stages,
           NEW todo \in SUBSET Projects,
           sup' = [sup EXCEPT ![s].stage = x, ![s].todo = todo]
    PROVE  Moves(s, x, sup[s].held, todo, sup[s].project, sup[s].resume,
                 sup[s].stopped)
<1> DEFINE y == [sup[s] EXCEPT !.stage = x, !.todo = todo]
<1>3. sup[s] \in ProcessType
  BY DEF TypeOK
<1>4. y \in ProcessType
  BY <1>3 DEF ProcessType
<1>5. /\ y.run = sup[s].run /\ y.home = sup[s].home /\ y.mode = sup[s].mode
      /\ y.op = sup[s].op /\ y.stage = x /\ y.held = sup[s].held
      /\ y.todo = todo /\ y.project = sup[s].project
      /\ y.resume = sup[s].resume /\ y.stopped = sup[s].stopped
  BY <1>3 DEF ProcessType
<1>6. sup' = [sup EXCEPT ![s] = y]
  OBVIOUS
<1> HIDE DEF y
<1> QED BY <1>4, <1>5, <1>6, MovesTo

(* The restoration of a run.                                                *)
LEMMA MovesRestoring ==
    ASSUME TypeOK, NEW s \in Supervisors, NEW row \in RowType,
           Restoring(s, row)
    PROVE  Moves(s, "restore", sup[s].held,
                 {p \in row.projects :
                     row.status = "stopped" => index[p] = sup[s].run},
                 sup[s].project, sup[s].resume, row.status = "stopped")
<1> DEFINE todo == {p \in row.projects :
                       row.status = "stopped" => index[p] = sup[s].run}
           stopped == row.status = "stopped"
<1>1. todo \in SUBSET Projects /\ stopped \in BOOLEAN /\ "restore" \in Stages
  BY DEF RowType, Stages
<1>2. sup' = [sup EXCEPT ![s].stage = "restore", ![s].stopped = stopped,
                         ![s].todo = todo]
  BY DEF Restoring
<1> HIDE DEF todo, stopped
<1> DEFINE y == [sup[s] EXCEPT !.stage = "restore", !.stopped = stopped,
                               !.todo = todo]
<1>3. sup[s] \in ProcessType
  BY DEF TypeOK
<1>4. y \in ProcessType
  BY <1>1, <1>3 DEF ProcessType
<1>5. /\ y.run = sup[s].run /\ y.home = sup[s].home /\ y.mode = sup[s].mode
      /\ y.op = sup[s].op /\ y.stage = "restore" /\ y.held = sup[s].held
      /\ y.todo = todo /\ y.project = sup[s].project
      /\ y.resume = sup[s].resume /\ y.stopped = stopped
  BY <1>3 DEF ProcessType
<1>6. sup' = [sup EXCEPT ![s] = y]
  BY <1>2
<1> HIDE DEF y
<1>7. Moves(s, "restore", sup[s].held, todo, sup[s].project, sup[s].resume,
            stopped)
  BY <1>4, <1>5, <1>6, MovesTo
<1> QED BY <1>7 DEF todo, stopped

(* One project claimed: its lock, and no longer to do.                      *)
LEMMA MovesClaim ==
    ASSUME TypeOK, NEW s \in Supervisors, NEW p \in Projects,
           sup' = [sup EXCEPT ![s].held = @ \cup {p}, ![s].todo = @ \ {p}]
    PROVE  Moves(s, sup[s].stage, sup[s].held \cup {p}, sup[s].todo \ {p},
                 sup[s].project, sup[s].resume, sup[s].stopped)
<1> DEFINE held == sup[s].held \cup {p}
           todo == sup[s].todo \ {p}
<1>1. held \in SUBSET Projects /\ todo \in SUBSET Projects
  BY DEF TypeOK, ProcessType
<1>2. sup' = [sup EXCEPT ![s].held = held, ![s].todo = todo]
  BY DEF TypeOK, ProcessType
<1> HIDE DEF held, todo
<1> DEFINE x == [sup[s] EXCEPT !.held = held, !.todo = todo]
<1>3. sup[s] \in ProcessType
  BY DEF TypeOK
<1>4. x \in ProcessType
  BY <1>1, <1>3 DEF ProcessType
<1>5. /\ x.run = sup[s].run /\ x.home = sup[s].home /\ x.mode = sup[s].mode
      /\ x.op = sup[s].op /\ x.stage = sup[s].stage /\ x.held = held
      /\ x.todo = todo /\ x.project = sup[s].project
      /\ x.resume = sup[s].resume /\ x.stopped = sup[s].stopped
  BY <1>3 DEF ProcessType
<1>6. sup' = [sup EXCEPT ![s] = x]
  BY <1>2
<1> HIDE DEF x
<1>7. Moves(s, sup[s].stage, held, todo, sup[s].project, sup[s].resume,
            sup[s].stopped)
  BY <1>4, <1>5, <1>6, MovesTo
<1> QED BY <1>7 DEF held, todo

(* One more lock.                                                           *)
LEMMA MovesOwn ==
    ASSUME TypeOK, NEW s \in Supervisors, NEW p \in Projects,
           sup' = Own(s, p)
    PROVE  Moves(s, sup[s].stage, sup[s].held \cup {p}, sup[s].todo,
                 sup[s].project, sup[s].resume, sup[s].stopped)
<1> DEFINE held == sup[s].held \cup {p}
<1>1. held \in SUBSET Projects
  BY DEF TypeOK, ProcessType
<1>2. sup' = [sup EXCEPT ![s].held = held]
  BY DEF Own, TypeOK, ProcessType
<1> HIDE DEF held
<1> DEFINE y == [sup[s] EXCEPT !.held = held]
<1>3. sup[s] \in ProcessType
  BY DEF TypeOK
<1>4. y \in ProcessType
  BY <1>1, <1>3 DEF ProcessType
<1>5. /\ y.run = sup[s].run /\ y.home = sup[s].home /\ y.mode = sup[s].mode
      /\ y.op = sup[s].op /\ y.stage = sup[s].stage /\ y.held = held
      /\ y.todo = sup[s].todo /\ y.project = sup[s].project
      /\ y.resume = sup[s].resume /\ y.stopped = sup[s].stopped
  BY <1>3 DEF ProcessType
<1>6. sup' = [sup EXCEPT ![s] = y]
  BY <1>2
<1> HIDE DEF y
<1>7. Moves(s, sup[s].stage, held, sup[s].todo, sup[s].project,
            sup[s].resume, sup[s].stopped)
  BY <1>4, <1>5, <1>6, MovesTo
<1> QED BY <1>7 DEF held

(* One more lock, for an attachment.                                        *)
LEMMA MovesOwnStage ==
    ASSUME TypeOK, NEW s \in Supervisors, NEW p \in Projects,
           NEW x \in Stages, sup' = [Own(s, p) EXCEPT ![s].stage = x]
    PROVE  Moves(s, x, sup[s].held \cup {p}, sup[s].todo, sup[s].project,
                 sup[s].resume, sup[s].stopped)
<1> DEFINE held == sup[s].held \cup {p}
<1>1. held \in SUBSET Projects
  BY DEF TypeOK, ProcessType
<1>2. sup' = [sup EXCEPT ![s].held = held, ![s].stage = x]
  BY DEF Own, TypeOK, ProcessType
<1> HIDE DEF held
<1> DEFINE y == [sup[s] EXCEPT !.held = held, !.stage = x]
<1>3. sup[s] \in ProcessType
  BY DEF TypeOK
<1>4. y \in ProcessType
  BY <1>1, <1>3 DEF ProcessType
<1>5. /\ y.run = sup[s].run /\ y.home = sup[s].home /\ y.mode = sup[s].mode
      /\ y.op = sup[s].op /\ y.stage = x /\ y.held = held
      /\ y.todo = sup[s].todo /\ y.project = sup[s].project
      /\ y.resume = sup[s].resume /\ y.stopped = sup[s].stopped
  BY <1>3 DEF ProcessType
<1>6. sup' = [sup EXCEPT ![s] = y]
  BY <1>2
<1> HIDE DEF y
<1>7. Moves(s, x, held, sup[s].todo, sup[s].project, sup[s].resume,
            sup[s].stopped)
  BY <1>4, <1>5, <1>6, MovesTo
<1> QED BY <1>7 DEF held

(* One project done.                                                        *)
LEMMA MovesDone ==
    ASSUME TypeOK, NEW s \in Supervisors, NEW p \in Projects,
           sup' = [sup EXCEPT ![s].todo = @ \ {p}]
    PROVE  Moves(s, sup[s].stage, sup[s].held, sup[s].todo \ {p},
                 sup[s].project, sup[s].resume, sup[s].stopped)
<1> DEFINE todo == sup[s].todo \ {p}
<1>1. todo \in SUBSET Projects
  BY DEF TypeOK, ProcessType
<1>2. sup' = [sup EXCEPT ![s].todo = todo]
  BY DEF TypeOK, ProcessType
<1> HIDE DEF todo
<1> DEFINE y == [sup[s] EXCEPT !.todo = todo]
<1>3. sup[s] \in ProcessType
  BY DEF TypeOK
<1>4. y \in ProcessType
  BY <1>1, <1>3 DEF ProcessType
<1>5. /\ y.run = sup[s].run /\ y.home = sup[s].home /\ y.mode = sup[s].mode
      /\ y.op = sup[s].op /\ y.stage = sup[s].stage /\ y.held = sup[s].held
      /\ y.todo = todo /\ y.project = sup[s].project
      /\ y.resume = sup[s].resume /\ y.stopped = sup[s].stopped
  BY <1>3 DEF ProcessType
<1>6. sup' = [sup EXCEPT ![s] = y]
  BY <1>2
<1> HIDE DEF y
<1>7. Moves(s, sup[s].stage, sup[s].held, todo, sup[s].project,
            sup[s].resume, sup[s].stopped)
  BY <1>4, <1>5, <1>6, MovesTo
<1> QED BY <1>7 DEF todo

(* An attachment begins.                                                    *)
LEMMA MovesCompleting ==
    ASSUME TypeOK, NEW s \in Supervisors, NEW p \in Projects,
           NEW resume \in {"attachments", "serve"},
           Completing(s, p, resume)
    PROVE  Moves(s, "attach_lease", sup[s].held, sup[s].todo \ {p}, p,
                 resume, sup[s].stopped)
<1>1. "attach_lease" \in Stages
  BY DEF Stages, AttachStages
<1> DEFINE todo == sup[s].todo \ {p}
<1>2. todo \in SUBSET Projects
  BY DEF TypeOK, ProcessType
<1>3. sup' = [sup EXCEPT ![s].stage = "attach_lease", ![s].project = p,
                         ![s].resume = resume, ![s].todo = todo]
  BY DEF Completing, TypeOK, ProcessType
<1> HIDE DEF todo
<1> DEFINE x == [sup[s] EXCEPT !.stage = "attach_lease", !.project = p,
                               !.resume = resume, !.todo = todo]
<1>4. sup[s] \in ProcessType
  BY DEF TypeOK
<1>5. x \in ProcessType
  BY <1>1, <1>2, <1>4 DEF ProcessType
<1>6. /\ x.run = sup[s].run /\ x.home = sup[s].home /\ x.mode = sup[s].mode
      /\ x.op = sup[s].op /\ x.stage = "attach_lease"
      /\ x.held = sup[s].held /\ x.todo = todo /\ x.project = p
      /\ x.resume = resume /\ x.stopped = sup[s].stopped
  BY <1>4 DEF ProcessType
<1>7. sup' = [sup EXCEPT ![s] = x]
  BY <1>3
<1> HIDE DEF x
<1>8. Moves(s, "attach_lease", sup[s].held, todo, p, resume, sup[s].stopped)
  BY <1>5, <1>6, <1>7, MovesTo
<1> QED BY <1>8 DEF todo

(* Nothing of it.                                                           *)
LEMMA MovesNot ==
    ASSUME TypeOK, NEW s \in Supervisors, sup' = sup
    PROVE  Moves(s, sup[s].stage, sup[s].held, sup[s].todo, sup[s].project,
                 sup[s].resume, sup[s].stopped)
  BY DEF TypeOK, Moves

(* A process is of the right shape, whatever it was started for.            *)
LEMMA ProcessFits ==
    ASSUME NEW stage \in Stages, NEW r \in Runs \cup {NoRun},
           NEW home \in Projects \cup {NoProject},
           NEW mode \in {"none", "start", "stop", "recover"},
           NEW o \in RecoverOps \cup {NoOp}
    PROVE  Process(stage, r, home, mode, o) \in ProcessType
  BY DEF Process, ProcessType

(* So is one that is gone.                                                  *)
LEMMA NothingFits == Nothing \in ProcessType
<1>1. "none" \in Stages
  BY DEF Stages
<1> QED BY <1>1 DEF Nothing, Process, ProcessType

(* What supervisor s and its run are.                                       *)
LEMMA Here ==
    ASSUME IInv, NEW s \in Supervisors, sup[s].stage # "none"
    PROVE  /\ TypeOK /\ Shared /\ Local(s)
           /\ sup[s].run \in Runs /\ sup[s].home \in Projects
           /\ sup[s].held \subseteq Projects /\ sup[s].todo \subseteq Projects
           /\ run[sup[s].run] \in RowType
           /\ run[sup[s].run].projects \subseteq Projects
<1>1. TypeOK /\ Shared /\ Local(s)
  BY ToParts
<1>2. sup[s].run \in Runs /\ sup[s].home \in Projects
  BY <1>1 DEF Local, RowPart
<1>3. sup[s].held \subseteq Projects /\ sup[s].todo \subseteq Projects
  BY <1>1 DEF TypeOK, ProcessType
<1>4. run[sup[s].run] \in RowType
  BY <1>1, <1>2 DEF TypeOK
<1> QED BY <1>1, <1>2, <1>3, <1>4 DEF RowType

-----------------------------------------------------------------------------
(* Steps that change no file                                                *)

(* A step of one process that takes only free locks and does not let its    *)
(* socket go.                                                               *)
LEMMA OnlyProcess ==
    ASSUME IInv, NEW s \in Supervisors, sup[s].stage # "none",
           UNCHANGED <<run, attach, recovery, index, socket>>,
           NEW stage, NEW held, NEW todo, NEW project, NEW resume,
           NEW stopped,
           Moves(s, stage, held, todo, project, resume, stopped),
           \A p \in held : p \in sup[s].held \/ ~HeldElsewhere(s, p),
           Bound(s) => Bound(s)'
    PROVE  Within(s) /\ TypeOK'
<1>1. TypeOK /\ Shared
  BY Here
<1>2. TypeOK'
  BY <1>1 DEF TypeOK, Moves
<1>3. ProcessMoves(s)
  BY DEF ProcessMoves, Moves
<1>4. SocketMoves(s)
  BY <1>1 DEF SocketMoves, Shared, Binders, Moves
<1>5. OthersKept(s) /\ IndexMoves(s) /\ RunMoves(s) /\ AttachMoves(s)
  BY <1>1 DEF OthersKept, IndexMoves, RunMoves, AttachMoves, Shared, AttachRows
<1> QED BY <1>2, <1>3, <1>4, <1>5 DEF Within

(* A process that ends.                                                     *)
LEMMA QuitStep ==
    ASSUME IInv, NEW s \in Supervisors, sup[s].stage # "none", Quit(s)
    PROVE  Within(s) /\ Local(s)' /\ TypeOK'
<1>1. TypeOK /\ Shared /\ Local(s) /\ sup[s].run \in Runs
  BY Here
<1>2. /\ sup' \in [Supervisors -> ProcessType] /\ sup'[s] = Nothing
      /\ \A t \in Supervisors : t # s => sup'[t] = sup[t]
  BY <1>1, NothingFits DEF Quit, TypeOK
<1>3. Nothing.stage = "none" /\ Nothing.held = {} /\ Nothing.run = NoRun
      /\ Nothing.mode = "none"
  BY DEF Nothing, Process
<1>4. run' = run /\ attach' = attach /\ recovery' = recovery /\ index' = index
  BY DEF Quit, stored
<1>5. /\ \A q \in Runs : socket'[q] = IF socket[q] = s THEN Dead ELSE socket[q]
      /\ socket' \in [Runs -> Supervisors \cup {NoFile, Dead}]
  BY <1>1 DEF Quit, TypeOK
<1>6. TypeOK'
  BY <1>1, <1>2, <1>4, <1>5 DEF TypeOK
<1>7. ProcessMoves(s)
  BY <1>2, <1>3 DEF ProcessMoves
<1>8. OthersKept(s)
  <2>1. \A q \in Runs : socket[q] = s => q = sup[s].run /\ Bound(s)
    BY <1>1 DEF Shared, Binders
  <2>2. ASSUME sup[s].stage = "spawned" PROVE socket' = socket
    <3>1. ~Bound(s)
      BY <2>2 DEF Bound, Published, AttachStages
    <3>2. socket' = [q \in Runs |-> socket[q]]
      BY <2>1, <3>1 DEF Quit
    <3> QED BY <1>1, <3>2 DEF TypeOK
  <2>3. \A q \in Runs : q # sup[s].run => socket'[q] = socket[q]
    BY <1>5, <2>1
  <2> QED BY <1>4, <2>2, <2>3 DEF OthersKept
<1>9. SocketMoves(s)
  BY <1>5, AbsentAssumption DEF SocketMoves
<1>10. IndexMoves(s) /\ RunMoves(s) /\ AttachMoves(s)
  BY <1>1, <1>4 DEF IndexMoves, RunMoves, AttachMoves, Shared, AttachRows
<1>11. Local(s)'
  BY <1>2, <1>3
     DEF Local, RowPart, HomePart, StatusPart, ForeignPart, AttachPart,
         RestorePart, ServesPart, SecondaryPart, PublishPart, SocketPart,
         RetirePart, Published, Bound, Past, Going, AttachStages
<1> QED BY <1>6, <1>7, <1>8, <1>9, <1>10, <1>11 DEF Within

-----------------------------------------------------------------------------
(* The actions, one by one                                                  *)

(* What an action of supervisor s is shown to do.                           *)
Kept(s) == Within(s) /\ Local(s)' /\ TypeOK'

(* The first lock is free when it is taken (ProjectLease::try_acquire).     *)
LEMMA TryAcquireStep ==
    ASSUME IInv, NEW s \in Supervisors, TryAcquire(s)
    PROVE  Kept(s)
<1>1. sup[s].stage = "spawned"
  BY DEF TryAcquire
<1>2. /\ TypeOK /\ Local(s) /\ sup[s].home \in Projects
      /\ sup[s].run \in Runs
  BY <1>1, Here
<1>3. Moves(s, "store", {sup[s].home}, sup[s].todo, sup[s].project,
            sup[s].resume, sup[s].stopped)
  <2>1. "store" \in Stages /\ {sup[s].home} \in SUBSET Projects
    BY <1>2 DEF Stages
  <2> QED BY <1>2, <2>1, MovesHeld DEF TryAcquire
<1>4. UNCHANGED <<run, attach, recovery, index, socket>>
  BY DEF TryAcquire, stored
<1>5. Within(s) /\ TypeOK'
  <2>1. ~Bound(s)
    BY <1>1 DEF Bound, Published, AttachStages
  <2>2. \A p \in {sup[s].home} : ~HeldElsewhere(s, p)
    BY DEF TryAcquire
  <2> QED BY <1>1, <1>3, <1>4, <2>1, <2>2, OnlyProcess
<1>6. RowPart(s)' /\ HomePart(s)' /\ StatusPart(s)' /\ ForeignPart(s)'
  BY <1>1, <1>2, <1>3, <1>4
     DEF Moves, Local, RowPart, HomePart, StatusPart, ForeignPart, Past,
         AttachStages
<1>7. /\ AttachPart(s)' /\ RestorePart(s)' /\ ServesPart(s)'
      /\ SecondaryPart(s)' /\ PublishPart(s)' /\ SocketPart(s)'
      /\ RetirePart(s)'
  BY <1>3
     DEF Moves, AttachPart, RestorePart, ServesPart, SecondaryPart,
         PublishPart, SocketPart, RetirePart, Published, Bound, Going, Past,
         AttachStages
<1> QED BY <1>5, <1>6, <1>7 DEF Kept, Local

(* A process that finds the lock held ends.                                 *)
LEMMA LeaseHeldStep ==
    ASSUME IInv, NEW s \in Supervisors, LeaseHeld(s)
    PROVE  Kept(s)
<1>1. sup[s].stage # "none" /\ Quit(s)
  BY DEF LeaseHeld
<1> QED BY <1>1, QuitStep DEF Kept

(* The lock of the home is held from the first step to the last.            *)
LEMMA OpenToRecoverStep ==
    ASSUME IInv, NEW s \in Supervisors, OpenToRecover(s)
    PROVE  Kept(s)
<1>1. sup[s].stage = "store" /\ sup[s].mode = "recover"
  BY DEF OpenToRecover
<1>2. /\ TypeOK /\ Local(s) /\ sup[s].run \in Runs
      /\ run[sup[s].run].projects \subseteq Projects
  BY <1>1, Here
<1>3. Moves(s, "claim", sup[s].held, run[sup[s].run].projects,
            sup[s].project, sup[s].resume, sup[s].stopped)
  <2>1. "claim" \in Stages
    BY DEF Stages
  <2> QED BY <1>2, <2>1, MovesTodo DEF OpenToRecover
<1>4. UNCHANGED <<run, attach, recovery, index, socket>>
  BY DEF OpenToRecover, stored
<1>5. Within(s) /\ TypeOK'
  <2>1. ~Bound(s)
    BY <1>1 DEF Bound, Published, AttachStages
  <2> QED BY <1>1, <1>3, <1>4, <2>1, OnlyProcess
<1>6. RowPart(s)' /\ HomePart(s)' /\ StatusPart(s)' /\ ForeignPart(s)'
  BY <1>1, <1>2, <1>3, <1>4
     DEF Moves, Local, RowPart, HomePart, StatusPart, ForeignPart, Foreign,
         Past, AttachStages
<1>7. /\ AttachPart(s)' /\ RestorePart(s)' /\ ServesPart(s)'
      /\ SecondaryPart(s)' /\ PublishPart(s)' /\ SocketPart(s)'
      /\ RetirePart(s)'
  BY <1>3, <1>4
     DEF Moves, AttachPart, RestorePart, ServesPart, SecondaryPart,
         PublishPart, SocketPart, RetirePart, Published, Bound, Going, Past,
         AttachStages
<1> QED BY <1>5, <1>6, <1>7 DEF Kept, Local

(* A project claimed is free of locks and of other runs' entries.           *)
LEMMA ClaimStep ==
    ASSUME IInv, NEW s \in Supervisors, NEW p \in Projects, Claim(s, p)
    PROVE  Kept(s)
<1>1. sup[s].stage = "claim" /\ p \in sup[s].todo
  BY DEF Claim
<1>2. CASE Quit(s)
  BY <1>1, <1>2, QuitStep DEF Kept
<1>3. CASE ~(Foreign(sup[s].run, p) \/ HeldElsewhere(s, p))
  <2>1. /\ TypeOK /\ Local(s) /\ sup[s].run \in Runs
        /\ run[sup[s].run].projects \subseteq Projects
    BY <1>1, Here
  <2>2. Moves(s, "claim", sup[s].held \cup {p}, sup[s].todo \ {p},
              sup[s].project, sup[s].resume, sup[s].stopped)
    BY <1>1, <1>3, <2>1, MovesClaim DEF Claim
  <2>3. UNCHANGED <<run, attach, recovery, index, socket>>
    BY <1>3 DEF Claim, stored
  <2>4. Within(s) /\ TypeOK'
    <3>1. ~Bound(s)
      BY <1>1 DEF Bound, Published, AttachStages
    <3> QED BY <1>1, <1>3, <2>2, <2>3, <3>1, OnlyProcess
  <2>5. RowPart(s)' /\ HomePart(s)' /\ StatusPart(s)' /\ ForeignPart(s)'
    BY <1>1, <1>3, <2>1, <2>2, <2>3
       DEF Moves, Local, RowPart, HomePart, StatusPart, ForeignPart, Foreign,
           Past, AttachStages
  <2>6. RestorePart(s)'
    BY <1>1, <1>3, <2>1, <2>2, <2>3
       DEF Moves, Local, RestorePart, Foreign
  <2>7. /\ AttachPart(s)' /\ ServesPart(s)' /\ SecondaryPart(s)'
        /\ PublishPart(s)' /\ SocketPart(s)' /\ RetirePart(s)'
    BY <2>2
       DEF Moves, AttachPart, ServesPart, SecondaryPart, PublishPart,
           SocketPart, RetirePart, Published, Bound, Going, Past,
           AttachStages
  <2> QED BY <2>4, <2>5, <2>6, <2>7 DEF Kept, Local
<1> QED BY <1>2, <1>3 DEF Claim

(* A run opened: what its index names is owned or still to do, and a run    *)
(* that is to serve has all of its projects to do (restore_leases).         *)
LEMMA RestoringStep ==
    ASSUME IInv, NEW s \in Supervisors, NEW row \in RowType,
           sup[s].stage \in {"store", "claim"},
           Restoring(s, row),
           run' \in [Runs -> RowType], run'[sup[s].run] = row,
           \A q \in Runs : q # sup[s].run => run'[q] = run[q],
           row.status # "none", row.home = sup[s].home,
           \A p \in Projects : index[p] = sup[s].run => p \in row.projects,
           recovery' \in [RecoverOps -> Runs \cup {NoRun}],
           UNCHANGED <<attach, index, socket>>,
           RunMoves(s)
    PROVE  Kept(s)
<1> DEFINE stopped == row.status = "stopped"
           todo == {p \in row.projects : stopped => index[p] = sup[s].run}
<1>1. /\ TypeOK /\ Shared /\ Local(s) /\ sup[s].run \in Runs
      /\ sup[s].held \subseteq Projects
  BY Here
<1>2. Moves(s, "restore", sup[s].held, todo, sup[s].project, sup[s].resume,
            stopped)
  BY <1>1, MovesRestoring
<1>3. /\ todo \subseteq row.projects
      /\ ~stopped => todo = row.projects
      /\ \A p \in Projects : index[p] = sup[s].run => p \in todo
  BY DEF RowType
<1> HIDE DEF todo
<1>4. Within(s)
  <2>1. ProcessMoves(s)
    BY <1>2 DEF Moves, ProcessMoves
  <2>2. OthersKept(s)
    BY DEF OthersKept
  <2>3. IndexMoves(s) /\ AttachMoves(s)
    BY DEF IndexMoves, AttachMoves
  <2>4. SocketMoves(s)
    <3>1. ~Bound(s)
      BY DEF Bound, Published, AttachStages
    <3> QED BY <1>1, <3>1 DEF SocketMoves, Shared, Binders
  <2> QED BY <2>1, <2>2, <2>3, <2>4 DEF Within
<1>5. TypeOK'
  BY <1>1, <1>2 DEF TypeOK, Moves
<1>6. RowPart(s)' /\ HomePart(s)' /\ StatusPart(s)' /\ ForeignPart(s)'
  BY <1>1, <1>2
     DEF Moves, Local, RowPart, HomePart, StatusPart, ForeignPart, Foreign,
         Past, AttachStages
<1>7. RestorePart(s)'
  BY <1>1, <1>2, <1>3 DEF Moves, RestorePart
<1>8. /\ AttachPart(s)' /\ ServesPart(s)' /\ SecondaryPart(s)'
      /\ PublishPart(s)' /\ SocketPart(s)' /\ RetirePart(s)'
  BY <1>2
     DEF Moves, AttachPart, ServesPart, SecondaryPart, PublishPart,
         SocketPart, RetirePart, Published, Bound, Going, Past, AttachStages
<1> QED BY <1>4, <1>5, <1>6, <1>7, <1>8 DEF Kept, Local

(* A run whose row stands is opened as it is.                               *)
LEMMA ReopenStep ==
    ASSUME IInv, NEW s \in Supervisors,
           sup[s].stage \in {"store", "claim"},
           run[sup[s].run].status # "none",
           Restoring(s, run[sup[s].run]),
           UNCHANGED <<run, attach, recovery, index, socket>>
    PROVE  Kept(s)
<1>1. /\ TypeOK /\ Shared /\ Local(s) /\ sup[s].run \in Runs
      /\ run[sup[s].run] \in RowType
  BY Here
<1>2. run[sup[s].run].home = sup[s].home
  BY <1>1 DEF Local, HomePart
<1>3. \A p \in Projects : index[p] = sup[s].run =>
          p \in run[sup[s].run].projects
  BY <1>1, AbsentAssumption DEF Shared, IndexBacked
<1>4. RunMoves(s)
  BY DEF RunMoves
<1> QED BY <1>1, <1>2, <1>3, <1>4, RestoringStep DEF TypeOK

(* The first start of a run writes its row; a later one finds it            *)
(* (initialize_store).                                                      *)
LEMMA InitializeStoreStep ==
    ASSUME IInv, NEW s \in Supervisors, InitializeStore(s)
    PROVE  Kept(s)
<1> DEFINE r == sup[s].run
<1>1. sup[s].stage = "store"
  BY DEF InitializeStore
<1>2. /\ TypeOK /\ Shared /\ Local(s) /\ r \in Runs
      /\ sup[s].home \in Projects /\ run[r] \in RowType
  BY <1>1, Here
<1>3. CASE run[r].status # "none"
  <2>1. run' = [run EXCEPT ![r] = run[r]]
    BY <1>3 DEF InitializeStore
  <2>2. run' = run
    BY <1>2, <2>1 DEF TypeOK
  <2>3. Restoring(s, run[r]) /\ UNCHANGED <<attach, recovery, index, socket>>
    BY <1>3 DEF InitializeStore
  <2> QED BY <1>1, <1>3, <2>2, <2>3, ReopenStep
<1>4. CASE run[r].status = "none"
  <2> DEFINE row == Row("active", sup[s].home, {sup[s].home})
  <2>1. row \in RowType /\ row.status = "active" /\ row.home = sup[s].home
        /\ row.projects = {sup[s].home}
    BY <1>2 DEF Row, RowType
  <2>2. /\ run' = [run EXCEPT ![r] = row] /\ Restoring(s, row)
        /\ UNCHANGED <<attach, recovery, index, socket>>
    BY <1>4 DEF InitializeStore
  <2> HIDE DEF row
  <2>3. /\ run' \in [Runs -> RowType] /\ run'[r] = row
        /\ \A q \in Runs : q # r => run'[q] = run[q]
    BY <1>2, <2>1, <2>2 DEF TypeOK
  <2>4. RunMoves(s)
    BY <1>4, <2>1, <2>2, <2>3 DEF RunMoves
  <2>5. \A p \in Projects : index[p] = r => p \in row.projects
    BY <1>2, <1>4, AbsentAssumption DEF Shared, IndexBacked
  <2>6. recovery' \in [RecoverOps -> Runs \cup {NoRun}]
    BY <1>2, <2>2 DEF TypeOK
  <2> QED BY <1>1, <2>1, <2>2, <2>3, <2>4, <2>5, <2>6, RestoringStep
<1> QED BY <1>3, <1>4

(* An offline stop opens its run, or ends.                                  *)
LEMMA OpenToStopStep ==
    ASSUME IInv, NEW s \in Supervisors, OpenToStop(s)
    PROVE  Kept(s)
<1>1. sup[s].stage = "store" /\ sup[s].mode = "stop"
  BY DEF OpenToStop
<1>2. Local(s) /\ run[sup[s].run].status # "none"
  BY <1>1, Here DEF Local, HomePart
<1>3. CASE Quit(s)
  BY <1>1, <1>3, QuitStep DEF Kept
<1>4. CASE index[sup[s].home] = sup[s].run
  <2>1. /\ Restoring(s, run[sup[s].run])
        /\ UNCHANGED <<run, attach, recovery, index, socket>>
    BY <1>4 DEF OpenToStop, stored
  <2> QED BY <1>1, <1>2, <2>1, ReopenStep
<1> QED BY <1>3, <1>4 DEF OpenToStop

(* A run comes back only with every project of it claimed and by an unused  *)
(* recovery (acquire_for_reactivation).                                     *)
LEMMA ReactivateStep ==
    ASSUME IInv, NEW s \in Supervisors, Reactivate(s)
    PROVE  Kept(s)
<1> DEFINE r == sup[s].run
           o == sup[s].op
<1>1. sup[s].stage = "claim" /\ sup[s].todo = {}
  BY DEF Reactivate
<1>2. /\ TypeOK /\ Shared /\ Local(s) /\ r \in Runs
      /\ run[r] \in RowType /\ run[r].projects \subseteq Projects
  BY <1>1, Here
<1>3. /\ run[r].status # "none" /\ run[r].home = sup[s].home
      /\ o \in RecoverOps
      /\ \A p \in run[r].projects : p \in sup[s].held /\ ~Foreign(r, p)
  BY <1>1, <1>2 DEF Local, HomePart, RowPart, RestorePart
<1>4. CASE Quit(s)
  BY <1>1, <1>4, QuitStep DEF Kept
<1>5. CASE ~MayReactivate(r, o) /\ recovery[o] = r
  <2>1. /\ Restoring(s, run[r])
        /\ UNCHANGED <<run, attach, recovery, index, socket>>
    BY <1>5 DEF Reactivate, stored
  <2> QED BY <1>1, <1>3, <2>1, ReopenStep
<1>6. CASE MayReactivate(r, o)
  <2> DEFINE row == [run[r] EXCEPT !.status = "active"]
  <2>1. row \in RowType /\ row.status = "active" /\ row.home = run[r].home
        /\ row.projects = run[r].projects
    BY <1>2 DEF RowType
  <2>2. /\ run' = [run EXCEPT ![r].status = "active"]
        /\ recovery' = [recovery EXCEPT ![o] = r]
        /\ Restoring(s, row) /\ UNCHANGED <<attach, index, socket>>
    BY <1>6 DEF Reactivate
  <2>3. run' = [run EXCEPT ![r] = row]
    BY <2>2
  <2> HIDE DEF row
  <2>4. /\ run' \in [Runs -> RowType] /\ run'[r] = row
        /\ \A q \in Runs : q # r => run'[q] = run[q]
    BY <1>2, <2>1, <2>3 DEF TypeOK
  <2>5. recovery' \in [RecoverOps -> Runs \cup {NoRun}] /\ recovery'[o] = r
    BY <1>2, <1>3, <2>2 DEF TypeOK
  <2>6. recovery[o] = NoRun /\ run[r].status = "stopped"
    BY <1>6 DEF MayReactivate, Recoverable
  <2>7. run[r].home \in run[r].projects
    BY <1>2, <1>3 DEF Shared, RowOK
  <2>8. RunMoves(s)
    <3>1. \E x \in RecoverOps : recovery[x] = NoRun /\ recovery'[x] = r
      BY <1>3, <2>5, <2>6
    <3> QED BY <1>3, <2>1, <2>2, <2>4, <2>6, <2>7, <3>1 DEF RunMoves
  <2>9. \A p \in Projects : index[p] = r => p \in row.projects
    BY <1>2, <2>1, AbsentAssumption DEF Shared, IndexBacked
  <2> QED
    BY <1>1, <1>3, <2>1, <2>2, <2>4, <2>5, <2>8, <2>9, RestoringStep
<1> QED BY <1>4, <1>5, <1>6 DEF Reactivate

(* A lock taken while a run is restored is free, and the project of no      *)
(* other run.                                                               *)
LEMMA RestoreLeaseStep ==
    ASSUME IInv, NEW s \in Supervisors, NEW p \in Projects,
           RestoreLease(s, p)
    PROVE  Kept(s)
<1>1. sup[s].stage = "restore" /\ p \in sup[s].todo \ sup[s].held
  BY DEF RestoreLease
<1>2. CASE Quit(s)
  BY <1>1, <1>2, QuitStep DEF Kept
<1>3. CASE MayOwn(s, p)
  <2>1. /\ TypeOK /\ Local(s) /\ sup[s].run \in Runs
        /\ run[sup[s].run].projects \subseteq Projects
    BY <1>1, Here
  <2>2. Moves(s, "restore", sup[s].held \cup {p}, sup[s].todo,
              sup[s].project, sup[s].resume, sup[s].stopped)
    BY <1>1, <1>3, <2>1, MovesOwn DEF RestoreLease
  <2>3. UNCHANGED <<run, attach, recovery, index, socket>>
    BY <1>3 DEF RestoreLease, stored
  <2>4. ~HeldElsewhere(s, p) /\ ~Foreign(sup[s].run, p)
    BY <1>1, <1>3 DEF MayOwn
  <2>5. Within(s) /\ TypeOK'
    <3>1. ~Bound(s)
      BY <1>1 DEF Bound, Published, AttachStages
    <3> QED BY <1>1, <2>2, <2>3, <2>4, <3>1, OnlyProcess
  <2>6. RowPart(s)' /\ HomePart(s)' /\ StatusPart(s)' /\ ForeignPart(s)'
    BY <1>1, <2>1, <2>2, <2>3, <2>4
       DEF Moves, Local, RowPart, HomePart, StatusPart, ForeignPart, Foreign,
           Past, AttachStages
  <2>7. RestorePart(s)'
    BY <1>1, <2>1, <2>2, <2>3 DEF Moves, Local, RestorePart
  <2>8. /\ AttachPart(s)' /\ ServesPart(s)' /\ SecondaryPart(s)'
        /\ PublishPart(s)' /\ SocketPart(s)' /\ RetirePart(s)'
    BY <2>2
       DEF Moves, AttachPart, ServesPart, SecondaryPart, PublishPart,
           SocketPart, RetirePart, Published, Bound, Going, Past,
           AttachStages
  <2> QED BY <2>5, <2>6, <2>7, <2>8 DEF Kept, Local
<1> QED BY <1>2, <1>3 DEF RestoreLease

(* An entry published under its lock: the step of the index that every      *)
(* publication is.                                                          *)
LEMMA PublishMoves ==
    ASSUME IInv, NEW s \in Supervisors, NEW p \in Projects,
           sup[s].stage \notin {"none", "spawned"},
           p \in sup[s].held, ~Foreign(sup[s].run, p),
           run[sup[s].run].status \notin {"none", "stopped"},
           p \in run[sup[s].run].projects,
           Publish(sup[s].run, p),
           UNCHANGED <<run, attach, socket>>,
           NEW stage, NEW held, NEW todo, NEW project, NEW resume,
           NEW stopped,
           Moves(s, stage, held, todo, project, resume, stopped),
           held = sup[s].held,
           Bound(s) => Bound(s)'
    PROVE  /\ Within(s)
           /\ index' \in [Projects -> Runs \cup {NoRun}]
           /\ index'[p] = sup[s].run
           /\ \A q \in Projects : q # p => index'[q] = index[q]
<1>1. TypeOK /\ Shared /\ sup[s].run \in Runs
  BY Here
<1>2. /\ index' \in [Projects -> Runs \cup {NoRun}]
      /\ index'[p] = sup[s].run
      /\ \A q \in Projects : q # p => index'[q] = index[q]
  BY <1>1 DEF TypeOK, Publish
<1>3. index[p] \in {NoRun, sup[s].run}
  BY DEF Foreign
<1>4. IndexMoves(s)
  BY <1>2, <1>3 DEF IndexMoves
<1>5. ProcessMoves(s)
  BY DEF ProcessMoves, Moves
<1>6. SocketMoves(s)
  BY <1>1 DEF SocketMoves, Shared, Binders, Moves
<1>7. OthersKept(s) /\ RunMoves(s) /\ AttachMoves(s)
  BY DEF OthersKept, RunMoves, AttachMoves
<1> QED BY <1>2, <1>4, <1>5, <1>6, <1>7 DEF Within

(* A project is done when it is owned, and its entry the run's own.         *)
LEMMA RestoreIndexStep ==
    ASSUME IInv, NEW s \in Supervisors, NEW p \in Projects,
           RestoreIndex(s, p)
    PROVE  Kept(s)
<1>1. sup[s].stage = "restore" /\ p \in sup[s].todo /\ p \in sup[s].held
  BY DEF RestoreIndex
<1>2. /\ TypeOK /\ Local(s) /\ sup[s].run \in Runs
      /\ run[sup[s].run].projects \subseteq Projects
      /\ sup[s].held \subseteq Projects
  BY <1>1, Here
<1>3. ~Bound(s)
  BY <1>1 DEF Bound, Published, AttachStages
<1>4. CASE Quit(s)
  BY <1>1, <1>4, QuitStep DEF Kept
<1>5. CASE sup[s].stopped \/ p = sup[s].home \/ index[p] = sup[s].run
  <2>1. Moves(s, "restore", sup[s].held, sup[s].todo \ {p},
              sup[s].project, sup[s].resume, sup[s].stopped)
    BY <1>1, <1>2, <1>5, MovesDone DEF RestoreIndex
  <2>2. UNCHANGED <<run, attach, recovery, index, socket>>
    BY <1>5 DEF RestoreIndex, stored
  <2>3. Within(s) /\ TypeOK'
    BY <1>1, <1>3, <2>1, <2>2, OnlyProcess
  <2>4. RowPart(s)' /\ HomePart(s)' /\ StatusPart(s)' /\ ForeignPart(s)'
    BY <1>1, <1>2, <2>1, <2>2
       DEF Moves, Local, RowPart, HomePart, StatusPart, ForeignPart, Foreign,
           Past, AttachStages
  <2>5. RestorePart(s)'
    BY <1>1, <1>2, <1>5, <2>1, <2>2 DEF Moves, Local, RestorePart
  <2>6. /\ AttachPart(s)' /\ ServesPart(s)' /\ SecondaryPart(s)'
        /\ PublishPart(s)' /\ SocketPart(s)' /\ RetirePart(s)'
    BY <2>1
       DEF Moves, AttachPart, ServesPart, SecondaryPart, PublishPart,
           SocketPart, RetirePart, Published, Bound, Going, Past,
           AttachStages
  <2> QED BY <2>3, <2>4, <2>5, <2>6 DEF Kept, Local
<1>6. CASE /\ ~(sup[s].stopped \/ p = sup[s].home \/ index[p] = sup[s].run)
           /\ MayPublish(s, p)
  <2>1. Moves(s, "restore", sup[s].held, sup[s].todo \ {p},
              sup[s].project, sup[s].resume, sup[s].stopped)
    BY <1>1, <1>2, <1>6, MovesDone DEF RestoreIndex
  <2>2. UNCHANGED <<run, attach, recovery, socket>>
        /\ Publish(sup[s].run, p)
    BY <1>6 DEF RestoreIndex, stored
  <2>3. ~Foreign(sup[s].run, p)
    BY <1>6 DEF MayPublish
  <2>4. run[sup[s].run].status \notin {"none", "stopped"}
    BY <1>1, <1>2, <1>6 DEF Local, HomePart, StatusPart, Past
  <2>5. p \in run[sup[s].run].projects
    BY <1>1, <1>2 DEF Local, RestorePart
  <2>6. /\ Within(s)
        /\ index' \in [Projects -> Runs \cup {NoRun}]
        /\ index'[p] = sup[s].run
        /\ \A q \in Projects : q # p => index'[q] = index[q]
    BY <1>1, <1>3, <2>1, <2>2, <2>3, <2>4, <2>5, PublishMoves
  <2>7. TypeOK'
    BY <1>2, <2>1, <2>2, <2>6 DEF TypeOK, Moves
  <2>8. RowPart(s)' /\ HomePart(s)' /\ StatusPart(s)' /\ ForeignPart(s)'
    BY <1>1, <1>2, <2>1, <2>2, <2>6
       DEF Moves, Local, RowPart, HomePart, StatusPart, ForeignPart, Foreign,
           Past, AttachStages
  <2>9. RestorePart(s)'
    BY <1>1, <1>2, <1>6, <2>1, <2>2, <2>6 DEF Moves, Local, RestorePart
  <2>10. /\ AttachPart(s)' /\ ServesPart(s)' /\ SecondaryPart(s)'
         /\ PublishPart(s)' /\ SocketPart(s)' /\ RetirePart(s)'
    BY <2>1
       DEF Moves, AttachPart, ServesPart, SecondaryPart, PublishPart,
           SocketPart, RetirePart, Published, Bound, Going, Past,
           AttachStages
  <2> QED BY <2>6, <2>7, <2>8, <2>9, <2>10 DEF Kept, Local
<1> QED BY <1>4, <1>5, <1>6 DEF RestoreIndex

(* With nothing left to do, a run that is to serve owns all it has, and one *)
(* that is stopped all its index still names.                               *)
LEMMA RestoredStep ==
    ASSUME IInv, NEW s \in Supervisors, Restored(s)
    PROVE  Kept(s)
<1>1. sup[s].stage = "restore" /\ sup[s].todo = {}
  BY DEF Restored
<1>2. /\ TypeOK /\ Local(s) /\ sup[s].run \in Runs
      /\ run[sup[s].run].projects \subseteq Projects
  BY <1>1, Here
<1>3. UNCHANGED <<run, attach, recovery, index, socket>>
  BY DEF Restored, stored
<1>4. ~Bound(s)
  BY <1>1 DEF Bound, Published, AttachStages
<1>5. "socket" \in Stages /\ "attachments" \in Stages
  BY DEF Stages
<1>6. CASE sup[s].stopped
  <2>1. Moves(s, "socket", sup[s].held, {}, sup[s].project, sup[s].resume,
              sup[s].stopped)
    <3>1. sup' = [sup EXCEPT ![s].stage = "socket", ![s].todo = {}]
      BY <1>6 DEF Restored
    <3> QED BY <1>2, <1>5, <3>1, MovesTodo
  <2>2. Within(s) /\ TypeOK'
    BY <1>1, <1>3, <1>4, <2>1, OnlyProcess
  <2>3. RowPart(s)' /\ HomePart(s)' /\ StatusPart(s)' /\ ForeignPart(s)'
    BY <1>1, <1>2, <1>3, <1>6, <2>1
       DEF Moves, Local, RowPart, HomePart, StatusPart, ForeignPart, Foreign,
           Past, AttachStages
  <2>4. RestorePart(s)'
    BY <1>1, <1>2, <1>3, <1>6, <2>1 DEF Moves, Local, RestorePart
  <2>5. /\ AttachPart(s)' /\ ServesPart(s)' /\ SecondaryPart(s)'
        /\ PublishPart(s)' /\ SocketPart(s)' /\ RetirePart(s)'
    BY <1>6, <2>1
       DEF Moves, AttachPart, ServesPart, SecondaryPart, PublishPart,
           SocketPart, RetirePart, Published, Bound, Going, Past,
           AttachStages
  <2> QED BY <2>2, <2>3, <2>4, <2>5 DEF Kept, Local
<1>7. CASE ~sup[s].stopped
  <2>1. Moves(s, "attachments", sup[s].held, Interrupted(sup[s].run),
              sup[s].project, sup[s].resume, sup[s].stopped)
    <3>1. sup' = [sup EXCEPT ![s].stage = "attachments",
                             ![s].todo = Interrupted(sup[s].run)]
      BY <1>7 DEF Restored
    <3>2. Interrupted(sup[s].run) \in SUBSET Projects
      BY DEF Interrupted
    <3> QED BY <1>2, <1>5, <3>1, <3>2, MovesTodo
  <2>2. Within(s) /\ TypeOK'
    BY <1>1, <1>3, <1>4, <2>1, OnlyProcess
  <2>3. RowPart(s)' /\ HomePart(s)' /\ StatusPart(s)' /\ ForeignPart(s)'
    BY <1>1, <1>2, <1>3, <1>7, <2>1
       DEF Moves, Local, RowPart, HomePart, StatusPart, ForeignPart, Foreign,
           Past, AttachStages
  <2>4. AttachPart(s)'
    BY <1>3, <2>1 DEF Moves, AttachPart, Interrupted, AttachStages
  <2>5. ServesPart(s)' /\ SecondaryPart(s)'
    BY <1>1, <1>2, <1>3, <1>7, <2>1
       DEF Moves, Local, RestorePart, ServesPart, SecondaryPart, Going, Past
  <2>6. /\ RestorePart(s)' /\ PublishPart(s)' /\ SocketPart(s)'
        /\ RetirePart(s)'
    BY <2>1
       DEF Moves, RestorePart, PublishPart, SocketPart, RetirePart,
           Published, Bound, AttachStages
  <2> QED BY <2>2, <2>3, <2>4, <2>5, <2>6 DEF Kept, Local
<1> QED BY <1>6, <1>7

(* An interrupted attachment is taken up for a project other than the home. *)
LEMMA CompleteInterruptedStep ==
    ASSUME IInv, NEW s \in Supervisors, NEW p \in Projects,
           CompleteInterrupted(s, p)
    PROVE  Kept(s)
<1>1. sup[s].stage = "attachments" /\ p \in sup[s].todo
  BY DEF CompleteInterrupted
<1>2. /\ TypeOK /\ Shared /\ Local(s) /\ sup[s].run \in Runs
      /\ run[sup[s].run].projects \subseteq Projects
  BY <1>1, Here
<1>3. Moves(s, "attach_lease", sup[s].held, sup[s].todo \ {p}, p,
            "attachments", sup[s].stopped)
  BY <1>2, MovesCompleting DEF CompleteInterrupted
<1>4. UNCHANGED <<run, attach, recovery, index, socket>>
  BY DEF CompleteInterrupted, stored
<1>5. Within(s) /\ TypeOK'
  <2>1. ~Bound(s)
    BY <1>1 DEF Bound, Published, AttachStages
  <2> QED BY <1>1, <1>3, <1>4, <2>1, OnlyProcess
<1>6. RowPart(s)' /\ HomePart(s)' /\ StatusPart(s)' /\ ForeignPart(s)'
  BY <1>1, <1>2, <1>3, <1>4
     DEF Moves, Local, RowPart, HomePart, StatusPart, ForeignPart, Foreign,
         Past, AttachStages
<1>7. AttachPart(s)'
  <2>1. attach[sup[s].run][p] # "none"
    BY <1>1, <1>2 DEF Local, AttachPart
  <2>2. run[sup[s].run].status # "none" /\ p # run[sup[s].run].home
    BY <1>2, <2>1 DEF Shared, AttachRows
  <2>3. p # sup[s].home
    BY <1>1, <1>2, <2>2 DEF Local, HomePart
  <2> QED BY <1>1, <1>2, <1>3, <1>4, <2>1, <2>3
       DEF Moves, Local, AttachPart, Current, AttachStages
<1>8. ServesPart(s)' /\ SecondaryPart(s)'
  BY <1>1, <1>2, <1>3, <1>4
     DEF Moves, Local, ServesPart, SecondaryPart, Going, Past, AttachStages
<1>9. RestorePart(s)' /\ PublishPart(s)' /\ SocketPart(s)' /\ RetirePart(s)'
  BY <1>3
     DEF Moves, RestorePart, PublishPart, SocketPart, RetirePart, Published,
         Bound, AttachStages
<1> QED BY <1>5, <1>6, <1>7, <1>8, <1>9 DEF Kept, Local

(* Without interrupted attachments the startup goes on.                     *)
LEMMA NoneInterruptedStep ==
    ASSUME IInv, NEW s \in Supervisors, NoneInterrupted(s)
    PROVE  Kept(s)
<1>1. sup[s].stage = "attachments"
  BY DEF NoneInterrupted
<1>2. TypeOK /\ Local(s) /\ sup[s].run \in Runs /\ ~sup[s].stopped
  BY <1>1, Here DEF Local, RowPart
<1>3. Moves(s, "socket", sup[s].held, sup[s].todo, sup[s].project,
            sup[s].resume, sup[s].stopped)
  <2>1. "socket" \in Stages
    BY DEF Stages
  <2> QED BY <1>2, <2>1, MovesStage DEF NoneInterrupted, Enter
<1>4. UNCHANGED <<run, attach, recovery, index, socket>>
  BY DEF NoneInterrupted, stored
<1>5. Within(s) /\ TypeOK'
  <2>1. ~Bound(s)
    BY <1>1 DEF Bound, Published, AttachStages
  <2> QED BY <1>1, <1>3, <1>4, <2>1, OnlyProcess
<1>6. RowPart(s)' /\ HomePart(s)' /\ StatusPart(s)' /\ ForeignPart(s)'
  BY <1>1, <1>2, <1>3, <1>4
     DEF Moves, Local, RowPart, HomePart, StatusPart, ForeignPart, Foreign,
         Past, AttachStages
<1>7. ServesPart(s)' /\ SecondaryPart(s)'
  BY <1>1, <1>2, <1>3, <1>4
     DEF Moves, Local, ServesPart, SecondaryPart, Going, Past, AttachStages
<1>8. /\ AttachPart(s)' /\ RestorePart(s)' /\ PublishPart(s)'
      /\ SocketPart(s)' /\ RetirePart(s)'
  BY <1>2, <1>3
     DEF Moves, AttachPart, RestorePart, PublishPart, SocketPart, RetirePart,
         Published, Bound, AttachStages
<1> QED BY <1>5, <1>6, <1>7, <1>8 DEF Kept, Local

(* Nobody of the run can be behind a socket that is removed as stale        *)
(* (remove_stale_socket), and what is to retire is all the index names.     *)
LEMMA RemoveStaleSocketStep ==
    ASSUME IInv, NEW s \in Supervisors, RemoveStaleSocket(s)
    PROVE  Kept(s)
<1> DEFINE r == sup[s].run
<1>1. sup[s].stage = "socket"
  BY DEF RemoveStaleSocket
<1>2. /\ TypeOK /\ Shared /\ Local(s) /\ r \in Runs
      /\ sup[s].held \subseteq Projects
  BY <1>1, Here
<1>3. CASE Quit(s)
  BY <1>1, <1>3, QuitStep DEF Kept
<1>4. CASE ~Answers(r)
  <2> DEFINE stage == IF sup[s].stopped THEN "retire"
                      ELSE IF sup[s].mode = "stop" THEN "begin_stop"
                      ELSE "bind"
             todo == IF sup[s].stopped THEN sup[s].held ELSE {}
  <2>1. /\ stage \in Stages /\ todo \in SUBSET Projects
        /\ stage \in {"retire", "begin_stop", "bind"}
        /\ sup[s].stopped => stage = "retire" /\ todo = sup[s].held
        /\ ~sup[s].stopped => stage # "retire"
    BY <1>2 DEF Stages
  <2>2. sup' = [sup EXCEPT ![s].stage = stage, ![s].todo = todo]
    BY <1>4 DEF RemoveStaleSocket
  <2> HIDE DEF stage, todo
  <2>3. Moves(s, stage, sup[s].held, todo, sup[s].project, sup[s].resume,
              sup[s].stopped)
    BY <1>2, <2>1, <2>2, MovesTodo
  <2>4. /\ socket' = [socket EXCEPT ![r] = NoFile]
        /\ UNCHANGED <<run, attach, recovery, index>>
    BY <1>4 DEF RemoveStaleSocket, stored
  <2>5. /\ socket' \in [Runs -> Supervisors \cup {NoFile, Dead}]
        /\ socket'[r] = NoFile
        /\ \A q \in Runs : q # r => socket'[q] = socket[q]
    BY <1>2, <2>4 DEF TypeOK
  <2>6. TypeOK'
    BY <1>2, <2>3, <2>4, <2>5 DEF TypeOK, Moves
  <2>7. Within(s)
    <3>1. ProcessMoves(s)
      BY <2>3 DEF Moves, ProcessMoves
    <3>2. SocketMoves(s)
      <4>1. \A q \in Runs : socket'[q] # s
        <5>1. ~Bound(s)
          BY <1>1 DEF Bound, Published, AttachStages
        <5> QED BY <1>2, <2>5, <5>1, AbsentAssumption DEF Shared, Binders
      <4> QED BY <2>5, <4>1 DEF SocketMoves
    <3>3. OthersKept(s)
      BY <1>1, <2>4, <2>5 DEF OthersKept
    <3>4. IndexMoves(s) /\ RunMoves(s) /\ AttachMoves(s)
      BY <2>4 DEF IndexMoves, RunMoves, AttachMoves
    <3> QED BY <3>1, <3>2, <3>3, <3>4 DEF Within
  <2>8. RowPart(s)' /\ HomePart(s)' /\ StatusPart(s)' /\ ForeignPart(s)'
    BY <1>1, <1>2, <2>1, <2>3, <2>4
       DEF Moves, Local, RowPart, HomePart, StatusPart, ForeignPart, Foreign,
           Past, AttachStages
  <2>9. ServesPart(s)' /\ SecondaryPart(s)'
    BY <1>1, <1>2, <2>1, <2>3, <2>4
       DEF Moves, Local, ServesPart, SecondaryPart, Going, Past, AttachStages
  <2>10. RetirePart(s)'
    BY <1>1, <1>2, <2>1, <2>3, <2>4
       DEF Moves, Local, RestorePart, RetirePart
  <2>11. AttachPart(s)' /\ RestorePart(s)' /\ PublishPart(s)' /\ SocketPart(s)'
    BY <2>1, <2>3, <2>5
       DEF Moves, AttachPart, RestorePart, PublishPart, SocketPart,
           Published, Bound, AttachStages
  <2> QED BY <2>6, <2>7, <2>8, <2>9, <2>10, <2>11 DEF Kept, Local
<1> QED BY <1>3, <1>4 DEF RemoveStaleSocket

(* A status written to the row of a run leaves the rest of it.              *)
LEMMA StatusRow ==
    ASSUME TypeOK, NEW r \in Runs,
           NEW x \in {"none", "active", "stopping", "stopped"},
           run' = [run EXCEPT ![r].status = x]
    PROVE  /\ run' \in [Runs -> RowType]
           /\ run'[r].status = x /\ run'[r].home = run[r].home
           /\ run'[r].projects = run[r].projects
           /\ \A q \in Runs : q # r => run'[q] = run[q]
  BY DEF TypeOK, RowType

(* A step of a supervisor that writes the status of its run, which is not   *)
(* stopped, and keeps everything else.                                      *)
LEMMA StatusMoves ==
    ASSUME IInv, NEW s \in Supervisors, sup[s].stage \in Past,
           run[sup[s].run].status # "stopped",
           NEW x \in {"active", "stopping", "stopped"},
           x = "stopped" => index[sup[s].home] = sup[s].run,
           run' = [run EXCEPT ![sup[s].run].status = x],
           UNCHANGED <<attach, recovery, index>>,
           OthersKept(s), ProcessMoves(s), SocketMoves(s),
           sup' \in [Supervisors -> ProcessType],
           socket' \in [Runs -> Supervisors \cup {NoFile, Dead}]
    PROVE  Within(s) /\ TypeOK'
<1>1. sup[s].stage # "none"
  BY DEF Past, AttachStages
<1>2. /\ TypeOK /\ Shared /\ Local(s) /\ sup[s].run \in Runs
  BY <1>1, Here
<1>3. /\ run' \in [Runs -> RowType]
      /\ run'[sup[s].run].status = x
      /\ run'[sup[s].run].home = run[sup[s].run].home
      /\ run'[sup[s].run].projects = run[sup[s].run].projects
  BY <1>2, StatusRow
<1>4. /\ run[sup[s].run].status # "none"
      /\ run[sup[s].run].home = sup[s].home
      /\ run[sup[s].run].home \in run[sup[s].run].projects
  BY <1>1, <1>2 DEF Local, HomePart, Shared, RowOK
<1>5. RunMoves(s)
  BY <1>3, <1>4 DEF RunMoves
<1>6. IndexMoves(s) /\ AttachMoves(s)
  BY DEF IndexMoves, AttachMoves
<1>7. TypeOK'
  BY <1>2, <1>3 DEF TypeOK
<1> QED BY <1>5, <1>6, <1>7 DEF Within

(* An offline stop is recorded before the socket is bound.                  *)
LEMMA BeginOfflineStopStep ==
    ASSUME IInv, NEW s \in Supervisors, BeginOfflineStop(s)
    PROVE  Kept(s)
<1>1. sup[s].stage = "begin_stop" /\ sup[s].stage \in Past
  BY DEF BeginOfflineStop, Past
<1>2. /\ TypeOK /\ Shared /\ Local(s) /\ sup[s].run \in Runs /\ ~sup[s].stopped
  BY <1>1, Here DEF Local, RowPart
<1>3. run[sup[s].run].status # "stopped"
  BY <1>1, <1>2 DEF Local, StatusPart
<1>4. Moves(s, "bind", sup[s].held, sup[s].todo, sup[s].project,
            sup[s].resume, sup[s].stopped)
  <2>1. "bind" \in Stages
    BY DEF Stages
  <2> QED BY <1>2, <2>1, MovesStage DEF BeginOfflineStop, Enter
<1>5. /\ run' = [run EXCEPT ![sup[s].run].status = "stopping"]
      /\ UNCHANGED <<attach, recovery, index, socket>>
  BY DEF BeginOfflineStop
<1>6. /\ run'[sup[s].run].status = "stopping"
      /\ run'[sup[s].run].home = run[sup[s].run].home
      /\ run'[sup[s].run].projects = run[sup[s].run].projects
      /\ \A q \in Runs : q # sup[s].run => run'[q] = run[q]
  BY <1>2, <1>5, StatusRow
<1>7. Within(s) /\ TypeOK'
  <2>1. ProcessMoves(s) /\ sup' \in [Supervisors -> ProcessType]
    BY <1>4 DEF Moves, ProcessMoves
  <2>2. OthersKept(s)
    BY <1>1, <1>5, <1>6 DEF OthersKept
  <2>3. SocketMoves(s) /\ socket' \in [Runs -> Supervisors \cup {NoFile, Dead}]
    <3>1. ~Bound(s)
      BY <1>1 DEF Bound, Published, AttachStages
    <3> QED BY <1>2, <1>5, <3>1 DEF SocketMoves, Shared, Binders, TypeOK
  <2> QED BY <1>1, <1>3, <1>5, <2>1, <2>2, <2>3, StatusMoves
<1>8. RowPart(s)' /\ HomePart(s)' /\ StatusPart(s)' /\ ForeignPart(s)'
  BY <1>1, <1>2, <1>4, <1>5, <1>6
     DEF Moves, Local, RowPart, HomePart, StatusPart, ForeignPart, Foreign,
         Past, AttachStages
<1>9. ServesPart(s)' /\ SecondaryPart(s)'
  BY <1>1, <1>2, <1>4, <1>5, <1>6
     DEF Moves, Local, ServesPart, SecondaryPart, Going, Past, AttachStages
<1>10. /\ AttachPart(s)' /\ RestorePart(s)' /\ PublishPart(s)'
       /\ SocketPart(s)' /\ RetirePart(s)'
  BY <1>1, <1>2, <1>4, <1>5
     DEF Moves, Local, AttachPart, RestorePart, PublishPart, SocketPart,
         RetirePart, Published, Bound, AttachStages
<1> QED BY <1>7, <1>8, <1>9, <1>10 DEF Kept, Local

(* The socket of the run becomes this supervisor's.                         *)
LEMMA BindStep ==
    ASSUME IInv, NEW s \in Supervisors, Bind(s)
    PROVE  Kept(s)
<1> DEFINE r == sup[s].run
<1>1. sup[s].stage = "bind"
  BY DEF Bind
<1>2. /\ TypeOK /\ Shared /\ Local(s) /\ r \in Runs /\ ~sup[s].stopped
  BY <1>1, Here DEF Local, RowPart
<1>3. CASE Quit(s)
  BY <1>1, <1>3, QuitStep DEF Kept
<1>4. CASE socket[r] = NoFile
  <2>1. Moves(s, "listen", sup[s].held, sup[s].todo, sup[s].project,
              sup[s].resume, sup[s].stopped)
    <3>1. "listen" \in Stages
      BY DEF Stages
    <3> QED BY <1>2, <1>4, <3>1, MovesStage DEF Bind, Enter
  <2>2. /\ socket' = [socket EXCEPT ![r] = s]
        /\ UNCHANGED <<run, attach, recovery, index>>
    BY <1>4 DEF Bind, stored
  <2>3. /\ socket' \in [Runs -> Supervisors \cup {NoFile, Dead}]
        /\ socket'[r] = s
        /\ \A q \in Runs : q # r => socket'[q] = socket[q]
    BY <1>2, <2>2 DEF TypeOK
  <2>4. TypeOK'
    BY <1>2, <2>1, <2>2, <2>3 DEF TypeOK, Moves
  <2>5. Within(s)
    <3>1. ProcessMoves(s)
      BY <2>1 DEF Moves, ProcessMoves
    <3>2. SocketMoves(s)
      <4>1. Bound(s)' /\ sup'[s].run = r
        BY <2>1 DEF Moves, Bound
      <4>2. \A q \in Runs : socket[q] = s => q = r
        BY <1>2 DEF Shared, Binders
      <4> QED BY <2>3, <4>1, <4>2 DEF SocketMoves
    <3>3. OthersKept(s)
      BY <1>1, <2>2, <2>3 DEF OthersKept
    <3>4. IndexMoves(s) /\ RunMoves(s) /\ AttachMoves(s)
      BY <2>2 DEF IndexMoves, RunMoves, AttachMoves
    <3> QED BY <3>1, <3>2, <3>3, <3>4 DEF Within
  <2>6. RowPart(s)' /\ HomePart(s)' /\ StatusPart(s)' /\ ForeignPart(s)'
    BY <1>1, <1>2, <2>1, <2>2
       DEF Moves, Local, RowPart, HomePart, StatusPart, ForeignPart, Foreign,
           Past, AttachStages
  <2>7. ServesPart(s)' /\ SecondaryPart(s)'
    BY <1>1, <1>2, <2>1, <2>2
       DEF Moves, Local, ServesPart, SecondaryPart, Going, Past, AttachStages
  <2>8. /\ AttachPart(s)' /\ RestorePart(s)' /\ PublishPart(s)'
        /\ SocketPart(s)' /\ RetirePart(s)'
    BY <2>1, <2>3
       DEF Moves, AttachPart, RestorePart, PublishPart, SocketPart,
           RetirePart, Published, Bound, AttachStages
  <2> QED BY <2>4, <2>5, <2>6, <2>7, <2>8 DEF Kept, Local
<1> QED BY <1>3, <1>4 DEF Bind

(* Nothing but the point it has come to changes.                            *)
LEMMA ListenStep ==
    ASSUME IInv, NEW s \in Supervisors, Listen(s)
    PROVE  Kept(s)
<1>1. sup[s].stage = "listen"
  BY DEF Listen
<1>2. TypeOK /\ Local(s) /\ sup[s].run \in Runs /\ ~sup[s].stopped
  BY <1>1, Here DEF Local, RowPart
<1>3. CASE Quit(s)
  BY <1>1, <1>3, QuitStep DEF Kept
<1>4. CASE socket[sup[s].run] = s
  <2>1. Moves(s, "publish", sup[s].held, sup[s].todo, sup[s].project,
              sup[s].resume, sup[s].stopped)
    <3>1. "publish" \in Stages
      BY DEF Stages
    <3> QED BY <1>2, <1>4, <3>1, MovesStage DEF Listen, Enter
  <2>2. UNCHANGED <<run, attach, recovery, index, socket>>
    BY <1>4 DEF Listen, stored
  <2>3. Within(s) /\ TypeOK'
    <3>1. Bound(s)'
      BY <2>1 DEF Moves, Bound
    <3> QED BY <1>1, <2>1, <2>2, <3>1, OnlyProcess
  <2>4. RowPart(s)' /\ HomePart(s)' /\ StatusPart(s)' /\ ForeignPart(s)'
    BY <1>1, <1>2, <2>1, <2>2
       DEF Moves, Local, RowPart, HomePart, StatusPart, ForeignPart, Foreign,
           Past, AttachStages
  <2>5. ServesPart(s)' /\ SecondaryPart(s)'
    BY <1>1, <1>2, <2>1, <2>2
       DEF Moves, Local, ServesPart, SecondaryPart, Going, Past, AttachStages
  <2>6. /\ AttachPart(s)' /\ RestorePart(s)' /\ PublishPart(s)'
        /\ SocketPart(s)' /\ RetirePart(s)'
    BY <1>4, <2>1, <2>2
       DEF Moves, AttachPart, RestorePart, PublishPart, SocketPart,
           RetirePart, Published, Bound, AttachStages
  <2> QED BY <2>3, <2>4, <2>5, <2>6 DEF Kept, Local
<1> QED BY <1>3, <1>4 DEF Listen

(* The primary's entry is published last (ActiveRunIndex::publish).         *)
LEMMA PublishPrimaryStep ==
    ASSUME IInv, NEW s \in Supervisors, PublishPrimary(s)
    PROVE  Kept(s)
<1> DEFINE r == sup[s].run
           p == sup[s].home
<1>1. sup[s].stage = "publish"
  BY DEF PublishPrimary
<1>2. /\ TypeOK /\ Shared /\ Local(s) /\ r \in Runs /\ p \in Projects
      /\ ~sup[s].stopped /\ p \in sup[s].held
      /\ sup[s].held \subseteq Projects /\ run[r].projects \subseteq Projects
  BY <1>1, Here DEF Local, RowPart
<1>3. CASE Quit(s)
  BY <1>1, <1>3, QuitStep DEF Kept
<1>4. CASE index[p] = r \/ MayPublish(s, p)
  <2>1. Moves(s, "serve", sup[s].held, sup[s].todo, sup[s].project,
              sup[s].resume, sup[s].stopped)
    <3>1. "serve" \in Stages
      BY DEF Stages
    <3> QED BY <1>2, <1>4, <3>1, MovesStage DEF PublishPrimary, Enter
  <2>2. Publish(r, p) /\ UNCHANGED <<run, attach, recovery, socket>>
    BY <1>4 DEF PublishPrimary, stored
  <2>3. ~Foreign(r, p)
    BY <1>4 DEF MayPublish, Foreign
  <2>4. /\ run[r].status \notin {"none", "stopped"}
        /\ p \in run[r].projects
    BY <1>1, <1>2 DEF Local, HomePart, StatusPart, Past, Shared, RowOK
  <2>5. Bound(s)'
    BY <2>1 DEF Moves, Bound, Published
  <2>6. /\ Within(s)
        /\ index' \in [Projects -> Runs \cup {NoRun}]
        /\ index'[p] = r
        /\ \A q \in Projects : q # p => index'[q] = index[q]
    BY <1>1, <1>2, <2>1, <2>2, <2>3, <2>4, <2>5, PublishMoves
  <2>7. TypeOK'
    BY <1>2, <2>1, <2>2, <2>6 DEF TypeOK, Moves
  <2>8. RowPart(s)' /\ HomePart(s)' /\ StatusPart(s)' /\ ForeignPart(s)'
    BY <1>1, <1>2, <2>1, <2>2, <2>6
       DEF Moves, Local, RowPart, HomePart, StatusPart, ForeignPart, Foreign,
           Past, AttachStages
  <2>9. ServesPart(s)' /\ SecondaryPart(s)'
    BY <1>1, <1>2, <2>1, <2>2, <2>6
       DEF Moves, Local, ServesPart, SecondaryPart, Going, Past, AttachStages
  <2>10. PublishPart(s)' /\ SocketPart(s)'
    BY <1>1, <1>2, <2>1, <2>2, <2>6
       DEF Moves, Local, PublishPart, SocketPart, Published, Bound
  <2>11. AttachPart(s)' /\ RestorePart(s)' /\ RetirePart(s)'
    BY <2>1 DEF Moves, AttachPart, RestorePart, RetirePart, AttachStages
  <2> QED BY <2>6, <2>7, <2>8, <2>9, <2>10, <2>11 DEF Kept, Local
<1> QED BY <1>3, <1>4 DEF PublishPrimary

(* A step that changes of the files only the attachments of its own run.    *)
LEMMA AttachOnly ==
    ASSUME IInv, NEW s \in Supervisors,
           sup[s].stage \notin {"none", "spawned"},
           UNCHANGED <<run, recovery, index, socket>>,
           attach' \in [Runs -> [Projects -> {"none", "desired", "unknown",
                                              "observed"}]],
           \A q \in Runs : q # sup[s].run => attach'[q] = attach[q],
           AttachMoves(s),
           NEW stage, NEW held, NEW todo, NEW project, NEW resume,
           NEW stopped,
           Moves(s, stage, held, todo, project, resume, stopped),
           held = sup[s].held,
           Bound(s) => Bound(s)'
    PROVE  Within(s) /\ TypeOK'
<1>1. TypeOK /\ Shared
  BY Here
<1>2. TypeOK'
  BY <1>1 DEF TypeOK, Moves
<1>3. ProcessMoves(s)
  BY DEF ProcessMoves, Moves
<1>4. SocketMoves(s)
  BY <1>1 DEF SocketMoves, Shared, Binders, Moves
<1>5. OthersKept(s) /\ IndexMoves(s) /\ RunMoves(s)
  BY DEF OthersKept, IndexMoves, RunMoves
<1> QED BY <1>2, <1>3, <1>4, <1>5 DEF Within

(* One entry of the attachments written.                                    *)
LEMMA AttachRow ==
    ASSUME TypeOK, NEW r \in Runs, NEW p \in Projects,
           NEW x \in {"desired", "unknown", "observed"},
           attach' = [attach EXCEPT ![r][p] = x]
    PROVE  /\ attach' \in [Runs -> [Projects -> {"none", "desired",
                                                 "unknown", "observed"}]]
           /\ attach'[r][p] = x
           /\ \A q \in Projects : q # p => attach'[r][q] = attach[r][q]
           /\ \A q \in Runs : q # r => attach'[q] = attach[q]
  BY DEF TypeOK

(* A project is attached by the serving supervisor, never the home.         *)
LEMMA AttachStep ==
    ASSUME IInv, NEW s \in Supervisors, NEW p \in Projects, Attach(s, p)
    PROVE  Kept(s)
<1> DEFINE r == sup[s].run
<1>1. sup[s].stage = "serve" /\ run[r].status = "active"
  BY DEF Attach
<1>2. /\ TypeOK /\ Shared /\ Local(s) /\ r \in Runs /\ ~sup[s].stopped
      /\ run[r].projects \subseteq Projects
  BY <1>1, Here DEF Local, RowPart
<1>3. p # run[r].home /\ p # sup[s].home
  <2>1. run[r].home \in run[r].projects /\ sup[s].home = run[r].home
    BY <1>1, <1>2 DEF Shared, RowOK, Local, HomePart
  <2>2. attach[r][p] = "unknown" => p # run[r].home
    BY <1>2 DEF Shared, AttachRows
  <2> QED BY <2>1, <2>2 DEF Attach
<1>4. Moves(s, "attach_lease", sup[s].held, sup[s].todo \ {p}, p, "serve",
            sup[s].stopped)
  BY <1>2, MovesCompleting DEF Attach
<1>5. UNCHANGED <<run, recovery, index, socket>>
  BY DEF Attach
<1>6. /\ attach' \in [Runs -> [Projects -> {"none", "desired", "unknown",
                                            "observed"}]]
      /\ attach'[r][p] # "none"
      /\ \A q \in Projects : q # p => attach'[r][q] = attach[r][q]
      /\ \A q \in Runs : q # r => attach'[q] = attach[q]
  <2>1. CASE attach[r][p] = "none"
    <3>1. attach' = [attach EXCEPT ![r][p] = "desired"]
      BY <2>1 DEF Attach
    <3> QED BY <1>2, <3>1, AttachRow
  <2>2. CASE attach[r][p] # "none"
    BY <1>2, <2>2 DEF Attach, TypeOK
  <2> QED BY <2>1, <2>2
<1>7. Within(s) /\ TypeOK'
  <2>1. AttachMoves(s)
    BY <1>1, <1>3, <1>6 DEF AttachMoves
  <2>2. Bound(s)'
    BY <1>4 DEF Moves, Bound, Published, AttachStages
  <2> QED BY <1>1, <1>4, <1>5, <1>6, <2>1, <2>2, AttachOnly
<1>8. RowPart(s)' /\ HomePart(s)' /\ StatusPart(s)' /\ ForeignPart(s)'
  BY <1>1, <1>2, <1>4, <1>5
     DEF Moves, Local, RowPart, HomePart, StatusPart, ForeignPart, Foreign,
         Past, AttachStages
<1>9. AttachPart(s)'
  BY <1>3, <1>4, <1>6 DEF Moves, AttachPart, Current
<1>10. ServesPart(s)' /\ SecondaryPart(s)'
  BY <1>1, <1>2, <1>4, <1>5
     DEF Moves, Local, ServesPart, SecondaryPart, Going, Past, AttachStages
<1>11. PublishPart(s)' /\ SocketPart(s)'
  BY <1>1, <1>2, <1>4, <1>5
     DEF Moves, Local, PublishPart, SocketPart, Published, Bound,
         AttachStages
<1>12. RestorePart(s)' /\ RetirePart(s)'
  BY <1>4 DEF Moves, RestorePart, RetirePart
<1> QED BY <1>7, <1>8, <1>9, <1>10, <1>11, <1>12 DEF Kept, Local

(* What an attachment under way knows of its supervisor.                    *)
LEMMA Attaches ==
    ASSUME IInv, NEW s \in Supervisors, sup[s].stage \in AttachStages
    PROVE  /\ TypeOK /\ Shared /\ Local(s)
           /\ sup[s].stage \notin {"none", "spawned"}
           /\ sup[s].run \in Runs /\ ~sup[s].stopped
           /\ sup[s].home \in Projects /\ sup[s].held \subseteq Projects
           /\ run[sup[s].run] \in RowType
           /\ run[sup[s].run].projects \subseteq Projects
           /\ run[sup[s].run].status \notin {"none", "stopped"}
           /\ run[sup[s].run].home = sup[s].home
           /\ sup[s].project \in Projects /\ sup[s].project # sup[s].home
           /\ sup[s].resume \in {"attachments", "serve"}
<1>1. sup[s].stage \notin {"none", "spawned"}
  BY DEF AttachStages
<1>2. /\ TypeOK /\ Shared /\ Local(s) /\ sup[s].run \in Runs
      /\ sup[s].home \in Projects /\ sup[s].held \subseteq Projects
      /\ run[sup[s].run] \in RowType
      /\ run[sup[s].run].projects \subseteq Projects
  BY <1>1, Here
<1>3. ~sup[s].stopped
  BY <1>2 DEF Local, RowPart, AttachStages
<1>4. run[sup[s].run].status \notin {"none", "stopped"}
  BY <1>2, <1>3 DEF Local, HomePart, StatusPart, Past, AttachStages
<1>5. run[sup[s].run].home = sup[s].home
  BY <1>1, <1>2, <1>4 DEF Local, HomePart
<1>6. /\ sup[s].project \in Projects /\ sup[s].project # sup[s].home
      /\ sup[s].resume \in {"attachments", "serve"}
  BY <1>2 DEF Local, AttachPart, Current
<1> QED BY <1>1, <1>2, <1>3, <1>4, <1>5, <1>6

(* An attachment ends, for better or worse, where it was taken up.          *)
LEMMA AttachEnds ==
    ASSUME IInv, NEW s \in Supervisors,
           sup[s].stage \in {"attach_lease", "attach_observe"},
           NEW x \in {"unknown", "observed"},
           attach' = [attach EXCEPT ![sup[s].run][sup[s].project] = x],
           Enter(s, sup[s].resume),
           UNCHANGED <<run, recovery, index, socket>>
    PROVE  Kept(s)
<1> DEFINE r == sup[s].run
           p == sup[s].project
<1>1. sup[s].stage \in AttachStages /\ sup[s].stage # "attach_index"
  BY DEF AttachStages
<1>2. /\ TypeOK /\ Shared /\ Local(s)
      /\ sup[s].stage \notin {"none", "spawned"}
      /\ r \in Runs /\ ~sup[s].stopped /\ run[r].status # "none"
      /\ run[r].home = sup[s].home
      /\ p \in Projects /\ p # sup[s].home
      /\ sup[s].resume \in {"attachments", "serve"}
      /\ run[r].projects \subseteq Projects
  BY <1>1, Attaches
<1>3. Moves(s, sup[s].resume, sup[s].held, sup[s].todo, sup[s].project,
            sup[s].resume, sup[s].stopped)
  <2>1. sup[s].resume \in Stages
    BY <1>2 DEF Stages
  <2> QED BY <1>2, <2>1, MovesStage DEF Enter
<1>4. /\ attach' \in [Runs -> [Projects -> {"none", "desired", "unknown",
                                            "observed"}]]
      /\ attach'[r][p] = x
      /\ \A q \in Projects : q # p => attach'[r][q] = attach[r][q]
      /\ \A q \in Runs : q # r => attach'[q] = attach[q]
  <2>1. /\ attach \in [Runs -> [Projects -> {"none", "desired", "unknown",
                                            "observed"}]]
        /\ r \in Runs /\ p \in Projects
        /\ attach' = [attach EXCEPT ![r][p] = x]
    BY <1>2 DEF TypeOK
  <2> HIDE DEF r, p
  <2>2. x \in {"none", "desired", "unknown", "observed"}
    OBVIOUS
  <2>3. attach' = [attach EXCEPT ![r] = [attach[r] EXCEPT ![p] = x]]
    BY <2>1
  <2>4. /\ attach' \in [Runs -> [Projects -> {"none", "desired", "unknown",
                                              "observed"}]]
    <3> DEFINE S == {"none", "desired", "unknown", "observed"}
    <3> HIDE DEF S
    <3>1. attach \in [Runs -> [Projects -> S]] /\ x \in S
      BY <2>1, <2>2 DEF S
    <3>2. [attach[r] EXCEPT ![p] = x] \in [Projects -> S]
      BY <2>1, <3>1
    <3>3. attach' \in [Runs -> [Projects -> S]]
      BY <2>1, <2>3, <3>1, <3>2
    <3> QED BY <3>3 DEF S
  <2>5. attach'[r] = [attach[r] EXCEPT ![p] = x]
    BY <2>1, <2>3
  <2>6. attach'[r][p] = x
    BY <2>1, <2>5
  <2>7. \A q \in Projects : q # p => attach'[r][q] = attach[r][q]
    BY <2>1, <2>5
  <2>8. \A q \in Runs : q # r => attach'[q] = attach[q]
    BY <2>1, <2>3
  <2> QED BY <2>4, <2>6, <2>7, <2>8
<1>5. Within(s) /\ TypeOK'
  <2>1. AttachMoves(s)
    BY <1>2, <1>4 DEF AttachMoves
  <2>2. Bound(s) => Bound(s)'
    BY <1>1, <1>3 DEF Moves, Bound, Published, AttachStages
  <2> QED BY <1>2, <1>3, <1>4, <2>1, <2>2, AttachOnly
<1>6. RowPart(s)' /\ HomePart(s)' /\ StatusPart(s)' /\ ForeignPart(s)'
  BY <1>1, <1>2, <1>3
     DEF Moves, Local, RowPart, HomePart, StatusPart, ForeignPart, Foreign,
         Past, AttachStages
<1>7. AttachPart(s)'
  <2>1. \A q \in Projects : attach[r][q] # "none" => attach'[r][q] # "none"
    BY <1>4
  <2>2. sup[s].resume = "attachments" =>
            \A q \in sup[s].todo : attach[r][q] # "none"
    BY <1>1, <1>2 DEF Local, AttachPart
  <2>3. sup[s].todo \subseteq Projects
    BY <1>2, Here
  <2> QED BY <1>2, <1>3, <2>1, <2>2, <2>3
       DEF Moves, AttachPart, AttachStages
<1>8. ServesPart(s)' /\ SecondaryPart(s)'
  BY <1>1, <1>2, <1>3
     DEF Moves, Local, ServesPart, SecondaryPart, Going, Past, AttachStages
<1>9. PublishPart(s)' /\ SocketPart(s)'
  BY <1>1, <1>2, <1>3
     DEF Moves, Local, PublishPart, SocketPart, Published, Bound,
         AttachStages
<1>10. RestorePart(s)' /\ RetirePart(s)'
  BY <1>2, <1>3 DEF Moves, RestorePart, RetirePart
<1> QED BY <1>5, <1>6, <1>7, <1>8, <1>9, <1>10 DEF Kept, Local

(* The lock of an attached project is free and no other run's, or the       *)
(* attachment fails.                                                        *)
LEMMA AttachLeaseStep ==
    ASSUME IInv, NEW s \in Supervisors, AttachLease(s)
    PROVE  Kept(s)
<1> DEFINE r == sup[s].run
           p == sup[s].project
<1>1. sup[s].stage = "attach_lease" /\ sup[s].stage \in AttachStages
  BY DEF AttachLease, AttachStages
<1>2. CASE ~MayOwn(s, p)
  <2>1. /\ attach' = [attach EXCEPT ![r][p] = "unknown"]
        /\ Enter(s, sup[s].resume)
        /\ UNCHANGED <<run, recovery, index, socket>>
    BY <1>2 DEF AttachLease, AttachFailed
  <2> QED BY <1>1, <2>1, AttachEnds
<1>3. CASE MayOwn(s, p)
  <2>1. /\ TypeOK /\ Local(s) /\ r \in Runs /\ ~sup[s].stopped
        /\ p \in Projects /\ p # sup[s].home
        /\ run[r].projects \subseteq Projects
        /\ sup[s].stage \notin {"none", "spawned"}
    BY <1>1, Attaches
  <2>2. Moves(s, "attach_record", sup[s].held \cup {p}, sup[s].todo,
              sup[s].project, sup[s].resume, sup[s].stopped)
    <3>1. "attach_record" \in Stages
      BY DEF Stages, AttachStages
    <3>2. sup' = [Own(s, p) EXCEPT ![s].stage = "attach_record"]
      BY <1>3 DEF AttachLease
    <3> QED BY <2>1, <3>1, <3>2, MovesOwnStage
  <2>3. UNCHANGED <<run, attach, recovery, index, socket>>
    BY <1>3 DEF AttachLease
  <2>4. /\ p \in sup[s].held \/ ~HeldElsewhere(s, p)
        /\ ~Foreign(r, p)
    BY <1>3, <2>1 DEF MayOwn, Local, ForeignPart
  <2>5. Within(s) /\ TypeOK'
    <3>1. Bound(s) => Bound(s)'
      BY <1>1, <2>2 DEF Moves, Bound, Published, AttachStages
    <3> QED BY <2>1, <2>2, <2>3, <2>4, <3>1, OnlyProcess
  <2>6. RowPart(s)' /\ HomePart(s)' /\ StatusPart(s)' /\ ForeignPart(s)'
    BY <1>1, <2>1, <2>2, <2>3, <2>4
       DEF Moves, Local, RowPart, HomePart, StatusPart, ForeignPart, Foreign,
           Past, AttachStages
  <2>7. AttachPart(s)'
    BY <1>1, <2>1, <2>2, <2>3
       DEF Moves, Local, AttachPart, Current, AttachStages
  <2>8. ServesPart(s)' /\ SecondaryPart(s)'
    BY <1>1, <2>1, <2>2, <2>3
       DEF Moves, Local, ServesPart, SecondaryPart, Going, Past, AttachStages
  <2>9. PublishPart(s)' /\ SocketPart(s)'
    BY <1>1, <2>1, <2>2, <2>3
       DEF Moves, Local, PublishPart, SocketPart, Published, Bound,
           AttachStages
  <2>10. RestorePart(s)' /\ RetirePart(s)'
    BY <2>2 DEF Moves, RestorePart, RetirePart
  <2> QED BY <2>5, <2>6, <2>7, <2>8, <2>9, <2>10 DEF Kept, Local
<1> QED BY <1>2, <1>3

(* The row of an attached project is written under its lock.                *)
LEMMA AttachRecordStep ==
    ASSUME IInv, NEW s \in Supervisors, AttachRecord(s)
    PROVE  Kept(s)
<1> DEFINE r == sup[s].run
           p == sup[s].project
<1>1. sup[s].stage = "attach_record" /\ sup[s].stage \in AttachStages
  BY DEF AttachRecord, AttachStages
<1>2. /\ TypeOK /\ Shared /\ Local(s) /\ r \in Runs /\ ~sup[s].stopped
      /\ p \in Projects /\ p # sup[s].home
      /\ run[r] \in RowType /\ run[r].projects \subseteq Projects
      /\ run[r].status \notin {"none", "stopped"}
      /\ sup[s].stage \notin {"none", "spawned"}
      /\ p \in sup[s].held
  <2>1. Local(s) /\ p \in sup[s].held
    BY <1>1, Attaches DEF Local, AttachPart, Current
  <2> QED BY <1>1, <2>1, Attaches
<1>3. Moves(s, "attach_index", sup[s].held, sup[s].todo, sup[s].project,
            sup[s].resume, sup[s].stopped)
  <2>1. "attach_index" \in Stages
    BY DEF Stages, AttachStages
  <2> QED BY <1>2, <2>1, MovesStage DEF AttachRecord, Enter
<1>4. /\ run' = [run EXCEPT ![r].projects = @ \cup {p}]
      /\ UNCHANGED <<attach, recovery, index, socket>>
  BY DEF AttachRecord
<1>5. /\ run' \in [Runs -> RowType]
      /\ run'[r].status = run[r].status /\ run'[r].home = run[r].home
      /\ run'[r].projects = run[r].projects \cup {p}
      /\ \A q \in Runs : q # r => run'[q] = run[q]
  BY <1>2, <1>4 DEF TypeOK, RowType
<1>6. TypeOK'
  BY <1>2, <1>3, <1>4, <1>5 DEF TypeOK, Moves
<1>7. Within(s)
  <2>1. ProcessMoves(s)
    BY <1>3 DEF Moves, ProcessMoves
  <2>2. OthersKept(s)
    BY <1>2, <1>4, <1>5 DEF OthersKept
  <2>3. RunMoves(s)
    BY <1>2, <1>4, <1>5 DEF RunMoves, Shared, RowOK
  <2>4. SocketMoves(s)
    <3>1. Bound(s) => Bound(s)'
      BY <1>1, <1>3 DEF Moves, Bound, Published, AttachStages
    <3> QED BY <1>2, <1>3, <1>4, <3>1 DEF Moves, SocketMoves, Shared, Binders
  <2>5. IndexMoves(s) /\ AttachMoves(s)
    BY <1>4 DEF IndexMoves, AttachMoves
  <2> QED BY <2>1, <2>2, <2>3, <2>4, <2>5 DEF Within
<1>8. RowPart(s)' /\ HomePart(s)' /\ StatusPart(s)' /\ ForeignPart(s)'
  BY <1>1, <1>2, <1>3, <1>4, <1>5
     DEF Moves, Local, RowPart, HomePart, StatusPart, ForeignPart, Foreign,
         Past, AttachStages
<1>9. AttachPart(s)'
  BY <1>1, <1>2, <1>3, <1>4, <1>5
     DEF Moves, Local, AttachPart, Current, AttachStages
<1>10. ServesPart(s)' /\ SecondaryPart(s)'
  BY <1>1, <1>2, <1>3, <1>4, <1>5
     DEF Moves, Local, ServesPart, SecondaryPart, Current, Going, Past,
         AttachStages
<1>11. PublishPart(s)' /\ SocketPart(s)'
  BY <1>1, <1>2, <1>3, <1>4
     DEF Moves, Local, PublishPart, SocketPart, Published, Bound,
         AttachStages
<1>12. RestorePart(s)' /\ RetirePart(s)'
  BY <1>3 DEF Moves, RestorePart, RetirePart
<1> QED BY <1>6, <1>7, <1>8, <1>9, <1>10, <1>11, <1>12 DEF Kept, Local

(* Its entry follows, and under the lock no other run can be in the way.    *)
LEMMA AttachIndexStep ==
    ASSUME IInv, NEW s \in Supervisors, AttachIndex(s)
    PROVE  Kept(s)
<1> DEFINE r == sup[s].run
           p == sup[s].project
<1>1. sup[s].stage = "attach_index" /\ sup[s].stage \in AttachStages
  BY DEF AttachIndex, AttachStages
<1>2. /\ TypeOK /\ Shared /\ Local(s) /\ r \in Runs /\ ~sup[s].stopped
      /\ p \in Projects /\ p # sup[s].home
      /\ sup[s].home \in Projects /\ sup[s].held \subseteq Projects
      /\ run[r].projects \subseteq Projects
      /\ run[r].status \notin {"none", "stopped"}
      /\ sup[s].stage \notin {"none", "spawned"}
  BY <1>1, Attaches
<1>3. p \in sup[s].held /\ p \in run[r].projects /\ ~Foreign(r, p)
  BY <1>1, <1>2 DEF Local, AttachPart, ForeignPart, Current
<1>4. /\ Publish(r, p) /\ Enter(s, "attach_observe")
      /\ UNCHANGED <<run, attach, recovery, socket>>
  BY <1>3 DEF AttachIndex, MayPublish
<1>5. Moves(s, "attach_observe", sup[s].held, sup[s].todo, sup[s].project,
            sup[s].resume, sup[s].stopped)
  <2>1. "attach_observe" \in Stages
    BY DEF Stages, AttachStages
  <2> QED BY <1>2, <1>4, <2>1, MovesStage DEF Enter
<1>6. /\ Within(s)
      /\ index' \in [Projects -> Runs \cup {NoRun}]
      /\ index'[p] = r
      /\ \A q \in Projects : q # p => index'[q] = index[q]
  <2>1. Bound(s) => Bound(s)'
    BY <1>1, <1>5 DEF Moves, Bound, Published, AttachStages
  <2> QED BY <1>2, <1>3, <1>4, <1>5, <2>1, PublishMoves
<1>7. TypeOK'
  BY <1>2, <1>4, <1>5, <1>6 DEF TypeOK, Moves
<1>8. RowPart(s)' /\ HomePart(s)' /\ StatusPart(s)' /\ ForeignPart(s)'
  BY <1>1, <1>2, <1>4, <1>5, <1>6
     DEF Moves, Local, RowPart, HomePart, StatusPart, ForeignPart, Foreign,
         Past, AttachStages
<1>9. AttachPart(s)'
  BY <1>1, <1>2, <1>4, <1>5
     DEF Moves, Local, AttachPart, Current, AttachStages
<1>10. ServesPart(s)' /\ SecondaryPart(s)'
  BY <1>1, <1>2, <1>4, <1>5, <1>6
     DEF Moves, Local, ServesPart, SecondaryPart, Current, Going, Past,
         AttachStages
<1>11. PublishPart(s)'
  <2>1. Published(s)' => Published(s)
    BY <1>1, <1>5 DEF Moves, Published, AttachStages
  <2>2. Published(s) => index[sup[s].home] = r
    BY <1>2 DEF Local, PublishPart
  <2>3. index'[sup[s].home] = index[sup[s].home]
    BY <1>2, <1>6
  <2> QED BY <1>5, <2>1, <2>2, <2>3 DEF Moves, PublishPart
<1>13. SocketPart(s)'
  BY <1>1, <1>2, <1>4, <1>5
     DEF Moves, Local, SocketPart, Published, Bound, AttachStages
<1>12. RestorePart(s)' /\ RetirePart(s)'
  BY <1>5 DEF Moves, RestorePart, RetirePart
<1> QED BY <1>6, <1>7, <1>8, <1>9, <1>10, <1>11, <1>12, <1>13
     DEF Kept, Local

(* An attachment is complete.                                               *)
LEMMA AttachObserveStep ==
    ASSUME IInv, NEW s \in Supervisors, AttachObserve(s)
    PROVE  Kept(s)
<1>1. /\ sup[s].stage = "attach_observe"
      /\ attach' = [attach EXCEPT ![sup[s].run][sup[s].project] = "observed"]
      /\ Enter(s, sup[s].resume)
      /\ UNCHANGED <<run, recovery, index, socket>>
  BY DEF AttachObserve
<1> QED BY <1>1, AttachEnds

(* A stop asked for: the row says so, the supervisor goes on serving.       *)
LEMMA RequestStopStep ==
    ASSUME IInv, NEW s \in Supervisors, RequestStop(s)
    PROVE  Kept(s)
<1> DEFINE r == sup[s].run
<1>1. sup[s].stage = "serve" /\ sup[s].stage \in Past
      /\ run[r].status = "active"
  BY DEF RequestStop, Past
<1>2. /\ TypeOK /\ Shared /\ Local(s) /\ r \in Runs /\ ~sup[s].stopped
  BY <1>1, Here DEF Local, RowPart
<1>3. /\ run' = [run EXCEPT ![r].status = "stopping"]
      /\ UNCHANGED <<attach, recovery, index, socket, sup>>
  BY DEF RequestStop
<1>4. /\ run'[r].status = "stopping" /\ run'[r].home = run[r].home
      /\ run'[r].projects = run[r].projects
      /\ \A q \in Runs : q # r => run'[q] = run[q]
  BY <1>2, <1>3, StatusRow
<1>5. Within(s) /\ TypeOK'
  <2>1. ProcessMoves(s) /\ sup' \in [Supervisors -> ProcessType]
    BY <1>2, <1>3 DEF ProcessMoves, TypeOK
  <2>2. OthersKept(s)
    BY <1>1, <1>3, <1>4 DEF OthersKept
  <2>3. SocketMoves(s) /\ socket' \in [Runs -> Supervisors \cup {NoFile, Dead}]
    BY <1>2, <1>3
       DEF SocketMoves, Shared, Binders, TypeOK, Bound, Published
  <2> QED BY <1>1, <1>3, <2>1, <2>2, <2>3, StatusMoves
<1>6. RowPart(s)' /\ HomePart(s)' /\ StatusPart(s)' /\ ForeignPart(s)'
  BY <1>1, <1>2, <1>3, <1>4
     DEF Local, RowPart, HomePart, StatusPart, ForeignPart, Foreign, Past,
         AttachStages
<1>7. ServesPart(s)' /\ SecondaryPart(s)'
  BY <1>1, <1>2, <1>3, <1>4
     DEF Local, ServesPart, SecondaryPart, Going, Past, AttachStages
<1>8. PublishPart(s)' /\ SocketPart(s)'
  BY <1>1, <1>2, <1>3
     DEF Local, PublishPart, SocketPart, Published, Bound, AttachStages
<1>9. AttachPart(s)' /\ RestorePart(s)' /\ RetirePart(s)'
  BY <1>1, <1>3 DEF AttachPart, RestorePart, RetirePart, AttachStages
<1> QED BY <1>5, <1>6, <1>7, <1>8, <1>9 DEF Kept, Local

(* A run is stopped with its entry points standing.                         *)
LEMMA PersistStopStep ==
    ASSUME IInv, NEW s \in Supervisors, PersistStop(s)
    PROVE  Kept(s)
<1> DEFINE r == sup[s].run
<1>1. sup[s].stage = "serve" /\ sup[s].stage \in Past
      /\ run[r].status = "stopping"
  BY DEF PersistStop, Past
<1>2. /\ TypeOK /\ Shared /\ Local(s) /\ r \in Runs /\ ~sup[s].stopped
  BY <1>1, Here DEF Local, RowPart
<1>3. /\ run' = [run EXCEPT ![r].status = "stopped"]
      /\ UNCHANGED <<attach, recovery, index, socket>>
  BY DEF PersistStop
<1>4. /\ run'[r].status = "stopped" /\ run'[r].home = run[r].home
      /\ run'[r].projects = run[r].projects
      /\ \A q \in Runs : q # r => run'[q] = run[q]
  BY <1>2, <1>3, StatusRow
<1>5. Moves(s, "close", sup[s].held, sup[s].todo, sup[s].project,
            sup[s].resume, sup[s].stopped)
  <2>1. "close" \in Stages
    BY DEF Stages
  <2> QED BY <1>2, <2>1, MovesStage DEF PersistStop, Enter
<1>6. Within(s) /\ TypeOK'
  <2>1. ProcessMoves(s) /\ sup' \in [Supervisors -> ProcessType]
    BY <1>5 DEF Moves, ProcessMoves
  <2>2. OthersKept(s)
    BY <1>1, <1>3, <1>4 DEF OthersKept
  <2>3. SocketMoves(s) /\ socket' \in [Runs -> Supervisors \cup {NoFile, Dead}]
    <3>1. Bound(s)'
      BY <1>5 DEF Moves, Bound, Published
    <3> QED BY <1>2, <1>3, <1>5, <3>1
         DEF Moves, SocketMoves, Shared, Binders, TypeOK
  <2>4. index[sup[s].home] = r
    BY <1>1, <1>2 DEF Local, PublishPart, Published
  <2> QED BY <1>1, <1>3, <2>1, <2>2, <2>3, <2>4, StatusMoves
<1>7. RowPart(s)' /\ HomePart(s)' /\ StatusPart(s)' /\ ForeignPart(s)'
  BY <1>1, <1>2, <1>3, <1>4, <1>5
     DEF Moves, Local, RowPart, HomePart, StatusPart, ForeignPart, Foreign,
         Past, AttachStages
<1>8. ServesPart(s)' /\ SecondaryPart(s)'
  BY <1>1, <1>2, <1>3, <1>4, <1>5
     DEF Moves, Local, ServesPart, SecondaryPart, Going, Past, AttachStages
<1>9. PublishPart(s)' /\ SocketPart(s)'
  BY <1>1, <1>2, <1>3, <1>4, <1>5
     DEF Moves, Local, PublishPart, ServesPart, SocketPart, Published, Bound,
         Going, Past
<1>10. AttachPart(s)' /\ RestorePart(s)' /\ RetirePart(s)'
  BY <1>5 DEF Moves, AttachPart, RestorePart, RetirePart, AttachStages
<1> QED BY <1>6, <1>7, <1>8, <1>9, <1>10 DEF Kept, Local

(* The socket goes by its owner, and what is to retire is all the index     *)
(* names.                                                                   *)
LEMMA RemoveOwnedSocketStep ==
    ASSUME IInv, NEW s \in Supervisors, RemoveOwnedSocket(s)
    PROVE  Kept(s)
<1> DEFINE r == sup[s].run
<1>1. sup[s].stage = "close"
  BY DEF RemoveOwnedSocket
<1>2. /\ TypeOK /\ Shared /\ Local(s) /\ r \in Runs /\ ~sup[s].stopped
      /\ sup[s].held \subseteq Projects
  BY <1>1, Here DEF Local, RowPart
<1>3. CASE Quit(s)
  BY <1>1, <1>3, QuitStep DEF Kept
<1>4. CASE socket[r] \in {s, NoFile}
  <2>1. Moves(s, "retire", sup[s].held, sup[s].held, sup[s].project,
              sup[s].resume, sup[s].stopped)
    <3>1. "retire" \in Stages
      BY DEF Stages
    <3> QED BY <1>2, <1>4, <3>1, MovesTodo DEF RemoveOwnedSocket
  <2>2. /\ socket' = [socket EXCEPT ![r] = NoFile]
        /\ UNCHANGED <<run, attach, recovery, index>>
    BY <1>4 DEF RemoveOwnedSocket, stored
  <2>3. /\ socket' \in [Runs -> Supervisors \cup {NoFile, Dead}]
        /\ socket'[r] = NoFile
        /\ \A q \in Runs : q # r => socket'[q] = socket[q]
    BY <1>2, <2>2 DEF TypeOK
  <2>4. TypeOK'
    BY <1>2, <2>1, <2>2, <2>3 DEF TypeOK, Moves
  <2>5. Within(s)
    <3>1. ProcessMoves(s)
      BY <2>1 DEF Moves, ProcessMoves
    <3>2. SocketMoves(s)
      <4>1. \A q \in Runs : socket'[q] # s
        BY <1>2, <2>3, AbsentAssumption DEF Shared, Binders
      <4> QED BY <2>3, <4>1 DEF SocketMoves
    <3>3. OthersKept(s)
      BY <1>1, <2>2, <2>3 DEF OthersKept
    <3>4. IndexMoves(s) /\ RunMoves(s) /\ AttachMoves(s)
      BY <2>2 DEF IndexMoves, RunMoves, AttachMoves
    <3> QED BY <3>1, <3>2, <3>3, <3>4 DEF Within
  <2>6. RowPart(s)' /\ HomePart(s)' /\ StatusPart(s)' /\ ForeignPart(s)'
    BY <1>1, <1>2, <2>1, <2>2
       DEF Moves, Local, RowPart, HomePart, StatusPart, ForeignPart, Foreign,
           Past, AttachStages
  <2>7. RetirePart(s)'
    <3>1. \A p \in Projects : index[p] = r => p \in run[r].projects
      BY <1>2, AbsentAssumption DEF Shared, IndexBacked
    <3> QED BY <1>1, <1>2, <2>1, <2>2, <3>1
         DEF Moves, Local, PublishPart, RetirePart
  <2>8. /\ AttachPart(s)' /\ RestorePart(s)' /\ ServesPart(s)'
        /\ SecondaryPart(s)' /\ PublishPart(s)' /\ SocketPart(s)'
    BY <2>1, <2>3
       DEF Moves, AttachPart, RestorePart, ServesPart, SecondaryPart,
           PublishPart, SocketPart, Published, Bound, Going, Past,
           AttachStages
  <2> QED BY <2>4, <2>5, <2>6, <2>7, <2>8 DEF Kept, Local
<1> QED BY <1>3, <1>4 DEF RemoveOwnedSocket

(* The entry of a stopped run goes, the primary's last.                     *)
LEMMA RetireIndexStep ==
    ASSUME IInv, NEW s \in Supervisors, NEW p \in Projects,
           RetireIndex(s, p)
    PROVE  Kept(s)
<1> DEFINE r == sup[s].run
<1>1. /\ sup[s].stage = "retire" /\ p \in sup[s].todo
      /\ p = sup[s].home => sup[s].todo = {p}
  BY DEF RetireIndex, Retires
<1>2. /\ TypeOK /\ Shared /\ Local(s) /\ r \in Runs
      /\ sup[s].held \subseteq Projects /\ sup[s].todo \subseteq Projects
  BY <1>1, Here
<1>3. CASE Quit(s)
  BY <1>1, <1>3, QuitStep DEF Kept
<1>4. CASE p \in sup[s].held
  <2>1. Moves(s, "retire", sup[s].held, sup[s].todo \ {p}, sup[s].project,
              sup[s].resume, sup[s].stopped)
    BY <1>1, <1>2, <1>4, MovesDone DEF RetireIndex
  <2>2. /\ index' = [index EXCEPT ![p] = RetiredEntry(s, @)]
        /\ UNCHANGED <<run, attach, recovery, socket>>
    BY <1>4 DEF RetireIndex, stored
  <2>3. /\ index' \in [Projects -> Runs \cup {NoRun}]
        /\ index'[p] = IF index[p] = r THEN NoRun ELSE index[p]
        /\ \A q \in Projects : q # p => index'[q] = index[q]
    BY <1>2, <2>2 DEF TypeOK, RetiredEntry
  <2>4. TypeOK'
    BY <1>2, <2>1, <2>2, <2>3 DEF TypeOK, Moves
  <2>5. /\ run[r].status = "stopped" /\ run[r].home = sup[s].home
    BY <1>1, <1>2 DEF Local, StatusPart, HomePart, Past
  <2>6. \A q \in Projects : index[q] = r => q \in sup[s].todo
    BY <1>1, <1>2 DEF Local, RetirePart
  <2>7. Within(s)
    <3>1. ProcessMoves(s)
      BY <2>1 DEF Moves, ProcessMoves
    <3>2. SocketMoves(s)
      <4>1. ~Bound(s)
        BY <1>1 DEF Bound, Published, AttachStages
      <4> QED BY <1>2, <2>2, <4>1 DEF SocketMoves, Shared, Binders
    <3>3. IndexMoves(s)
      <4>1. p = run[r].home => \A q \in Projects : index'[q] # r
        BY <1>1, <1>2, <2>3, <2>5, <2>6, AbsentAssumption
      <4> QED BY <1>4, <2>2, <2>3, <2>5, <4>1 DEF IndexMoves
    <3>4. OthersKept(s) /\ RunMoves(s) /\ AttachMoves(s)
      BY <1>1, <2>2 DEF OthersKept, RunMoves, AttachMoves
    <3> QED BY <3>1, <3>2, <3>3, <3>4 DEF Within
  <2>8. RowPart(s)' /\ HomePart(s)' /\ StatusPart(s)'
    BY <1>1, <1>2, <2>1, <2>2
       DEF Moves, Local, RowPart, HomePart, StatusPart, Past, AttachStages
  <2>9. ForeignPart(s)'
    BY <1>2, <2>1, <2>3 DEF Moves, Local, ForeignPart, Foreign
  <2>10. RetirePart(s)'
    BY <1>2, <2>1, <2>3, <2>6, AbsentAssumption DEF Moves, RetirePart
  <2>11. /\ AttachPart(s)' /\ RestorePart(s)' /\ ServesPart(s)'
         /\ SecondaryPart(s)' /\ PublishPart(s)' /\ SocketPart(s)'
    BY <1>1, <1>2, <2>1, <2>2
       DEF Moves, Local, AttachPart, RestorePart, ServesPart, SecondaryPart,
           PublishPart, SocketPart, Published, Bound, Going, Past,
           AttachStages
  <2> QED BY <2>4, <2>7, <2>8, <2>9, <2>10, <2>11 DEF Kept, Local
<1> QED BY <1>3, <1>4 DEF RetireIndex

(* Leases released or lost: the process ends.                               *)
LEMMA EndStep ==
    ASSUME IInv, NEW s \in Supervisors, ReleaseLeases(s) \/ Crash(s)
    PROVE  Kept(s)
<1>1. sup[s].stage # "none" /\ Quit(s)
  BY DEF ReleaseLeases, Crash, Alive
<1> QED BY <1>1, QuitStep DEF Kept

-----------------------------------------------------------------------------
(* Clients start supervisors                                                *)

(* Nothing about a supervisor changes while its process, its run and the    *)
(* files stay as they are.                                                  *)
LEMMA SameLocal ==
    ASSUME NEW t, Local(t), sup'[t] = sup[t],
           UNCHANGED <<run, attach, index, socket>>
    PROVE  Local(t)'
<1>1. RowPart(t)' /\ HomePart(t)' /\ StatusPart(t)' /\ ForeignPart(t)'
  BY DEF Local, RowPart, HomePart, StatusPart, ForeignPart, Foreign
<1>2. AttachPart(t)' /\ RestorePart(t)'
  BY DEF Local, AttachPart, Current, RestorePart, Foreign
<1>3. ServesPart(t)' /\ SecondaryPart(t)' /\ PublishPart(t)'
  BY DEF Local, ServesPart, SecondaryPart, PublishPart, Published, Current
<1>4. SocketPart(t)' /\ RetirePart(t)'
  BY DEF Local, SocketPart, RetirePart, Bound, Published
<1> QED BY <1>1, <1>2, <1>3, <1>4 DEF Local

(* Whoever is on a run knows the home its row gives.                        *)
LEMMA HomeKnown ==
    ASSUME IInv, NEW t \in Supervisors, sup[t].run \in Runs,
           run[sup[t].run].status # "none"
    PROVE  sup[t].home = run[sup[t].run].home
<1>1. Local(t) /\ Nothing.run \notin Runs
  BY ToParts, AbsentAssumption DEF Nothing, Process
<1>2. sup[t].stage # "none"
  BY <1>1 DEF Local, RowPart
<1> QED BY <1>1, <1>2 DEF Local, HomePart

(* A process starts for a run with the home that its row, or nobody, gives. *)
LEMMA SpawnKeeps ==
    ASSUME IInv, NEW s \in Supervisors, NEW r \in Runs,
           NEW home \in Projects, NEW mode \in {"start", "stop", "recover"},
           NEW o \in RecoverOps \cup {NoOp},
           mode = "recover" => o \in RecoverOps,
           mode # "start" => run[r].status # "none",
           run[r].status # "none" => run[r].home = home,
           \A t \in Supervisors : sup[t].run = r => sup[t].home = home,
           Spawn(s, r, home, mode, o)
    PROVE  IInv'
<1> DEFINE x == Process("spawned", r, home, mode, o)
<1>1. /\ TypeOK /\ Shared /\ \A t \in Supervisors : Local(t)
      /\ sup[s].stage = "none"
  BY ToParts DEF Spawn, Alive
<1>2. UNCHANGED <<run, attach, recovery, index, socket>>
  BY DEF Spawn, stored
<1>3. /\ x.stage = "spawned" /\ x.run = r /\ x.home = home /\ x.mode = mode
      /\ x.op = o /\ x.held = {} /\ x.stopped = FALSE
  BY DEF Process
<1>4. x \in ProcessType
  <2>1. "spawned" \in Stages
    BY DEF Stages
  <2> QED BY <2>1, ProcessFits
<1>5. /\ sup' = [sup EXCEPT ![s] = x]
  BY DEF Spawn
<1> HIDE DEF x
<1>6. /\ sup' \in [Supervisors -> ProcessType] /\ sup'[s] = x
      /\ \A t \in Supervisors : t # s => sup'[t] = sup[t]
  BY <1>1, <1>4, <1>5 DEF TypeOK
<1>7. TypeOK'
  BY <1>1, <1>2, <1>6 DEF TypeOK
<1>8. Local(s)'
  BY <1>2, <1>3, <1>6
     DEF Local, RowPart, HomePart, StatusPart, ForeignPart, AttachPart,
         RestorePart, ServesPart, SecondaryPart, PublishPart, SocketPart,
         RetirePart, Published, Bound, Past, Going, AttachStages
<1>9. \A t \in Supervisors : Local(t)'
  BY <1>1, <1>2, <1>6, <1>8, SameLocal
<1>10. Shared'
  <2>1. OneOwner' /\ SameHome'
    BY <1>1, <1>3, <1>6 DEF Shared, OneOwner, SameHome
  <2>2. Binders'
    <3>1. ~Bound(s)
      BY <1>1 DEF Bound, Published, AttachStages
    <3>2. ASSUME NEW t \in Supervisors, NEW q \in Runs, socket[q] = t
          PROVE  Bound(t)' /\ sup'[t].run = q
      <4>1. Bound(t) /\ sup[t].run = q
        BY <1>1, <3>2 DEF Shared, Binders
      <4>2. sup'[t] = sup[t]
        BY <1>6, <3>1, <4>1
      <4> QED BY <4>1, <4>2 DEF Bound, Published
    <3> QED BY <1>2, <3>2 DEF Binders
  <2>3. RowOK' /\ AttachRows' /\ IndexBacked' /\ StoppedEntryPoint'
    BY <1>1, <1>2
       DEF Shared, RowOK, AttachRows, IndexBacked, StoppedEntryPoint
  <2> QED BY <2>1, <2>2, <2>3 DEF Shared
<1> QED BY <1>7, <1>9, <1>10, FromPartsNext

(* What a client of the supervisors may start.                              *)
Starts(s) ==
    \/ \E p \in Projects :
          StartIndexed(s, p) \/ StartFresh(s, p) \/ StopOffline(s, p)
    \/ \E p \in Projects, r \in Runs, o \in RecoverOps : RecoverRun(s, p, r, o)

(* Starting a process touches no file.                                      *)
LEMMA StartsKeep ==
    ASSUME IInv, NEW s \in Supervisors, Starts(s)
    PROVE  IInv' /\ UNCHANGED <<run, index>>
<1>1. TypeOK /\ Shared
  BY ToParts
<1>2. ASSUME NEW p \in Projects, StartIndexed(s, p) PROVE IInv'
  <2> DEFINE r == index[p]
  <2>1. r \in Runs /\ run[r].home = p /\ run[r].status # "none"
    BY <1>1, <1>2 DEF StartIndexed, TypeOK, Shared, IndexBacked
  <2>2. \A t \in Supervisors : sup[t].run = r => sup[t].home = p
    BY <2>1, HomeKnown
  <2>3. Spawn(s, r, p, "start", NoOp)
    BY <1>2 DEF StartIndexed
  <2> QED BY <2>1, <2>2, <2>3, SpawnKeeps
<1>3. ASSUME NEW p \in Projects, StartFresh(s, p) PROVE IInv'
  <2>1. PICK r \in Runs : Fresh(r) /\ Spawn(s, r, p, "start", NoOp)
    BY <1>3 DEF StartFresh
  <2> QED BY <2>1, SpawnKeeps DEF Fresh
<1>4. ASSUME NEW r \in Runs, run[r].status # "none"
      PROVE  /\ run[r].home \in Projects
             /\ \A t \in Supervisors :
                    sup[t].run = r => sup[t].home = run[r].home
  <2>1. run[r].home \in run[r].projects
    BY <1>1, <1>4 DEF Shared, RowOK
  <2> QED BY <1>1, <1>4, <2>1, HomeKnown DEF TypeOK, RowType
<1>5. ASSUME NEW p \in Projects, StopOffline(s, p) PROVE IInv'
  <2> DEFINE r == index[p]
  <2>1. r \in Runs /\ run[r].status # "none"
    BY <1>1, <1>5 DEF StopOffline, TypeOK, Shared, IndexBacked
  <2>2. Spawn(s, r, run[r].home, "stop", NoOp)
    BY <1>5 DEF StopOffline
  <2>3. /\ run[r].home \in Projects
        /\ \A t \in Supervisors : sup[t].run = r => sup[t].home = run[r].home
    BY <1>4, <2>1
  <2> QED BY <2>1, <2>2, <2>3, SpawnKeeps
<1>6. ASSUME NEW p \in Projects, NEW r \in Runs, NEW o \in RecoverOps,
             RecoverRun(s, p, r, o)
      PROVE  IInv'
  <2>1. run[r].status # "none"
    BY <1>6 DEF RecoverRun, Retained
  <2>2. Spawn(s, r, run[r].home, "recover", o)
    BY <1>6 DEF RecoverRun
  <2>3. /\ run[r].home \in Projects
        /\ \A t \in Supervisors : sup[t].run = r => sup[t].home = run[r].home
    BY <1>4, <2>1
  <2> QED BY <2>1, <2>2, <2>3, SpawnKeeps
<1>7. UNCHANGED <<run, index>>
  BY DEF Starts, StartIndexed, StartFresh, StopOffline, RecoverRun, Spawn,
     stored
<1> QED BY <1>2, <1>3, <1>5, <1>6, <1>7 DEF Starts

-----------------------------------------------------------------------------
(* The theorems                                                             *)

(* Everything a living supervisor does, and what is asked of it.            *)
Acts(s) ==
    \/ Startup(s) \/ Attaching(s) \/ Retiring(s) \/ Crash(s)
    \/ RequestStop(s) \/ \E p \in Projects : Attach(s, p)

(* Each action of a living supervisor, by the lemmas above.                 *)
LEMMA ActsKept ==
    ASSUME IInv, NEW s \in Supervisors, Acts(s)
    PROVE  sup[s].stage # "none" /\ Kept(s)
<1>1. CASE Startup(s)
  <2>1. CASE TryAcquire(s) \/ LeaseHeld(s)
    BY <2>1, TryAcquireStep, LeaseHeldStep DEF TryAcquire, LeaseHeld
  <2>2. CASE InitializeStore(s) \/ OpenToStop(s) \/ OpenToRecover(s)
    BY <2>2, InitializeStoreStep, OpenToStopStep, OpenToRecoverStep
       DEF InitializeStore, OpenToStop, OpenToRecover
  <2>3. CASE Reactivate(s) \/ Restored(s) \/ NoneInterrupted(s)
    BY <2>3, ReactivateStep, RestoredStep, NoneInterruptedStep
       DEF Reactivate, Restored, NoneInterrupted
  <2>4. CASE RemoveStaleSocket(s) \/ BeginOfflineStop(s)
    BY <2>4, RemoveStaleSocketStep, BeginOfflineStopStep
       DEF RemoveStaleSocket, BeginOfflineStop
  <2>5. CASE Bind(s) \/ Listen(s) \/ PublishPrimary(s)
    BY <2>5, BindStep, ListenStep, PublishPrimaryStep
       DEF Bind, Listen, PublishPrimary
  <2>6. ASSUME NEW p \in Projects, Claim(s, p) \/ RestoreLease(s, p)
        PROVE  sup[s].stage # "none" /\ Kept(s)
    BY <2>6, ClaimStep, RestoreLeaseStep DEF Claim, RestoreLease
  <2>7. ASSUME NEW p \in Projects,
               RestoreIndex(s, p) \/ CompleteInterrupted(s, p)
        PROVE  sup[s].stage # "none" /\ Kept(s)
    BY <2>7, RestoreIndexStep, CompleteInterruptedStep
       DEF RestoreIndex, CompleteInterrupted
  <2> QED BY <1>1, <2>1, <2>2, <2>3, <2>4, <2>5, <2>6, <2>7 DEF Startup
<1>2. CASE Attaching(s)
  BY <1>2, AttachLeaseStep, AttachRecordStep, AttachIndexStep,
     AttachObserveStep
     DEF Attaching, AttachLease, AttachRecord, AttachIndex, AttachObserve
<1>3. CASE Retiring(s)
  <2>1. ASSUME NEW p \in Projects, RetireIndex(s, p)
        PROVE  sup[s].stage # "none" /\ Kept(s)
    BY <2>1, RetireIndexStep DEF RetireIndex
  <2>2. CASE PersistStop(s) \/ RemoveOwnedSocket(s) \/ ReleaseLeases(s)
    BY <2>2, PersistStopStep, RemoveOwnedSocketStep, EndStep
       DEF PersistStop, RemoveOwnedSocket, ReleaseLeases
  <2> QED BY <1>3, <2>1, <2>2 DEF Retiring
<1>4. CASE Crash(s)
  BY <1>4, EndStep DEF Crash, Alive
<1>5. CASE RequestStop(s)
  BY <1>5, RequestStopStep DEF RequestStop
<1>6. CASE \E p \in Projects : Attach(s, p)
  BY <1>6, AttachStep DEF Attach
<1> QED BY <1>1, <1>2, <1>3, <1>4, <1>5, <1>6 DEF Acts

(* A step is a client's start or an act of one supervisor.                  *)
LEMMA NextIs ==
    ASSUME Next
    PROVE  \E s \in Supervisors : Starts(s) \/ Acts(s)
  BY DEF Next, Clients, Starts, Acts

(* The invariant holds where nothing has been started.                      *)
LEMMA InitInv == Init => IInv
<1> SUFFICES ASSUME Init PROVE IInv
  OBVIOUS
<1>1. /\ \A r \in Runs : run[r] = NoRow /\ socket[r] = NoFile
      /\ \A r \in Runs, p \in Projects : attach[r][p] = "none"
      /\ \A p \in Projects : index[p] = NoRun
      /\ \A s \in Supervisors : sup[s] = Nothing
  BY DEF Init
<1>2. NoRow \in RowType /\ NoRow.status = "none"
  BY DEF NoRow, Row, RowType
<1>3. Nothing.stage = "none" /\ Nothing.held = {} /\ Nothing.mode = "none"
  BY DEF Nothing, Process
<1>4. TypeOK
  BY <1>2, NothingFits DEF Init, TypeOK
<1>5. Shared
  <2>1. OneOwner /\ SameHome
    BY <1>1, <1>3 DEF OneOwner, SameHome
  <2>2. RowOK /\ AttachRows
    BY <1>1, <1>2 DEF RowOK, AttachRows
  <2>3. Binders
    BY <1>1, AbsentAssumption DEF Binders
  <2>4. IndexBacked /\ StoppedEntryPoint
    BY <1>1 DEF IndexBacked, StoppedEntryPoint
  <2> QED BY <2>1, <2>2, <2>3, <2>4 DEF Shared
<1>6. ASSUME NEW s \in Supervisors PROVE Local(s)
  <2>1. sup[s] = Nothing
    BY <1>1
  <2> QED BY <1>3, <2>1
       DEF Local, RowPart, HomePart, StatusPart, ForeignPart, AttachPart,
           RestorePart, ServesPart, SecondaryPart, PublishPart, SocketPart,
           RetirePart, Published, Bound, Past, Going, AttachStages
<1> QED BY <1>4, <1>5, <1>6, FromParts

(* Every step keeps the invariant.                                          *)
LEMMA NextInv == IInv /\ [Next]_vars => IInv'
<1> SUFFICES ASSUME IInv, [Next]_vars PROVE IInv'
  OBVIOUS
<1>1. CASE Next
  <2>1. PICK s \in Supervisors : Starts(s) \/ Acts(s)
    BY <1>1, NextIs
  <2>2. CASE Starts(s)
    BY <2>2, StartsKeep
  <2>3. CASE Acts(s)
    <3>1. sup[s].stage # "none" /\ Kept(s)
      BY <2>3, ActsKept
    <3> QED BY <3>1, StepKeeps DEF Kept
  <2> QED BY <2>1, <2>2, <2>3
<1>2. CASE UNCHANGED vars
  <2>1. UNCHANGED <<run, attach, recovery, index, socket, sup>>
    BY <1>2 DEF vars, stored
  <2>2. TypeOK /\ Shared /\ \A s \in Supervisors : Local(s)
    BY ToParts
  <2>3. \A s \in Supervisors : Local(s)'
    BY <2>1, <2>2, SameLocal
  <2>4. TypeOK' /\ Shared'
    BY <2>1, <2>2
       DEF TypeOK, Shared, OneOwner, RowOK, SameHome, AttachRows, Binders,
           IndexBacked, StoppedEntryPoint, Bound, Published
  <2> QED BY <2>3, <2>4, FromPartsNext
<1> QED BY <1>1, <1>2

(* Locks, index entries, sockets and the rows of runs agree after every     *)
(* step of every supervisor, whoever crashes when: what the startup,        *)
(* attachment and retirement of supervisor.rs and projects.rs rely on.      *)
THEOREM Coherent == Spec => []IInv
  BY InitInv, NextInv, PTL DEF Spec

(* A project has one owner, a serving supervisor is reached from each of    *)
(* its projects, a stopped run is found from its primary, and a supervisor  *)
(* that releases its leases leaves no entry of its run behind               *)
(* (ProjectLease::try_acquire, ActiveRunIndex, AttachedProjects::retire).   *)
THEOREM Owned ==
    Spec => [](/\ OneOwner /\ IndexBacked /\ ServingReachable
               /\ StoppedEntryPoint /\ WholeRunRetired)
<1>1. IInv => /\ OneOwner /\ IndexBacked /\ ServingReachable
              /\ StoppedEntryPoint /\ WholeRunRetired
  BY DEF IInv
<1> QED BY <1>1, Coherent, PTL

(* What EntriesKept says of one step.                                       *)
EntryKept ==
    \A p \in Projects :
        index[p] # NoRun /\ index'[p] # index[p] =>
            /\ index'[p] = NoRun
            /\ \E s \in Supervisors :
                  sup[s].run = index[p] /\ p \in sup[s].held
            /\ run[index[p]].status = "stopped"

(* What ReactivatedAlone says of one step.                                  *)
AloneAgain ==
    \A r \in Runs :
        run[r].status = "stopped" /\ run'[r].status # "stopped" =>
            /\ \E o \in RecoverOps : recovery[o] = NoRun /\ recovery'[o] = r
            /\ \A p \in run[r].projects :
                  /\ ~Foreign(r, p)
                  /\ \A s \in Supervisors :
                        p \in sup[s].held => sup[s].run = r

(* Both say what a step within one supervisor may do to the files.          *)
LEMMA OwnershipStep ==
    ASSUME IInv, Next
    PROVE  EntryKept /\ AloneAgain
<1>1. PICK s \in Supervisors : Starts(s) \/ Acts(s)
  BY NextIs
<1>2. CASE Starts(s)
  <2>1. run' = run /\ index' = index
    BY <1>2, StartsKeep
  <2> QED BY <2>1 DEF EntryKept, AloneAgain
<1>3. CASE Acts(s)
  <2>1. Within(s) /\ OneOwner
    BY <1>3, ActsKept, ToParts DEF Kept, Shared
  <2>2. EntryKept
    BY <2>1 DEF Within, IndexMoves, EntryKept
  <2>3. ASSUME NEW r \in Runs,
               run[r].status = "stopped", run'[r].status # "stopped"
        PROVE  /\ \E o \in RecoverOps :
                     recovery[o] = NoRun /\ recovery'[o] = r
               /\ \A p \in run[r].projects :
                     /\ ~Foreign(r, p)
                     /\ \A t \in Supervisors :
                           p \in sup[t].held => sup[t].run = r
    <3>1. r = sup[s].run
      BY <2>1, <2>3 DEF Within, OthersKept
    <3>2. /\ \E o \in RecoverOps : recovery[o] = NoRun /\ recovery'[o] = r
          /\ \A p \in run[r].projects : p \in sup[s].held /\ ~Foreign(r, p)
      BY <2>1, <2>3, <3>1 DEF Within, RunMoves
    <3>3. \A p \in run[r].projects, t \in Supervisors :
              p \in sup[t].held => t = s
      BY <2>1, <3>2 DEF OneOwner
    <3> QED BY <3>1, <3>2, <3>3
  <2> QED BY <2>2, <2>3 DEF AloneAgain
<1> QED BY <1>1, <1>2, <1>3

(* An entry of the index is taken away only once its run is stopped and by  *)
(* a supervisor of that run, and a run comes back only by a recovery not    *)
(* used before, with no other run on any of its projects                    *)
(* (ActiveRunIndex::publish and retire, acquire_for_reactivation).          *)
THEOREM OwnershipDecided == Spec => OwnershipMoves
<1>1. IInv /\ [Next]_vars => [EntryKept]_vars /\ [AloneAgain]_vars
  BY OwnershipStep
<1> QED BY <1>1, Coherent, PTL
       DEF Spec, OwnershipMoves, EntriesKept, ReactivatedAlone, EntryKept,
           AloneAgain

-----------------------------------------------------------------------------
(* Configuration.                                                           *)

(* The compiled constants, and a global layer as parsing leaves it.         *)
Compiled ==
    /\ Unset \notin Nat /\ Unset \notin Names /\ Unset \notin References
    /\ Unset \notin BOOLEAN
    /\ DefaultReference \in References
    /\ DefaultLimits \in [LimitFields -> Nat \ {0}]
    /\ Builtin.lead \in DOMAIN Builtin.roles
    /\ \A r \in DOMAIN Builtin.roles :
          /\ Builtin.roles[r].max_instances \in OrUnset(Nat)
          /\ ProfileAccepted(Builtin.profiles[Builtin.roles[r].profile])

Global(global) ==
    /\ global.limits \in [LimitFields -> OrUnset(Nat)]
    /\ \A ref \in DOMAIN global.archetypes :
          \A r \in DOMAIN global.archetypes[ref].roles :
              global.archetypes[ref].roles[r].max_instances \in OrUnset(Nat)

-----------------------------------------------------------------------------
(* PermissionProfile::intersect yields a profile that neither of the two    *)
(* exceeds.                                                                 *)
THEOREM MeetIsBelow ==
    ASSUME NEW p \in PermissionProfile, NEW q \in PermissionProfile
    PROVE  /\ Meet(p, q) \in PermissionProfile
           /\ NoMorePermissiveThan(Meet(p, q), p)
           /\ NoMorePermissiveThan(Meet(p, q), q)
<1>1. Meet(p, q) \in PermissionProfile
  BY DEF Meet, PermissionProfile
<1>2. NoMorePermissiveThan(Meet(p, q), p)
  BY DEF Meet, PermissionProfile, NoMorePermissiveThan
<1>3. NoMorePermissiveThan(Meet(p, q), q)
  BY DEF Meet, PermissionProfile, NoMorePermissiveThan
<1> QED BY <1>1, <1>2, <1>3

(* no_more_permissive_than orders the profiles the global layer may define, *)
(* so that narrowing in several layers narrows, and only equal profiles     *)
(* pass for each other.                                                     *)
THEOREM ProfilesAreOrdered ==
    ASSUME NEW p \in PermissionProfile, NEW q \in PermissionProfile,
           NEW r \in PermissionProfile
    PROVE  /\ ProfileAccepted(p) => NoMorePermissiveThan(p, p)
           /\ NoMorePermissiveThan(p, q) /\ NoMorePermissiveThan(q, p) => p = q
           /\ NoMorePermissiveThan(p, q) /\ NoMorePermissiveThan(q, r)
                => NoMorePermissiveThan(p, r)
<1>1. ProfileAccepted(p) => NoMorePermissiveThan(p, p)
  BY DEF Meet, PermissionProfile, NoMorePermissiveThan, ProfileAccepted
<1>2. NoMorePermissiveThan(p, q) /\ NoMorePermissiveThan(q, p) => p = q
  BY DEF Meet, PermissionProfile, NoMorePermissiveThan
<1>3. NoMorePermissiveThan(p, q) /\ NoMorePermissiveThan(q, r)
        => NoMorePermissiveThan(p, r)
  BY DEF Meet, PermissionProfile, NoMorePermissiveThan
<1> QED BY <1>1, <1>2, <1>3

-----------------------------------------------------------------------------
LEMMA LimitTypes ==
    ASSUME Compiled, NEW global, Global(global),
           NEW project \in Layer, NEW operator \in Layer,
           AllLimitsAccepted(global, project, operator), NEW f \in LimitFields
    PROVE  /\ TrustedLimits(global)[f] \in Nat \ {0}
           /\ ProjectLimits(global, project)[f] \in Nat \ {0}
           /\ ProjectLimits(global, project)[f] <= TrustedLimits(global)[f]
           /\ Limits(global, project, operator)[f] \in Nat \ {0}
           /\ Limits(global, project, operator)[f] <= TrustedLimits(global)[f]
<1>0. /\ global.limits[f] \in OrUnset(Nat)
      /\ project.limits[f] \in OrUnset(Nat)
      /\ operator.limits[f] \in OrUnset(Nat)
      /\ DefaultLimits[f] \in Nat \ {0}
  BY DEF Compiled, Global, Layer
<1>1. TrustedLimits(global)[f] \in Nat \ {0}
  BY <1>0 DEF TrustedLimits, Requested, AllLimitsAccepted, LimitsAccepted,
     OrUnset
<1>2. /\ ProjectLimits(global, project)[f] \in Nat \ {0}
      /\ ProjectLimits(global, project)[f] <= TrustedLimits(global)[f]
  BY <1>0, <1>1 DEF ProjectLimits, LimitsMeet, Lower, Requested,
     AllLimitsAccepted, LimitsAccepted, OrUnset
<1>3. /\ Limits(global, project, operator)[f] \in Nat \ {0}
      /\ Limits(global, project, operator)[f] <= TrustedLimits(global)[f]
  BY <1>0, <1>1, <1>2 DEF Limits, LimitsMeet, Lower, Requested,
     AllLimitsAccepted, LimitsAccepted, OrUnset
<1> QED BY <1>1, <1>2, <1>3

(* Whatever the project and the operator write, the limits of an accepted   *)
(* configuration are positive and within the trusted ones (apply_limits).   *)
THEOREM LimitsWithinTrust ==
    ASSUME Compiled, NEW global, Global(global),
           NEW project \in Layer, NEW operator \in Layer,
           Accepted(global, project, operator)
    PROVE  \A f \in LimitFields :
              /\ Effective(global, project, operator).limits[f] > 0
              /\ Effective(global, project, operator).limits[f]
                    <= TrustedLimits(global)[f]
<1> SUFFICES ASSUME NEW f \in LimitFields
             PROVE  /\ Limits(global, project, operator)[f] > 0
                    /\ Limits(global, project, operator)[f]
                           <= TrustedLimits(global)[f]
  BY DEF Effective
<1>1. AllLimitsAccepted(global, project, operator)
  BY DEF Accepted
<1> QED BY <1>1, LimitTypes

(* The layer that provenance names for a limit is the one whose value is in *)
(* force: no ceiling and no other layer has changed it.                     *)
THEOREM ProvenanceIsTrue ==
    ASSUME Compiled, NEW global, Global(global),
           NEW project \in Layer, NEW operator \in Layer,
           Accepted(global, project, operator), NEW f \in LimitFields
    PROVE  LET layer == LimitLayer(global, project, operator, f)
               value == Limits(global, project, operator)[f]
           IN /\ layer \in {"operator", "project", "global", "compiled"}
              /\ layer = "operator" => value = operator.limits[f]
              /\ layer = "project" => value = project.limits[f]
              /\ layer = "global" => value = global.limits[f]
              /\ layer = "compiled" => value = DefaultLimits[f]
<1>1. AllLimitsAccepted(global, project, operator)
  BY DEF Accepted
<1>2. /\ TrustedLimits(global)[f] \in Nat
      /\ ProjectLimits(global, project)[f] \in Nat
      /\ ProjectLimits(global, project)[f] <= TrustedLimits(global)[f]
  BY <1>1, LimitTypes
<1>3. CASE operator.limits[f] # Unset
  BY <1>1, <1>3 DEF AllLimitsAccepted, LimitsAccepted, LimitLayer
<1>4. CASE operator.limits[f] = Unset
  <2>1. Limits(global, project, operator)[f] = ProjectLimits(global, project)[f]
    BY <1>2, <1>4 DEF Limits, LimitsMeet, Lower, Requested
  <2>2. CASE project.limits[f] # Unset
    BY <1>1, <1>4, <2>1, <2>2 DEF AllLimitsAccepted, LimitsAccepted, LimitLayer
  <2>3. CASE project.limits[f] = Unset
    <3>1. ProjectLimits(global, project)[f] = TrustedLimits(global)[f]
      BY <1>2, <2>3 DEF ProjectLimits, LimitsMeet, Lower, Requested
    <3> QED BY <1>4, <2>1, <2>3, <3>1 DEF TrustedLimits, Requested, LimitLayer
  <2> QED BY <2>2, <2>3
<1> QED BY <1>3, <1>4

-----------------------------------------------------------------------------
(* Whatever the project and the operator write about a role, its profile is *)
(* no more permissive than the trusted archetype's and its ceiling is not   *)
(* raised; the lead cannot be disabled (apply_roles).                       *)
THEOREM RolesWithinTrust ==
    ASSUME NEW global, NEW project \in Layer, NEW operator \in Layer,
           Accepted(global, project, operator),
           LET a == Archetype(global, project, operator)
           IN \A r \in DOMAIN a.roles :
                 /\ a.profiles[a.roles[r].profile] \in PermissionProfile
                 /\ ProfileAccepted(a.profiles[a.roles[r].profile])
                 /\ a.roles[r].max_instances \in OrUnset(Nat),
           \A n \in DOMAIN global.profiles : global.profiles[n] \in PermissionProfile,
           Unset \notin Nat, Unset \notin BOOLEAN,
           NEW r \in DOMAIN Archetype(global, project, operator).roles
    PROVE  LET trusted == Baseline(Archetype(global, project, operator), r)
               role == EffectiveRoles(global, project, operator)[r]
           IN /\ NoMorePermissiveThan(role.profile, trusted.profile)
              /\ trusted.max_instances # Unset =>
                    /\ role.max_instances # Unset
                    /\ role.max_instances <= trusted.max_instances
              /\ r = Archetype(global, project, operator).lead => role.enabled
<1> DEFINE a == Archetype(global, project, operator)
           trusted == Baseline(a, r)
           middle == ProjectRoles(global, project, operator)
           role == EffectiveRoles(global, project, operator)[r]
           Trusted(x) == /\ x.profile \in PermissionProfile
                         /\ NoMorePermissiveThan(x.profile, trusted.profile)
                         /\ x.max_instances \in OrUnset(Nat)
                         /\ trusted.max_instances # Unset =>
                               /\ x.max_instances # Unset
                               /\ x.max_instances <= trusted.max_instances
                         /\ x.enabled \in BOOLEAN
                         /\ r = a.lead => x.enabled
<1>1. /\ trusted.enabled = TRUE
      /\ trusted.max_instances \in OrUnset(Nat)
      /\ trusted.profile \in PermissionProfile
      /\ ProfileAccepted(trusted.profile)
  BY DEF Baseline
<1>2. Trusted(trusted)
  <2>1. NoMorePermissiveThan(trusted.profile, trusted.profile)
    BY <1>1, ProfilesAreOrdered
  <2>2. trusted.max_instances # Unset =>
          trusted.max_instances <= trusted.max_instances
    BY <1>1 DEF OrUnset
  <2> QED BY <1>1, <2>1, <2>2
<1>3. ASSUME NEW roles, NEW layer \in Layer, DOMAIN roles = DOMAIN a.roles,
             Trusted(roles[r]), RolesAccepted(a, roles, layer, global.profiles)
      PROVE  Trusted(ApplyRoles(a, roles, layer, global.profiles)[r])
  <2>1. CASE r \notin DOMAIN layer.roles
    BY <1>3, <2>1 DEF ApplyRoles
  <2>2. CASE r \in DOMAIN layer.roles
    <3> DEFINE wanted == Wanted(roles[r], layer.roles[r], global.profiles)
               bounded == RoleMeet(wanted, trusted)
    <3>1. layer.roles[r] \in Restriction
      BY <2>2 DEF Layer
    <3>2. /\ layer.roles[r].profile # Unset =>
                layer.roles[r].profile \in DOMAIN global.profiles
          /\ ~(r = a.lead /\ layer.roles[r].enabled = FALSE)
      BY <1>3, <2>2 DEF RolesAccepted
    <3>3. /\ wanted.profile \in PermissionProfile
          /\ wanted.max_instances \in OrUnset(Nat)
          /\ wanted.enabled \in BOOLEAN
          /\ r = a.lead => wanted.enabled
      BY <1>3, <3>1, <3>2 DEF Wanted, First, Restriction, OrUnset
    <3>4. /\ bounded.profile \in PermissionProfile
          /\ NoMorePermissiveThan(bounded.profile, trusted.profile)
      BY <1>1, <3>3, MeetIsBelow DEF RoleMeet
    <3>5. /\ bounded.max_instances \in OrUnset(Nat)
          /\ trusted.max_instances # Unset =>
                /\ bounded.max_instances # Unset
                /\ bounded.max_instances <= trusted.max_instances
      BY <1>1, <3>3 DEF RoleMeet, CapacityMeet, Lower, OrUnset
    <3>6. /\ bounded.enabled \in BOOLEAN
          /\ r = a.lead => bounded.enabled
      BY <1>1, <3>3 DEF RoleMeet
    <3>7. ApplyRoles(a, roles, layer, global.profiles)[r] = bounded
      BY <1>3, <2>2 DEF ApplyRoles
    <3> QED BY <3>4, <3>5, <3>6, <3>7
  <2> QED BY <2>1, <2>2
<1>4. /\ RolesAccepted(a, Baselines(a), project, global.profiles)
      /\ RolesAccepted(a, middle, operator, global.profiles)
  BY DEF Accepted
<1>5. Trusted(middle[r]) /\ DOMAIN middle = DOMAIN a.roles
  <2>1. Baselines(a)[r] = trusted /\ DOMAIN Baselines(a) = DOMAIN a.roles
    BY DEF Baselines
  <2>2. middle = ApplyRoles(a, Baselines(a), project, global.profiles)
    BY DEF ProjectRoles
  <2>3. Trusted(middle[r])
    BY <1>2, <1>3, <1>4, <2>1, <2>2
  <2>4. DOMAIN middle = DOMAIN a.roles
    BY <2>1, <2>2 DEF ApplyRoles
  <2> QED BY <2>3, <2>4
<1>6. role = ApplyRoles(a, middle, operator, global.profiles)[r]
  BY DEF EffectiveRoles
<1>7. Trusted(role)
  BY <1>3, <1>4, <1>5, <1>6
<1> QED BY <1>7

(* The snapshot that is written with a new run is one that its supervisors  *)
(* and its recovery accept: its roles are those of the archetype, the lead  *)
(* is enabled, every role's provider is bound to a program and the          *)
(* fingerprint is that of what it holds (RunConfiguration::valid).          *)
THEOREM AcceptedIsRecoverable ==
    ASSUME NEW global, NEW project \in Layer, NEW operator \in Layer,
           Accepted(global, project, operator),
           Unset \notin BOOLEAN,
           Unset \notin References,
           DefaultReference \in References,
           global.archetype \in OrUnset(References),
           DOMAIN global.archetypes \subseteq References,
           Builtin.lead \in DOMAIN Builtin.roles,
           \A r \in DOMAIN Builtin.roles :
              Builtin.roles[r].provider \in DOMAIN global.providers
    PROVE  SnapshotValid(Snapshot(Effective(global, project, operator)))
<1> DEFINE a == Archetype(global, project, operator)
           roles == EffectiveRoles(global, project, operator)
           middle == ProjectRoles(global, project, operator)
<1>1. Reference(global, project, operator) \in DOMAIN Archetypes(global)
  BY DEF Accepted, Selectable, Reference, First, Archetypes
<1>2. /\ a.lead \in DOMAIN a.roles
      /\ \A r \in DOMAIN a.roles : a.roles[r].provider \in DOMAIN global.providers
  <2>1. CASE Reference(global, project, operator) = DefaultReference
    BY <1>1, <2>1 DEF Archetype, Archetypes
  <2>2. CASE Reference(global, project, operator) # DefaultReference
    <3> DEFINE ref == Reference(global, project, operator)
    <3>1. ref \in DOMAIN global.archetypes
      BY <1>1, <2>2 DEF Archetypes
    <3>2. a = Resolved(global.archetypes[ref], global)
      BY <1>1, <2>2 DEF Archetype, Archetypes
    <3>3. ArchetypeAccepted(global.archetypes[ref], global)
      BY <3>1 DEF Accepted
    <3>4. a.lead = global.archetypes[ref].lead
          /\ a.roles = global.archetypes[ref].roles
      BY <3>2 DEF Resolved
    <3>5. global.archetypes[ref].lead \in DOMAIN global.archetypes[ref].roles
          /\ \A r \in DOMAIN global.archetypes[ref].roles :
                global.archetypes[ref].roles[r].provider \in DOMAIN global.providers
      BY <3>3, Zenon DEF ArchetypeAccepted
    <3> QED BY <3>4, <3>5, Zenon
  <2> QED BY <2>1, <2>2
<1>3. ASSUME NEW old, NEW layer \in Layer, DOMAIN old = DOMAIN a.roles,
             old[a.lead].enabled = TRUE,
             RolesAccepted(a, old, layer, global.profiles)
      PROVE  LET new == ApplyRoles(a, old, layer, global.profiles)
             IN DOMAIN new = DOMAIN a.roles /\ new[a.lead].enabled = TRUE
  <2>1. CASE a.lead \notin DOMAIN layer.roles
    BY <1>2, <1>3, <2>1 DEF ApplyRoles
  <2>2. CASE a.lead \in DOMAIN layer.roles
    <3>1. layer.roles[a.lead].enabled \in {Unset, TRUE}
      <4>1. layer.roles[a.lead] \in Restriction
        BY <2>2 DEF Layer
      <4>2. ~(a.lead = a.lead /\ layer.roles[a.lead].enabled = FALSE)
        BY <1>3, <2>2 DEF RolesAccepted
      <4> QED BY <4>1, <4>2 DEF Restriction, OrUnset
    <3> QED BY <1>2, <1>3, <2>2, <3>1
         DEF ApplyRoles, RoleMeet, Wanted, Baseline
  <2> QED BY <2>1, <2>2
<1>4. DOMAIN Baselines(a) = DOMAIN a.roles /\ Baselines(a)[a.lead].enabled = TRUE
  BY <1>2 DEF Baselines, Baseline
<1>5. /\ RolesAccepted(a, Baselines(a), project, global.profiles)
      /\ RolesAccepted(a, middle, operator, global.profiles)
  BY DEF Accepted
<1>6. DOMAIN middle = DOMAIN a.roles /\ middle[a.lead].enabled = TRUE
  BY <1>3, <1>4, <1>5 DEF ProjectRoles
<1>7. DOMAIN roles = DOMAIN a.roles /\ roles[a.lead].enabled = TRUE
  BY <1>3, <1>5, <1>6 DEF EffectiveRoles
<1>8. \A r \in DOMAIN a.roles :
        Runnable(global.providers[a.roles[r].provider].command)
  BY <1>2 DEF Accepted, ProvidersAccepted
<1> QED BY <1>2, <1>7, <1>8 DEF SnapshotValid, Snapshot, Effective

-----------------------------------------------------------------------------
(* The two tables of the source agree, the one an agent is told and the     *)
(* checks that the handlers make, whatever the grants and whoever is        *)
(* addressed.  What is told is permitted, but for `send` and `task ready`,  *)
(* which every agent is told of; and `task ready` is permitted to those who *)
(* are told of `progress`.  What is permitted is told, but for `spawn` and  *)
(* `task resubmit`, which no agent is told of, and logs to those who may    *)
(* not read every log (available_commands, require_capability).             *)
THEOREM AdvertisedIsAllowed ==
    ASSUME NEW caller, NEW command, NEW target
    PROVE  /\ command \in Advertised(caller) \ {"task ready", "send"}
                => Permitted(caller, command, target)
           /\ Permitted(caller, "task ready", target)
                <=> "progress" \in Advertised(caller)
           /\ Permitted(caller, command, target) =>
                 \/ command \in Advertised(caller)
                 \/ command \in {"spawn", "task resubmit"}
                 \/ command = "logs" /\ ~Authorized(caller, "logs", "*")
<1> DEFINE Grants(row) == Authorized(caller, row[1], row[2])
           Free == {"whoami", "prime", "project list", "inbox", "finish"}
<1>1. Authorized(caller, "logs", "*") => Authorized(caller, "logs", target.role)
  BY DEF Authorized, Allows
<1>2. command \in Advertised(caller) <=>
        \/ command \in Free \cup {"task ready", "send"}
        \/ \E row \in Told : row[3] = command /\ Grants(row)
  BY DEF Advertised
<1>9. ASSUME NEW row \in Told
      PROVE
          \/ row[1] = "task" /\ row[2] = "read" /\ row[3] = "progress"
          \/ row[1] = "task" /\ row[2] = "read" /\ row[3] = "task show"
          \/ row[1] = "task" /\ row[2] = "read" /\ row[3] = "assignment show"
          \/ /\ row[1] = "project" /\ row[2] = "attach"
             /\ row[3] = "project attach"
          \/ row[1] = "task" /\ row[2] = "create" /\ row[3] = "task create"
          \/ row[1] = "task" /\ row[2] = "close" /\ row[3] = "task close"
          \/ row[1] = "task" /\ row[2] = "recover" /\ row[3] = "task recover"
          \/ /\ row[1] = "task" /\ row[2] = "submit-retained"
             /\ row[3] = "task submit-retained"
          \/ row[1] = "logs" /\ row[2] = "*" /\ row[3] = "logs"
          \/ /\ row[1] = "workspace" /\ row[2] = "integrate"
             /\ row[3] = "workspace integrate"
  <2>2. CASE row = <<"task", "read", "progress">>
    BY <2>2
  <2>3. CASE row = <<"task", "read", "task show">>
    BY <2>3
  <2>4. CASE row = <<"task", "read", "assignment show">>
    BY <2>4
  <2>5. CASE row = <<"project", "attach", "project attach">>
    BY <2>5
  <2>6. CASE row = <<"task", "create", "task create">>
    BY <2>6
  <2>7. CASE row = <<"task", "close", "task close">>
    BY <2>7
  <2>8. CASE row = <<"task", "recover", "task recover">>
    BY <2>8
  <2>9. CASE row = <<"task", "submit-retained", "task submit-retained">>
    BY <2>9
  <2>10. CASE row = <<"logs", "*", "logs">>
    BY <2>10
  <2>11. CASE row = <<"workspace", "integrate", "workspace integrate">>
    BY <2>11
  <2>1.
       \/ row = <<"task", "read", "progress">>
       \/ row = <<"task", "read", "task show">>
       \/ row = <<"task", "read", "assignment show">>
       \/ row = <<"project", "attach", "project attach">>
       \/ row = <<"task", "create", "task create">>
       \/ row = <<"task", "close", "task close">>
       \/ row = <<"task", "recover", "task recover">>
       \/ row = <<"task", "submit-retained", "task submit-retained">>
       \/ row = <<"logs", "*", "logs">>
       \/ row = <<"workspace", "integrate", "workspace integrate">>
    BY DEF Told
  <2> QED BY <2>1, <2>2, <2>3, <2>4, <2>5, <2>6, <2>7, <2>8, <2>9, <2>10, <2>11
<1> DEFINE Listed ==
        \/ /\ command \in {"progress", "task show", "assignment show"}
           /\ Authorized(caller, "task", "read")
        \/ command = "project attach" /\ Authorized(caller, "project", "attach")
        \/ command = "task create" /\ Authorized(caller, "task", "create")
        \/ command = "task close" /\ Authorized(caller, "task", "close")
        \/ command = "task recover" /\ Authorized(caller, "task", "recover")
        \/ /\ command = "task submit-retained"
           /\ Authorized(caller, "task", "submit-retained")
        \/ command = "logs" /\ Authorized(caller, "logs", "*")
        \/ /\ command = "workspace integrate"
           /\ Authorized(caller, "workspace", "integrate")
<1>3. ASSUME NEW row \in Told, row[3] = command, Grants(row)
      PROVE  Listed
  BY <1>3, <1>9
<1>8. ASSUME Listed
      PROVE  \E row \in Told : row[3] = command /\ Grants(row)
  <2>1. ASSUME NEW row \in Told, row[3] = command, Grants(row)
        PROVE  \E x \in Told : x[3] = command /\ Grants(x)
    BY <2>1
  <2>2. /\ <<"task", "read", "progress">> \in Told
        /\ <<"task", "read", "task show">> \in Told
        /\ <<"task", "read", "assignment show">> \in Told
        /\ <<"project", "attach", "project attach">> \in Told
        /\ <<"task", "create", "task create">> \in Told
        /\ <<"task", "close", "task close">> \in Told
        /\ <<"task", "recover", "task recover">> \in Told
        /\ <<"task", "submit-retained", "task submit-retained">> \in Told
        /\ <<"logs", "*", "logs">> \in Told
        /\ <<"workspace", "integrate", "workspace integrate">> \in Told
    BY DEF Told
  <2> QED BY <1>8, <2>2
<1>4. "progress" \in Advertised(caller) <=> Authorized(caller, "task", "read")
  <2>1. <<"task", "read", "progress">> \in Told
    BY DEF Told
  <2>2. ASSUME NEW row \in Told, row[3] = "progress"
        PROVE  row[1] = "task" /\ row[2] = "read"
    BY <1>9, <2>2
  <2> QED BY <2>1, <2>2 DEF Advertised
<1>5. Permitted(caller, "task ready", target)
        <=> Authorized(caller, "task", "read")
  BY DEF Permitted
<1>6. ASSUME command \in Advertised(caller) \ {"task ready", "send"}
      PROVE  Permitted(caller, command, target)
  <2>1. command \in Free \/ Listed
    BY <1>2, <1>3, <1>6
  <2> QED BY <1>1, <2>1 DEF Permitted
<1>7. ASSUME Permitted(caller, command, target),
             command \notin {"spawn", "task resubmit"},
             ~(command = "logs" /\ ~Authorized(caller, "logs", "*"))
      PROVE  command \in Advertised(caller)
  <2>1. command \in Free \cup {"task ready", "send"} \/ Listed
    BY <1>7 DEF Permitted
  <2> QED BY <1>2, <1>8, <2>1
<1> QED BY <1>4, <1>5, <1>6, <1>7
=============================================================================

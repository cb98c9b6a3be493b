------------------------------- MODULE Worktrees -------------------------------
(***************************************************************************)
(* How the worktree of an assignment comes to be (workspace.rs,            *)
(* materialize, reconcile_after_restart, reconcile_for_shutdown and the    *)
(* Git backend).  The database holds the intent, a branch is made at the   *)
(* recorded base, then Git adds the worktree in several writes.  Any write *)
(* may fail and the supervisor may die after each; the next pass observes  *)
(* what there is.  The agent's commits move the branch, and the operator   *)
(* may meddle with branch and directories at any time.                     *)
(*                                                                         *)
(* One assignment with a worktree; paths and branches of assignments are   *)
(* their own.  Shared directories, where nothing is created, are left out, *)
(* and so is a project whose identity changes (refused in every step).     *)
(***************************************************************************)
EXTENDS Integers

CONSTANTS MaxCrashes, MaxRefusals, MaxMeddling

ASSUME WorktreesAssumption ==
    MaxCrashes \in Nat /\ MaxRefusals \in Nat /\ MaxMeddling \in Nat

VARIABLES
    row,     \* state of the workspace in the database
    git,     \* the branch, Git's record of the worktree, its directory
    pc,      \* where the supervisor is
    agent,   \* the session that works in the worktree: none, running, ended
    cut,     \* whether Git was stopped while it added the worktree
    stopped, \* whether the run has been stopped
    crashes, refusals, meddling

worktree == <<row, git, pc, agent, cut, stopped, crashes, refusals, meddling>>
counts == <<stopped, crashes, refusals, meddling>>

States == {"desired", "observed", "unknown", "lost"}

(* parents: the run's directories above the worktree, which may have been   *)
(* replaced. ref: the branch is absent, at the base, or elsewhere. admin:   *)
(* Git's record, which is whole once it has a HEAD. head: on which branch.  *)
GitState ==
    [parents : {"none", "own", "foreign"}, ref : {"none", "base", "ahead"},
     admin : {"none", "partial", "whole"},
     dir : {"none", "linked", "foreign"},
     head : {"own", "other"}]

Steps == {"idle", "create", "parents", "reference", "free", "admin",
          "directory", "head", "checkout", "created", "launch"}

WorktreesTypeOK ==
    /\ row \in States /\ git \in GitState /\ pc \in Steps
    /\ agent \in {"none", "running", "ended"} /\ cut \in BOOLEAN
    /\ stopped \in BOOLEAN
    /\ crashes \in 0..MaxCrashes /\ refusals \in 0..MaxRefusals
    /\ meddling \in 0..MaxMeddling

WorktreesInit ==
    /\ row = "desired" /\ pc = "idle" /\ agent = "none" /\ cut = FALSE
    /\ git = [parents |-> "none", ref |-> "none", admin |-> "none",
              dir |-> "none", head |-> "own"]
    /\ stopped = FALSE /\ crashes = 0 /\ refusals = 0 /\ meddling = 0

-----------------------------------------------------------------------------
(* What there is.                                                           *)

(* observe_orphan_reference: the branch without a worktree.                 *)
Orphan == IF git.ref \in {"none", "base"} THEN "lost" ELSE "unknown"

(* observe_worktree: registered, in its place and on its branch.  Whether   *)
(* the files are checked out does not show.                                 *)
Observed ==
    git.admin = "whole" /\ git.dir = "linked" /\ git.head = "own"

(* validate_path: each existing directory of the path is one, and no link.  *)
PathOwned == git.parents # "foreign"

Observation ==
    IF ~PathOwned THEN "unknown"
    ELSE IF git.admin = "none" /\ git.dir = "none" THEN Orphan
    ELSE IF Observed /\ git.ref # "none" THEN "observed" ELSE "unknown"

-----------------------------------------------------------------------------
(* materialize *)

RecordState(state) == row' = state

(* Slip: a failed creation is not tried again.                              *)
OnlyDesired == {"desired"}

(* Slip: what has vanished is made anew.                                    *)
AnyMissing == {"desired", "unknown", "lost"}

(* The states in which a missing worktree is created.                       *)
Creatable == {"desired", "unknown"}

(* A pass over the workspaces at the start, or the launch of the agent.     *)
Pass ==
    /\ pc = "idle"
    /\ IF row \in Creatable /\ Observation = "lost"
       THEN pc' = "create" /\ row' = row
       ELSE /\ RecordState(Observation)
            /\ pc' = IF Observation = "observed" THEN "launch" ELSE "idle"
    /\ UNCHANGED <<git, agent, cut, counts>>

(* reconcile_for_shutdown creates nothing.                                  *)
ShutdownPass ==
    /\ pc = "idle" /\ stopped' = TRUE /\ RecordState(Observation)
    /\ UNCHANGED <<git, pc, agent, cut, crashes, refusals, meddling>>

(* The backend fails: whatever was made is left.                            *)
BackendFails == RecordState("unknown") /\ pc' = "idle" /\ UNCHANGED git

(* A write that the disk or a lock refuses.                                 *)
Fault ==
    /\ pc \in {"parents", "reference", "admin", "directory", "head",
              "checkout"}
    /\ refusals < MaxRefusals /\ refusals' = refusals + 1
    /\ cut' = IF pc \in {"directory", "head", "checkout"} THEN TRUE ELSE cut
    /\ BackendFails /\ UNCHANGED <<agent, stopped, crashes, meddling>>

(* create looks again.                                                      *)
Reopen ==
    /\ pc = "create"
    /\ pc' = IF Observation = "observed" THEN "created" ELSE "parents"
    /\ UNCHANGED <<row, git, agent, cut, counts>>

(* prepare_workspace_parent *)
MakeParents ==
    /\ pc = "parents"
    /\ IF PathOwned
       THEN /\ git' = [git EXCEPT !.parents = "own"]
            /\ pc' = "reference" /\ row' = row
       ELSE BackendFails
    /\ UNCHANGED <<agent, cut, counts>>

(* Slip: the branch is set to the base.                                     *)
ForceReference ==
    git' = [git EXCEPT !.ref = "base"] /\ pc' = "free" /\ row' = row

(* The branch is made at the base, or is there already.                     *)
OwnReference ==
    IF git.ref = "ahead" THEN BackendFails
    ELSE git' = [git EXCEPT !.ref = "base"] /\ pc' = "free" /\ row' = row

MakeReference ==
    /\ pc = "reference" /\ OwnReference
    /\ UNCHANGED <<agent, cut, counts>>

(* Neither the worktree's name nor its path is taken.                       *)
CheckFree ==
    /\ pc = "free"
    /\ IF git.admin = "none" /\ git.dir = "none" /\ git.ref # "none"
       THEN pc' = "admin" /\ UNCHANGED <<row, git>>
       ELSE BackendFails
    /\ UNCHANGED <<agent, cut, counts>>

(* Git adds the worktree: its record, the directory, HEAD, the files.       *)
AddRecord ==
    /\ pc = "admin"
    /\ IF git.admin = "none"
       THEN /\ git' = [git EXCEPT !.admin = "partial"]
            /\ pc' = "directory" /\ row' = row
       ELSE BackendFails
    /\ UNCHANGED <<agent, cut, counts>>

AddDirectory ==
    /\ pc = "directory"
    /\ IF git.dir = "none"
       THEN /\ git' = [git EXCEPT !.dir = "linked"]
            /\ pc' = "head" /\ row' = row /\ cut' = cut
       ELSE BackendFails /\ cut' = TRUE
    /\ UNCHANGED <<agent, counts>>

AddHead ==
    /\ pc = "head"
    /\ git' = [git EXCEPT !.admin = IF @ = "none" THEN @ ELSE "whole",
                          !.head = "own"]
    /\ pc' = "checkout"
    /\ UNCHANGED <<row, agent, cut, counts>>

CheckoutFiles ==
    /\ pc = "checkout" /\ pc' = "created"
    /\ UNCHANGED <<row, git, agent, cut, counts>>

(* The result is observed and recorded.                                     *)
RecordCreated ==
    /\ pc = "created" /\ RecordState(Observation)
    /\ pc' = IF Observation = "observed" THEN "launch" ELSE "idle"
    /\ UNCHANGED <<git, agent, cut, counts>>

(* complete_spawn_operation launches the agent in an observed worktree; a   *)
(* pass at the start of the supervisor does not.                            *)
Launch ==
    /\ pc = "launch" /\ pc' = "idle"
    /\ agent' \in IF agent = "none" THEN {"none", "running"} ELSE {agent}
    /\ UNCHANGED <<row, git, cut, counts>>

-----------------------------------------------------------------------------
(* The others.                                                              *)

Commit ==
    /\ agent = "running" /\ Observed /\ git.ref = "base"
    /\ git' = [git EXCEPT !.ref = "ahead"]
    /\ UNCHANGED <<row, pc, agent, cut, counts>>

AgentEnds ==
    /\ agent = "running" /\ agent' = "ended"
    /\ UNCHANGED <<row, git, pc, cut, counts>>

SupervisorDies ==
    /\ crashes < MaxCrashes /\ crashes' = crashes + 1 /\ pc' = "idle"
    /\ cut' = IF pc \in {"directory", "head", "checkout"} THEN TRUE ELSE cut
    /\ UNCHANGED <<row, git, agent, stopped, refusals, meddling>>

(* The operator replaces the run's directories by a link or puts them back, *)
(* removes the directory, or the worktree with its record, puts something   *)
(* in its place, changes its branch, or moves or removes the branch.        *)
Meddled ==
    {[git EXCEPT !.dir = "none"],
     [git EXCEPT !.dir = "none", !.admin = "none"],
     [git EXCEPT !.dir = IF @ = "none" THEN "foreign" ELSE @],
     [git EXCEPT !.head = IF git.admin = "whole" THEN "other" ELSE @],
     [git EXCEPT !.parents = IF @ = "own" THEN "foreign" ELSE "own"],
     [git EXCEPT !.ref = "ahead"],
     [git EXCEPT !.ref = "none"]}

Meddle ==
    /\ meddling < MaxMeddling /\ meddling' = meddling + 1
    /\ git' \in Meddled \ {git}
    /\ UNCHANGED <<row, pc, agent, cut, stopped, crashes, refusals>>

-----------------------------------------------------------------------------
Supervisor ==
    \/ Pass \/ ShutdownPass \/ Reopen \/ MakeParents \/ MakeReference
    \/ CheckFree \/ AddRecord \/ AddDirectory \/ AddHead \/ CheckoutFiles
    \/ RecordCreated \/ Launch

WorktreesNext ==
    Supervisor \/ Fault \/ Commit \/ AgentEnds \/ SupervisorDies \/ Meddle

WorktreesSpec == WorktreesInit /\ [][WorktreesNext]_worktree

-----------------------------------------------------------------------------
(* Properties.                                                              *)

(* What the agent or the operator has made, commits on the branch and what  *)
(* is at the path, the supervisor leaves as it is, even when it appears     *)
(* while a worktree is being created (create).                              *)
WorkKept ==
    [][Supervisor =>
         /\ git.ref # "none" => git'.ref = git.ref
         /\ git.dir # "none" => git'.dir = git.dir]_worktree

(* Once an agent was launched in the worktree, nothing that is done to it   *)
(* once, by whomever and before or after the launch, makes any later pass   *)
(* begin to create it, as if the agent had never worked: however often the  *)
(* supervisor dies and however the failures, the agent's commits and the    *)
(* passes fall, what has gone is found lost, or unknown for good            *)
(* (materialize).  Two acts do: a worktree damaged, recorded as unknown,    *)
(* and then removed is created again.                                       *)
NoFreshStart ==
    agent # "none" /\ meddling <= 1 => pc \in {"idle", "launch"}

(* What makes it so: an agent begins in a worktree that was observed, and   *)
(* one act does not turn it into an unknown one and then into none.         *)
Settled ==
    /\ pc = "launch" => row = "observed"
    /\ pc = "launch" /\ meddling = 0 => Observation = "observed"
    /\ agent # "none" /\ meddling = 0 =>
          row = "observed" /\ Observation = "observed"
    /\ agent # "none" /\ meddling <= 1 /\ row \in Creatable =>
          Observation # "lost"
FreshStartInv == WorktreesTypeOK /\ NoFreshStart /\ Settled

(* Wherever creation fails or the supervisor dies, except inside Git's own  *)
(* writes, the next pass can go on: what is left of the creation is never   *)
(* taken for somebody else's.                                               *)
Resumable ==
    meddling = 0 /\ ~cut /\ pc \in {"idle", "create"} =>
        Observation # "unknown"

(* How far a creation has come that nobody has disturbed: what makes it     *)
(* resumable, step by step.                                                 *)
Nothing ==
    git.admin = "none" /\ git.dir = "none" /\ git.ref \in {"none", "base"}
Complete == Observed /\ git.ref # "none"
Undisturbed ==
    meddling = 0 /\ ~cut =>
        /\ PathOwned
        /\ pc \in {"idle", "create", "parents", "reference"} =>
              Nothing \/ Complete
        /\ pc \in {"free", "admin"} =>
              (Nothing /\ git.ref = "base") \/ Complete
        /\ pc = "directory" =>
              git.admin = "partial" /\ git.dir = "none" /\ git.ref = "base"
        /\ pc = "head" =>
              git.admin = "partial" /\ git.dir = "linked" /\ git.ref = "base"
        /\ pc \in {"checkout", "created", "launch"} => Complete
WorktreesInv == WorktreesTypeOK /\ Undisturbed

(* Unless somebody meddles or Git was stopped in its writes, the worktree   *)
(* comes to be, whatever failed before; a run that stops first records it   *)
(* as lost.                                                                 *)
Materializes == <>(row = "observed" \/ meddling > 0 \/ cut \/ stopped)

(* Passes are made at every start and whenever the spawn is retried.        *)
WorktreesFairSpec ==
    /\ WorktreesSpec
    /\ WF_worktree(Pass) /\ WF_worktree(Reopen) /\ WF_worktree(MakeParents)
    /\ WF_worktree(MakeReference) /\ WF_worktree(CheckFree)
    /\ WF_worktree(AddRecord) /\ WF_worktree(AddDirectory)
    /\ WF_worktree(AddHead) /\ WF_worktree(CheckoutFiles)
    /\ WF_worktree(RecordCreated) /\ WF_worktree(Launch)
=============================================================================

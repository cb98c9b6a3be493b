------------------------ MODULE TaskLedgerInvariants ------------------------
(***************************************************************************)
(* The inductive invariant behind the safety properties of TaskLedger, in  *)
(* named parts.  Each part says what one table of the store owes another;  *)
(* the properties say what follows for a caller.                           *)
(***************************************************************************)
EXTENDS TaskLedger

\* An assignment row and its claim row open and close together, and an open
\* or completed row is the latest one of a task in the matching status.
RowsAgree ==
    \A a \in Assignments :
        LET t == asgTask[a] IN
        /\ asgState[a] = "none" <=> t = NoTask
        /\ asgState[a] = "active" <=> claim[a] = "active"
        /\ asgState[a] = "active" =>
              status[t] = "in_progress" /\ latest[t] = a
        /\ asgState[a] = "completed" =>
              status[t] \in {"submitted", "closed"} /\ latest[t] = a

\* A task past open has a latest assignment in the matching state.
LatestRow ==
    \A t \in Tasks :
        LET a == latest[t] IN
        /\ status[t] = "in_progress" =>
              a \in Assignments /\ asgTask[a] = t /\ asgState[a] = "active"
        /\ status[t] \in {"submitted", "closed"} =>
              a \in Assignments /\ asgTask[a] = t /\ asgState[a] = "completed"

Ownership == RowsAgree /\ LatestRow

\* Before its spawn an assignment has no trace; a retired one has stopped.
WorkRows ==
    \A a \in Assignments :
        /\ asgState[a] = "none" =>
              /\ kind[a] = "none" /\ wsState[a] = "none"
              /\ session[a] = "none" /\ spawnOp[a] = "none"
              /\ result[a] = NoCommit /\ continues[a] = NoAssignment
        /\ asgState[a] = "completed" /\ Worktree(a) => result[a] # NoCommit
        /\ retired[a] =>
              /\ asgState[a] = "released" /\ Worktree(a)
              /\ session[a] \in {"exited", "lost"} /\ spawnOp[a] = "observed"

\* Integration touches completed worktree work only; the target branch holds
\* the recorded result, and only behind a durable intent.
IntegrationRows ==
    /\ \A o \in IntegrateOps :
          LET a == opAsg[o] IN
          /\ opState[o] = "none" <=> a = NoAssignment
          /\ opState[o] # "none" => asgState[a] = "completed" /\ Worktree(a)
          /\ opState[o] = "observed" => target[a] # NoCommit
    /\ \A a \in Assignments :
          /\ published[a] # NoCommit =>
                published[a] = result[a] /\ ~Unintended(a)
          /\ target[a] # NoCommit => target[a] = published[a]

\* What a submitted or closed task says of its latest assignment is so.
EvidenceRows ==
    \A t \in Tasks :
        LET a == latest[t] IN
        /\ status[t] \in {"submitted", "closed"} => taskResult[t] = result[a]
        /\ status[t] = "closed" <=> evidence[t] # "none"
        /\ evidence[t] = "direct" => ~Worktree(a)
        /\ evidence[t] = "integration" => Worktree(a) /\ target[a] # NoCommit
        /\ evidence[t] = "override" => Worktree(a) /\ Unintended(a)

IInv ==
    /\ TypeOK
    /\ Ownership
    /\ DependenciesAccepted
    /\ WorkRows
    /\ IntegrationRows
    /\ EvidenceRows
    /\ RecoveryHandedOn
=============================================================================

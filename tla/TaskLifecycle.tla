---------------------------- MODULE TaskLifecycle ----------------------------
(***************************************************************************)
(* What the task ledger promises its callers, without rows or operations:  *)
(* a task is worked on by one worker at a time, once all it depends on is  *)
(* accepted; a worker is used once; a submission is attributed to the      *)
(* worker that owned the task; acceptance is final.                        *)
(***************************************************************************)
CONSTANTS Tasks, Workers

VARIABLES
    status,  \* the task's durable status
    deps,    \* the tasks it waits for
    owners,  \* the workers that own it now
    author,  \* the worker whose work is submitted or accepted
    spent    \* workers whose one assignment is over

vars == <<status, deps, owners, author, spent>>

Init ==
    /\ status = [t \in Tasks |-> "absent"]
    /\ deps = [t \in Tasks |-> {}]
    /\ owners = [t \in Tasks |-> {}]
    /\ author = [t \in Tasks |-> {}]
    /\ spent = {}

Create(t, dependencies) ==
    /\ status[t] = "absent"
    /\ dependencies \subseteq {u \in Tasks : status[u] # "absent"}
    /\ status' = [status EXCEPT ![t] = "open"]
    /\ deps' = [deps EXCEPT ![t] = dependencies]
    /\ UNCHANGED <<owners, author, spent>>

Claim(t, w) ==
    /\ status[t] = "open"
    /\ \A u \in deps[t] : status[u] = "closed"
    /\ w \notin spent
    /\ \A u \in Tasks : w \notin owners[u]
    /\ status' = [status EXCEPT ![t] = "in_progress"]
    /\ owners' = [owners EXCEPT ![t] = {w}]
    /\ UNCHANGED <<deps, author, spent>>

\* The owner is done with the task, one way or the other.
Leave(t, next) ==
    /\ status[t] = "in_progress"
    /\ status' = [status EXCEPT ![t] = next]
    /\ spent' = spent \cup owners[t]
    /\ owners' = [owners EXCEPT ![t] = {}]
    /\ UNCHANGED deps

Reopen(t) == Leave(t, "open") /\ UNCHANGED author

Submit(t) ==
    /\ Leave(t, "submitted")
    /\ author' = [author EXCEPT ![t] = owners[t]]

Close(t) ==
    /\ status[t] = "submitted"
    /\ status' = [status EXCEPT ![t] = "closed"]
    /\ UNCHANGED <<deps, owners, author, spent>>

Next ==
    \E t \in Tasks :
        \/ \E dependencies \in SUBSET Tasks : Create(t, dependencies)
        \/ \E w \in Workers : Claim(t, w)
        \/ Reopen(t)
        \/ Submit(t)
        \/ Close(t)

Spec == Init /\ [][Next]_vars
=============================================================================

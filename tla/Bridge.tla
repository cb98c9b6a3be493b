-------------------------------- MODULE Bridge --------------------------------
(***************************************************************************)
(* An agent's mutations on their way to the run database.  The agent calls *)
(* tools of its MCP bridge (mcp.rs); the bridge saves each typed request   *)
(* before it sends it (mcp/client.rs) over a connection on which requests  *)
(* are answered in order (supervisor.rs, SupervisorClient and              *)
(* serve_connection); after a transient failure it reconnects once,        *)
(* authenticates and repeats the request.  The supervisor authenticates a  *)
(* request, then executes it, as two commands between which a session may  *)
(* end; an operation already recorded is answered from its row (state.rs). *)
(*                                                                         *)
(* A response is matched to its request by a number that grows along the   *)
(* connection.  As both ends serve in order, the number says how many      *)
(* answers to requests the client gave up are still in front of the one it *)
(* waits for: "behind".                                                    *)
(*                                                                         *)
(* Abstractions: one agent; its bridge process may be replaced and then    *)
(* carries the credentials of the current generation.  Queries, the        *)
(* binding of a thread and the helpers poll and inbox_handled are left out *)
(* (Delivery has the last three).  Requests of a connection the client     *)
(* dropped are executed in any order, or never.                            *)
(***************************************************************************)
EXTENDS Integers, Sequences, FiniteSets

CONSTANTS
    Operations,      \* operation identifiers the agent allocated
    Arguments,       \* what it may pass with them
    Whoami, NoCall,
    MaxRetries,      \* MAX_RETRIES, or what MAX_RETRY_BYTES leaves of it
    MaxGenerations, MaxFaults

ASSUME BridgeAssumption ==
    /\ {Whoami, NoCall} \cap Operations = {} /\ Whoami # NoCall
    /\ {MaxRetries, MaxGenerations} \subseteq Nat \ {0}
    /\ MaxFaults \in Nat

VARIABLES
    faults,      \* crashes, timeouts, replaced bridges so far
    up,          \* whether a supervisor serves the run
    generation,  \* the agent's current session generation
    active,      \* whether that session's credential is active
    applied,     \* what each operation did: its effects, in order
    bridge,      \* the bridge: its call, its credentials, its MCP stage
    saved,       \* SavedMutation of the bridge, oldest first
    links,       \* its connection, and the replacement it is setting up
    abandoned,   \* requests of dropped connections the server still holds
    told         \* what the agent knows of each operation

vars == <<faults, up, generation, active, applied, bridge, saved, links,
          abandoned, told>>
server == <<up, generation, active, applied>>
client == <<bridge, saved, told>>

-----------------------------------------------------------------------------
Request(o, a) == [op |-> o, args |-> a, generation |-> bridge.generation,
                  authentic |-> FALSE]
Answer(kind, r) == [kind |-> kind, op |-> r.op, args |-> r.args]

Closed == [open |-> FALSE, queue |-> <<>>, answers |-> <<>>, behind |-> 0]
Opened == [Closed EXCEPT !.open = TRUE]

Ends == {"current", "replacement"}
Steps == {"idle", "sent", "reconnecting", "authenticating", "repeated"}
RequestSet == {r \in [op : Operations \cup {Whoami},
                      args : Arguments \cup {NoCall},
                      generation : 1..MaxGenerations, authentic : BOOLEAN] :
                 r.op \in Operations => r.args \in Arguments}
AnswerSet == [kind : {"ok", "refused", "conflict", "unauthenticated"},
              op : Operations \cup {Whoami}, args : Arguments \cup {NoCall}]
LinkSet == [open : BOOLEAN, queue : Seq(RequestSet),
            answers : Seq(AnswerSet), behind : Nat]

TypeOK ==
    /\ faults \in 0..MaxFaults /\ up \in BOOLEAN /\ active \in BOOLEAN
    /\ generation \in 1..MaxGenerations
    /\ applied \in [Operations -> Seq(Arguments)]
    /\ bridge \in [op : Operations \cup {NoCall}, args : Arguments \cup {NoCall},
                   step : Steps, generation : 1..MaxGenerations,
                   stage : {"new", "initialized", "ready"}]
    /\ saved \in Seq([op : Operations, args : Arguments, succeeded : BOOLEAN])
    /\ links \in [Ends -> LinkSet]
    /\ abandoned \subseteq RequestSet
    /\ told \in [Operations ->
          {"never", "uncertain", "orphaned", "refused", "done"}]

NewBridge(g) == [op |-> NoCall, args |-> NoCall, step |-> "idle",
                 generation |-> g, stage |-> "new"]

Init ==
    /\ faults = 0 /\ up = TRUE /\ generation = 1 /\ active = TRUE
    /\ applied = [o \in Operations |-> <<>>]
    /\ bridge = NewBridge(1) /\ saved = <<>>
    /\ links = [e \in Ends |-> IF e = "current" THEN Opened ELSE Closed]
    /\ abandoned = {}
    /\ told = [o \in Operations |-> "never"]

Fault == faults < MaxFaults /\ faults' = faults + 1

(* What the server of a dropped connection still finds in its socket.       *)
Remains(link) == {link.queue[i] : i \in DOMAIN link.queue}

-----------------------------------------------------------------------------
(* The supervisor.                                                          *)

Current(g) == active /\ g = generation

(* authenticate_request: the credential of the named session is active and  *)
(* its token verifies for that generation.                                  *)
Authenticate(e) ==
    LET link == links[e]
        r == Head(link.queue)
    IN /\ up /\ link.queue # <<>> /\ ~r.authentic
       /\ links' = [links EXCEPT ![e] =
             IF Current(r.generation)
             THEN [link EXCEPT !.queue[1].authentic = TRUE]
             ELSE [link EXCEPT !.queue = Tail(@),
                      !.answers = Append(@, Answer("unauthenticated", r))]]
       /\ UNCHANGED <<faults, server, client, abandoned>>

(* The outcome of a mutation: an operation identifier stands for one        *)
(* request for ever; a mutation that fails leaves no row behind.            *)
Outcomes(r) ==
    IF applied[r.op] # <<>>
    THEN {IF Head(applied[r.op]) = r.args THEN "ok" ELSE "conflict"}
    ELSE {"ok", "refused"}

Effects(r, kind) ==
    IF kind = "ok" /\ applied[r.op] = <<>>
    THEN [applied EXCEPT ![r.op] = Append(@, r.args)] ELSE applied

(* Slip: the caller that was authenticated is taken to be current.          *)
AuthenticOnly(r) == r.authentic

(* require_current_caller, in the transaction loop that runs the request.   *)
Allowed(r) == r.authentic /\ Current(r.generation)

(* execute_request and mutate.                                              *)
Executed(r, kind) ==
    IF ~Allowed(r)
    THEN kind = "unauthenticated" /\ UNCHANGED applied
    ELSE IF r.op = Whoami THEN kind = "ok" /\ UNCHANGED applied
    ELSE kind \in Outcomes(r) /\ applied' = Effects(r, kind)

Kinds == {"ok", "refused", "conflict", "unauthenticated"}

Execute(e) ==
    LET link == links[e]
        r == Head(link.queue)
    IN /\ up /\ link.queue # <<>> /\ r.authentic
       /\ \E kind \in Kinds :
             /\ Executed(r, kind)
             /\ links' = [links EXCEPT ![e] =
                   [link EXCEPT !.queue = Tail(@),
                       !.answers = Append(@, Answer(kind, r))]]
       /\ UNCHANGED <<faults, up, generation, active, client, abandoned>>

(* A client that went away does not stop the command it sent.               *)
ExecuteAbandoned(r) ==
    /\ up
    /\ IF r.authentic
       THEN /\ \E kind \in Kinds : Executed(r, kind)
            /\ abandoned' = abandoned \ {r}
       ELSE /\ UNCHANGED applied
            /\ abandoned' = (abandoned \ {r}) \cup
                  (IF Current(r.generation)
                   THEN {[r EXCEPT !.authentic = TRUE]} ELSE {})
    /\ UNCHANGED <<faults, up, generation, active, client, links>>

Crash ==
    /\ up /\ Fault
    /\ up' = FALSE /\ abandoned' = {}
    /\ links' = [e \in Ends |-> [links[e] EXCEPT !.open = FALSE, !.queue = <<>>]]
    /\ UNCHANGED <<generation, active, applied, client>>

Restart ==
    /\ ~up /\ up' = TRUE
    /\ UNCHANGED <<faults, generation, active, applied, client, links, abandoned>>

(* The session of the agent ends; a new one rotates its credentials         *)
(* (activate_session_credential).                                           *)
SessionEnds ==
    /\ up /\ active /\ active' = FALSE
    /\ UNCHANGED <<faults, up, generation, applied, client, links, abandoned>>

SessionStarts ==
    /\ up /\ ~active /\ active' = TRUE
    /\ generation < MaxGenerations /\ generation' = generation + 1
    /\ UNCHANGED <<faults, up, applied, client, links, abandoned>>

-----------------------------------------------------------------------------
(* The bridge.                                                              *)

(* The host opens a bridge with the credentials of the agent's session; run *)
(* proves them once. What an earlier bridge saved is gone, its call too.    *)
ReplaceBridge ==
    /\ up /\ active /\ Fault
    /\ bridge' = NewBridge(generation) /\ saved' = <<>>
    /\ links' = [e \in Ends |-> IF e = "current" THEN Opened ELSE Closed]
    /\ abandoned' = abandoned \cup UNION {Remains(links[e]) : e \in Ends}
    /\ told' = [o \in Operations |->
                   IF told[o] = "uncertain" \/ (o = bridge.op /\ told[o] # "done")
                   THEN "orphaned" ELSE told[o]]
    /\ UNCHANGED server

(* initialize, then notifications/initialized; no tool runs before both.    *)
Initialize ==
    /\ bridge.stage # "ready"
    /\ bridge' = [bridge EXCEPT !.stage =
                     IF @ = "new" THEN "initialized" ELSE "ready"]
    /\ UNCHANGED <<faults, server, saved, links, abandoned, told>>

SavedAt(o) == {i \in DOMAIN saved : saved[i].op = o}
IsSaved(o) == SavedAt(o) # {}
Without(i) == SubSeq(saved, 1, i - 1) \o SubSeq(saved, i + 1, Len(saved))

(* Slip: the oldest request makes room.                                     *)
OldestEvictable == DOMAIN saved

(* Only requests that succeeded may be evicted, the oldest first.           *)
Evictable == {i \in DOMAIN saved : saved[i].succeeded}

(* Client::request: how the cache looks when the request is dispatched.     *)
Room(o, a) ==
    LET fresh == [op |-> o, args |-> a, succeeded |-> FALSE]
        first == CHOOSE i \in Evictable : \A j \in Evictable : i <= j
    IN IF IsSaved(o) THEN saved
       ELSE IF Len(saved) < MaxRetries THEN Append(saved, fresh)
       ELSE Append(Without(first), fresh)

Admitted(o, a) ==
    IF IsSaved(o) THEN \E i \in SavedAt(o) : saved[i].args = a
    ELSE Len(saved) < MaxRetries \/ Evictable # {}

(* Nothing is read from a connection that refuses a request.                *)
Sent(e, r) ==
    LET link == links[e]
    IN [links EXCEPT ![e] = IF link.open
                            THEN [link EXCEPT !.queue = Append(@, r)]
                            ELSE [link EXCEPT !.answers = <<>>]]

Dispatch(o, a) ==
    /\ bridge.stage = "ready" /\ bridge.step = "idle"
    /\ Admitted(o, a)
    /\ saved' = Room(o, a)
    /\ bridge' = [bridge EXCEPT !.op = o, !.args = a, !.step = "sent"]
    /\ links' = Sent("current", Request(o, a))
    /\ UNCHANGED <<faults, server, abandoned, told>>

(* The first call of a tool, or a later one; a call that is not admitted    *)
(* fails before anything is sent.                                           *)
Call(o, a) == told[o] # "done" /\ Dispatch(o, a)

(* retry_mutation: the saved request, however it ended before.              *)
Retry(o) == \E i \in SavedAt(o) : Dispatch(o, saved[i].args)

(* What the call's end means to the agent. An error about the connection or *)
(* the credentials says nothing of the operation.                           *)
Ended(kind) ==
    LET o == bridge.op
    IN /\ bridge' = [bridge EXCEPT !.op = NoCall, !.args = NoCall,
                                   !.step = "idle"]
       /\ saved' = [i \in DOMAIN saved |->
             IF saved[i].op = o
             THEN [saved[i] EXCEPT !.succeeded = (kind = "ok")] ELSE saved[i]]
       /\ told' = [told EXCEPT ![o] =
             IF kind = "ok" \/ @ = "done" THEN "done"
             ELSE IF kind \in {"refused", "conflict"} THEN "refused"
             ELSE "uncertain"]

(* A connection the client drops: the server still reads what it was sent.  *)
Dropped(link) == abandoned \cup Remains(link)

(* The replacement takes the place of the connection, whatever came of the  *)
(* repeated request.                                                        *)
Replaced(link) ==
    /\ links' = [links EXCEPT !["current"] = link, !["replacement"] = Closed]
    /\ abandoned' = Dropped(links["current"])

Waiting == {"sent", "authenticating", "repeated"}
Channel == IF bridge.step = "sent" THEN "current" ELSE "replacement"

(* Slip: the next response is taken for the answer.                         *)
NextAnswer(link) == TRUE

(* request_unbounded compares the number of the response.                   *)
Matches(link) == link.behind = 0

(* A response arrives. One that answers an earlier request is an error and  *)
(* leaves the answer to this request on the connection.                     *)
Receive ==
    LET link == links[Channel]
        rest == [link EXCEPT !.answers = Tail(@)]
        kind == IF Matches(link) THEN Head(link.answers).kind ELSE "mismatch"
    IN /\ bridge.step \in Waiting /\ link.answers # <<>>
       /\ CASE bridge.step = "sent" ->
                  /\ links' = [links EXCEPT !["current"] = rest]
                  /\ Ended(kind) /\ UNCHANGED abandoned
            [] bridge.step = "authenticating" /\ kind = "ok" ->
                  /\ links' = [links EXCEPT !["replacement"] =
                        [rest EXCEPT !.queue = IF rest.open
                            THEN Append(@, Request(bridge.op, bridge.args))
                            ELSE @]]
                  /\ bridge' = [bridge EXCEPT !.step = "repeated"]
                  /\ UNCHANGED <<saved, told, abandoned>>
            [] bridge.step = "authenticating" /\ kind # "ok" ->
                  /\ links' = [links EXCEPT !["replacement"] = Closed]
                  /\ abandoned' = Dropped(rest)
                  /\ Ended(kind)
            [] bridge.step = "repeated" ->
                  /\ Replaced(rest) /\ Ended(kind)
       /\ UNCHANGED <<faults, server>>

(* Slip: a failure that is not a timeout is final.                          *)
GiveUpAtOnce(link) ==
    /\ links' = [links EXCEPT ![Channel] = link]
    /\ Ended("lost") /\ UNCHANGED abandoned

(* Ten seconds pass, or the connection ends without the response: the first *)
(* time the bridge reconnects, later the call ends. An answer given up is   *)
(* still to come.                                                           *)
GiveUp(link) ==
    CASE bridge.step = "sent" ->
            /\ links' = [links EXCEPT !["current"] = link]
            /\ bridge' = [bridge EXCEPT !.step = "reconnecting"]
            /\ UNCHANGED <<saved, told, abandoned>>
      [] bridge.step = "authenticating" ->
            /\ links' = [links EXCEPT !["replacement"] = Closed]
            /\ abandoned' = Dropped(link)
            /\ Ended("lost")
      [] bridge.step = "repeated" ->
            /\ Replaced(link) /\ Ended("lost")

TimeOut ==
    /\ bridge.step \in Waiting /\ links[Channel].open /\ Fault
    /\ GiveUp([links[Channel] EXCEPT !.behind = @ + 1])
    /\ UNCHANGED server

ConnectionEnds ==
    /\ bridge.step \in Waiting
    /\ ~links[Channel].open /\ links[Channel].answers = <<>>
    /\ GiveUp(links[Channel])
    /\ UNCHANGED <<faults, server>>

(* connect_from_agent_environment: a handshake with the same run, followed  *)
(* by Whoami on the new connection; a failure ends the call, and the bridge *)
(* keeps the connection it has.                                             *)
Reconnect ==
    /\ bridge.step = "reconnecting"
    /\ \/ /\ up /\ UNCHANGED <<faults, saved, told>>
          /\ links' = [links EXCEPT !["replacement"] =
                [Opened EXCEPT !.queue = <<Request(Whoami, NoCall)>>]]
          /\ bridge' = [bridge EXCEPT !.step = "authenticating"]
       \/ /\ ~up \/ faults < MaxFaults
          /\ faults' = IF up THEN faults + 1 ELSE faults
          /\ UNCHANGED links /\ Ended("lost")
    /\ UNCHANGED <<server, abandoned>>

-----------------------------------------------------------------------------
Supervisor ==
    \/ \E e \in Ends : Authenticate(e) \/ Execute(e)
    \/ \E r \in abandoned : ExecuteAbandoned(r)
    \/ Crash \/ Restart \/ SessionEnds \/ SessionStarts

Agent ==
    \/ ReplaceBridge \/ Initialize
    \/ \E o \in Operations, a \in Arguments : Call(o, a)
    \/ \E o \in Operations : Retry(o)
    \/ Receive \/ TimeOut \/ ConnectionEnds \/ Reconnect

Next == Supervisor \/ Agent

Spec == Init /\ [][Next]_vars

-----------------------------------------------------------------------------
(* Properties.                                                              *)

(* A success reported to the agent is the success of the operation it asked *)
(* about, with the arguments it passed: answers that come late, on a        *)
(* connection on which earlier requests were given up, are never mistaken.  *)
AnswersTrue ==
    /\ \A o \in Operations : told[o] = "done" => applied[o] # <<>>
    /\ \A i \in DOMAIN saved :
          saved[i].succeeded => applied[saved[i].op] = <<saved[i].args>>

(* While its bridge lives, the agent can repeat every operation of unknown  *)
(* outcome: later mutations never push it out of the bridge's memory.       *)
UncertainKept ==
    \A o \in Operations : told[o] = "uncertain" => IsSaved(o)

(* Whatever is repeated, by the bridge, by retry_mutation or by a bridge    *)
(* that replaced another, on whatever connection and after whatever crash,  *)
(* an operation identifier takes effect at most once; and none takes effect *)
(* for a session that has ended, not even one that ended between the        *)
(* authentication and the execution of the request.                         *)
AppliedOnce ==
    [][applied' # applied =>
          \E r \in abandoned \cup UNION {Remains(links[e]) : e \in Ends} :
              /\ r.op # Whoami /\ r.generation = generation /\ active
              /\ applied[r.op] = <<>> /\ Len(applied'[r.op]) = 1]_vars

-----------------------------------------------------------------------------
(* Why AnswersTrue and UncertainKept hold: their inductive invariant.       *)

(* An operation takes effect once, and an answer that says so is true of    *)
(* the operation and the arguments it names.                                *)
EffectsOnce == \A o \in Operations : Len(applied[o]) <= 1

Truthful(a) == a.kind = "ok" /\ a.op # Whoami => applied[a.op] = <<a.args>>

LinksTruthful ==
    \A e \in Ends :
        /\ ~links[e].open => links[e].queue = <<>>
        /\ \A i \in DOMAIN links[e].answers : Truthful(links[e].answers[i])

(* What the bridge remembers: each operation once, the one it calls among   *)
(* them, and as succeeded only what the agent was told.                     *)
Memory ==
    /\ \A i, j \in DOMAIN saved : saved[i].op = saved[j].op => i = j
    /\ \A i \in DOMAIN saved : saved[i].succeeded => told[saved[i].op] = "done"
    /\ bridge.step = "idle" => bridge.op = NoCall
    /\ bridge.step # "idle" =>
          \E i \in SavedAt(bridge.op) : saved[i].args = bridge.args

(* A connection on which no request was given up carries the one the bridge *)
(* waits for, as a request or as an answer, and nothing else.               *)
Only(link, o, a) ==
    link.behind = 0 =>
        /\ Len(link.queue) + Len(link.answers) <= 1
        /\ \A i \in DOMAIN link.queue :
              link.queue[i].op = o /\ link.queue[i].args = a
        /\ \A i \in DOMAIN link.answers :
              link.answers[i].op = o /\ link.answers[i].args = a

Nothing(link) ==
    link.behind = 0 => link.queue = <<>> /\ link.answers = <<>>

InStep ==
    /\ bridge.step = "sent" => Only(links["current"], bridge.op, bridge.args)
    /\ bridge.step # "sent" => Nothing(links["current"])
    /\ bridge.step = "authenticating" =>
          Only(links["replacement"], Whoami, NoCall)
    /\ bridge.step = "repeated" =>
          Only(links["replacement"], bridge.op, bridge.args)
    /\ bridge.step \notin {"authenticating", "repeated"} =>
          links["replacement"] = Closed

IInv ==
    /\ TypeOK /\ EffectsOnce /\ LinksTruthful /\ Memory /\ InStep
    /\ AnswersTrue /\ UncertainKept

-----------------------------------------------------------------------------
(* Liveness. Faults are bounded; the supervisor serves every request and is *)
(* started again by whoever needs it; the agent repeats an operation until  *)
(* it knows the outcome, as its instructions say.                           *)
Fairness ==
    /\ \A e \in Ends : WF_vars(Authenticate(e)) /\ WF_vars(Execute(e))
    /\ WF_vars(Restart) /\ WF_vars(Initialize)
    /\ WF_vars(Receive) /\ WF_vars(ConnectionEnds) /\ WF_vars(Reconnect)
    /\ \A o \in Operations : SF_vars(told[o] = "uncertain" /\ Retry(o))

FairSpec == Spec /\ Fairness

Stale == ~Current(bridge.generation)
OutOfStep == links["current"].behind > 0 /\ links["current"].open

(* An outcome does not stay unknown while the session lives, unless the     *)
(* connection the bridge kept is out of step with its responses.            *)
Resolves ==
    \A o \in Operations :
        (told[o] = "uncertain") ~> (told[o] # "uncertain" \/ Stale \/ OutOfStep)

=============================================================================

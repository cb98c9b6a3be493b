------------------------------- MODULE Delivery -------------------------------
(***************************************************************************)
(* How a foreground agent is woken.  Messages for it and lifecycle changes *)
(* of the workers are rows of the run database (state.rs).  The supervisor *)
(* records the intent to queue one notice (state/notifications.rs); the    *)
(* wrapper that holds the provider's child runs the provider's queue       *)
(* command (supervisor/notifications.rs, providers/notifications.rs); the  *)
(* agent reports the receipt, polls, handles messages and acknowledges     *)
(* them through the MCP bridge (mcp/client.rs, mcp.rs).                    *)
(*                                                                         *)
(* Every request may lose its reply after the commit, connections break,   *)
(* the supervisor crashes and restarts, the wrapper or the provider dies,  *)
(* and a foreground that ended is replaced by one of the next generation.  *)
(* What happens while no supervisor runs commutes with its crash, so that  *)
(* a crash and the restart after it are one step; the progress and inbox   *)
(* reads of one poll are one step too, for what arrives between the two    *)
(* might as well arrive after it.                                          *)
(*                                                                         *)
(* Abstractions: one run and one foreground agent; an event is external or *)
(* the agent's own; terminal session states are one, "ended"; operation    *)
(* identifiers of requests whose replay changes nothing are left out.      *)
(***************************************************************************)
EXTENDS Integers, Sequences, FiniteSets

CONSTANTS
    Deliveries,      \* operation identifiers of claimed notices
    Threads,         \* provider threads an MCP bridge may speak for
    NoThread, NoDelivery,
    ReadsProgress,   \* whether the agent's role has task:read
    MaxGenerations, MaxMessages, MaxEvents, MaxReceipts, MaxFaults, PageSize

ASSUME DeliveryAssumption ==
    /\ NoThread \notin Threads
    /\ NoDelivery \notin Deliveries
    /\ ReadsProgress \in BOOLEAN
    /\ {MaxGenerations, MaxMessages, MaxReceipts, PageSize}
          \subseteq Nat \ {0}
    /\ {MaxEvents, MaxFaults} \subseteq Nat

Generations == 1..MaxGenerations
Receipts == 1..MaxReceipts

VARIABLES
    faults,      \* crashes, lost connections and replies, stops so far
    stopping,    \* run_shutdown or a control of the session exists
    generation,  \* the agent's generation; 0 before the first launch
    session,     \* state of the session of each generation
    messages,    \* the agent's inbox: acknowledged or not, by sequence
    events,      \* the run's lifecycle events: external or the agent's own
    notes,       \* foreground_notifications, by generation
    deliveries,  \* notification_deliveries, by operation
    declined,    \* claims whose recorded answer is "no claim"
    receipts,    \* recorded answers of notification_received
    wrapper,     \* the wrapper of each generation
    provider,    \* the provider's processes and queue
    agent,       \* what the current generation of the agent knows
    handled      \* messages the agent has acted upon

vars == <<faults, stopping, generation, session, messages, events, notes,
          deliveries, declined, receipts, wrapper, provider, agent, handled>>
store == <<session, notes, deliveries, declined, receipts>>
happened == <<stopping, generation, messages, events>>
world == <<faults, happened>>

-----------------------------------------------------------------------------
(* Requests of the wrapper, knowledge of the agent.                         *)

NoRequest == [kind |-> "ask"]
ClaimRequest(d) == [kind |-> "claim", delivery |-> d]
ObserveRequest(d, o) == [kind |-> "observe", delivery |-> d, outcome |-> o]

Outcomes == {"accepted", "failed", "unknown"}
Requests == {NoRequest} \cup {ClaimRequest(d) : d \in Deliveries}
            \cup {ObserveRequest(d, o) : d \in Deliveries, o \in Outcomes}

NoNotes == [enabled |-> FALSE, thread |-> NoThread, event |-> 0, message |-> 0]
NoClaim == [session |-> 0, state |-> "none", received |-> FALSE]
NoWrapper == [stage |-> "none", connected |-> FALSE, request |-> NoRequest,
              claim |-> NoDelivery]
Newborn(checkpoint) ==
    [notice |-> NoDelivery, due |-> TRUE,
     checkpoint |-> checkpoint, seen |-> 0, through |-> 0]
FromTheStart == [progress |-> 0, inbox |-> 0]

SessionStates == {"none", "starting", "running", "unknown", "ended"}
Notes ==
    [enabled : BOOLEAN, thread : Threads \cup {NoThread},
     event : 0..MaxEvents, message : 0..MaxMessages]
Claims ==
    [session : 0..MaxGenerations, received : BOOLEAN,
     state : {"none", "attempting"} \cup Outcomes]
Wrappers ==
    [stage : {"none", "enabling", "launching", "serving", "queueing",
              "waiting", "gone"},
     connected : BOOLEAN, request : Requests,
     claim : Deliveries \cup {NoDelivery}]
Providers ==
    [process : [Generations -> {"none", "live", "dead"}],
     runs : [Deliveries -> Nat], taken : SUBSET Deliveries,
     notices : SUBSET Deliveries,
     thread : [Deliveries -> Threads \cup {NoThread}]]
Agents ==
    [notice : Deliveries \cup {NoDelivery}, due : BOOLEAN,
     checkpoint : [progress : 0..MaxEvents, inbox : 0..MaxMessages],
     seen : 0..MaxMessages, through : 0..MaxMessages]

TypeOK ==
    /\ stopping \in BOOLEAN
    /\ faults \in 0..MaxFaults
    /\ generation \in 0..MaxGenerations
    /\ session \in [Generations -> SessionStates]
    /\ messages \in Seq(BOOLEAN) /\ events \in Seq({"external", "own"})
    /\ notes \in [Generations -> Notes]
    /\ deliveries \in [Deliveries -> Claims]
    /\ declined \subseteq Deliveries
    /\ receipts \in [Deliveries -> [Receipts -> {"none", "yes", "no"}]]
    /\ wrapper \in [Generations -> Wrappers]
    /\ provider \in Providers
    /\ agent \in Agents
    /\ handled \subseteq 1..MaxMessages

Init ==
    /\ faults = 0 /\ stopping = FALSE /\ generation = 0
    /\ session = [g \in Generations |-> "none"]
    /\ messages = <<>> /\ events = <<>>
    /\ notes = [g \in Generations |-> NoNotes]
    /\ deliveries = [d \in Deliveries |-> NoClaim]
    /\ declined = {}
    /\ receipts = [d \in Deliveries |-> [k \in Receipts |-> "none"]]
    /\ wrapper = [g \in Generations |-> NoWrapper]
    /\ provider = [process |-> [g \in Generations |-> "none"],
                   runs |-> [d \in Deliveries |-> 0],
                   taken |-> {}, notices |-> {},
                   thread |-> [d \in Deliveries |-> NoThread]]
    /\ agent = Newborn(FromTheStart)
    /\ handled = {}

-----------------------------------------------------------------------------
(* The store's view of a session.                                           *)

(* session_scope_is_current: only the agent's generation counts.            *)
Current(g) == g = generation

(* notifications_live *)
Live(g) == Current(g) /\ session[g] = "running" /\ ~stopping

Highest(S, otherwise) ==
    IF S = {} THEN otherwise ELSE CHOOSE n \in S : \A m \in S : m <= n

Unacknowledged == {m \in DOMAIN messages : ~messages[m]}
External == {e \in DOMAIN events : events[e] = "external"}

EligibleMessage(g) ==
    Highest({m \in Unacknowledged : m > notes[g].message}, notes[g].message)
EligibleEvent(g) ==
    IF ReadsProgress
    THEN Highest({e \in External : e > notes[g].event}, notes[g].event)
    ELSE notes[g].event

Of(g) == {d \in Deliveries : deliveries[d].session = g}
Settled(d) == deliveries[d].state = "accepted" /\ deliveries[d].received

(* Slip: the provider's acceptance releases the next notice.                *)
PendingOnceAccepted(g) ==
    /\ Live(g)
    /\ notes[g].enabled /\ notes[g].thread # NoThread
    /\ \A d \in Of(g) : deliveries[d].state = "accepted"
    /\ \/ EligibleMessage(g) > notes[g].message
       \/ EligibleEvent(g) > notes[g].event

(* pending_notification *)
Pending(g) ==
    /\ Live(g)
    /\ notes[g].enabled /\ notes[g].thread # NoThread
    /\ \A d \in Of(g) : Settled(d)
    /\ \/ EligibleMessage(g) > notes[g].message
       \/ EligibleEvent(g) > notes[g].event

(* notification_availability answers Uncertain. An attempt nobody finishes  *)
(* joins these fifteen seconds later; only prime's readers see that.        *)
Uncertain(g) ==
    /\ Live(g) /\ notes[g].enabled /\ notes[g].thread # NoThread
    /\ \E d \in Of(g) : deliveries[d].state \in {"failed", "unknown"}

-----------------------------------------------------------------------------
Fault == faults < MaxFaults /\ faults' = faults + 1

(* What happens outside the foreground. Nothing is delivered once a stop    *)
(* began, so updates after it are left out.                                 *)

(* send_message: the next sequence of the recipient's inbox.                *)
SendMessage ==
    /\ ~stopping /\ Len(messages) < MaxMessages
    /\ messages' = Append(messages, FALSE)
    /\ UNCHANGED <<faults, stopping, generation, events, store, wrapper,
                   provider, agent, handled>>

(* append_event of a lifecycle change, by another actor or by the agent.    *)
LifecycleEvent(origin) ==
    /\ ~stopping /\ Len(events) < MaxEvents
    /\ origin = "own" => generation # 0 /\ session[generation] = "running"
    /\ events' = Append(events, origin)
    /\ UNCHANGED <<faults, stopping, generation, messages, store, wrapper,
                   provider, agent, handled>>

Stop ==
    /\ ~stopping /\ generation # 0 /\ Fault
    /\ stopping' = TRUE
    /\ UNCHANGED <<generation, messages, events, store, wrapper,
                   provider, agent, handled>>

(* The startup reconciliation never adopts a foreground process: it is lost *)
(* if it is proved absent and unknown until its wrapper reports again.      *)
Reconciled(g) ==
    IF session[g] \in {"none", "ended"} \/ ~Current(g) THEN session[g]
    ELSE IF provider.process[g] = "dead" THEN "ended" ELSE "unknown"

(* The supervisor dies; whoever connects next starts it again.              *)
CrashAndRestart ==
    /\ Fault
    /\ session' = [g \in Generations |-> Reconciled(g)]
    /\ wrapper' = [g \in Generations |-> [wrapper[g] EXCEPT !.connected = FALSE]]
    /\ UNCHANGED <<stopping, generation, messages, events, notes, deliveries,
                   declined, receipts, provider, agent, handled>>

-----------------------------------------------------------------------------
(* The wrapper launches a foreground and holds its child.                   *)

(* launch_foreground: a new session of the next generation, when no earlier *)
(* one may still be active. The new agent may keep a saved checkpoint.      *)
Launch ==
    /\ ~stopping /\ generation < MaxGenerations
    /\ generation # 0 => session[generation] = "ended"
    /\ generation' = generation + 1
    /\ session' = [session EXCEPT ![generation'] = "starting"]
    /\ wrapper' = [wrapper EXCEPT ![generation'].stage = "enabling"]
    /\ \E saved \in {FromTheStart, agent.checkpoint} : agent' = Newborn(saved)
    /\ UNCHANGED <<faults, stopping, messages, events, notes, deliveries,
                   declined, receipts, provider, handled>>

(* enable_notifications, before the provider is launched. The position in   *)
(* the inbox starts at zero, so that what an ended foreground left          *)
(* unacknowledged wakes its successor.                                      *)
Enable(g) ==
    /\ wrapper[g].stage = "enabling"
    /\ notes' = [notes EXCEPT ![g] =
          IF Current(g) /\ ~@.enabled
          THEN [@ EXCEPT !.enabled = TRUE, !.event = Len(events)] ELSE @]
    /\ wrapper' = [wrapper EXCEPT ![g].stage = "launching"]
    /\ UNCHANGED <<world, session, deliveries, declined, receipts, provider,
                   agent, handled>>

(* observe_foreground_started, from the launch or from a reconnection.      *)
Started(g) ==
    session' = [session EXCEPT ![g] =
        IF Current(g) /\ @ \in {"starting", "unknown"} THEN "running" ELSE @]

(* A start that is not acknowledged leaves the child without deliveries.    *)
StartProcess(g) ==
    /\ wrapper[g].stage = "launching"
    /\ provider' = [provider EXCEPT !.process[g] = "live"]
    /\ \/ Started(g) /\ UNCHANGED faults
          /\ wrapper' = [wrapper EXCEPT ![g].stage = "serving"]
       \/ Fault /\ UNCHANGED session
          /\ wrapper' = [wrapper EXCEPT ![g].stage = "gone"]
    /\ UNCHANGED <<happened, notes, deliveries, declined, receipts, agent,
                   handled>>

ProcessExits(g) ==
    /\ provider.process[g] = "live"
    /\ provider' = [provider EXCEPT !.process[g] = "dead"]
    /\ UNCHANGED <<world, store, wrapper, agent, handled>>

(* record_foreground_exit; the delivery loop is dropped where it stands. A  *)
(* wrapper whose loop is over still watches its child: "gone" is one whose  *)
(* loop is over as well as one that was killed, which of the two shows when *)
(* the exit is reported, or never is.                                       *)
ReportExit(g) ==
    /\ provider.process[g] = "dead"
    /\ wrapper[g].stage \in {"serving", "queueing", "waiting", "gone"}
    /\ session' = [session EXCEPT ![g] = IF Current(g) THEN "ended" ELSE @]
    /\ wrapper' = [wrapper EXCEPT ![g].stage = "gone", ![g].connected = FALSE]
    /\ UNCHANGED <<world, notes, deliveries, declined, receipts, provider,
                   agent, handled>>

(* The wrapper is killed, or its delivery loop ends with an error.          *)
WrapperEnds(g) ==
    /\ wrapper[g].stage \notin {"none", "gone"} /\ Fault
    /\ wrapper' = [wrapper EXCEPT ![g].stage = "gone", ![g].connected = FALSE]
    /\ UNCHANGED <<happened, store, provider, agent, handled>>

Disconnect(g) ==
    /\ wrapper[g].connected /\ Fault
    /\ wrapper' = [wrapper EXCEPT ![g].connected = FALSE]
    /\ UNCHANGED <<happened, store, provider, agent, handled>>

-----------------------------------------------------------------------------
(* The delivery loop of the wrapper.                                        *)

(* A request is committed by the supervisor; its reply arrives or is lost.  *)
(* After a loss the same request is sent again on the next connection.      *)
Answered(g, next) ==
    wrapper' = [wrapper EXCEPT ![g] = next] /\ UNCHANGED faults
Unanswered(g) ==
    Fault /\ wrapper' = [wrapper EXCEPT ![g].connected = FALSE]

Requesting(g, kind) ==
    /\ wrapper[g].stage = "serving" /\ wrapper[g].connected
    /\ wrapper[g].request.kind = kind

(* Only the wrapper that retains the child restores its observation.        *)
Connect(g) ==
    /\ wrapper[g].stage = "serving" /\ ~wrapper[g].connected
    /\ \/ /\ provider.process[g] = "live"
          /\ Current(g)
          /\ Started(g)
          /\ wrapper' = [wrapper EXCEPT ![g].connected = TRUE]
       \/ /\ provider.process[g] # "live"
          /\ wrapper' = [wrapper EXCEPT ![g].stage = "gone"]
          /\ UNCHANGED session
    /\ UNCHANGED <<world, notes, deliveries, declined, receipts, provider,
                   agent, handled>>

Unused(d) ==
    /\ deliveries[d].session = 0 /\ d \notin declined
    /\ \A g \in Generations :
          wrapper[g].request.kind # "ask" => wrapper[g].request.delivery # d

(* ForegroundNotificationPending: suspended, a claim under a fresh          *)
(* identifier (which one does not matter), or nothing.                      *)
Ask(g) ==
    /\ Requesting(g, "ask") /\ Current(g)
    /\ \/ /\ Uncertain(g)
          /\ Answered(g, [wrapper[g] EXCEPT !.stage = "gone", !.connected = FALSE])
       \/ /\ ~Uncertain(g) /\ Pending(g)
          /\ \E d \in Deliveries : Unused(d)
          /\ Answered(g, [wrapper[g] EXCEPT !.request =
                ClaimRequest(CHOOSE d \in Deliveries : Unused(d))])
    /\ UNCHANGED <<happened, store, provider, agent, handled>>

Claimed(g, d) ==
    /\ deliveries' = [deliveries EXCEPT ![d] =
          [session |-> g, state |-> "attempting", received |-> FALSE]]
    /\ notes' = [notes EXCEPT ![g].event = EligibleEvent(g),
                              ![g].message = EligibleMessage(g)]

(* claim_notification. The operation's first answer is recorded: a repeated *)
(* claim finds its delivery, or learns again that there was none.           *)
Granted(g, d) ==
    \/ deliveries[d].session = g
    \/ d \notin declined /\ Pending(g)

Claim(g) ==
    LET d == wrapper[g].request.delivery
    IN /\ Requesting(g, "claim") /\ Current(g)
       /\ IF Granted(g, d) /\ deliveries[d].session = 0
          THEN Claimed(g, d)
          ELSE UNCHANGED <<deliveries, notes>>
       /\ \/ /\ Unanswered(g)
             /\ declined' = IF Granted(g, d) THEN declined ELSE declined \cup {d}
          \/ /\ Granted(g, d)
             /\ Answered(g, [wrapper[g] EXCEPT !.stage = "queueing",
                                !.request = NoRequest, !.claim = d])
             /\ UNCHANGED declined
          \/ /\ ~Granted(g, d)
             /\ Answered(g, [wrapper[g] EXCEPT !.request = NoRequest])
             /\ declined' = declined \ {d}   \* never used again: made free
    /\ UNCHANGED <<happened, session, receipts, provider, agent, handled>>

(* deliver and enqueue: the notice goes to the thread bound to the session. *)
(* Once the command was spawned the provider may have taken the notice,     *)
(* whatever becomes of the command.                                         *)
Spawned(g, d, taken) ==
    provider' = [provider EXCEPT
        !.runs[d] = @ + 1, !.thread[d] = notes[g].thread,
        !.taken = IF taken THEN @ \cup {d} ELSE @,
        !.notices = IF taken THEN @ \cup {d} ELSE @]

RunQueueCommand(g) ==
    LET d == wrapper[g].claim
        observe(o) == [wrapper[g] EXCEPT !.stage = "serving",
                          !.request = ObserveRequest(d, o), !.claim = NoDelivery]
    IN /\ wrapper[g].stage = "queueing"
       /\ \/ /\ provider.process[g] = "live"
             /\ \E taken \in BOOLEAN : Spawned(g, d, taken)
             /\ Answered(g, [wrapper[g] EXCEPT !.stage = "waiting"])
          \/ /\ Answered(g, observe("failed"))
             /\ UNCHANGED provider
    /\ UNCHANGED <<happened, store, agent, handled>>

(* The exit status: success proves that the provider took the notice.       *)
AwaitQueueCommand(g) ==
    LET d == wrapper[g].claim
    IN /\ wrapper[g].stage = "waiting"
       /\ \E o \in {"unknown"} \cup
                   (IF d \in provider.taken THEN {"accepted"} ELSE {}) :
             Answered(g, [wrapper[g] EXCEPT !.stage = "serving",
                !.request = ObserveRequest(d, o), !.claim = NoDelivery])
    /\ UNCHANGED <<happened, store, provider, agent, handled>>

(* Slip: recording the outcome forgets an earlier receipt.                  *)
ObserveUnreceived(g) ==
    LET d == wrapper[g].request.delivery
        o == wrapper[g].request.outcome
    IN /\ Requesting(g, "observe") /\ Current(g)
       /\ deliveries' = [deliveries EXCEPT ![d] =
              [@ EXCEPT !.state = o, !.received = FALSE]]
       /\ \/ Unanswered(g)
          \/ Answered(g, [wrapper[g] EXCEPT !.request = NoRequest])
    /\ UNCHANGED <<happened, session, notes, declined, receipts, provider, agent,
                   handled>>

(* observe_notification; its reply tells the wrapper to stop if uncertain.  *)
Observe(g) ==
    LET d == wrapper[g].request.delivery
        o == wrapper[g].request.outcome
    IN /\ Requesting(g, "observe") /\ Current(g)
       /\ deliveries' = [deliveries EXCEPT ![d].state =
              IF @ = "attempting" THEN o ELSE @]
       /\ \/ Unanswered(g)
          \/ Answered(g, [wrapper[g] EXCEPT !.request = NoRequest])
    /\ UNCHANGED <<happened, session, notes, declined, receipts, provider, agent,
                   handled>>

-----------------------------------------------------------------------------
(* The agent of the current generation, through its MCP bridge.             *)

AgentLives == generation # 0 /\ provider.process[generation] = "live"

(* Its credential is accepted until the session ends.                       *)
Authenticated == AgentLives /\ session[generation] # "ended"

(* bind_notifications: the first thread a bridge of this provider speaks    *)
(* for, and no other, is the session's.                                     *)
BindThread(g, t) == notes[g].thread \in {NoThread, t}

Bind(t) ==
    /\ Authenticated
    /\ Live(generation) /\ notes[generation].enabled
    /\ BindThread(generation, t)
    /\ notes' = [notes EXCEPT ![generation].thread = t]
    /\ UNCHANGED <<world, session, deliveries, declined, receipts, wrapper,
                   provider, agent, handled>>

(* The provider starts a turn with a queued notice. A notice of an earlier  *)
(* session names it and is ignored.                                         *)
TakeNotice(d) ==
    /\ AgentLives /\ d \in provider.notices /\ agent.notice = NoDelivery
    /\ provider' = [provider EXCEPT !.notices = @ \ {d}]
    /\ agent' = [agent EXCEPT !.notice =
          IF deliveries[d].session = generation THEN d ELSE NoDelivery]
    /\ UNCHANGED <<world, store, wrapper, handled>>

Received(d) == deliveries[d].received

(* receive_notification accepts the receipt of an outcome not yet known.    *)
Receivable(d) ==
    /\ Live(generation) /\ deliveries[d].session = generation
    /\ deliveries[d].state \in {"attempting", "accepted"}

(* Slip: a repeated receipt moves the cursors again.                        *)
ReceiveAgain(d) ==
    IF Receivable(d)
    THEN /\ deliveries' = [deliveries EXCEPT ![d].received = TRUE]
         /\ notes' = [notes EXCEPT ![generation].event = Len(events),
                                   ![generation].message = Len(messages)]
    ELSE UNCHANGED <<deliveries, notes>>

(* The first receipt of a delivery moves both cursors to the newest rows:   *)
(* the poll that follows covers them. A repeated one moves nothing.         *)
Receive(d) ==
    IF Receivable(d) /\ ~Received(d)
    THEN /\ deliveries' = [deliveries EXCEPT ![d].received = TRUE]
         /\ notes' = [notes EXCEPT ![generation].event = Len(events),
                                   ![generation].message = Len(messages)]
    ELSE UNCHANGED <<deliveries, notes>>

(* notification_received with the k-th operation identifier. The answer is  *)
(* recorded and replayed; a refused agent may try another identifier or     *)
(* give up.                                                                 *)
ReportReceipt(k) ==
    LET d == agent.notice
        fresh == receipts[d][k] = "none"
        answer == IF ~fresh THEN receipts[d][k]
                  ELSE IF Receivable(d) THEN "yes" ELSE "no"
    IN /\ Authenticated /\ d # NoDelivery
       /\ k > 1 => receipts[d][k - 1] # "none"
       /\ IF fresh THEN Receive(d) ELSE UNCHANGED <<deliveries, notes>>
       /\ receipts' = [receipts EXCEPT ![d][k] = answer]
       /\ \/ Fault /\ UNCHANGED agent                  \* the reply is lost
          \/ /\ answer = "yes"
             /\ agent' = [agent EXCEPT !.notice = NoDelivery, !.due = TRUE]
             /\ UNCHANGED faults
          \/ /\ answer = "no"
             /\ agent' = [agent EXCEPT !.notice = NoDelivery]
             /\ UNCHANGED faults
    /\ UNCHANGED <<happened, session, declined, wrapper, provider, handled>>

(* The receipt of a delivery already received is reported again, under     *)
(* another identifier and at any later time; no poll need follow.           *)
RepeatReceipt(d) ==
    /\ Authenticated /\ deliveries[d].session = generation /\ Received(d)
    /\ Receive(d)
    /\ UNCHANGED <<world, session, declined, receipts, wrapper, provider, agent,
                   handled>>

(* The new checkpoint passes the acknowledged messages at its front only.   *)
(* inbox: every message after the cursor, acknowledged ones included.       *)
Inbox(from) == {m \in DOMAIN messages : m > from}

InboxCursor(from) ==
    Highest({m \in Inbox(from) : \A n \in Inbox(from) : n <= m => messages[n]},
            from)

(* poll reads a bounded page of progress and the whole inbox. If a part of  *)
(* it fails or its reply is lost, the agent keeps its former checkpoint.    *)
Poll ==
    LET from == agent.checkpoint.progress
        through == IF ~ReadsProgress THEN from
                   ELSE IF Len(events) - from > PageSize THEN from + PageSize
                   ELSE Len(events)
    IN /\ Authenticated
       /\ agent' = [agent EXCEPT
             !.due = ReadsProgress /\ through < Len(events),
             !.seen = Highest(Inbox(@), @),
             !.checkpoint = [progress |-> through,
                             inbox |-> InboxCursor(@.inbox)]]
       /\ UNCHANGED <<world, store, wrapper, provider, handled>>

Handle(m) ==
    /\ AgentLives /\ m <= agent.seen /\ m \notin handled
    /\ ~messages[m] /\ m > agent.checkpoint.inbox
    /\ handled' = handled \cup {m}
    /\ UNCHANGED <<world, store, wrapper, provider, agent>>

Through(ids) == Highest(ids, 0)

(* Slip: only the messages just before the selection are looked at.         *)
GaplessInside(ids) ==
    \A m \in Unacknowledged :
        m <= Through(ids) /\ (\E i \in ids : i < m) => m \in ids

(* inbox_handled resolves the identifiers it is given and refuses a gap.    *)
Gapless(ids) ==
    \A m \in Unacknowledged : m <= Through(ids) => m \in ids

InboxHandled(ids) ==
    /\ Authenticated /\ agent.through = 0
    /\ ids \subseteq handled \cap 1..agent.seen /\ ids \cap Unacknowledged # {}
    /\ Gapless(ids)
    /\ agent' = [agent EXCEPT !.through = Through(ids)]
    /\ UNCHANGED <<world, store, wrapper, provider, handled>>

(* apply_message_acknowledgement of everything through the cursor, which    *)
(* has to name a message.                                                   *)
AcknowledgeMessages(through) ==
    /\ through \in DOMAIN messages
    /\ messages' = [m \in DOMAIN messages |-> messages[m] \/ m <= through]

(* The bridge repeats the request until it is answered.                     *)
Acknowledge ==
    /\ Authenticated /\ agent.through # 0
    /\ AcknowledgeMessages(agent.through)
    /\ \/ Fault /\ UNCHANGED agent
       \/ UNCHANGED faults /\ agent' = [agent EXCEPT !.through = 0]
    /\ UNCHANGED <<stopping, generation, events, store, wrapper, provider,
                   handled>>

-----------------------------------------------------------------------------
Outside ==
    \/ SendMessage \/ \E o \in {"external", "own"} : LifecycleEvent(o)
    \/ Stop \/ CrashAndRestart

Wrapper(g) ==
    \/ Enable(g) \/ StartProcess(g) \/ ProcessExits(g) \/ ReportExit(g)
    \/ WrapperEnds(g) \/ Disconnect(g) \/ Connect(g)
    \/ Ask(g) \/ Claim(g) \/ RunQueueCommand(g) \/ AwaitQueueCommand(g)
    \/ Observe(g)

Agent ==
    \/ \E t \in Threads : Bind(t)
    \/ \E d \in Deliveries : TakeNotice(d)
    \/ \E k \in Receipts : ReportReceipt(k)
    \/ \E d \in Deliveries : RepeatReceipt(d)
    \/ Poll
    \/ \E m \in DOMAIN messages : Handle(m)
    \/ \E ids \in SUBSET DOMAIN messages : InboxHandled(ids)
    \/ Acknowledge

Next == Outside \/ Launch \/ (\E g \in Generations : Wrapper(g)) \/ Agent

Spec == Init /\ [][Next]_vars

-----------------------------------------------------------------------------
(* Properties.                                                              *)

(* A claimed notice is still on its way to the agent, or in its hands.      *)
Carried(g, d) ==
    \/ wrapper[g].claim = d
    \/ wrapper[g].request.kind # "ask" /\ wrapper[g].request.delivery = d
    \/ d \in provider.notices

OnItsWay(g) ==
    \/ agent.notice # NoDelivery
    \/ \E d \in Of(g) : ~Received(d) /\ Carried(g, d)

Suspended(g) == \E d \in Of(g) : deliveries[d].state \in {"failed", "unknown"}
TurnedAway == \E d \in Deliveries, k \in Receipts : receipts[d][k] = "no"

(* While its wrapper and provider live, an update that the cursors of       *)
(* foreground_notifications have passed was read by the agent, or the agent *)
(* owes a poll, or a notice is on its way, or delivery is suspended: claims,*)
(* coalescing, receipts in any order with outcomes, lost replies and        *)
(* restarts never leave an update that no notice and no poll will show. The *)
(* exception is a refused receipt: receipts are refused, and the refusal    *)
(* recorded, while the session is unknown after a restart.                  *)
NoUpdateLost ==
    LET g == generation
        pending == agent.due \/ OnItsWay(g) \/ Suspended(g) \/ TurnedAway
    IN AgentLives /\ wrapper[g].stage # "gone" /\ ~pending =>
          /\ \A m \in Unacknowledged :
                m <= notes[g].message => m <= agent.seen
          /\ \A e \in External : ReadsProgress =>
                (e <= notes[g].event => e <= agent.checkpoint.progress)

(* The queue command runs at most once for a delivery, for the thread its   *)
(* session is bound to, and a session has at most one notice whose receipt  *)
(* it has not reported, across lost replies, restarts and uncertain results.*)
QueuedOnce ==
    /\ \A d \in Deliveries :
          /\ provider.runs[d] <= 1
          /\ provider.runs[d] = 1 =>
                provider.thread[d] = notes[deliveries[d].session].thread
    /\ \A g \in Generations :
          Cardinality({d \in Of(g) \cap provider.taken : ~Received(d)}) <= 1

(* Only messages the agent has handled are ever acknowledged, and no saved  *)
(* checkpoint stands past a message that is not: a lost reply, a partly     *)
(* handled batch or a successor that resumes from the checkpoint skips none.*)
HandledFirst ==
    /\ \A m \in DOMAIN messages : messages[m] => m \in handled
    /\ \A m \in 1..agent.checkpoint.inbox : messages[m]

(* What the properties rest on.  Generations to come have nothing, and no   *)
(* cursor stands past the rows there are.                                   *)
Unborn ==
    \A g \in Generations : g > generation =>
        /\ session[g] = "none" /\ notes[g] = NoNotes
        /\ wrapper[g] = NoWrapper /\ provider.process[g] = "none"
        /\ Of(g) = {}

Bounds ==
    /\ Len(messages) <= MaxMessages /\ Len(events) <= MaxEvents
    /\ \A g \in Generations :
          notes[g].event <= Len(events) /\ notes[g].message <= Len(messages)
    /\ agent.checkpoint.progress <= Len(events)
    /\ agent.checkpoint.inbox <= Len(messages)
    /\ agent.seen <= Len(messages) /\ agent.through <= agent.seen

(* What the agent means to acknowledge it has handled.                      *)
HandledThrough ==
    \A m \in DOMAIN messages : m <= agent.through => m \in handled

(* A delivery is claimed for a session that has a thread, queued for that   *)
(* thread, and settled before the session gets another.                     *)
DeliveryRows ==
    \A d \in Deliveries :
        /\ deliveries[d].session = 0 =>
              deliveries[d] = NoClaim /\ provider.runs[d] = 0
        /\ deliveries[d].session # 0 =>
              deliveries[d].state # "none"
              /\ notes[deliveries[d].session].thread # NoThread
        /\ provider.runs[d] <= 1
        /\ provider.runs[d] = 0 => d \notin provider.taken
        /\ provider.runs[d] = 1 =>
              provider.thread[d] = notes[deliveries[d].session].thread
        /\ d \in provider.notices => d \in provider.taken
        /\ \A k \in Receipts : receipts[d][k] = "yes" => Received(d)

OneUnsettled ==
    \A g \in Generations : \A d, e \in Of(g) :
        Settled(d) \/ Settled(e) \/ d = e

(* Where the delivery loop stands: a request or a queue command is about    *)
(* one delivery of its own, which has not been queued before.               *)
LoopRows ==
    \A g \in Generations :
        LET w == wrapper[g]
            r == w.request
        IN /\ w.stage \in {"enabling", "launching"} =>
                 provider.process[g] = "none"
           /\ w.stage \in {"queueing", "waiting"} =>
                 /\ r = NoRequest /\ w.claim \in Of(g)
                 /\ deliveries[w.claim].state = "attempting"
                 /\ provider.runs[w.claim] =
                       IF w.stage = "queueing" THEN 0 ELSE 1
           /\ w.stage \notin {"queueing", "waiting", "gone"} =>
                 w.claim = NoDelivery
           /\ w.stage \notin {"serving", "gone"} => r = NoRequest
           /\ r.kind = "claim" =>
                 /\ deliveries[r.delivery].session \in {0, g}
                 /\ deliveries[r.delivery].state \in {"none", "attempting"}
                 /\ provider.runs[r.delivery] = 0
           /\ r.kind = "observe" =>
                 /\ r.delivery \in Of(g)
                 /\ deliveries[r.delivery].state \in {"attempting", r.outcome}
                 /\ r.outcome = "accepted" => r.delivery \in provider.taken

ClaimsApart ==
    \A g, h \in Generations :
        (/\ wrapper[g].request.kind = "claim"
         /\ wrapper[h].request.kind = "claim"
         /\ wrapper[g].request.delivery = wrapper[h].request.delivery)
            => g = h

(* The notice in the agent's hands is its own; a new agent owes a poll.     *)
AgentRows ==
    /\ agent.notice # NoDelivery =>
          generation # 0 /\ agent.notice \in Of(generation)
    /\ (generation # 0 /\ provider.process[generation] = "none") =>
          agent.due /\ agent.notice = NoDelivery

(* A claimed notice that was not received is on its way, and one that the   *)
(* provider took is queued or in the agent's hands.                         *)
NoticesCarried ==
    generation # 0 =>
        \A d \in Of(generation) :
            /\ wrapper[generation].stage # "gone" /\ ~Received(d) =>
                  \/ Carried(generation, d) \/ agent.notice = d
                  \/ deliveries[d].state \in {"failed", "unknown"}
                  \/ TurnedAway
            /\ d \in provider.taken /\ ~Received(d) =>
                  \/ d \in provider.notices \/ agent.notice = d
                  \/ TurnedAway

IInv ==
    /\ TypeOK /\ Unborn /\ Bounds
    /\ HandledFirst /\ HandledThrough
    /\ DeliveryRows /\ OneUnsettled /\ LoopRows /\ ClaimsApart /\ AgentRows
    /\ NoticesCarried /\ NoUpdateLost

(* Again and again the agent has seen every message that waits for it, as   *)
(* long as its foreground is served: unless the provider, its wrapper or    *)
(* the run ends, delivery is suspended as uncertain, or a receipt was       *)
(* refused.                                                                 *)
Unserved ==
    LET g == generation
    IN \/ g = 0 \/ ~AgentLives \/ stopping \/ wrapper[g].stage = "gone"
       \/ notes[g].thread = NoThread \/ Suspended(g) \/ TurnedAway
       \/ \A d \in Deliveries : ~Unused(d)

Awake == []<>(Unserved \/ Unacknowledged \subseteq 1..agent.seen)

-----------------------------------------------------------------------------
(* Fairness. Faults are bounded by MaxFaults, so a loop that keeps trying   *)
(* gets an answer: the wrapper's repeats every half second, and the agent   *)
(* that is given a notice reports its receipt and then polls. It does not   *)
(* poll for ever without a notice.                                          *)
Delivering(g) ==
    \/ Connect(g) \/ Ask(g) \/ Claim(g) \/ RunQueueCommand(g)
    \/ AwaitQueueCommand(g) \/ Observe(g)

Fairness ==
    /\ \A g \in Generations : WF_vars(Delivering(g))
    /\ WF_vars(\E d \in Deliveries : TakeNotice(d))
    /\ WF_vars(\E k \in Receipts : ReportReceipt(k))
    /\ WF_vars(agent.due /\ Poll)

FairSpec == Spec /\ Fairness
=============================================================================

---------------------------- MODULE Readers_proofs ----------------------------
(***************************************************************************)
(* Proofs about what keeps its readers informed: Delivery, which wakes the *)
(* foreground agent, and Streams, which the operator follows.              *)
(*                                                                         *)
(* However many notices, threads, generations, messages, events and faults *)
(* there are, a notice is queued at most once, no update is lost to an     *)
(* agent that is served, and no message is acknowledged that the agent has *)
(* not handled.  Whatever the limits of a page, no character of a          *)
(* transcript is cut, and a follower that ends has shown everything.       *)
(***************************************************************************)
EXTENDS Delivery, Streams, SequenceTheorems, FiniteSetTheorems,
        WellFoundedInduction, TLAPS

-----------------------------------------------------------------------------
(* Numbers and requests.                                                    *)

LEMMA Numbers ==
    /\ MaxGenerations \in Nat \ {0} /\ MaxMessages \in Nat \ {0}
    /\ MaxReceipts \in Nat \ {0} /\ PageSize \in Nat \ {0}
    /\ MaxEvents \in Nat /\ MaxFaults \in Nat
  BY DeliveryAssumption

Less == {p \in Nat \X Nat : p[1] < p[2]}

LEMMA LessWellFounded == IsWellFoundedOn(Less, Nat)
  BY NatLessThanWellFounded, Zenon DEF OpToRel, Less

(* A bounded set of numbers has a greatest one.                             *)
LEMMA Greatest ==
    ASSUME NEW n \in Nat, NEW S \in SUBSET (0..n), S # {}
    PROVE  \E m \in S : \A k \in S : k <= m
<1> DEFINE T == {k \in 0..n : n - k \in S}
<1>1. T \subseteq Nat /\ T # {}
  <2>1. PICK s \in S : TRUE
    OBVIOUS
  <2>2. n - s \in 0..n /\ n - (n - s) = s
    BY <2>1
  <2> QED BY <2>1, <2>2
<1>2. PICK x \in T : \A y \in T : <<y, x>> \notin Less
  BY <1>1, LessWellFounded, WFMin
<1>3. n - x \in S /\ x \in 0..n
  BY <1>2
<1>4. ASSUME NEW k \in S PROVE k <= n - x
  <2>1. k \in 0..n /\ n - k \in 0..n /\ n - (n - k) = k
    BY <1>4
  <2>2. <<n - k, x>> \notin Less
    BY <1>2, <1>4, <2>1
  <2>3. ~(n - k < x)
    BY <1>3, <2>1, <2>2 DEF Less
  <2> QED BY <1>3, <2>1, <2>3
<1> QED BY <1>3, <1>4

(* Highest is the greatest member of a bounded set.                         *)
LEMMA HighestFacts ==
    ASSUME NEW n \in Nat, NEW S \in SUBSET (0..n), NEW otherwise
    PROVE  /\ S = {} => Highest(S, otherwise) = otherwise
           /\ S # {} => /\ Highest(S, otherwise) \in S
                        /\ \A k \in S : k <= Highest(S, otherwise)
<1>1. CASE S = {}
  BY <1>1 DEF Highest
<1>2. CASE S # {}
  <2>1. \E m \in S : \A k \in S : k <= m
    BY <1>2, Greatest
  <2> QED BY <1>2, <2>1 DEF Highest
<1> QED BY <1>1, <1>2

(* The three kinds of requests a wrapper makes.                             *)
LEMMA RequestKinds ==
    /\ NoRequest \in Requests /\ NoRequest.kind = "ask"
    /\ \A d \in Deliveries :
          /\ ClaimRequest(d) \in Requests
          /\ ClaimRequest(d).kind = "claim" /\ ClaimRequest(d).delivery = d
          /\ \A o \in Outcomes :
                /\ ObserveRequest(d, o) \in Requests
                /\ ObserveRequest(d, o).kind = "observe"
                /\ ObserveRequest(d, o).delivery = d
                /\ ObserveRequest(d, o).outcome = o
    /\ \A r \in Requests :
          \/ r = NoRequest
          \/ r.kind = "claim" /\ r.delivery \in Deliveries
          \/ /\ r.kind = "observe"
             /\ r.delivery \in Deliveries /\ r.outcome \in Outcomes
<1>1. NoRequest \in Requests /\ NoRequest.kind = "ask"
  BY DEF Requests, NoRequest
<1>2. ASSUME NEW d \in Deliveries
      PROVE  /\ ClaimRequest(d) \in Requests
             /\ ClaimRequest(d).kind = "claim" /\ ClaimRequest(d).delivery = d
             /\ \A o \in Outcomes :
                   /\ ObserveRequest(d, o) \in Requests
                   /\ ObserveRequest(d, o).kind = "observe"
                   /\ ObserveRequest(d, o).delivery = d
                   /\ ObserveRequest(d, o).outcome = o
  <2>1. ClaimRequest(d) \in Requests
    BY DEF Requests
  <2>2. ClaimRequest(d).kind = "claim" /\ ClaimRequest(d).delivery = d
    BY DEF ClaimRequest
  <2>3. \A o \in Outcomes : ObserveRequest(d, o) \in Requests
    BY DEF Requests
  <2>4. \A o \in Outcomes :
           /\ ObserveRequest(d, o).kind = "observe"
           /\ ObserveRequest(d, o).delivery = d
           /\ ObserveRequest(d, o).outcome = o
    BY DEF ObserveRequest
  <2> QED BY <2>1, <2>2, <2>3, <2>4
<1>3. ASSUME NEW r \in Requests
      PROVE  \/ r = NoRequest
             \/ r.kind = "claim" /\ r.delivery \in Deliveries
             \/ /\ r.kind = "observe"
                /\ r.delivery \in Deliveries /\ r.outcome \in Outcomes
  <2>1. CASE r \in {ClaimRequest(d) : d \in Deliveries}
    BY <1>2, <2>1
  <2>2. CASE r \in {ObserveRequest(d, o) : d \in Deliveries, o \in Outcomes}
    BY <1>2, <2>2
  <2> QED BY <2>1, <2>2 DEF Requests
<1> QED BY <1>1, <1>2, <1>3

LEMMA Initially == Init => IInv
<1> SUFFICES ASSUME Init PROVE IInv
  OBVIOUS
<1> USE DEF Init, Newborn, FromTheStart, NoNotes, NoClaim, NoWrapper
<1>1. TypeOK
  <2>1. /\ faults \in 0..MaxFaults /\ generation \in 0..MaxGenerations
        /\ messages \in Seq(BOOLEAN) /\ events \in Seq({"external", "own"})
    BY Numbers
  <2>2. /\ notes \in [Generations -> Notes]
        /\ deliveries \in [Deliveries -> Claims]
    BY Numbers DEF Notes, Claims
  <2>3. wrapper \in [Generations -> Wrappers]
    BY RequestKinds DEF Wrappers
  <2>4. provider \in Providers /\ agent \in Agents
    BY Numbers DEF Providers, Agents
  <2> QED BY <2>1, <2>2, <2>3, <2>4 DEF TypeOK, SessionStates
<1>2. Unborn /\ Bounds
  BY Numbers DEF Unborn, Bounds, Generations, Of
<1>3. HandledFirst /\ HandledThrough
  BY DEF HandledFirst, HandledThrough
<1>4. DeliveryRows /\ OneUnsettled
  BY DEF DeliveryRows, OneUnsettled, Of, Generations
<1>5. LoopRows /\ ClaimsApart
  BY RequestKinds DEF LoopRows, ClaimsApart
<1>6. AgentRows /\ NoticesCarried /\ NoUpdateLost
  BY DEF AgentRows, NoticesCarried, NoUpdateLost, AgentLives
<1> QED BY <1>1, <1>2, <1>3, <1>4, <1>5, <1>6 DEF IInv

-----------------------------------------------------------------------------
(* Which step changes what.                                                 *)

LEMMA Frame ==
    ASSUME [Next]_vars
    PROVE  /\ UNCHANGED generation \/ Launch
           /\ UNCHANGED messages \/ SendMessage \/ Acknowledge
           /\ UNCHANGED events \/ \E o \in {"external", "own"} : LifecycleEvent(o)
           /\ \/ UNCHANGED notes
              \/ \E g \in Generations : Enable(g) \/ Claim(g)
              \/ \E t \in Threads : Bind(t)
              \/ \E k \in Receipts : ReportReceipt(k)
           /\ \/ UNCHANGED deliveries
              \/ \E g \in Generations : Claim(g) \/ Observe(g)
              \/ \E k \in Receipts : ReportReceipt(k)
           /\ UNCHANGED receipts \/ \E k \in Receipts : ReportReceipt(k)
           /\ \/ UNCHANGED wrapper
              \/ CrashAndRestart \/ Launch \/ \E g \in Generations : Wrapper(g)
           /\ \/ UNCHANGED provider
              \/ \E g \in Generations :
                    StartProcess(g) \/ ProcessExits(g) \/ RunQueueCommand(g)
              \/ \E d \in Deliveries : TakeNotice(d)
           /\ \/ UNCHANGED agent \/ Launch \/ Poll \/ Acknowledge
              \/ \E d \in Deliveries : TakeNotice(d)
              \/ \E k \in Receipts : ReportReceipt(k)
              \/ \E ids \in SUBSET DOMAIN messages : InboxHandled(ids)
           /\ UNCHANGED handled \/ \E m \in DOMAIN messages : Handle(m)
<1> USE DEF world, happened, store
<1>1. CASE Outside
  BY <1>1
     DEF Outside, SendMessage, LifecycleEvent, Stop, CrashAndRestart
<1>2. CASE Launch
  BY <1>2 DEF Launch
<1>3. ASSUME NEW g \in Generations, Wrapper(g)
      PROVE  /\ UNCHANGED <<happened, receipts, agent, handled>>
             /\ UNCHANGED notes \/ Enable(g) \/ Claim(g)
             /\ UNCHANGED deliveries \/ Claim(g) \/ Observe(g)
             /\ \/ UNCHANGED provider
                \/ StartProcess(g) \/ ProcessExits(g) \/ RunQueueCommand(g)
  BY <1>3
     DEF Wrapper, Enable, StartProcess, ProcessExits, ReportExit, WrapperEnds,
         Disconnect, Connect, Ask, Claim, RunQueueCommand, AwaitQueueCommand,
         Observe
<1>4. ASSUME NEW t \in Threads, Bind(t)
      PROVE  UNCHANGED <<happened, receipts, deliveries, wrapper, provider,
                         agent, handled>>
  BY <1>4 DEF Bind
<1>5. ASSUME NEW d \in Deliveries, TakeNotice(d)
      PROVE  UNCHANGED <<happened, receipts, notes, deliveries, wrapper,
                         handled>>
  BY <1>5 DEF TakeNotice
<1>6. ASSUME NEW k \in Receipts, ReportReceipt(k)
      PROVE  UNCHANGED <<happened, wrapper, provider, handled>>
  BY <1>6 DEF ReportReceipt
<1>7. ASSUME NEW d \in Deliveries, RepeatReceipt(d)
      PROVE  UNCHANGED <<happened, receipts, notes, deliveries, wrapper,
                         provider, agent, handled>>
  BY <1>7 DEF RepeatReceipt, Receive
<1>8. CASE Poll
  BY <1>8 DEF Poll
<1>9. ASSUME NEW m \in DOMAIN messages, Handle(m)
      PROVE  UNCHANGED <<happened, receipts, notes, deliveries, wrapper,
                         provider, agent>>
  BY <1>9 DEF Handle
<1>10. ASSUME NEW ids \in SUBSET DOMAIN messages, InboxHandled(ids)
       PROVE  UNCHANGED <<happened, receipts, notes, deliveries, wrapper,
                          provider, handled>>
  BY <1>10 DEF InboxHandled
<1>11. CASE Acknowledge
  BY <1>11 DEF Acknowledge
<1>12. CASE UNCHANGED vars
  BY <1>12 DEF vars
<1>13. CASE \E g \in Generations : Wrapper(g)
  BY <1>3, <1>13
<1>14. CASE Agent
  BY <1>4, <1>5, <1>6, <1>7, <1>8, <1>9, <1>10, <1>11, <1>14 DEF Agent
<1> QED BY <1>1, <1>2, <1>12, <1>13, <1>14 DEF Next

-----------------------------------------------------------------------------
(* What single steps do.                                                    *)

LEMMA RowCounts ==
    ASSUME IInv
    PROVE  /\ Len(messages) \in 0..MaxMessages /\ Len(events) \in 0..MaxEvents
           /\ DOMAIN messages = 1..Len(messages)
           /\ DOMAIN events = 1..Len(events)
  BY Numbers DEF IInv, TypeOK, Bounds

LEMMA Appending ==
    ASSUME NEW S, NEW s \in Seq(S), NEW x \in S
    PROVE  /\ Append(s, x) \in Seq(S) /\ Len(Append(s, x)) = Len(s) + 1
           /\ \A i \in 1..Len(s) : Append(s, x)[i] = s[i]
           /\ Append(s, x)[Len(s) + 1] = x
  BY AppendProperties

LEMMA Sent ==
    ASSUME IInv, SendMessage
    PROVE  /\ messages' \in Seq(BOOLEAN)
           /\ Len(messages') = Len(messages) + 1 /\ Len(messages') <= MaxMessages
           /\ \A m \in DOMAIN messages : messages'[m] = messages[m]
           /\ messages'[Len(messages) + 1] = FALSE
<1>1. /\ messages \in Seq(BOOLEAN) /\ messages' = Append(messages, FALSE)
      /\ Len(messages) < MaxMessages
  BY DEF SendMessage, IInv, TypeOK
<1>2. /\ messages' \in Seq(BOOLEAN) /\ Len(messages') = Len(messages) + 1
      /\ \A m \in 1..Len(messages) : messages'[m] = messages[m]
      /\ messages'[Len(messages) + 1] = FALSE
  <2>1. FALSE \in BOOLEAN
    OBVIOUS
  <2>2. /\ Append(messages, FALSE) \in Seq(BOOLEAN)
        /\ Len(Append(messages, FALSE)) = Len(messages) + 1
        /\ \A m \in 1..Len(messages) :
              Append(messages, FALSE)[m] = messages[m]
        /\ Append(messages, FALSE)[Len(messages) + 1] = FALSE
    <3>1. PICK x \in BOOLEAN : x = FALSE
      BY <2>1
    <3>2. /\ Append(messages, x) \in Seq(BOOLEAN)
          /\ Len(Append(messages, x)) = Len(messages) + 1
          /\ \A m \in 1..Len(messages) : Append(messages, x)[m] = messages[m]
          /\ Append(messages, x)[Len(messages) + 1] = x
      BY <1>1, Appending
    <3> QED BY <3>1, <3>2, ZenonT(60)
  <2> QED BY <1>1, <2>2, ZenonT(60)
<1> QED BY <1>1, <1>2, Numbers, RowCounts

LEMMA Acknowledged ==
    ASSUME IInv, Acknowledge
    PROVE  /\ messages' \in Seq(BOOLEAN)
           /\ Len(messages') = Len(messages)
           /\ \A m \in DOMAIN messages :
                 messages'[m] <=> messages[m] \/ m <= agent.through
<1>1. messages' = [m \in 1..Len(messages) |-> messages[m] \/ m <= agent.through]
  BY RowCounts DEF Acknowledge, AcknowledgeMessages
<1>2. Len(messages) \in Nat
  BY DEF IInv, TypeOK
<1>3. \A m \in 1..Len(messages) :
         (messages[m] \/ m <= agent.through) \in BOOLEAN
  BY ZenonT(30)
<1>4. messages' \in [1..Len(messages) -> BOOLEAN]
  BY <1>1, <1>3, ZenonT(30)
<1>5. messages' \in Seq(BOOLEAN) /\ Len(messages') = Len(messages)
  BY <1>2, <1>4
<1>6. \A m \in DOMAIN messages :
         messages'[m] <=> messages[m] \/ m <= agent.through
  BY <1>1, RowCounts, ZenonT(30)
<1> QED BY <1>5, <1>6

LEMMA Happened ==
    ASSUME IInv, NEW o \in {"external", "own"}, LifecycleEvent(o)
    PROVE  /\ events' \in Seq({"external", "own"})
           /\ Len(events') = Len(events) + 1 /\ Len(events') <= MaxEvents
           /\ \A e \in DOMAIN events : events'[e] = events[e]
  BY Numbers DEF LifecycleEvent, IInv, TypeOK

(* A claim moves the cursors forward, to rows there are.                    *)
LEMMA Eligible ==
    ASSUME IInv, NEW g \in Generations
    PROVE  /\ EligibleMessage(g) \in 0..Len(messages)
           /\ EligibleEvent(g) \in 0..Len(events)
<1>1. /\ notes[g].message \in 0..Len(messages)
      /\ notes[g].event \in 0..Len(events)
  BY RowCounts DEF IInv, TypeOK, Bounds, Notes
<1>2. /\ {m \in Unacknowledged : m > notes[g].message}
           \in SUBSET (0..Len(messages))
      /\ {e \in External : e > notes[g].event} \in SUBSET (0..Len(events))
  BY RowCounts DEF Unacknowledged, External
<1>3. Len(messages) \in Nat /\ Len(events) \in Nat
  BY RowCounts
<1>4. EligibleMessage(g) \in 0..Len(messages)
  BY <1>1, <1>2, <1>3, HighestFacts DEF EligibleMessage
<1>5. Highest({e \in External : e > notes[g].event}, notes[g].event)
         \in 0..Len(events)
  BY <1>1, <1>2, <1>3, HighestFacts
<1> QED BY <1>1, <1>4, <1>5 DEF EligibleEvent

(* A poll shows every message, and every event unless another poll is due.  *)
LEMMA Polled ==
    ASSUME IInv, Poll
    PROVE  /\ agent'.notice = agent.notice /\ agent'.through = agent.through
           /\ agent'.due \in BOOLEAN /\ agent'.seen = Len(messages)
           /\ agent'.checkpoint \in [progress : 0..Len(events),
                                     inbox : 0..Len(messages)]
           /\ ~agent'.due /\ ReadsProgress =>
                 agent'.checkpoint.progress = Len(events)
           /\ \A m \in 1..agent'.checkpoint.inbox : messages[m]
<1> DEFINE from == agent.checkpoint.progress
           through == IF ~ReadsProgress THEN from
                      ELSE IF Len(events) - from > PageSize
                           THEN from + PageSize ELSE Len(events)
<1>1. /\ agent \in Agents
      /\ from \in 0..Len(events) /\ agent.seen \in 0..Len(messages)
      /\ agent.checkpoint.inbox \in 0..Len(messages)
      /\ Len(events) \in Nat /\ Len(messages) \in Nat
  BY RowCounts DEF IInv, TypeOK, Bounds, Agents
<1>2. agent' = [agent EXCEPT
             !.due = ReadsProgress /\ through < Len(events),
             !.seen = Highest(Inbox(@), @),
             !.checkpoint = [progress |-> through,
                             inbox |-> InboxCursor(@.inbox)]]
  BY DEF Poll
<1>3. /\ through \in 0..Len(events)
      /\ ReadsProgress => (~(through < Len(events)) => through = Len(events))
  BY <1>1, Numbers, SMTT(60)
<1>4. Highest(Inbox(agent.seen), agent.seen) = Len(messages)
  <2>1. Inbox(agent.seen) = (agent.seen + 1)..Len(messages)
    BY <1>1, RowCounts DEF Inbox
  <2>2. CASE agent.seen = Len(messages)
    <3>1. Inbox(agent.seen) = {}
      BY <1>1, <2>1, <2>2
    <3> QED BY <1>1, <2>2, <3>1 DEF Highest
  <2>3. CASE agent.seen # Len(messages)
    <3>1. Len(messages) \in Inbox(agent.seen)
      BY <1>1, <2>1, <2>3
    <3>2. Inbox(agent.seen) \in SUBSET (0..Len(messages))
      BY <1>1, <2>1
    <3>3. /\ Highest(Inbox(agent.seen), agent.seen) \in Inbox(agent.seen)
          /\ Len(messages) <= Highest(Inbox(agent.seen), agent.seen)
      BY <1>1, <3>1, <3>2, HighestFacts
    <3> QED BY <1>1, <2>1, <3>3
  <2> QED BY <2>2, <2>3
<1>5. /\ InboxCursor(agent.checkpoint.inbox) \in 0..Len(messages)
      /\ \A m \in 1..InboxCursor(agent.checkpoint.inbox) : messages[m]
  <2> DEFINE old == agent.checkpoint.inbox
             S == {m \in Inbox(old) : \A n \in Inbox(old) : n <= m => messages[n]}
  <2>1. S \in SUBSET (0..Len(messages))
    BY <1>1, RowCounts DEF Inbox
  <2>2. InboxCursor(old) = Highest(S, old)
    BY DEF InboxCursor
  <2>3. \A m \in 1..old : messages[m]
    BY DEF IInv, HandledFirst
  <2>4. CASE S = {}
    <3>1. InboxCursor(old) = old
      BY <1>1, <2>1, <2>2, <2>4, HighestFacts
    <3> QED BY <1>1, <2>3, <3>1
  <2>5. CASE S # {}
    <3>1. InboxCursor(old) \in S
      <4> HIDE DEF S, old
      <4> QED BY <1>1, <2>1, <2>2, <2>5, HighestFacts
    <3>2. PICK c \in S : c = InboxCursor(old)
      BY <3>1
    <3>3. c \in 0..Len(messages) /\ c > old
      BY <2>1, <3>2 DEF Inbox
    <3>4. ASSUME NEW m \in 1..c PROVE messages[m]
      <4>1. CASE m <= old
        BY <1>1, <2>3, <3>4, <4>1
      <4>2. CASE ~(m <= old)
        <5>1. m \in Inbox(old) /\ m <= c
          BY <1>1, <3>3, <4>2, RowCounts DEF Inbox
        <5> QED BY <3>2, <5>1
      <4> QED BY <4>1, <4>2
    <3> QED BY <3>2, <3>3, <3>4
  <2> QED BY <2>4, <2>5
<1> HIDE DEF from, through
<1>6. (ReadsProgress /\ through < Len(events)) \in BOOLEAN
  BY ZenonT(30)
<1>7. /\ agent'.notice = agent.notice /\ agent'.through = agent.through
      /\ agent'.seen = Highest(Inbox(agent.seen), agent.seen)
      /\ agent'.due = (ReadsProgress /\ through < Len(events))
      /\ agent'.checkpoint =
            [progress |-> through,
             inbox |-> InboxCursor(agent.checkpoint.inbox)]
  BY <1>1, <1>2, ZenonT(30) DEF Agents
<1>8. /\ agent'.checkpoint \in [progress : 0..Len(events),
                                inbox : 0..Len(messages)]
      /\ agent'.checkpoint.progress = through
      /\ agent'.checkpoint.inbox = InboxCursor(agent.checkpoint.inbox)
  BY <1>3, <1>5, <1>7
<1>9. ~agent'.due /\ ReadsProgress => agent'.checkpoint.progress = Len(events)
  BY <1>3, <1>7, <1>8
<1>10. \A m \in 1..agent'.checkpoint.inbox : messages[m]
  BY <1>5, <1>8
<1> QED BY <1>4, <1>6, <1>7, <1>8, <1>9, <1>10

(* Claims, outcomes and receipts change one delivery each.                  *)
LEMMA Granting ==
    ASSUME IInv, NEW g \in Generations, Claim(g)
    PROVE  LET d == wrapper[g].request.delivery IN
           /\ d \in Deliveries /\ Current(g) /\ wrapper[g].stage = "serving"
           /\ wrapper[g].request.kind = "claim"
           /\ UNCHANGED <<generation, provider, receipts, agent>>
           /\ \/ UNCHANGED <<deliveries, notes>>
              \/ /\ deliveries[d].session = 0 /\ Pending(g)
                 /\ deliveries' = [deliveries EXCEPT ![d] =
                       [session |-> g, state |-> "attempting",
                        received |-> FALSE]]
                 /\ notes' = [notes EXCEPT ![g].event = EligibleEvent(g),
                                           ![g].message = EligibleMessage(g)]
           /\ \/ wrapper' = [wrapper EXCEPT ![g].connected = FALSE]
              \/ /\ deliveries'[d].session = g
                 /\ wrapper' = [wrapper EXCEPT ![g] =
                       [@ EXCEPT !.stage = "queueing", !.request = NoRequest,
                                 !.claim = d]]
              \/ /\ deliveries'[d].session # g
                 /\ wrapper' = [wrapper EXCEPT ![g] =
                       [@ EXCEPT !.request = NoRequest]]
<1> DEFINE d == wrapper[g].request.delivery
<1>1. /\ wrapper[g].stage = "serving" /\ wrapper[g].request.kind = "claim"
      /\ Current(g)
      /\ UNCHANGED <<generation, provider, receipts, agent>>
  BY DEF Claim, Requesting, happened
<1>2. wrapper[g].request \in Requests
  BY DEF IInv, TypeOK, Wrappers
<1>3. d \in Deliveries
  BY <1>1, <1>2, RequestKinds
<1>4. g # 0 /\ deliveries \in [Deliveries -> Claims]
  BY DEF Generations, IInv, TypeOK
<1>5. \/ Granted(g, d) /\ deliveries[d].session = 0 /\ Claimed(g, d)
      \/ /\ ~(Granted(g, d) /\ deliveries[d].session = 0)
         /\ UNCHANGED <<deliveries, notes>>
  BY DEF Claim
<1>6. \/ UNCHANGED <<deliveries, notes>>
      \/ /\ deliveries[d].session = 0 /\ Pending(g)
         /\ deliveries' = [deliveries EXCEPT ![d] =
               [session |-> g, state |-> "attempting", received |-> FALSE]]
         /\ notes' = [notes EXCEPT ![g].event = EligibleEvent(g),
                                   ![g].message = EligibleMessage(g)]
  BY <1>4, <1>5 DEF Granted, Claimed
<1>7. Granted(g, d) <=> deliveries'[d].session = g
  <2>1. CASE Granted(g, d) /\ deliveries[d].session = 0
    BY <1>3, <1>4, <1>5, <2>1 DEF Claimed
  <2>2. CASE Granted(g, d) /\ deliveries[d].session # 0
    <3>1. deliveries[d].session = g
      <4>1. CASE deliveries[d].session = g
        BY <4>1
      <4>2. CASE deliveries[d].session # g
        BY <1>1, <1>2, <2>2, <4>2 DEF IInv, LoopRows
      <4> QED BY <4>1, <4>2
    <3> QED BY <1>5, <2>2, <3>1
  <2>3. CASE ~Granted(g, d)
    BY <1>5, <2>3 DEF Granted
  <2> QED BY <2>1, <2>2, <2>3
<1>8. \/ wrapper' = [wrapper EXCEPT ![g].connected = FALSE]
      \/ /\ Granted(g, d)
         /\ wrapper' = [wrapper EXCEPT ![g] =
               [@ EXCEPT !.stage = "queueing", !.request = NoRequest,
                         !.claim = d]]
      \/ /\ ~Granted(g, d)
         /\ wrapper' = [wrapper EXCEPT ![g] =
               [@ EXCEPT !.request = NoRequest]]
  BY DEF Claim, Answered, Unanswered
<1> QED BY <1>1, <1>3, <1>6, <1>7, <1>8

LEMMA Observing ==
    ASSUME IInv, NEW g \in Generations, Observe(g)
    PROVE  LET d == wrapper[g].request.delivery
               o == wrapper[g].request.outcome IN
           /\ d \in Of(g) /\ o \in Outcomes
           /\ Current(g) /\ wrapper[g].stage = "serving"
           /\ wrapper[g].request.kind = "observe"
           /\ UNCHANGED <<generation, notes, provider, receipts, agent>>
           /\ deliveries' = [deliveries EXCEPT ![d].state =
                 IF @ = "attempting" THEN o ELSE @]
           /\ deliveries'[d].state = o
           /\ \/ wrapper' = [wrapper EXCEPT ![g].connected = FALSE]
              \/ wrapper' = [wrapper EXCEPT ![g] =
                    [@ EXCEPT !.request = NoRequest]]
<1> DEFINE d == wrapper[g].request.delivery
           o == wrapper[g].request.outcome
<1>1. /\ wrapper[g].stage = "serving" /\ wrapper[g].request.kind = "observe"
      /\ Current(g)
      /\ UNCHANGED <<generation, notes, provider, receipts, agent>>
      /\ deliveries' = [deliveries EXCEPT ![d].state =
            IF @ = "attempting" THEN o ELSE @]
      /\ \/ wrapper' = [wrapper EXCEPT ![g].connected = FALSE]
         \/ wrapper' = [wrapper EXCEPT ![g] = [@ EXCEPT !.request = NoRequest]]
  BY DEF Observe, Requesting, Answered, Unanswered, happened
<1>2. wrapper[g].request \in Requests
  BY DEF IInv, TypeOK, Wrappers
<1>3. d \in Deliveries /\ o \in Outcomes
  BY <1>1, <1>2, RequestKinds
<1>4. d \in Of(g) /\ deliveries[d].state \in {"attempting", o}
  BY <1>1 DEF IInv, LoopRows
<1>5. deliveries'[d].state = o
  BY <1>1, <1>3, <1>4 DEF IInv, TypeOK, Claims
<1> QED BY <1>1, <1>3, <1>4, <1>5

LEMMA Reporting ==
    ASSUME IInv, NEW k \in Receipts, ReportReceipt(k)
    PROVE  LET d == agent.notice IN
           /\ d \in Of(generation) /\ d # NoDelivery
           /\ generation # 0 /\ generation \in Generations
           /\ UNCHANGED <<generation, messages, events, provider, wrapper>>
           /\ \/ UNCHANGED <<deliveries, notes>>
              \/ /\ deliveries' = [deliveries EXCEPT ![d].received = TRUE]
                 /\ notes' = [notes EXCEPT
                       ![generation].event = Len(events),
                       ![generation].message = Len(messages)]
                 /\ ~Received(d) /\ Receivable(d)
           /\ \E answer \in {"yes", "no"} :
                 /\ receipts' = [receipts EXCEPT ![d][k] = answer]
                 /\ receipts[d][k] \in {"none", answer}
                 /\ answer = "yes" => deliveries'[d].received
                 /\ \/ UNCHANGED agent
                    \/ /\ answer = "yes"
                       /\ agent' = [agent EXCEPT !.notice = NoDelivery,
                                                 !.due = TRUE]
                    \/ /\ answer = "no"
                       /\ agent' = [agent EXCEPT !.notice = NoDelivery]
<1> DEFINE d == agent.notice
           fresh == receipts[d][k] = "none"
           answer == IF ~fresh THEN receipts[d][k]
                     ELSE IF Receivable(d) THEN "yes" ELSE "no"
<1>1. d # NoDelivery /\ d \in Of(generation) /\ generation # 0
  BY DEF ReportReceipt, IInv, AgentRows
<1>2. d \in Deliveries /\ generation \in Generations
  BY <1>1, Numbers DEF Of, Generations, IInv, TypeOK
<1>3. receipts[d][k] \in {"none", "yes", "no"}
  BY <1>2 DEF IInv, TypeOK
<1>4. answer \in {"yes", "no"} /\ receipts[d][k] \in {"none", answer}
  BY <1>3
<1>5. /\ IF fresh THEN Receive(d) ELSE UNCHANGED <<deliveries, notes>>
      /\ receipts' = [receipts EXCEPT ![d][k] = answer]
      /\ \/ UNCHANGED agent
         \/ /\ answer = "yes"
            /\ agent' = [agent EXCEPT !.notice = NoDelivery, !.due = TRUE]
         \/ /\ answer = "no"
            /\ agent' = [agent EXCEPT !.notice = NoDelivery]
      /\ UNCHANGED <<generation, messages, events, provider, wrapper>>
  BY DEF ReportReceipt, happened
<1>6. \/ UNCHANGED <<deliveries, notes>>
      \/ /\ deliveries' = [deliveries EXCEPT ![d].received = TRUE]
         /\ notes' = [notes EXCEPT ![generation].event = Len(events),
                                   ![generation].message = Len(messages)]
         /\ ~Received(d) /\ Receivable(d)
  BY <1>5 DEF Receive
<1>7. ASSUME answer = "yes" PROVE deliveries'[d].received
  <2>1. CASE ~fresh
    <3>1. Received(d)
      BY <1>2, <1>7, <2>1 DEF IInv, DeliveryRows
    <3> QED BY <1>5, <2>1, <3>1 DEF Received
  <2>2. CASE fresh
    <3>1. Receivable(d) /\ Receive(d)
      BY <1>5, <1>7, <2>2
    <3>2. CASE Received(d)
      BY <3>1, <3>2 DEF Receive, Received
    <3>3. CASE ~Received(d)
      <4>1. deliveries' = [deliveries EXCEPT ![d].received = TRUE]
        BY <3>1, <3>3 DEF Receive
      <4> QED BY <1>2, <4>1 DEF IInv, TypeOK, Claims
    <3> QED BY <3>2, <3>3
  <2> QED BY <2>1, <2>2
<1> HIDE DEF d, answer
<1> QED BY <1>1, <1>2, <1>4, <1>5, <1>6, <1>7 DEF d

-----------------------------------------------------------------------------
(* The steps of a wrapper change its own record only.                       *)

LEMMA FrameStore ==
    ASSUME [Next]_vars
    PROVE  /\ UNCHANGED faults \/ Fault
           /\ UNCHANGED stopping \/ stopping' = TRUE
           /\ \/ UNCHANGED session \/ CrashAndRestart \/ Launch
              \/ \E g \in Generations :
                    StartProcess(g) \/ ReportExit(g) \/ Connect(g)
           /\ UNCHANGED declined \/ \E g \in Generations : Claim(g)
<1> USE DEF world, happened, store
<1>1. CASE Outside
  BY <1>1
     DEF Outside, SendMessage, LifecycleEvent, Stop, CrashAndRestart
<1>2. CASE Launch
  BY <1>2 DEF Launch
<1>3. ASSUME NEW g \in Generations, Wrapper(g)
      PROVE  /\ UNCHANGED faults \/ Fault
             /\ UNCHANGED stopping
             /\ \/ UNCHANGED session
                \/ StartProcess(g) \/ ReportExit(g) \/ Connect(g)
             /\ UNCHANGED declined \/ Claim(g)
  BY <1>3
     DEF Wrapper, Enable, StartProcess, ProcessExits, ReportExit, WrapperEnds,
         Disconnect, Connect, Ask, Claim, RunQueueCommand, AwaitQueueCommand,
         Observe, Answered, Unanswered
<1>4. CASE Agent
  BY <1>4
     DEF Agent, Bind, TakeNotice, ReportReceipt, RepeatReceipt, Receive, Poll,
         Handle, InboxHandled, Acknowledge
<1>5. CASE UNCHANGED vars
  BY <1>5 DEF vars
<1>6. CASE \E g \in Generations : Wrapper(g)
  BY <1>3, <1>6
<1> QED BY <1>1, <1>2, <1>4, <1>5, <1>6 DEF Next

(* A fresh identifier is of no other request.                               *)
LEMMA Asking ==
    ASSUME IInv, NEW g \in Generations, Ask(g)
    PROVE  /\ wrapper[g].stage = "serving" /\ Current(g)
           /\ wrapper[g].request.kind = "ask"
           /\ UNCHANGED <<generation, deliveries, notes, provider, receipts,
                          agent>>
           /\ \/ wrapper' = [wrapper EXCEPT ![g].stage = "gone",
                                            ![g].connected = FALSE]
              \/ \E d \in Deliveries :
                    /\ Unused(d)
                    /\ wrapper' = [wrapper EXCEPT ![g].request =
                                      ClaimRequest(d)]
<1>1. /\ wrapper[g].stage = "serving" /\ Current(g)
      /\ wrapper[g].request.kind = "ask"
      /\ UNCHANGED <<generation, deliveries, notes, provider, receipts, agent>>
  BY DEF Ask, Requesting, happened, store
<1>2. wrapper \in [Generations -> Wrappers]
  BY DEF IInv, TypeOK
<1>3. CASE Answered(g, [wrapper[g] EXCEPT !.stage = "gone", !.connected = FALSE])
  BY <1>1, <1>2, <1>3 DEF Answered
<1>4. CASE /\ \E d \in Deliveries : Unused(d)
           /\ Answered(g, [wrapper[g] EXCEPT !.request =
                 ClaimRequest(CHOOSE d \in Deliveries : Unused(d))])
  <2>1. PICK d \in Deliveries :
           Unused(d) /\ d = (CHOOSE x \in Deliveries : Unused(x))
    BY <1>4
  <2>2. wrapper' = [wrapper EXCEPT ![g].request = ClaimRequest(d)]
    BY <1>2, <1>4, <2>1 DEF Answered
  <2> QED BY <1>1, <2>1, <2>2
<1> QED BY <1>3, <1>4 DEF Ask

LEMMA Queueing ==
    ASSUME IInv, NEW g \in Generations, RunQueueCommand(g)
    PROVE  LET d == wrapper[g].claim IN
           /\ wrapper[g].stage = "queueing" /\ d \in Of(g)
           /\ UNCHANGED <<generation, deliveries, notes, receipts, agent>>
           /\ \/ /\ \E taken \in BOOLEAN : Spawned(g, d, taken)
                 /\ wrapper' = [wrapper EXCEPT ![g].stage = "waiting"]
              \/ /\ UNCHANGED provider
                 /\ wrapper' = [wrapper EXCEPT ![g] =
                       [@ EXCEPT !.stage = "serving",
                                 !.request = ObserveRequest(d, "failed"),
                                 !.claim = NoDelivery]]
  BY DEF RunQueueCommand, Answered, happened, store, IInv, TypeOK, LoopRows

LEMMA Awaiting ==
    ASSUME IInv, NEW g \in Generations, AwaitQueueCommand(g)
    PROVE  LET d == wrapper[g].claim IN
           /\ wrapper[g].stage = "waiting" /\ d \in Of(g)
           /\ UNCHANGED <<generation, deliveries, notes, provider, receipts,
                          agent>>
           /\ \E o \in {"unknown", "accepted"} :
                 /\ o = "accepted" => d \in provider.taken
                 /\ wrapper' = [wrapper EXCEPT ![g] =
                       [@ EXCEPT !.stage = "serving",
                                 !.request = ObserveRequest(d, o),
                                 !.claim = NoDelivery]]
<1> DEFINE d == wrapper[g].claim
<1>1. /\ wrapper[g].stage = "waiting" /\ d \in Of(g)
      /\ UNCHANGED <<generation, deliveries, notes, provider, receipts, agent>>
  BY DEF AwaitQueueCommand, happened, store, IInv, LoopRows
<1>2. PICK o \in {"unknown"} \cup
                   (IF d \in provider.taken THEN {"accepted"} ELSE {}) :
         wrapper' = [wrapper EXCEPT ![g] =
             [wrapper[g] EXCEPT !.stage = "serving",
                !.request = ObserveRequest(d, o), !.claim = NoDelivery]]
  BY DEF AwaitQueueCommand, Answered
<1>3. o \in {"unknown", "accepted"} /\ (o = "accepted" => d \in provider.taken)
  BY <1>2
<1>4. wrapper' = [wrapper EXCEPT ![g] =
          [@ EXCEPT !.stage = "serving", !.request = ObserveRequest(d, o),
                    !.claim = NoDelivery]]
  BY <1>2 DEF IInv, TypeOK
<1> QED BY <1>1, <1>3, <1>4

(* What becomes of the wrapper whose step it is.                            *)
SamePlace(g, w) ==
    /\ w.stage = wrapper[g].stage /\ w.request = wrapper[g].request
    /\ w.claim = wrapper[g].claim

Leaves(g, w) ==
    /\ w.stage = "gone" /\ wrapper[g].stage # "none"
    /\ w.request = wrapper[g].request /\ w.claim = wrapper[g].claim

Advances(g, w) ==
    /\ w.request = wrapper[g].request /\ w.claim = wrapper[g].claim
    /\ \/ Enable(g) /\ wrapper[g].stage = "enabling" /\ w.stage = "launching"
       \/ /\ StartProcess(g) /\ wrapper[g].stage = "launching"
          /\ w.stage = "serving"
       \/ /\ wrapper[g].stage = "queueing" /\ w.stage = "waiting"
          /\ \E taken \in BOOLEAN : Spawned(g, wrapper[g].claim, taken)

Serves(g, w) ==
    /\ w.stage = "serving" /\ wrapper[g].stage = "serving"
    /\ w.claim = wrapper[g].claim
    /\ \/ /\ \E d \in Deliveries : Unused(d) /\ w.request = ClaimRequest(d)
          /\ wrapper[g].request.kind = "ask"
          /\ UNCHANGED <<deliveries, provider>>
       \/ /\ wrapper[g].request.kind = "claim"
          /\ deliveries'[wrapper[g].request.delivery].session # g
          /\ w.request = NoRequest
       \/ Observe(g) /\ w.request = NoRequest

Obtains(g, w) ==
    /\ wrapper[g].stage = "serving" /\ w.stage = "queueing"
    /\ wrapper[g].request.kind = "claim" /\ Claim(g)
    /\ w.request = NoRequest /\ w.claim = wrapper[g].request.delivery
    /\ deliveries'[w.claim].session = g

Concludes(g, w) ==
    /\ wrapper[g].stage \in {"queueing", "waiting"} /\ w.stage = "serving"
    /\ wrapper[g].claim \in Of(g) /\ w.claim = NoDelivery
    /\ UNCHANGED <<deliveries, provider>>
    /\ \E o \in Outcomes :
          /\ w.request = ObserveRequest(wrapper[g].claim, o)
          /\ o = "accepted" => wrapper[g].claim \in provider.taken

Moves(g, w) ==
    \/ SamePlace(g, w) \/ Leaves(g, w) \/ Advances(g, w)
    \/ Serves(g, w) \/ Obtains(g, w) \/ Concludes(g, w)

LEMMA Moving ==
    ASSUME IInv, NEW g \in Generations, Wrapper(g)
    PROVE  \E w \in Wrappers :
              wrapper' = [wrapper EXCEPT ![g] = w] /\ Moves(g, w)
<1>1. wrapper \in [Generations -> Wrappers]
  BY DEF IInv, TypeOK
<1>2. PICK w0 \in Wrappers : w0 = wrapper[g]
  BY <1>1
<1>3. \A c \in BOOLEAN :
         /\ [w0 EXCEPT !.connected = c] \in Wrappers
         /\ SamePlace(g, [w0 EXCEPT !.connected = c])
         /\ [w0 EXCEPT !.stage = "gone", !.connected = c] \in Wrappers
         /\ [w0 EXCEPT !.stage = "gone", !.connected = c].stage = "gone"
         /\ [w0 EXCEPT !.stage = "gone", !.connected = c].request = w0.request
         /\ [w0 EXCEPT !.stage = "gone", !.connected = c].claim = w0.claim
  BY <1>2, ZenonT(30) DEF Wrappers, SamePlace
<1>4. \A s \in {"launching", "serving", "waiting", "gone"} :
         /\ [w0 EXCEPT !.stage = s] \in Wrappers
         /\ [w0 EXCEPT !.stage = s].stage = s
         /\ [w0 EXCEPT !.stage = s].request = w0.request
         /\ [w0 EXCEPT !.stage = s].claim = w0.claim
  BY <1>2 DEF Wrappers
<1>5. \A r \in Requests :
         /\ [w0 EXCEPT !.request = r] \in Wrappers
         /\ [w0 EXCEPT !.request = r].stage = w0.stage
         /\ [w0 EXCEPT !.request = r].request = r
         /\ [w0 EXCEPT !.request = r].claim = w0.claim
  BY <1>2 DEF Wrappers
<1>6. CASE wrapper' = [wrapper EXCEPT ![g].connected = FALSE]
  <2>1. wrapper' = [wrapper EXCEPT ![g] = [w0 EXCEPT !.connected = FALSE]]
    BY <1>1, <1>2, <1>6
  <2> QED BY <1>3, <2>1, ZenonT(30) DEF Moves
<1>7. CASE /\ wrapper' = [wrapper EXCEPT ![g].stage = "gone",
                                         ![g].connected = FALSE]
           /\ wrapper[g].stage # "none"
  <2> DEFINE w == [w0 EXCEPT !.stage = "gone", !.connected = FALSE]
  <2>1. wrapper' = [wrapper EXCEPT ![g] = w]
    BY <1>1, <1>2, <1>7
  <2>2. w \in Wrappers /\ Leaves(g, w)
    BY <1>2, <1>3, <1>7 DEF Leaves
  <2> QED BY <2>1, <2>2 DEF Moves
<1>8. CASE Enable(g) \/ StartProcess(g)
  <2> DEFINE w(s) == [w0 EXCEPT !.stage = s]
  <2>1. \E s \in {"launching", "serving", "gone"} :
           /\ wrapper' = [wrapper EXCEPT ![g].stage = s]
           /\ \/ Enable(g) /\ s = "launching" /\ w0.stage = "enabling"
              \/ /\ StartProcess(g) /\ s \in {"serving", "gone"}
                 /\ w0.stage = "launching"
    BY <1>2, <1>8 DEF Enable, StartProcess
  <2>2. PICK s \in {"launching", "serving", "gone"} :
           /\ wrapper' = [wrapper EXCEPT ![g] = w(s)]
           /\ \/ Enable(g) /\ s = "launching" /\ w0.stage = "enabling"
              \/ /\ StartProcess(g) /\ s \in {"serving", "gone"}
                 /\ w0.stage = "launching"
    BY <1>1, <1>2, <2>1
  <2>3. /\ w(s) \in Wrappers /\ w(s).stage = s
        /\ w(s).request = w0.request /\ w(s).claim = w0.claim
    BY <1>4
  <2>4. Leaves(g, w(s)) \/ Advances(g, w(s))
    <3> HIDE DEF w
    <3> QED BY <1>2, <2>2, <2>3 DEF Leaves, Advances
  <2> QED BY <2>2, <2>3, <2>4 DEF Moves
<1>9. CASE ProcessExits(g)
  <2>1. wrapper' = [wrapper EXCEPT ![g] = w0]
    BY <1>1, <1>2, <1>9 DEF ProcessExits
  <2> QED BY <1>2, <2>1 DEF Moves, SamePlace
<1>10. CASE Connect(g)
  <2>1. CASE wrapper' = [wrapper EXCEPT ![g].connected = TRUE]
    <3>1. wrapper' = [wrapper EXCEPT ![g] = [w0 EXCEPT !.connected = TRUE]]
      BY <1>1, <1>2, <2>1
    <3> QED BY <1>3, <3>1, ZenonT(30) DEF Moves
  <2>2. CASE wrapper' = [wrapper EXCEPT ![g].stage = "gone"]
    <3> DEFINE w == [w0 EXCEPT !.stage = "gone"]
    <3>1. wrapper' = [wrapper EXCEPT ![g] = w] /\ w0.stage = "serving"
      BY <1>1, <1>2, <1>10, <2>2 DEF Connect
    <3>2. w \in Wrappers /\ Leaves(g, w)
      BY <1>2, <1>4, <3>1 DEF Leaves
    <3> QED BY <3>1, <3>2 DEF Moves
  <2> QED BY <1>10, <2>1, <2>2 DEF Connect
<1>11. ASSUME NEW d \in Deliveries, Unused(d), w0.stage = "serving",
              UNCHANGED <<deliveries, provider>>, w0.request.kind = "ask",
              wrapper' = [wrapper EXCEPT ![g].request = ClaimRequest(d)]
       PROVE  \E w \in Wrappers :
                 wrapper' = [wrapper EXCEPT ![g] = w] /\ Moves(g, w)
  <2> DEFINE w == [w0 EXCEPT !.request = ClaimRequest(d)]
  <2>1. wrapper' = [wrapper EXCEPT ![g] = w]
    BY <1>1, <1>2, <1>11
  <2>2. /\ w \in Wrappers /\ w.stage = w0.stage /\ w.claim = w0.claim
        /\ w.request = ClaimRequest(d)
    BY <1>5, RequestKinds
  <2>3. Serves(g, w)
    <3> HIDE DEF w
    <3> QED BY <1>2, <1>11, <2>2 DEF Serves
  <2> QED BY <2>1, <2>2, <2>3 DEF Moves
<1>12. CASE Ask(g)
  BY <1>2, <1>7, <1>11, <1>12, Asking
<1>13. CASE Claim(g)
  <2> DEFINE d == wrapper[g].request.delivery
  <2>1. /\ d \in Deliveries /\ w0.stage = "serving"
        /\ wrapper[g].request.kind = "claim"
    BY <1>2, <1>13, Granting
  <2>2. CASE /\ deliveries'[d].session = g
             /\ wrapper' = [wrapper EXCEPT ![g] =
                   [@ EXCEPT !.stage = "queueing", !.request = NoRequest,
                             !.claim = d]]
    <3> DEFINE w == [w0 EXCEPT !.stage = "queueing", !.request = NoRequest,
                               !.claim = d]
    <3>1. wrapper' = [wrapper EXCEPT ![g] = w]
      BY <1>1, <1>2, <2>2
    <3>2. /\ w \in Wrappers /\ w.stage = "queueing" /\ w.request = NoRequest
          /\ w.claim = d
      BY <1>2, <2>1, RequestKinds DEF Wrappers
    <3>3. Obtains(g, w)
      <4> HIDE DEF w
      <4> QED BY <1>2, <1>13, <2>1, <2>2, <3>2 DEF Obtains
    <3> QED BY <3>1, <3>2, <3>3 DEF Moves
  <2>3. CASE /\ deliveries'[d].session # g
             /\ wrapper' = [wrapper EXCEPT ![g] =
                   [@ EXCEPT !.request = NoRequest]]
    <3> DEFINE w == [w0 EXCEPT !.request = NoRequest]
    <3>1. wrapper' = [wrapper EXCEPT ![g] = w]
      BY <1>1, <1>2, <2>3
    <3>2. /\ w \in Wrappers /\ w.stage = w0.stage /\ w.request = NoRequest
          /\ w.claim = w0.claim
      BY <1>5, RequestKinds
    <3>3. Serves(g, w)
      <4> HIDE DEF w
      <4> QED BY <1>2, <2>1, <2>3, <3>2 DEF Serves
    <3> QED BY <3>1, <3>2, <3>3 DEF Moves
  <2> QED BY <1>6, <1>13, <2>2, <2>3, Granting
<1>14. CASE Observe(g)
  <2>1. CASE wrapper' = [wrapper EXCEPT ![g] = [@ EXCEPT !.request = NoRequest]]
    <3> DEFINE w == [w0 EXCEPT !.request = NoRequest]
    <3>1. wrapper' = [wrapper EXCEPT ![g] = w] /\ w0.stage = "serving"
      BY <1>1, <1>2, <1>14, <2>1, Observing
    <3>2. /\ w \in Wrappers /\ w.stage = w0.stage /\ w.request = NoRequest
          /\ w.claim = w0.claim
      BY <1>5, RequestKinds
    <3>3. Serves(g, w)
      <4> HIDE DEF w
      <4> QED BY <1>2, <1>14, <3>1, <3>2 DEF Serves
    <3> QED BY <3>1, <3>2, <3>3 DEF Moves
  <2> QED BY <1>6, <1>14, <2>1, Observing
<1>15. ASSUME NEW o \in Outcomes, w0.claim \in Of(g),
              w0.stage \in {"queueing", "waiting"},
              o = "accepted" => w0.claim \in provider.taken,
              UNCHANGED <<deliveries, provider>>,
              wrapper' = [wrapper EXCEPT ![g] =
                 [@ EXCEPT !.stage = "serving",
                           !.request = ObserveRequest(w0.claim, o),
                           !.claim = NoDelivery]]
       PROVE  \E w \in Wrappers :
                 wrapper' = [wrapper EXCEPT ![g] = w] /\ Moves(g, w)
  <2> DEFINE w == [w0 EXCEPT !.stage = "serving",
                             !.request = ObserveRequest(w0.claim, o),
                             !.claim = NoDelivery]
  <2>1. wrapper' = [wrapper EXCEPT ![g] = w]
    BY <1>1, <1>2, <1>15
  <2>2. ObserveRequest(w0.claim, o) \in Requests
    BY <1>15, RequestKinds DEF Of
  <2>3. /\ w \in Wrappers /\ w.stage = "serving" /\ w.claim = NoDelivery
        /\ w.request = ObserveRequest(w0.claim, o)
    BY <1>2, <2>2 DEF Wrappers
  <2>4. Concludes(g, w)
    <3> HIDE DEF w
    <3> QED BY <1>2, <1>15, <2>3 DEF Concludes
  <2> QED BY <2>1, <2>3, <2>4 DEF Moves
<1>16. CASE RunQueueCommand(g)
  <2> DEFINE d == wrapper[g].claim
  <2>1. CASE /\ \E taken \in BOOLEAN : Spawned(g, d, taken)
             /\ wrapper' = [wrapper EXCEPT ![g].stage = "waiting"]
    <3> DEFINE w == [w0 EXCEPT !.stage = "waiting"]
    <3>1. /\ wrapper' = [wrapper EXCEPT ![g] = w] /\ w \in Wrappers
          /\ w.stage = "waiting" /\ w.request = w0.request
          /\ w.claim = w0.claim
      BY <1>1, <1>2, <1>4, <2>1
    <3>2. w0.stage = "queueing"
      BY <1>2, <1>16, Queueing
    <3>3. Advances(g, w)
      <4> HIDE DEF w
      <4> QED BY <1>2, <2>1, <3>1, <3>2 DEF Advances
    <3> QED BY <3>1, <3>3 DEF Moves
  <2>2. CASE /\ UNCHANGED provider
             /\ wrapper' = [wrapper EXCEPT ![g] =
                   [@ EXCEPT !.stage = "serving",
                             !.request = ObserveRequest(d, "failed"),
                             !.claim = NoDelivery]]
    BY <1>2, <1>15, <1>16, <2>2, Queueing DEF Outcomes
  <2> QED BY <1>16, <2>1, <2>2, Queueing
<1>17. CASE AwaitQueueCommand(g)
  <2>1. PICK o \in {"unknown", "accepted"} :
           /\ o = "accepted" => w0.claim \in provider.taken
           /\ wrapper' = [wrapper EXCEPT ![g] =
                 [@ EXCEPT !.stage = "serving",
                           !.request = ObserveRequest(w0.claim, o),
                           !.claim = NoDelivery]]
    BY <1>2, <1>17, Awaiting
  <2>2. o \in Outcomes /\ w0.claim \in Of(g) /\ w0.stage = "waiting"
    BY <1>2, <1>17, Awaiting DEF Outcomes
  <2> QED BY <1>15, <1>17, <2>1, <2>2, Awaiting
<1>18. CASE ReportExit(g) \/ WrapperEnds(g) \/ Disconnect(g)
  <2>1. CASE Disconnect(g)
    BY <1>6, <2>1 DEF Disconnect
  <2>2. CASE ReportExit(g) \/ WrapperEnds(g)
    <3>1. /\ wrapper' = [wrapper EXCEPT ![g].stage = "gone",
                                        ![g].connected = FALSE]
          /\ wrapper[g].stage # "none"
      BY <2>2 DEF ReportExit, WrapperEnds
    <3> QED BY <1>7, <3>1
  <2> QED BY <1>18, <2>1, <2>2
<1> QED BY <1>8, <1>9, <1>10, <1>12, <1>13, <1>14, <1>16, <1>17, <1>18
        DEF Wrapper

(* A step of a wrapper is one of a generation that was born.                *)
LEMMA Born ==
    ASSUME IInv, NEW g \in Generations
    PROVE  /\ wrapper[g].stage # "none" => g <= generation
           /\ wrapper[g].request.kind # "ask" => g <= generation
           /\ provider.process[g] # "none" => g <= generation
           /\ g <= generation \/ g > generation
<1>1. g \in Nat /\ generation \in Nat /\ generation <= MaxGenerations
  BY Numbers DEF IInv, TypeOK, Generations
<1>2. NoWrapper.stage = "none" /\ NoWrapper.request.kind = "ask"
  BY DEF NoWrapper, NoRequest
<1>3. g > generation => wrapper[g] = NoWrapper /\ provider.process[g] = "none"
  BY DEF IInv, Unborn
<1> QED BY <1>1, <1>2, <1>3, Numbers DEF Generations

(* The provider's process starts or ends, it runs a queue command, or it    *)
(* hands a notice to the agent.                                             *)
ProcessStep(g) ==
    /\ StartProcess(g) \/ ProcessExits(g)
    /\ \/ /\ StartProcess(g) /\ wrapper[g].stage = "launching"
          /\ wrapper'[g].stage \in {"serving", "gone"}
          /\ provider' = [provider EXCEPT !.process[g] = "live"]
       \/ /\ provider.process[g] = "live"
          /\ provider' = [provider EXCEPT !.process[g] = "dead"]
    /\ UNCHANGED <<generation, notes, deliveries, receipts, agent>>

QueueStep(g, d) ==
    /\ wrapper[g].stage = "queueing" /\ d = wrapper[g].claim /\ d \in Of(g)
    /\ wrapper'[g].stage = "waiting"
    /\ UNCHANGED <<generation, notes, deliveries, receipts, agent>>
    /\ \E taken \in BOOLEAN : Spawned(g, d, taken)

NoticeStep(d) ==
    /\ d \in provider.notices
    /\ provider' = [provider EXCEPT !.notices = @ \ {d}]
    /\ agent.notice = NoDelivery
    /\ agent' = [agent EXCEPT !.notice =
          IF deliveries[d].session = generation THEN d ELSE NoDelivery]
    /\ UNCHANGED <<generation, notes, deliveries, receipts, wrapper>>
    /\ AgentLives

LEMMA Providing ==
    ASSUME IInv, [Next]_vars
    PROVE  \/ provider' = provider
           \/ \E g \in Generations : ProcessStep(g)
           \/ \E g \in Generations, d \in Deliveries : QueueStep(g, d)
           \/ \E d \in Deliveries : NoticeStep(d)
<1>1. ASSUME NEW g \in Generations, StartProcess(g) \/ ProcessExits(g)
      PROVE  ProcessStep(g)
  <2>1. CASE StartProcess(g)
    <3>1. /\ wrapper[g].stage = "launching"
          /\ provider' = [provider EXCEPT !.process[g] = "live"]
          /\ UNCHANGED <<generation, notes, deliveries, receipts, agent>>
          /\ \/ wrapper' = [wrapper EXCEPT ![g].stage = "serving"]
             \/ wrapper' = [wrapper EXCEPT ![g].stage = "gone"]
      BY <2>1 DEF StartProcess, happened
    <3>2. wrapper \in [Generations -> Wrappers]
      BY DEF IInv, TypeOK
    <3>3. wrapper'[g].stage \in {"serving", "gone"}
      BY <3>1, <3>2 DEF Wrappers
    <3> QED BY <2>1, <3>1, <3>3 DEF ProcessStep
  <2>2. CASE ProcessExits(g)
    BY <2>2 DEF ProcessStep, ProcessExits, world, happened, store
  <2> QED BY <1>1, <2>1, <2>2
<1>2. ASSUME NEW g \in Generations, RunQueueCommand(g)
      PROVE  provider' = provider \/ QueueStep(g, wrapper[g].claim)
  <2>1. wrapper \in [Generations -> Wrappers]
    BY DEF IInv, TypeOK
  <2>2. wrapper' = [wrapper EXCEPT ![g].stage = "waiting"] =>
           wrapper'[g].stage = "waiting"
    BY <2>1 DEF Wrappers
  <2> QED BY <1>2, <2>2, Queueing DEF QueueStep
<1>3. ASSUME NEW d \in Deliveries, TakeNotice(d)
      PROVE  NoticeStep(d)
  BY <1>3 DEF NoticeStep, TakeNotice, world, happened, store
<1>4. ASSUME NEW g \in Generations, QueueStep(g, wrapper[g].claim)
      PROVE  \E d \in Deliveries : QueueStep(g, d)
  BY <1>4 DEF QueueStep, Of
<1> QED BY <1>1, <1>2, <1>3, <1>4, Frame

(* What a queue command leaves in the provider.                             *)
LEMMA Queued ==
    ASSUME IInv, NEW g \in Generations, NEW d \in Deliveries, QueueStep(g, d)
    PROVE  /\ provider' \in Providers
           /\ provider.runs[d] = 0 /\ d \notin provider.taken
           /\ provider'.process = provider.process
           /\ provider'.runs = [provider.runs EXCEPT ![d] = 1]
           /\ provider'.thread = [provider.thread EXCEPT ![d] = notes[g].thread]
           /\ \/ UNCHANGED <<provider.taken, provider.notices>>
              \/ /\ provider'.taken = provider.taken \cup {d}
                 /\ provider'.notices = provider.notices \cup {d}
<1>1. provider \in Providers /\ notes[g] \in Notes
  BY DEF IInv, TypeOK
<1>2. provider.runs[d] = 0 /\ d \notin provider.taken
  BY DEF QueueStep, IInv, LoopRows, DeliveryRows
<1>3. PICK taken \in BOOLEAN : Spawned(g, d, taken)
  BY DEF QueueStep
<1>4. /\ provider'.process = provider.process
      /\ provider'.runs = [provider.runs EXCEPT ![d] = @ + 1]
      /\ provider'.thread = [provider.thread EXCEPT ![d] = notes[g].thread]
      /\ provider'.taken =
            IF taken THEN provider.taken \cup {d} ELSE provider.taken
      /\ provider'.notices =
            IF taken THEN provider.notices \cup {d} ELSE provider.notices
      /\ provider' = [process |-> provider'.process, runs |-> provider'.runs,
                      taken |-> provider'.taken, notices |-> provider'.notices,
                      thread |-> provider'.thread]
  BY <1>1, <1>3 DEF Spawned, Providers
<1>5. provider'.runs = [provider.runs EXCEPT ![d] = 1]
  BY <1>1, <1>2, <1>4 DEF Providers
<1>6. notes[g].thread \in Threads \cup {NoThread}
  BY <1>1 DEF Notes
<1>7. /\ provider'.process \in [Generations -> {"none", "live", "dead"}]
      /\ provider'.runs \in [Deliveries -> Nat]
      /\ provider'.taken \in SUBSET Deliveries
      /\ provider'.notices \in SUBSET Deliveries
      /\ provider'.thread \in [Deliveries -> Threads \cup {NoThread}]
  BY <1>1, <1>4, <1>5, <1>6 DEF Providers
<1> DEFINE p == provider'
<1>8. provider' \in Providers
  <2>1. p = [process |-> p.process, runs |-> p.runs, taken |-> p.taken,
             notices |-> p.notices, thread |-> p.thread]
    BY <1>4
  <2>2. /\ p.process \in [Generations -> {"none", "live", "dead"}]
        /\ p.runs \in [Deliveries -> Nat] /\ p.taken \in SUBSET Deliveries
        /\ p.notices \in SUBSET Deliveries
        /\ p.thread \in [Deliveries -> Threads \cup {NoThread}]
    BY <1>7
  <2> HIDE DEF p
  <2>3. p \in Providers
    BY <2>1, <2>2 DEF Providers
  <2> QED BY <2>3 DEF p
<1> QED BY <1>2, <1>4, <1>5, <1>8

LEMMA ProvidersTyped ==
    ASSUME IInv, [Next]_vars
    PROVE  provider' \in Providers
<1>1. provider \in Providers
  BY DEF IInv, TypeOK
<1>2. ASSUME NEW g \in Generations, ProcessStep(g)
      PROVE  provider' \in Providers
  BY <1>1, <1>2 DEF ProcessStep, Providers
<1>3. ASSUME NEW d \in Deliveries, NoticeStep(d)
      PROVE  provider' \in Providers
  BY <1>1, <1>3 DEF NoticeStep, Providers
<1> QED BY <1>1, <1>2, <1>3, Providing, Queued

(* Rows are never taken back, and stay what they are: a message may become  *)
(* acknowledged.                                                            *)
LEMMA Rows ==
    ASSUME IInv, [Next]_vars
    PROVE  /\ messages' \in Seq(BOOLEAN) /\ events' \in Seq({"external", "own"})
           /\ Len(messages) <= Len(messages') /\ Len(messages') \in 0..MaxMessages
           /\ Len(events) <= Len(events') /\ Len(events') \in 0..MaxEvents
           /\ \A m \in 1..Len(messages) : messages[m] => messages'[m]
           /\ \A e \in 1..Len(events) : events'[e] = events[e]
<1>1. /\ messages \in Seq(BOOLEAN) /\ events \in Seq({"external", "own"})
  BY DEF IInv, TypeOK
<1>2. /\ messages' \in Seq(BOOLEAN) /\ Len(messages') \in 0..MaxMessages
      /\ Len(messages) <= Len(messages')
      /\ \A m \in 1..Len(messages) : messages[m] => messages'[m]
  <2>1. CASE UNCHANGED messages
    BY <1>1, <2>1, RowCounts
  <2>2. CASE SendMessage
    <3>1. \A m \in 1..Len(messages) : messages'[m] = messages[m]
      BY <2>2, Sent, RowCounts
    <3> QED BY <2>2, <3>1, Sent, RowCounts
  <2>3. CASE Acknowledge
    <3>1. \A m \in 1..Len(messages) : messages[m] => messages'[m]
      BY <2>3, Acknowledged, RowCounts
    <3> QED BY <2>3, <3>1, Acknowledged, RowCounts
  <2> QED BY <2>1, <2>2, <2>3, Frame
<1>3. /\ events' \in Seq({"external", "own"}) /\ Len(events') \in 0..MaxEvents
      /\ Len(events) <= Len(events')
      /\ \A e \in 1..Len(events) : events'[e] = events[e]
  <2>1. CASE UNCHANGED events
    BY <1>1, <2>1, RowCounts
  <2>2. ASSUME NEW o \in {"external", "own"}, LifecycleEvent(o)
        PROVE  /\ events' \in Seq({"external", "own"})
               /\ Len(events') \in 0..MaxEvents
               /\ Len(events) <= Len(events')
               /\ \A e \in 1..Len(events) : events'[e] = events[e]
    BY <2>2, Happened, RowCounts
  <2> QED BY <2>1, <2>2, Frame
<1> QED BY <1>2, <1>3

(* How the agent's knowledge changes.                                       *)
Reborn(saved) ==
    /\ Launch /\ agent' = Newborn(saved)
    /\ saved \in {FromTheStart, agent.checkpoint}

AgentStep ==
    \/ UNCHANGED agent
    \/ \E saved \in {FromTheStart, agent.checkpoint} : Reborn(saved)
    \/ Poll
    \/ Acknowledge /\ agent' = [agent EXCEPT !.through = 0]
    \/ \E d \in Deliveries : NoticeStep(d)
    \/ /\ \E k \in Receipts : ReportReceipt(k)
       /\ \/ agent' = [agent EXCEPT !.notice = NoDelivery, !.due = TRUE]
          \/ agent' = [agent EXCEPT !.notice = NoDelivery]
    \/ \E ids \in SUBSET DOMAIN messages :
          /\ InboxHandled(ids)
          /\ agent' = [agent EXCEPT !.through = Through(ids)]

LEMMA AgentSteps ==
    ASSUME IInv, [Next]_vars
    PROVE  AgentStep
<1>1. CASE Launch
  BY <1>1 DEF AgentStep, Launch, Reborn
<1>2. CASE Acknowledge
  BY <1>2 DEF AgentStep, Acknowledge
<1>3. ASSUME NEW d \in Deliveries, TakeNotice(d)
      PROVE  AgentStep
  BY <1>3
     DEF AgentStep, NoticeStep, TakeNotice, world, happened, store
<1>4. ASSUME NEW k \in Receipts, ReportReceipt(k)
      PROVE  AgentStep
  BY <1>4 DEF AgentStep, ReportReceipt
<1>5. ASSUME NEW ids \in SUBSET DOMAIN messages, InboxHandled(ids)
      PROVE  AgentStep
  BY <1>5 DEF AgentStep, InboxHandled
<1>6. CASE Poll \/ UNCHANGED agent
  BY <1>6 DEF AgentStep
<1> QED BY <1>1, <1>2, <1>3, <1>4, <1>5, <1>6, Frame

(* What inbox_handled selects was shown to the agent and handled by it, and *)
(* so was everything before it.                                             *)
LEMMA Selected ==
    ASSUME IInv, NEW ids \in SUBSET DOMAIN messages, InboxHandled(ids)
    PROVE  /\ Through(ids) \in 1..agent.seen
           /\ \A m \in DOMAIN messages : m <= Through(ids) => m \in handled
<1>1. /\ ids \subseteq handled \cap 1..agent.seen
      /\ ids \cap Unacknowledged # {} /\ Gapless(ids)
  BY DEF InboxHandled
<1>2. agent.seen \in 0..Len(messages) /\ Len(messages) \in Nat
  BY RowCounts DEF IInv, TypeOK, Bounds, Agents
<1>3. ids # {} /\ ids \in SUBSET (0..agent.seen) /\ agent.seen \in Nat
  BY <1>1, <1>2
<1>4. Through(ids) \in ids
  BY <1>3, HighestFacts DEF Through
<1>5. ASSUME NEW m \in DOMAIN messages, m <= Through(ids)
      PROVE  m \in handled
  <2>1. CASE m \in Unacknowledged
    BY <1>1, <1>5, <2>1 DEF Gapless
  <2>2. CASE m \notin Unacknowledged
    <3>1. messages[m]
      BY <1>5, <2>2 DEF Unacknowledged
    <3> QED BY <1>5, <3>1 DEF IInv, HandledFirst
  <2> QED BY <2>1, <2>2
<1> QED BY <1>1, <1>4, <1>5

LEMMA AgentTyped ==
    ASSUME IInv, [Next]_vars
    PROVE  /\ agent' \in Agents
           /\ agent'.checkpoint.progress <= Len(events')
           /\ agent'.checkpoint.inbox <= Len(messages')
           /\ agent'.seen <= Len(messages') /\ agent'.through <= agent'.seen
<1>1. /\ agent \in Agents
      /\ agent.checkpoint.progress <= Len(events)
      /\ agent.checkpoint.inbox <= Len(messages)
      /\ agent.seen <= Len(messages) /\ agent.through <= agent.seen
  BY DEF IInv, TypeOK, Bounds
<1>2. /\ Len(messages) <= Len(messages') /\ Len(messages') \in 0..MaxMessages
      /\ Len(events) <= Len(events') /\ Len(events') \in 0..MaxEvents
      /\ Len(messages) \in 0..MaxMessages /\ Len(events) \in 0..MaxEvents
      /\ MaxMessages \in Nat /\ MaxEvents \in Nat
  BY Rows, RowCounts, Numbers
<1> DEFINE Goal == /\ agent' \in Agents
                   /\ agent'.checkpoint.progress <= Len(events')
                   /\ agent'.checkpoint.inbox <= Len(messages')
                   /\ agent'.seen <= Len(messages')
                   /\ agent'.through <= agent'.seen
<1> SUFFICES Goal
  OBVIOUS
<1>3. ASSUME NEW b, b \in Agents, b.checkpoint = agent.checkpoint,
             b.seen = agent.seen, b.through = agent.through, agent' = b
      PROVE  Goal
  <2>1. /\ agent.checkpoint.progress \in Nat /\ agent.checkpoint.inbox \in Nat
        /\ agent.seen \in Nat /\ agent.through \in Nat
    BY <1>1, <1>2 DEF Agents
  <2> QED BY <1>1, <1>2, <1>3, <2>1
<1>4. CASE UNCHANGED agent
  BY <1>1, <1>3, <1>4
<1>5. ASSUME NEW saved \in {FromTheStart, agent.checkpoint}, Reborn(saved)
      PROVE  Goal
  <2>1. saved \in [progress : 0..MaxEvents, inbox : 0..MaxMessages]
    BY <1>1, <1>2 DEF FromTheStart, Agents
  <2>2. saved.progress <= Len(events') /\ saved.inbox <= Len(messages')
    BY <1>1, <1>2, <2>1 DEF FromTheStart
  <2>3. agent' = Newborn(saved)
    BY <1>5 DEF Reborn
  <2> QED BY <1>2, <2>1, <2>2, <2>3 DEF Newborn, Agents
<1>6. CASE Poll
  <2>1. UNCHANGED <<messages, events>>
    BY <1>6 DEF Poll, world, happened
  <2>2. /\ agent'.notice = agent.notice /\ agent'.through = agent.through
        /\ agent'.due \in BOOLEAN /\ agent'.seen = Len(messages)
        /\ agent'.checkpoint \in [progress : 0..Len(events),
                                  inbox : 0..Len(messages)]
    BY <1>6, Polled
  <2>3. agent' = [notice |-> agent'.notice, due |-> agent'.due,
                  checkpoint |-> agent'.checkpoint, seen |-> agent'.seen,
                  through |-> agent'.through]
    BY <1>1, <1>6 DEF Poll, Agents
  <2>4. agent'.checkpoint \in [progress : 0..MaxEvents, inbox : 0..MaxMessages]
    BY <1>2, <2>2
  <2>5. /\ agent'.checkpoint.progress <= Len(events)
        /\ agent'.checkpoint.inbox <= Len(messages)
    BY <2>2
  <2>6. agent.notice \in Deliveries \cup {NoDelivery}
        /\ agent.through \in 0..MaxMessages /\ Len(messages) \in 0..MaxMessages
        /\ agent.through <= Len(messages)
    BY <1>1, <1>2 DEF Agents
  <2>7. PICK n \in Deliveries \cup {NoDelivery}, u \in BOOLEAN,
             c \in [progress : 0..MaxEvents, inbox : 0..MaxMessages],
             s \in 0..MaxMessages, t \in 0..MaxMessages :
           agent' = [notice |-> n, due |-> u, checkpoint |-> c, seen |-> s,
                     through |-> t]
    BY <2>2, <2>3, <2>4, <2>6
  <2>8. agent' \in Agents
    BY <2>7 DEF Agents
  <2> QED BY <2>1, <2>2, <2>5, <2>6, <2>8
<1>7. CASE agent' = [agent EXCEPT !.through = 0]
  <2>1. agent.seen >= 0 /\ agent.checkpoint.progress \in Nat
        /\ agent.checkpoint.inbox \in Nat /\ agent.seen \in Nat
    BY <1>1, <1>2 DEF Agents
  <2>2. agent' \in Agents /\ agent'.through = 0 /\ agent'.seen = agent.seen
        /\ agent'.checkpoint = agent.checkpoint
    BY <1>1, <1>2, <1>7 DEF Agents
  <2> QED BY <1>1, <1>2, <2>1, <2>2
<1>8. ASSUME NEW d \in Deliveries, NoticeStep(d)
      PROVE  Goal
  <2> DEFINE b == [agent EXCEPT !.notice =
                      IF deliveries[d].session = generation
                      THEN d ELSE NoDelivery]
  <2>1. /\ b \in Agents /\ b.checkpoint = agent.checkpoint
        /\ b.seen = agent.seen /\ b.through = agent.through
    BY <1>1 DEF Agents
  <2>2. agent' = b
    BY <1>8 DEF NoticeStep
  <2> HIDE DEF b
  <2> QED BY <1>3, <2>1, <2>2
<1>9. CASE \/ agent' = [agent EXCEPT !.notice = NoDelivery, !.due = TRUE]
           \/ agent' = [agent EXCEPT !.notice = NoDelivery]
  <2>1. \A b : (\/ b = [agent EXCEPT !.notice = NoDelivery, !.due = TRUE]
                \/ b = [agent EXCEPT !.notice = NoDelivery])
               => /\ b \in Agents /\ b.checkpoint = agent.checkpoint
                  /\ b.seen = agent.seen /\ b.through = agent.through
    BY <1>1 DEF Agents
  <2> QED BY <1>3, <1>9, <2>1
<1>10. ASSUME NEW ids \in SUBSET DOMAIN messages, InboxHandled(ids),
              agent' = [agent EXCEPT !.through = Through(ids)]
       PROVE  Goal
  <2>1. Through(ids) \in 1..agent.seen
    BY <1>10, Selected
  <2>2. agent.seen \in Nat /\ agent.checkpoint.progress \in Nat
        /\ agent.checkpoint.inbox \in Nat /\ agent.seen <= MaxMessages
    BY <1>1, <1>2 DEF Agents
  <2>3. Through(ids) \in 0..MaxMessages
    BY <1>2, <2>1, <2>2
  <2>4. agent' \in Agents /\ agent'.through = Through(ids)
        /\ agent'.seen = agent.seen /\ agent'.checkpoint = agent.checkpoint
    BY <1>1, <1>10, <2>3 DEF Agents
  <2> QED BY <1>1, <1>2, <2>1, <2>2, <2>4
<1> HIDE DEF Goal
<1>11. CASE \E ids \in SUBSET DOMAIN messages :
               /\ InboxHandled(ids)
               /\ agent' = [agent EXCEPT !.through = Through(ids)]
  BY <1>10, <1>11
<1>12. CASE \/ \E saved \in {FromTheStart, agent.checkpoint} : Reborn(saved)
            \/ \E d \in Deliveries : NoticeStep(d)
  BY <1>5, <1>8, <1>12
<1> QED BY <1>4, <1>6, <1>7, <1>9, <1>11, <1>12, AgentSteps DEF AgentStep

LEMMA SessionsTyped ==
    ASSUME IInv, [Next]_vars
    PROVE  /\ session' \in [Generations -> SessionStates]
           /\ generation' \in 0..MaxGenerations /\ generation <= generation'
           /\ \A g \in Generations :
                 g > generation' => g > generation /\ session'[g] = "none"
<1>1. /\ session \in [Generations -> SessionStates]
      /\ generation \in 0..MaxGenerations /\ generation \in Nat
      /\ \A g \in Generations : g > generation => session[g] = "none"
  BY Numbers DEF IInv, TypeOK, Unborn
<1>2. \/ UNCHANGED generation
      \/ generation < MaxGenerations /\ generation' = generation + 1
  BY Frame DEF Launch
<1>3. generation' \in 0..MaxGenerations /\ generation <= generation'
  BY <1>1, <1>2, Numbers
<1>4. \A g \in Generations : g > generation' => g > generation
  BY <1>1, <1>2, Numbers DEF Generations
<1>5. CASE CrashAndRestart
  <2>1. session' = [g \in Generations |-> Reconciled(g)]
    BY <1>5 DEF CrashAndRestart
  <2>2. \A g \in Generations :
           /\ Reconciled(g) \in SessionStates
           /\ session[g] = "none" => Reconciled(g) = "none"
    BY <1>1 DEF Reconciled, SessionStates
  <2> QED BY <1>1, <1>3, <1>4, <2>1, <2>2
<1>6. CASE Launch
  <2>1. session' = [session EXCEPT ![generation'] = "starting"]
    BY <1>6 DEF Launch
  <2>2. session' \in [Generations -> SessionStates]
    BY <1>1, <2>1 DEF SessionStates
  <2>3. \A g \in Generations : g > generation' => session'[g] = session[g]
    BY <1>1, <1>3, <2>1 DEF Generations
  <2> QED BY <1>1, <1>3, <1>4, <2>2, <2>3
<1>7. ASSUME NEW g \in Generations,
             StartProcess(g) \/ ReportExit(g) \/ Connect(g)
      PROVE  /\ session' \in [Generations -> SessionStates]
             /\ \A h \in Generations :
                   h > generation => session'[h] = session[h]
  <2>1. wrapper[g].stage # "none"
    BY <1>7 DEF StartProcess, ReportExit, Connect
  <2>2. g <= generation
    BY <2>1, Born
  <2>3. \/ UNCHANGED session
        \/ \E s \in {"running", "ended"} : session' = [session EXCEPT ![g] = s]
    BY <1>1, <1>7 DEF StartProcess, ReportExit, Connect, Started
  <2>4. session' \in [Generations -> SessionStates]
    BY <1>1, <2>3 DEF SessionStates
  <2>5. \A h \in Generations : h > generation => h # g
    BY <1>1, <2>2 DEF Generations
  <2> QED BY <1>1, <2>3, <2>4, <2>5
<1> QED BY <1>1, <1>3, <1>4, <1>5, <1>6, <1>7, FrameStore

(* A step changes one wrapper's record, except that a crash disconnects     *)
(* all of them; a launch gives a new generation its wrapper.                *)
Unmoved(g) ==
    /\ wrapper'[g].stage = wrapper[g].stage
    /\ wrapper'[g].request = wrapper[g].request
    /\ wrapper'[g].claim = wrapper[g].claim

LEMMA Wrapping ==
    ASSUME IInv, [Next]_vars
    PROVE  /\ wrapper' \in [Generations -> Wrappers]
           /\ \/ /\ \A g \in Generations : Unmoved(g)
                 /\ \/ CrashAndRestart \/ UNCHANGED wrapper
              \/ /\ Launch /\ generation' \in Generations
                 /\ \A g \in Generations : g # generation' => Unmoved(g)
                 /\ wrapper'[generation'] = [NoWrapper EXCEPT !.stage = "enabling"]
              \/ \E g \in Generations :
                    /\ Wrapper(g) /\ Moves(g, wrapper'[g])
                    /\ \A h \in Generations : h # g => Unmoved(h)
<1>1. wrapper \in [Generations -> Wrappers]
  BY DEF IInv, TypeOK
<1>2. CASE UNCHANGED wrapper
  BY <1>1, <1>2 DEF Unmoved
<1>3. CASE CrashAndRestart
  <2>1. \A w \in Wrappers :
           /\ [w EXCEPT !.connected = FALSE] \in Wrappers
           /\ [w EXCEPT !.connected = FALSE].stage = w.stage
           /\ [w EXCEPT !.connected = FALSE].request = w.request
           /\ [w EXCEPT !.connected = FALSE].claim = w.claim
    BY DEF Wrappers
  <2>2. wrapper' = [g \in Generations |->
                       [wrapper[g] EXCEPT !.connected = FALSE]]
    BY <1>3 DEF CrashAndRestart
  <2>3. \A g \in Generations : wrapper[g] \in Wrappers
    BY <1>1
  <2>4. \A g \in Generations : wrapper'[g] \in Wrappers /\ Unmoved(g)
    BY <2>1, <2>2, <2>3 DEF Unmoved
  <2> QED BY <1>3, <2>2, <2>4
<1>4. CASE Launch
  <2>1. /\ generation' = generation + 1 /\ generation < MaxGenerations
        /\ wrapper' = [wrapper EXCEPT ![generation'].stage = "enabling"]
    BY <1>4 DEF Launch
  <2>2. generation \in Nat /\ MaxGenerations \in Nat
    BY Numbers DEF IInv, TypeOK
  <2>3. generation' \in Generations /\ generation' > generation
    BY <2>1, <2>2 DEF Generations
  <2>4. wrapper[generation'] = NoWrapper
    <3>1. \A g \in Generations : g > generation => wrapper[g] = NoWrapper
      BY DEF IInv, Unborn
    <3> QED BY <2>3, <3>1
  <2>5. [NoWrapper EXCEPT !.stage = "enabling"] \in Wrappers
    BY RequestKinds DEF NoWrapper, Wrappers
  <2>6. /\ wrapper'[generation'] = [NoWrapper EXCEPT !.stage = "enabling"]
        /\ \A g \in Generations :
              g # generation' => wrapper'[g] = wrapper[g]
        /\ wrapper' = [wrapper EXCEPT ![generation'] =
                          [NoWrapper EXCEPT !.stage = "enabling"]]
    BY <1>1, <2>1, <2>3, <2>4
  <2>7. wrapper' \in [Generations -> Wrappers]
    BY <1>1, <2>3, <2>5, <2>6
  <2> QED BY <1>4, <2>3, <2>6, <2>7 DEF Unmoved
<1>5. ASSUME NEW g \in Generations, Wrapper(g)
      PROVE  /\ wrapper' \in [Generations -> Wrappers]
             /\ Moves(g, wrapper'[g])
             /\ \A h \in Generations : h # g => Unmoved(h)
  <2>1. PICK w \in Wrappers :
           wrapper' = [wrapper EXCEPT ![g] = w] /\ Moves(g, w)
    BY <1>5, Moving
  <2>2. /\ wrapper'[g] = w /\ wrapper' \in [Generations -> Wrappers]
        /\ \A h \in Generations : h # g => wrapper'[h] = wrapper[h]
    BY <1>1, <2>1
  <2> QED BY <2>1, <2>2 DEF Unmoved
<1> QED BY <1>2, <1>3, <1>4, <1>5, Frame

(* The cursors and the thread of a session.                                 *)
EnableStep(g) ==
    /\ Enable(g) /\ wrapper[g].stage = "enabling"
    /\ notes' = [notes EXCEPT ![g] =
          [@ EXCEPT !.enabled = TRUE, !.event = Len(events)]]
BindStep(t) ==
    /\ AgentLives /\ BindThread(generation, t) /\ t # NoThread
    /\ notes' = [notes EXCEPT ![generation].thread = t]
    /\ UNCHANGED <<generation, deliveries, receipts, wrapper, provider, agent>>
GrantStep(g, d) ==
    /\ Claim(g) /\ deliveries[d].session = 0 /\ Pending(g) /\ Current(g)
    /\ d = wrapper[g].request.delivery /\ wrapper[g].stage = "serving"
    /\ wrapper[g].request.kind = "claim"
    /\ deliveries' = [deliveries EXCEPT ![d] =
          [session |-> g, state |-> "attempting", received |-> FALSE]]
    /\ notes' = [notes EXCEPT ![g].event = EligibleEvent(g),
                              ![g].message = EligibleMessage(g)]
ReceiptStep(d) ==
    /\ \E k \in Receipts : ReportReceipt(k)
    /\ d \in Of(generation) /\ d = agent.notice
    /\ deliveries' = [deliveries EXCEPT ![d].received = TRUE]
    /\ notes' = [notes EXCEPT ![generation].event = Len(events),
                              ![generation].message = Len(messages)]
    /\ ~Received(d) /\ Receivable(d)
    /\ UNCHANGED <<generation, messages, events, provider, wrapper>>

LEMMA NotesStep ==
    ASSUME IInv, [Next]_vars
    PROVE  \/ UNCHANGED notes
           \/ \E g \in Generations : EnableStep(g)
           \/ \E t \in Threads : generation \in Generations /\ BindStep(t)
           \/ \E g \in Generations, d \in Deliveries : GrantStep(g, d)
           \/ /\ \E k \in Receipts : ReportReceipt(k)
              /\ generation \in Generations
              /\ \E d \in Deliveries : ReceiptStep(d)
<1>1. notes \in [Generations -> Notes]
  BY DEF IInv, TypeOK
<1>2. ASSUME NEW g \in Generations, Enable(g)
      PROVE  UNCHANGED notes \/ EnableStep(g)
  BY <1>1, <1>2 DEF Enable, EnableStep
<1>3. ASSUME NEW t \in Threads, Bind(t)
      PROVE  generation \in Generations /\ BindStep(t)
  <2>1. AgentLives
    BY <1>3 DEF Bind, Authenticated
  <2>2. generation \in Generations
    BY <2>1, Numbers DEF AgentLives, IInv, TypeOK, Generations
  <2> QED BY <1>3, <2>1, <2>2, DeliveryAssumption
          DEF Bind, BindStep, world, happened
<1>4. ASSUME NEW g \in Generations, Claim(g)
      PROVE  UNCHANGED notes \/ GrantStep(g, wrapper[g].request.delivery)
  BY <1>4, Granting DEF GrantStep
<1>5. ASSUME NEW k \in Receipts, ReportReceipt(k)
      PROVE  /\ generation \in Generations
             /\ UNCHANGED notes \/ ReceiptStep(agent.notice)
  BY <1>5, Reporting DEF ReceiptStep
<1>6. ASSUME NEW g \in Generations, Claim(g)
      PROVE  wrapper[g].request.delivery \in Deliveries
  BY <1>6, Granting
<1>7. ASSUME ReceiptStep(agent.notice) PROVE agent.notice \in Deliveries
  BY <1>7 DEF ReceiptStep, Of
<1> QED BY <1>2, <1>3, <1>4, <1>5, <1>6, <1>7, Frame

OutcomeStep(g, d) ==
    /\ Observe(g) /\ d = wrapper[g].request.delivery /\ d \in Of(g)
    /\ Current(g)
    /\ wrapper[g].request.kind = "observe"
    /\ \E o \in Outcomes :
          /\ o = wrapper[g].request.outcome
          /\ deliveries[d].state \in {"attempting", o}
          /\ deliveries' = [deliveries EXCEPT ![d].state = o]
    /\ UNCHANGED <<generation, notes, provider, receipts, agent>>

LEMMA DeliveriesStep ==
    ASSUME IInv, [Next]_vars
    PROVE  \/ UNCHANGED deliveries
           \/ \E g \in Generations, d \in Deliveries : GrantStep(g, d)
           \/ /\ \E k \in Receipts : ReportReceipt(k)
              /\ generation \in Generations
              /\ \E d \in Deliveries : ReceiptStep(d)
           \/ \E g \in Generations, d \in Deliveries : OutcomeStep(g, d)
<1>1. ASSUME NEW g \in Generations, Claim(g)
      PROVE  \/ UNCHANGED deliveries
             \/ \E d \in Deliveries : GrantStep(g, d)
  BY <1>1, Granting DEF GrantStep
<1>2. ASSUME NEW k \in Receipts, ReportReceipt(k)
      PROVE  \/ UNCHANGED deliveries
             \/ /\ generation \in Generations
                /\ \E d \in Deliveries : ReceiptStep(d)
  BY <1>2, Reporting DEF ReceiptStep, Of
<1>3. ASSUME NEW g \in Generations, Observe(g)
      PROVE  \E d \in Deliveries : OutcomeStep(g, d)
  <2> DEFINE d == wrapper[g].request.delivery
             o == wrapper[g].request.outcome
  <2>1. /\ d \in Of(g) /\ o \in Outcomes /\ Current(g)
        /\ wrapper[g].request.kind = "observe"
        /\ UNCHANGED <<generation, notes, provider, receipts, agent>>
        /\ deliveries' = [deliveries EXCEPT ![d].state =
              IF @ = "attempting" THEN o ELSE @]
    BY <1>3, Observing
  <2>2. deliveries[d].state \in {"attempting", o}
    BY <2>1 DEF IInv, LoopRows
  <2>3. deliveries \in [Deliveries -> Claims] /\ d \in Deliveries
    BY <2>1 DEF IInv, TypeOK, Of
  <2>4. (IF deliveries[d].state = "attempting" THEN o
         ELSE deliveries[d].state) = o
    BY <2>2
  <2>5. deliveries' = [deliveries EXCEPT ![d].state = o]
    BY <2>1, <2>3, <2>4 DEF Claims
  <2> HIDE DEF d, o
  <2>6. OutcomeStep(g, d)
    BY <1>3, <2>1, <2>2, <2>5 DEF OutcomeStep, d, o
  <2> QED BY <2>3, <2>6
<1> QED BY <1>1, <1>2, <1>3, Frame

LEMMA RowsTyped ==
    ASSUME IInv, [Next]_vars
    PROVE  /\ notes' \in [Generations -> Notes]
           /\ deliveries' \in [Deliveries -> Claims]
           /\ receipts' \in [Deliveries -> [Receipts -> {"none", "yes", "no"}]]
<1>1. /\ notes \in [Generations -> Notes]
      /\ deliveries \in [Deliveries -> Claims]
      /\ receipts \in [Deliveries -> [Receipts -> {"none", "yes", "no"}]]
  BY DEF IInv, TypeOK
<1>2. /\ Len(messages) \in 0..MaxMessages /\ Len(events) \in 0..MaxEvents
      /\ MaxMessages \in Nat /\ MaxEvents \in Nat /\ MaxGenerations \in Nat
  BY RowCounts, Numbers
<1>3. notes' \in [Generations -> Notes]
  <2>1. ASSUME NEW g \in Generations, NEW x \in 0..MaxEvents,
               NEW y \in 0..MaxMessages,
               notes' = [notes EXCEPT ![g].event = x, ![g].message = y]
        PROVE  notes' \in [Generations -> Notes]
    BY <1>1, <2>1 DEF Notes
  <2>2. ASSUME NEW g \in Generations, EnableStep(g)
        PROVE  notes' \in [Generations -> Notes]
    BY <1>1, <1>2, <2>2 DEF EnableStep, Notes
  <2>3. ASSUME NEW t \in Threads, generation \in Generations, BindStep(t)
        PROVE  notes' \in [Generations -> Notes]
    BY <1>1, <2>3 DEF BindStep, Notes
  <2>4. ASSUME NEW g \in Generations, NEW d \in Deliveries, GrantStep(g, d)
        PROVE  notes' \in [Generations -> Notes]
    <3>1. EligibleEvent(g) \in 0..MaxEvents
          /\ EligibleMessage(g) \in 0..MaxMessages
      BY <1>2, Eligible
    <3> QED BY <2>1, <2>4, <3>1 DEF GrantStep
  <2>5. ASSUME NEW d \in Deliveries, generation \in Generations, ReceiptStep(d)
        PROVE  notes' \in [Generations -> Notes]
    BY <1>2, <2>1, <2>5 DEF ReceiptStep
  <2> QED BY <1>1, <2>2, <2>3, <2>4, <2>5, NotesStep
<1>4. deliveries' \in [Deliveries -> Claims]
  <2>1. ASSUME NEW g \in Generations, NEW d \in Deliveries, GrantStep(g, d)
        PROVE  deliveries' \in [Deliveries -> Claims]
    BY <1>1, <1>2, <2>1 DEF GrantStep, Claims, Generations
  <2>2. ASSUME NEW d \in Deliveries, ReceiptStep(d)
        PROVE  deliveries' \in [Deliveries -> Claims]
    BY <1>1, <2>2 DEF ReceiptStep, Claims
  <2>3. ASSUME NEW g \in Generations, NEW d \in Deliveries, OutcomeStep(g, d)
        PROVE  deliveries' \in [Deliveries -> Claims]
    BY <1>1, <2>3 DEF OutcomeStep, Claims
  <2> QED BY <1>1, <2>1, <2>2, <2>3, DeliveriesStep
<1>5. receipts' \in [Deliveries -> [Receipts -> {"none", "yes", "no"}]]
  <2>1. ASSUME NEW k \in Receipts, ReportReceipt(k)
        PROVE  receipts' \in [Deliveries -> [Receipts -> {"none", "yes", "no"}]]
    <3>1. PICK answer \in {"yes", "no"} :
             receipts' = [receipts EXCEPT ![agent.notice][k] = answer]
      BY <2>1, Reporting
    <3> QED BY <1>1, <3>1
  <2> QED BY <1>1, <2>1, Frame
<1> QED BY <1>3, <1>4, <1>5

LEMMA Typed ==
    ASSUME IInv, [Next]_vars
    PROVE  TypeOK'
<1>1. stopping' \in BOOLEAN /\ faults' \in 0..MaxFaults
  <2>1. stopping \in BOOLEAN /\ faults \in 0..MaxFaults
    BY DEF IInv, TypeOK
  <2>2. stopping' \in BOOLEAN
    BY <2>1, FrameStore, ZenonT(30)
  <2>3. UNCHANGED faults \/ (faults < MaxFaults /\ faults' = faults + 1)
    BY FrameStore DEF Fault
  <2> QED BY <2>1, <2>2, <2>3, Numbers
<1>2. declined' \subseteq Deliveries
  <2>1. ASSUME NEW g \in Generations, Claim(g)
        PROVE  declined' \subseteq Deliveries
    <3>1. wrapper[g].request.delivery \in Deliveries
      BY <2>1, Granting
    <3>2. declined \subseteq Deliveries
      BY DEF IInv, TypeOK
    <3> QED BY <2>1, <3>1, <3>2 DEF Claim
  <2> QED BY <2>1, FrameStore DEF IInv, TypeOK
<1>3. handled' \subseteq 1..MaxMessages
  <2>1. ASSUME NEW m \in DOMAIN messages, Handle(m)
        PROVE  handled' = handled \cup {m} /\ m \in 1..MaxMessages
    BY <2>1, RowCounts, Numbers DEF Handle
  <2> QED BY <2>1, Frame DEF IInv, TypeOK
<1>4. provider' \in Providers /\ agent' \in Agents
  BY ProvidersTyped, AgentTyped
<1>5. /\ messages' \in Seq(BOOLEAN) /\ events' \in Seq({"external", "own"})
  BY Rows
<1>6. wrapper' \in [Generations -> Wrappers]
  BY Wrapping
<1>7. /\ session' \in [Generations -> SessionStates]
      /\ generation' \in 0..MaxGenerations
  BY SessionsTyped
<1> QED BY <1>1, <1>2, <1>3, <1>4, <1>5, <1>6, <1>7, RowsTyped DEF TypeOK

-----------------------------------------------------------------------------
(* Cursors stay within the rows; generations to come have nothing.          *)

LEMMA CursorsBounded ==
    ASSUME IInv, [Next]_vars
    PROVE  Bounds'
<1>1. /\ Len(messages') <= MaxMessages /\ Len(events') <= MaxEvents
      /\ Len(messages) <= Len(messages') /\ Len(events) <= Len(events')
      /\ Len(messages) \in Nat /\ Len(events) \in Nat
      /\ Len(messages') \in Nat /\ Len(events') \in Nat
  BY Rows, RowCounts, Numbers
<1>2. ASSUME NEW g \in Generations
      PROVE  notes'[g].event <= Len(events') /\ notes'[g].message <= Len(messages')
  <2>1. /\ notes \in [Generations -> Notes]
        /\ notes[g].event <= Len(events) /\ notes[g].message <= Len(messages)
        /\ notes[g].event \in Nat /\ notes[g].message \in Nat
    <3>1. /\ notes \in [Generations -> Notes]
          /\ notes[g].event <= Len(events) /\ notes[g].message <= Len(messages)
      BY DEF IInv, TypeOK, Bounds
    <3> QED BY <3>1, Numbers DEF Notes
  <2>2. CASE notes'[g].event = notes[g].event /\ notes'[g].message = notes[g].message
    BY <1>1, <2>1, <2>2
  <2>3. ASSUME NEW h \in Generations, EnableStep(h)
        PROVE  /\ notes'[g].event \in {notes[g].event, Len(events)}
               /\ notes'[g].message = notes[g].message
    BY <2>1, <2>3 DEF EnableStep, Notes
  <2>4. ASSUME NEW t \in Threads, generation \in Generations, BindStep(t)
        PROVE  /\ notes'[g].event = notes[g].event
               /\ notes'[g].message = notes[g].message
    BY <2>1, <2>4 DEF BindStep, Notes
  <2>5. ASSUME NEW h \in Generations, NEW d \in Deliveries, GrantStep(h, d)
        PROVE  /\ notes'[g].event \in {notes[g].event, EligibleEvent(h)}
               /\ notes'[g].message \in {notes[g].message, EligibleMessage(h)}
    BY <2>1, <2>5 DEF GrantStep, Notes
  <2>6. ASSUME NEW h \in Generations, NEW d \in Deliveries, GrantStep(h, d)
        PROVE  /\ EligibleEvent(h) \in 0..Len(events)
               /\ EligibleMessage(h) \in 0..Len(messages)
    BY <2>6, Eligible
  <2>7. ASSUME NEW d \in Deliveries, generation \in Generations, ReceiptStep(d)
        PROVE  /\ notes'[g].event \in {notes[g].event, Len(events)}
               /\ notes'[g].message \in {notes[g].message, Len(messages)}
    BY <2>1, <2>7 DEF ReceiptStep, Notes
  <2>8. /\ notes'[g].event \in Nat /\ notes'[g].message \in Nat
        /\ notes'[g].event <= Len(events) /\ notes'[g].message <= Len(messages)
    <3>1. CASE UNCHANGED notes
      BY <2>1, <3>1
    <3>2. CASE \E h \in Generations : EnableStep(h)
      BY <1>1, <2>1, <2>3, <3>2
    <3>3. CASE \E t \in Threads : generation \in Generations /\ BindStep(t)
      BY <2>1, <2>4, <3>3
    <3>4. CASE \E h \in Generations, d \in Deliveries : GrantStep(h, d)
      BY <1>1, <2>1, <2>5, <2>6, <3>4
    <3>5. CASE generation \in Generations /\ \E d \in Deliveries : ReceiptStep(d)
      BY <1>1, <2>1, <2>7, <3>5
    <3> QED BY <3>1, <3>2, <3>3, <3>4, <3>5, NotesStep
  <2> QED BY <1>1, <2>8
<1> QED BY <1>1, <1>2, AgentTyped DEF Bounds

LEMMA UnbornHaveNothing ==
    ASSUME IInv, [Next]_vars
    PROVE  Unborn'
<1> SUFFICES ASSUME NEW g \in Generations, g > generation'
             PROVE  /\ session'[g] = "none" /\ notes'[g] = NoNotes
                    /\ wrapper'[g] = NoWrapper /\ provider'.process[g] = "none"
                    /\ Of(g)' = {}
  BY DEF Unborn
<1>1. g > generation /\ session'[g] = "none" /\ generation <= generation'
  BY SessionsTyped
<1>2. /\ notes[g] = NoNotes /\ wrapper[g] = NoWrapper
      /\ provider.process[g] = "none" /\ Of(g) = {}
      /\ wrapper[g].stage = "none" /\ ~wrapper[g].connected
      /\ wrapper[g].request.kind = "ask"
  <2>1. /\ NoWrapper.stage = "none" /\ ~NoWrapper.connected
        /\ NoWrapper.request.kind = "ask"
    BY DEF NoWrapper, NoRequest
  <2>2. /\ notes[g] = NoNotes /\ wrapper[g] = NoWrapper
        /\ provider.process[g] = "none" /\ Of(g) = {}
    BY <1>1 DEF IInv, Unborn
  <2> QED BY <2>1, <2>2
<1>3. g # generation /\ g # generation' /\ g # 0
  BY <1>1, Numbers, SessionsTyped DEF Generations, IInv, TypeOK
<1>4. notes'[g] = NoNotes
  <2>1. notes \in [Generations -> Notes]
    BY DEF IInv, TypeOK
  <2>2. ASSUME NEW h \in Generations, EnableStep(h)
        PROVE  notes'[g] = notes[g]
    BY <1>2, <2>1, <2>2 DEF EnableStep
  <2>3. ASSUME NEW t \in Threads, generation \in Generations, BindStep(t)
        PROVE  notes'[g] = notes[g]
    BY <1>3, <2>1, <2>3 DEF BindStep
  <2>4. ASSUME NEW h \in Generations, NEW d \in Deliveries, GrantStep(h, d)
        PROVE  notes'[g] = notes[g]
    BY <1>2, <2>1, <2>4 DEF GrantStep
  <2>5. ASSUME NEW d \in Deliveries, generation \in Generations, ReceiptStep(d)
        PROVE  notes'[g] = notes[g]
    BY <1>3, <2>1, <2>5 DEF ReceiptStep
  <2> QED BY <1>2, <2>2, <2>3, <2>4, <2>5, NotesStep
<1>5. Of(g)' = {}
  <2>1. deliveries \in [Deliveries -> Claims]
    BY DEF IInv, TypeOK
  <2>2. \A d \in Deliveries : deliveries[d].session # g
    BY <1>2 DEF Of
  <2>3. ASSUME NEW h \in Generations, NEW d \in Deliveries, GrantStep(h, d)
        PROVE  \A e \in Deliveries : deliveries'[e].session # g
    BY <1>3, <2>1, <2>2, <2>3 DEF GrantStep, Current
  <2>4. ASSUME NEW d \in Deliveries, ReceiptStep(d)
        PROVE  \A e \in Deliveries : deliveries'[e].session # g
    BY <2>1, <2>2, <2>4 DEF ReceiptStep, Claims
  <2>5. ASSUME NEW h \in Generations, NEW d \in Deliveries, OutcomeStep(h, d)
        PROVE  \A e \in Deliveries : deliveries'[e].session # g
    BY <2>1, <2>2, <2>5 DEF OutcomeStep, Claims
  <2>6. \A e \in Deliveries : deliveries'[e].session # g
    BY <2>2, <2>3, <2>4, <2>5, DeliveriesStep
  <2> QED BY <2>6 DEF Of
<1>6. wrapper'[g] = NoWrapper
  <2>1. CASE UNCHANGED wrapper
    BY <1>2, <2>1
  <2>2. CASE CrashAndRestart
    <3>1. wrapper'[g] = [wrapper[g] EXCEPT !.connected = FALSE]
      BY <2>2 DEF CrashAndRestart
    <3>2. NoWrapper.connected = FALSE
      BY DEF NoWrapper
    <3>3. NoWrapper =
             [stage |-> NoWrapper.stage, connected |-> NoWrapper.connected,
              request |-> NoWrapper.request, claim |-> NoWrapper.claim]
      BY DEF NoWrapper
    <3>4. [NoWrapper EXCEPT !.connected = NoWrapper.connected] = NoWrapper
      BY <3>3
    <3> QED BY <1>2, <3>1, <3>2, <3>4
  <2>3. CASE Launch
    <3>1. wrapper'[g] = wrapper[g]
      BY <1>3, <2>3 DEF Launch, IInv, TypeOK
    <3> QED BY <1>2, <3>1
  <2>4. ASSUME NEW h \in Generations, Wrapper(h)
        PROVE  wrapper'[g] = NoWrapper
    <3>1. PICK w \in Wrappers :
             wrapper' = [wrapper EXCEPT ![h] = w] /\ Moves(h, w)
      BY <2>4, Moving
    <3>2. CASE h # g
      BY <1>2, <3>1, <3>2 DEF IInv, TypeOK
    <3>3. CASE h = g
      <4>1. wrapper[h].stage = "none" /\ provider.process[h] = "none"
            /\ ~wrapper[h].connected
        BY <1>2, <3>3
      <4>2. ~Wrapper(h)
        BY <4>1
           DEF Wrapper, Enable, StartProcess, ProcessExits, ReportExit,
               WrapperEnds, Disconnect, Connect, Ask, Claim, Requesting,
               RunQueueCommand, AwaitQueueCommand, Observe
      <4> QED BY <2>4, <4>2
    <3> QED BY <3>2, <3>3
  <2> QED BY <2>1, <2>2, <2>3, <2>4, Frame
<1>7. provider'.process[g] = "none"
  <2>1. provider \in Providers
    BY DEF IInv, TypeOK
  <2>2. ASSUME NEW h \in Generations, ProcessStep(h)
        PROVE  provider'.process[g] = provider.process[g]
    BY <1>2, <2>1, <2>2 DEF ProcessStep, Providers
  <2>3. ASSUME NEW h \in Generations, NEW d \in Deliveries, QueueStep(h, d)
        PROVE  provider'.process[g] = provider.process[g]
    BY <2>3, Queued
  <2>4. ASSUME NEW d \in Deliveries, NoticeStep(d)
        PROVE  provider'.process[g] = provider.process[g]
    BY <2>1, <2>4 DEF NoticeStep, Providers
  <2> QED BY <1>2, <2>2, <2>3, <2>4, Providing
<1> QED BY <1>1, <1>4, <1>5, <1>6, <1>7

-----------------------------------------------------------------------------
(* What is acknowledged was handled.                                        *)

LEMMA HandledKept ==
    ASSUME IInv, [Next]_vars
    PROVE  handled \subseteq handled'
  BY Frame DEF Handle

LEMMA AcknowledgedWereHandled ==
    ASSUME IInv, [Next]_vars
    PROVE  \A m \in DOMAIN messages' : messages'[m] => m \in handled'
<1>1. \A m \in DOMAIN messages : messages[m] => m \in handled
  BY DEF IInv, HandledFirst
<1>2. CASE UNCHANGED messages
  BY <1>1, <1>2, HandledKept
<1>3. CASE SendMessage
  <2> SUFFICES ASSUME NEW m \in DOMAIN messages', messages'[m]
               PROVE  m \in handled'
    OBVIOUS
  <2>1. m \in 1..(Len(messages) + 1)
    BY <1>3, Sent
  <2>2. CASE m \in 1..Len(messages)
    <3>1. m \in DOMAIN messages /\ messages'[m] = messages[m]
      BY <1>3, <2>2, Sent, RowCounts
    <3> QED BY <1>1, <3>1, HandledKept
  <2>3. CASE m \notin 1..Len(messages)
    <3>1. m = Len(messages) + 1
      BY <2>1, <2>3, RowCounts
    <3> QED BY <1>3, <3>1, Sent
  <2> QED BY <2>2, <2>3
<1>4. CASE Acknowledge
  <2> SUFFICES ASSUME NEW m \in DOMAIN messages', messages'[m]
               PROVE  m \in handled'
    OBVIOUS
  <2>1. m \in DOMAIN messages /\ (messages[m] \/ m <= agent.through)
    BY <1>4, Acknowledged, RowCounts
  <2>2. m <= agent.through => m \in handled
    BY <2>1 DEF IInv, HandledThrough
  <2> QED BY <1>1, <2>1, <2>2, HandledKept
<1> QED BY <1>2, <1>3, <1>4, Frame

(* The position of the inbox and the pending acknowledgement only move to   *)
(* what is acknowledged, respectively handled.                              *)
LEMMA PositionsKept ==
    ASSUME IInv, [Next]_vars
    PROVE  /\ \A m \in 1..agent'.checkpoint.inbox : messages'[m]
           /\ \A m \in DOMAIN messages' : m <= agent'.through => m \in handled'
<1>1. /\ \A m \in 1..agent.checkpoint.inbox : messages[m]
      /\ \A m \in DOMAIN messages : m <= agent.through => m \in handled
  BY DEF IInv, HandledFirst, HandledThrough
<1>2. /\ agent \in Agents /\ Len(messages) \in Nat
      /\ agent.checkpoint.inbox \in Nat /\ agent.through \in Nat
      /\ agent.checkpoint.inbox <= Len(messages)
      /\ agent.through <= Len(messages)
  <2>1. /\ agent \in Agents /\ agent.checkpoint.inbox <= Len(messages)
        /\ agent.seen <= Len(messages) /\ agent.through <= agent.seen
    BY DEF IInv, TypeOK, Bounds
  <2> QED BY <2>1, RowCounts, Numbers DEF Agents
<1>3. /\ \A m \in 1..Len(messages) : messages[m] => messages'[m]
      /\ DOMAIN messages = 1..Len(messages)
      /\ DOMAIN messages' = 1..Len(messages') /\ Len(messages') \in Nat
  BY Rows, RowCounts, Numbers
<1>4. handled \subseteq handled'
  BY HandledKept
<1>5. \A m \in 1..agent.checkpoint.inbox : messages'[m]
  <2> SUFFICES ASSUME NEW m \in 1..agent.checkpoint.inbox PROVE messages'[m]
    OBVIOUS
  <2>1. m \in 1..Len(messages) /\ messages[m]
    BY <1>1, <1>2
  <2> QED BY <1>3, <2>1
<1>6. \A m \in 1..Len(messages') : m <= agent.through => m \in handled'
  <2> SUFFICES ASSUME NEW m \in 1..Len(messages'), m <= agent.through
               PROVE  m \in handled'
    OBVIOUS
  <2>1. m \in 1..Len(messages)
    BY <1>2, <1>3
  <2> QED BY <1>1, <1>3, <1>4, <2>1
<1> DEFINE Position == /\ \A m \in 1..agent'.checkpoint.inbox : messages'[m]
                       /\ \A m \in 1..Len(messages') :
                             m <= agent'.through => m \in handled'
<1> SUFFICES Position
  BY <1>3
<1>7. ASSUME agent'.checkpoint.inbox \in {0, agent.checkpoint.inbox},
             agent'.through \in {0, agent.through}
      PROVE  Position
  <2>1. \A m \in 1..agent'.checkpoint.inbox : messages'[m]
    BY <1>5, <1>7
  <2>2. \A m \in 1..Len(messages') : ~(m <= 0)
    BY <1>3
  <2> QED BY <1>6, <1>7, <2>1, <2>2
<1>8. ASSUME NEW saved \in {FromTheStart, agent.checkpoint}, Reborn(saved)
      PROVE  Position
  <2>1. agent' = Newborn(saved)
    BY <1>8 DEF Reborn
  <2>2. agent'.checkpoint.inbox \in {0, agent.checkpoint.inbox}
        /\ agent'.through = 0
    BY <2>1 DEF Newborn, FromTheStart
  <2> QED BY <1>7, <2>2
<1>9. CASE Poll
  <2>1. /\ agent'.through = agent.through /\ UNCHANGED messages
        /\ \A m \in 1..agent'.checkpoint.inbox : messages[m]
    BY <1>9, Polled DEF Poll, world, happened
  <2> QED BY <1>6, <2>1
<1>10. CASE agent' = [agent EXCEPT !.through = 0]
  BY <1>2, <1>7, <1>10 DEF Agents
<1>11. ASSUME NEW d \in Deliveries, NoticeStep(d)
       PROVE  Position
  <2>1. agent'.checkpoint = agent.checkpoint /\ agent'.through = agent.through
    BY <1>2, <1>11 DEF NoticeStep, Agents
  <2> QED BY <1>7, <2>1
<1>12. CASE \/ agent' = [agent EXCEPT !.notice = NoDelivery, !.due = TRUE]
            \/ agent' = [agent EXCEPT !.notice = NoDelivery]
  BY <1>2, <1>7, <1>12 DEF Agents
<1>13. ASSUME NEW ids \in SUBSET DOMAIN messages, InboxHandled(ids),
              agent' = [agent EXCEPT !.through = Through(ids)]
       PROVE  Position
  <2>1. /\ agent'.checkpoint = agent.checkpoint
        /\ agent'.through = Through(ids)
    BY <1>2, <1>13 DEF Agents
  <2>2. \A m \in DOMAIN messages : m <= Through(ids) => m \in handled
    BY <1>13, Selected
  <2>3. UNCHANGED <<messages, handled>>
    BY <1>13 DEF InboxHandled, world, happened
  <2> QED BY <1>3, <1>5, <2>1, <2>2, <2>3
<1>14. CASE UNCHANGED agent
  BY <1>7, <1>14
<1> HIDE DEF Position
<1>15. CASE \E ids \in SUBSET DOMAIN messages :
               /\ InboxHandled(ids)
               /\ agent' = [agent EXCEPT !.through = Through(ids)]
  BY <1>13, <1>15
<1> QED BY <1>8, <1>9, <1>10, <1>11, <1>12, <1>14, <1>15, AgentSteps
        DEF AgentStep

LEMMA HandledConsecution ==
    ASSUME IInv, [Next]_vars
    PROVE  HandledFirst' /\ HandledThrough'
  BY AcknowledgedWereHandled, PositionsKept DEF HandledFirst, HandledThrough

-----------------------------------------------------------------------------
(* What may happen to one delivery, to one session's thread, to one         *)
(* delivery's notice.                                                       *)

LEMMA DeliveryChanges ==
    ASSUME IInv, [Next]_vars, NEW e \in Deliveries
    PROVE  \/ deliveries'[e] = deliveries[e]
           \/ \E g \in Generations :
                 /\ GrantStep(g, e)
                 /\ deliveries'[e].session = g /\ ~deliveries'[e].received
                 /\ deliveries'[e].state = "attempting"
           \/ /\ ReceiptStep(e)
              /\ deliveries'[e].session = deliveries[e].session
              /\ deliveries'[e].state = deliveries[e].state
              /\ deliveries'[e].received
           \/ \E g \in Generations :
                 /\ OutcomeStep(g, e)
                 /\ deliveries'[e].session = deliveries[e].session
                 /\ deliveries'[e].state = wrapper[g].request.outcome
                 /\ deliveries'[e].received = deliveries[e].received
<1>1. deliveries \in [Deliveries -> Claims]
  BY DEF IInv, TypeOK
<1>2. ASSUME NEW g \in Generations, NEW d \in Deliveries, GrantStep(g, d)
      PROVE  \/ deliveries'[e] = deliveries[e]
             \/ /\ GrantStep(g, e)
                /\ deliveries'[e].session = g /\ ~deliveries'[e].received
                /\ deliveries'[e].state = "attempting"
  <2>1. deliveries' = [deliveries EXCEPT ![d] =
          [session |-> g, state |-> "attempting", received |-> FALSE]]
    BY <1>2 DEF GrantStep
  <2> QED BY <1>1, <1>2, <2>1
<1>3. ASSUME NEW d \in Deliveries, ReceiptStep(d)
      PROVE  \/ deliveries'[e] = deliveries[e]
             \/ /\ ReceiptStep(e)
                /\ deliveries'[e].session = deliveries[e].session
                /\ deliveries'[e].state = deliveries[e].state
                /\ deliveries'[e].received
  <2>1. deliveries' = [deliveries EXCEPT ![d].received = TRUE]
    BY <1>3 DEF ReceiptStep
  <2> QED BY <1>1, <1>3, <2>1 DEF Claims
<1>4. ASSUME NEW g \in Generations, NEW d \in Deliveries, OutcomeStep(g, d)
      PROVE  \/ deliveries'[e] = deliveries[e]
             \/ /\ OutcomeStep(g, e)
                /\ deliveries'[e].session = deliveries[e].session
                /\ deliveries'[e].state = wrapper[g].request.outcome
                /\ deliveries'[e].received = deliveries[e].received
  <2>1. deliveries' = [deliveries EXCEPT ![d].state =
                          wrapper[g].request.outcome]
    BY <1>4 DEF OutcomeStep
  <2> QED BY <1>1, <1>4, <2>1 DEF Claims
<1>5. CASE UNCHANGED deliveries
  BY <1>5
<1>6. CASE \E g \in Generations, d \in Deliveries : GrantStep(g, d)
  BY <1>2, <1>6
<1>7. CASE \E d \in Deliveries : ReceiptStep(d)
  BY <1>3, <1>7
<1>8. CASE \E g \in Generations, d \in Deliveries : OutcomeStep(g, d)
  BY <1>4, <1>8
<1> QED BY <1>5, <1>6, <1>7, <1>8, DeliveriesStep

LEMMA ThreadsKept ==
    ASSUME IInv, [Next]_vars, NEW g \in Generations
    PROVE  /\ notes'[g].thread # notes[g].thread =>
                 notes[g].thread = NoThread /\ notes'[g].thread # NoThread
           /\ notes[g].enabled => notes'[g].enabled
<1>1. notes \in [Generations -> Notes]
  BY DEF IInv, TypeOK
<1>2. ASSUME NEW h \in Generations, EnableStep(h)
      PROVE  /\ notes'[g].thread = notes[g].thread
             /\ notes[g].enabled => notes'[g].enabled
  BY <1>1, <1>2 DEF EnableStep, Notes
<1>3. ASSUME NEW t \in Threads, generation \in Generations, BindStep(t)
      PROVE  /\ notes'[g].thread # notes[g].thread =>
                   notes[g].thread = NoThread /\ notes'[g].thread # NoThread
             /\ notes'[g].enabled = notes[g].enabled
  BY <1>1, <1>3 DEF BindStep, BindThread, Notes
<1>4. ASSUME NEW h \in Generations, NEW d \in Deliveries, GrantStep(h, d)
      PROVE  /\ notes'[g].thread = notes[g].thread
             /\ notes'[g].enabled = notes[g].enabled
  BY <1>1, <1>4 DEF GrantStep, Notes
<1>5. ASSUME NEW d \in Deliveries, generation \in Generations, ReceiptStep(d)
      PROVE  /\ notes'[g].thread = notes[g].thread
             /\ notes'[g].enabled = notes[g].enabled
  BY <1>1, <1>5 DEF ReceiptStep, Notes
<1>6. CASE UNCHANGED notes
  BY <1>6
<1>7. CASE \E h \in Generations : EnableStep(h)
  BY <1>2, <1>7
<1>8. CASE \E t \in Threads : generation \in Generations /\ BindStep(t)
  BY <1>3, <1>8
<1>9. CASE \E h \in Generations, d \in Deliveries : GrantStep(h, d)
  BY <1>4, <1>9
<1>10. CASE generation \in Generations /\ \E d \in Deliveries : ReceiptStep(d)
  BY <1>5, <1>10
<1> QED BY <1>6, <1>7, <1>8, <1>9, <1>10, NotesStep

LEMMA QueueChanges ==
    ASSUME IInv, [Next]_vars, NEW e \in Deliveries
    PROVE  \/ /\ provider'.runs[e] = provider.runs[e]
              /\ provider'.thread[e] = provider.thread[e]
              /\ e \in provider'.taken <=> e \in provider.taken
              /\ e \in provider'.notices => e \in provider.notices
              /\ \/ e \in provider'.notices <=> e \in provider.notices
                 \/ NoticeStep(e)
           \/ \E g \in Generations :
                 /\ QueueStep(g, e) /\ provider.runs[e] = 0
                 /\ provider'.runs[e] = 1
                 /\ provider'.thread[e] = notes[g].thread
                 /\ e \notin provider.taken
                 /\ e \in provider'.notices <=> e \in provider'.taken
<1> DEFINE Same == /\ provider'.runs[e] = provider.runs[e]
                   /\ provider'.thread[e] = provider.thread[e]
                   /\ e \in provider'.taken <=> e \in provider.taken
                   /\ e \in provider'.notices => e \in provider.notices
                   /\ \/ e \in provider'.notices <=> e \in provider.notices
                      \/ NoticeStep(e)
<1>1. provider \in Providers
  BY DEF IInv, TypeOK
<1>2. ASSUME NEW g \in Generations, ProcessStep(g)
      PROVE  Same
  BY <1>1, <1>2 DEF ProcessStep, Providers
<1>3. ASSUME NEW d \in Deliveries, NoticeStep(d)
      PROVE  Same
  <2>1. provider' = [provider EXCEPT !.notices = @ \ {d}]
    BY <1>3 DEF NoticeStep
  <2> QED BY <1>1, <1>3, <2>1 DEF Providers
<1>4. ASSUME NEW g \in Generations, NEW d \in Deliveries, QueueStep(g, d)
      PROVE  \/ Same
             \/ /\ QueueStep(g, e) /\ provider.runs[e] = 0
                /\ provider'.runs[e] = 1
                /\ provider'.thread[e] = notes[g].thread
                /\ e \notin provider.taken
                /\ e \in provider'.notices <=> e \in provider'.taken
  <2>1. /\ provider.runs[d] = 0 /\ d \notin provider.taken
        /\ provider'.runs = [provider.runs EXCEPT ![d] = 1]
        /\ provider'.thread = [provider.thread EXCEPT ![d] = notes[g].thread]
        /\ \/ UNCHANGED <<provider.taken, provider.notices>>
           \/ /\ provider'.taken = provider.taken \cup {d}
              /\ provider'.notices = provider.notices \cup {d}
    BY <1>4, Queued
  <2>2. d \notin provider.notices
    BY <2>1 DEF IInv, DeliveryRows
  <2>3. /\ provider.runs \in [Deliveries -> Nat] /\ DOMAIN provider.thread = Deliveries
    BY <1>1 DEF Providers
  <2>4. CASE d = e
    BY <1>4, <2>1, <2>2, <2>3, <2>4
  <2>5. CASE d # e
    BY <2>1, <2>3, <2>5
  <2> QED BY <2>4, <2>5
<1>5. CASE provider' = provider
  BY <1>5
<1> SUFFICES \/ Same
             \/ \E g \in Generations :
                   /\ QueueStep(g, e) /\ provider.runs[e] = 0
                   /\ provider'.runs[e] = 1
                   /\ provider'.thread[e] = notes[g].thread
                   /\ e \notin provider.taken
                   /\ e \in provider'.notices <=> e \in provider'.taken
  OBVIOUS
<1>6. CASE \E g \in Generations : ProcessStep(g)
  BY <1>2, <1>6
<1>7. CASE \E d \in Deliveries : NoticeStep(d)
  BY <1>3, <1>7
<1>8. CASE \E g \in Generations, d \in Deliveries : QueueStep(g, d)
  BY <1>4, <1>8
<1> QED BY <1>5, <1>6, <1>7, <1>8, Providing

LEMMA ReceiptChanges ==
    ASSUME IInv, [Next]_vars, NEW e \in Deliveries, NEW k \in Receipts
    PROVE  /\ receipts[e][k] # "none" => receipts'[e][k] = receipts[e][k]
           /\ receipts'[e][k] = "yes" =>
                 receipts[e][k] = "yes" \/ deliveries'[e].received
<1>1. CASE UNCHANGED receipts
  BY <1>1
<1>2. ASSUME NEW j \in Receipts, ReportReceipt(j)
      PROVE  /\ receipts[e][k] # "none" => receipts'[e][k] = receipts[e][k]
             /\ receipts'[e][k] = "yes" =>
                   receipts[e][k] = "yes" \/ deliveries'[e].received
  <2> DEFINE d == agent.notice
  <2>1. PICK answer \in {"yes", "no"} :
           /\ receipts' = [receipts EXCEPT ![d][j] = answer]
           /\ receipts[d][j] \in {"none", answer}
           /\ answer = "yes" => deliveries'[d].received
    BY <1>2, Reporting
  <2>2. receipts \in [Deliveries -> [Receipts -> {"none", "yes", "no"}]]
    BY DEF IInv, TypeOK
  <2>3. CASE e = d /\ k = j
    BY <2>1, <2>2, <2>3
  <2>4. CASE ~(e = d /\ k = j)
    BY <2>1, <2>2, <2>4
  <2> QED BY <2>3, <2>4
<1> QED BY <1>1, <1>2, Frame

-----------------------------------------------------------------------------
(* A delivery is queued once, for its session's thread.                     *)

LEMMA SessionsOfDeliveries ==
    ASSUME IInv, NEW d \in Deliveries
    PROVE  /\ deliveries[d].session # 0 => deliveries[d].session \in Generations
           /\ \A g \in Generations : g # 0 /\ (d \in Of(g) <=>
                                                  deliveries[d].session = g)
  BY Numbers DEF IInv, TypeOK, Claims, Generations, Of

LEMMA ThreadOfDelivery ==
    ASSUME IInv, [Next]_vars, NEW d \in Deliveries, deliveries[d].session # 0
    PROVE  /\ deliveries[d].session \in Generations
           /\ notes[deliveries[d].session].thread # NoThread
           /\ notes'[deliveries[d].session].thread =
                 notes[deliveries[d].session].thread
<1>1. deliveries[d].session \in Generations
  BY SessionsOfDeliveries
<1>2. notes[deliveries[d].session].thread # NoThread
  BY DEF IInv, DeliveryRows
<1> QED BY <1>1, <1>2, ThreadsKept

LEMMA SessionKept ==
    ASSUME IInv, [Next]_vars, NEW d \in Deliveries
    PROVE  /\ deliveries[d].session # 0 =>
                 deliveries'[d].session = deliveries[d].session
           /\ deliveries[d].received => deliveries'[d].received
           /\ \A g \in Generations : d \in Of(g) => d \in Of(g)'
<1>1. deliveries[d].session # 0 => deliveries'[d].session = deliveries[d].session
  BY DeliveryChanges DEF GrantStep
<1>2. deliveries[d].received => deliveries'[d].received
  <2>1. deliveries[d].session = 0 => ~deliveries[d].received
    BY DEF IInv, DeliveryRows, NoClaim
  <2> QED BY <2>1, DeliveryChanges DEF GrantStep
<1>3. ASSUME NEW g \in Generations, d \in Of(g)
      PROVE  d \in Of(g)'
  <2>1. g # 0 /\ deliveries[d].session = g
    BY <1>3, SessionsOfDeliveries
  <2>2. deliveries'[d].session = g
    BY <1>1, <2>1
  <2> QED BY <2>2 DEF Of
<1> QED BY <1>1, <1>2, <1>3

LEMMA DeliveryRowsKept ==
    ASSUME IInv, [Next]_vars
    PROVE  DeliveryRows'
<1> SUFFICES ASSUME NEW d \in Deliveries
             PROVE  /\ deliveries'[d].session = 0 =>
                          deliveries'[d] = NoClaim /\ provider'.runs[d] = 0
                    /\ deliveries'[d].session # 0 =>
                          /\ deliveries'[d].state # "none"
                          /\ notes'[deliveries'[d].session].thread # NoThread
                    /\ provider'.runs[d] <= 1
                    /\ provider'.runs[d] = 0 => d \notin provider'.taken
                    /\ provider'.runs[d] = 1 =>
                          provider'.thread[d] =
                             notes'[deliveries'[d].session].thread
                    /\ d \in provider'.notices => d \in provider'.taken
                    /\ \A k \in Receipts :
                          receipts'[d][k] = "yes" => deliveries'[d].received
  BY DEF DeliveryRows, Received
<1>1. /\ deliveries[d].session = 0 =>
            deliveries[d] = NoClaim /\ provider.runs[d] = 0
      /\ deliveries[d].session # 0 =>
            /\ deliveries[d].state # "none"
            /\ notes[deliveries[d].session].thread # NoThread
      /\ provider.runs[d] <= 1
      /\ provider.runs[d] = 0 => d \notin provider.taken
      /\ provider.runs[d] = 1 =>
            provider.thread[d] = notes[deliveries[d].session].thread
      /\ d \in provider.notices => d \in provider.taken
      /\ \A k \in Receipts : receipts[d][k] = "yes" => deliveries[d].received
  BY DEF IInv, DeliveryRows, Received
<1>2. provider.runs[d] \in Nat
  BY DEF IInv, TypeOK, Providers
<1>3. ASSUME NEW g \in Generations, QueueStep(g, d)
      PROVE  deliveries[d].session = g /\ g # 0 /\ deliveries'[d] = deliveries[d]
  BY <1>3, SessionsOfDeliveries DEF QueueStep
<1>4. deliveries'[d].session = 0 =>
         deliveries'[d] = NoClaim /\ provider'.runs[d] = 0
  <2> SUFFICES ASSUME deliveries'[d].session = 0
               PROVE  deliveries'[d] = NoClaim /\ provider'.runs[d] = 0
    OBVIOUS
  <2>1. deliveries[d].session = 0
    BY SessionKept
  <2>2. deliveries[d] = NoClaim /\ provider.runs[d] = 0
    BY <1>1, <2>1
  <2>3. deliveries'[d] = deliveries[d]
    <3>1. ~ReceiptStep(d)
      BY <2>2 DEF ReceiptStep, Receivable, NoClaim
    <3>2. \A g \in Generations : ~OutcomeStep(g, d)
      BY <2>1, SessionsOfDeliveries DEF OutcomeStep
    <3>3. \A g \in Generations : g # 0
      BY SessionsOfDeliveries
    <3> QED BY <3>1, <3>2, <3>3, DeliveryChanges
  <2>4. provider'.runs[d] = 0
    BY <1>3, <2>1, <2>2, QueueChanges
  <2> QED BY <2>2, <2>3, <2>4
<1>5. deliveries'[d].session # 0 =>
         /\ deliveries'[d].state # "none"
         /\ notes'[deliveries'[d].session].thread # NoThread
  <2> SUFFICES ASSUME deliveries'[d].session # 0
               PROVE  /\ deliveries'[d].state # "none"
                      /\ notes'[deliveries'[d].session].thread # NoThread
    OBVIOUS
  <2>1. CASE deliveries[d].session # 0
    <3>1. /\ deliveries'[d].session = deliveries[d].session
          /\ notes'[deliveries[d].session].thread # NoThread
      BY <2>1, SessionKept, ThreadOfDelivery
    <3>2. \A g \in Generations :
             OutcomeStep(g, d) => wrapper[g].request.outcome # "none"
      BY DEF OutcomeStep, Outcomes
    <3>3. deliveries'[d].state # "none"
      BY <1>1, <2>1, <3>2, DeliveryChanges
    <3> QED BY <3>1, <3>3
  <2>2. CASE deliveries[d].session = 0
    <3>1. PICK g \in Generations :
             /\ GrantStep(g, d) /\ deliveries'[d].session = g
             /\ deliveries'[d].state = "attempting"
      BY <2>2, DeliveryChanges
    <3>2. notes[g].thread # NoThread
      BY <3>1 DEF GrantStep, Pending
    <3>3. notes'[g].thread # NoThread
      BY <3>2, ThreadsKept
    <3> QED BY <3>1, <3>3
  <2> QED BY <2>1, <2>2
<1>6. /\ provider'.runs[d] <= 1
      /\ provider'.runs[d] = 0 => d \notin provider'.taken
      /\ d \in provider'.notices => d \in provider'.taken
  BY <1>1, QueueChanges
<1>7. provider'.runs[d] = 1 =>
         provider'.thread[d] = notes'[deliveries'[d].session].thread
  <2> SUFFICES ASSUME provider'.runs[d] = 1
               PROVE  provider'.thread[d] = notes'[deliveries'[d].session].thread
    OBVIOUS
  <2>1. deliveries[d].session # 0
    BY <1>1, <1>3, QueueChanges
  <2>2. /\ deliveries'[d].session = deliveries[d].session
        /\ notes'[deliveries[d].session].thread =
              notes[deliveries[d].session].thread
    BY <2>1, SessionKept, ThreadOfDelivery
  <2>3. provider'.thread[d] = notes[deliveries[d].session].thread
    BY <1>1, <1>3, QueueChanges
  <2> QED BY <2>2, <2>3
<1>8. \A k \in Receipts : receipts'[d][k] = "yes" => deliveries'[d].received
  BY <1>1, ReceiptChanges, SessionKept
<1> QED BY <1>4, <1>5, <1>6, <1>7, <1>8

(* A claim is granted when everything before it is settled, and what is     *)
(* settled stays so.                                                        *)
LEMMA SettledKept ==
    ASSUME IInv, [Next]_vars, NEW d \in Deliveries, Settled(d)
    PROVE  Settled(d)'
<1>1. deliveries[d].state = "accepted" /\ deliveries[d].received
  BY DEF Settled
<1>2. deliveries[d].session # 0
  BY <1>1 DEF IInv, DeliveryRows, NoClaim
<1>3. deliveries'[d].received
  BY <1>1, SessionKept
<1>4. \A g \in Generations :
         OutcomeStep(g, d) => wrapper[g].request.outcome = "accepted"
  BY <1>1 DEF OutcomeStep
<1>5. deliveries'[d].state = "accepted"
  BY <1>1, <1>2, <1>4, DeliveryChanges DEF GrantStep
<1> QED BY <1>3, <1>5 DEF Settled

LEMMA OneUnsettledKept ==
    ASSUME IInv, [Next]_vars
    PROVE  OneUnsettled'
<1> SUFFICES ASSUME NEW g \in Generations, NEW d \in Deliveries,
                    NEW e \in Deliveries, d # e,
                    deliveries'[d].session = g, deliveries'[e].session = g
             PROVE  Settled(d)' \/ Settled(e)'
  BY DEF OneUnsettled, Of
<1>1. \A x \in Deliveries :
         /\ deliveries[x].session \in {0, deliveries'[x].session}
         /\ \/ deliveries'[x].session = deliveries[x].session
            \/ \E h \in Generations :
                  GrantStep(h, x) /\ deliveries'[x].session = h
  BY SessionKept, DeliveryChanges
<1>2. g # 0
  BY SessionsOfDeliveries
<1>3. CASE deliveries[d].session = g /\ deliveries[e].session = g
  BY <1>3, SettledKept DEF IInv, OneUnsettled, Of
<1>4. ASSUME NEW x \in Deliveries, NEW y \in Deliveries, x # y,
             GrantStep(g, x), deliveries'[y].session = g
      PROVE  Settled(y)'
  <2>1. deliveries'[y].session = deliveries[y].session
    <3>1. deliveries' = [deliveries EXCEPT ![x] =
            [session |-> g, state |-> "attempting", received |-> FALSE]]
      BY <1>4 DEF GrantStep
    <3> QED BY <1>4, <3>1 DEF IInv, TypeOK
  <2>2. Settled(y)
    BY <1>4, <2>1 DEF GrantStep, Pending, Of
  <2> QED BY <2>2, SettledKept
<1>5. deliveries[d].session # g => GrantStep(g, d)
  BY <1>1
<1>6. deliveries[e].session # g => GrantStep(g, e)
  BY <1>1
<1> QED BY <1>3, <1>4, <1>5, <1>6

-----------------------------------------------------------------------------
(* Where the delivery loops stand.                                          *)

StageRows(g) ==
    LET w == wrapper[g]
    IN /\ w.stage \in {"enabling", "launching"} => provider.process[g] = "none"
       /\ w.stage \in {"queueing", "waiting"} =>
             /\ w.request = NoRequest /\ w.claim \in Of(g)
             /\ deliveries[w.claim].state = "attempting"
             /\ provider.runs[w.claim] = IF w.stage = "queueing" THEN 0 ELSE 1
       /\ w.stage \notin {"queueing", "waiting", "gone"} => w.claim = NoDelivery
       /\ w.stage \notin {"serving", "gone"} => w.request = NoRequest

RequestRows(g) ==
    LET r == wrapper[g].request
    IN /\ r.kind = "claim" =>
             /\ deliveries[r.delivery].session \in {0, g}
             /\ deliveries[r.delivery].state \in {"none", "attempting"}
             /\ provider.runs[r.delivery] = 0
       /\ r.kind = "observe" =>
             /\ r.delivery \in Of(g)
             /\ deliveries[r.delivery].state \in {"attempting", r.outcome}
             /\ r.outcome = "accepted" => r.delivery \in provider.taken

LEMMA LoopRowsParts ==
    /\ LoopRows <=> \A g \in Generations : StageRows(g) /\ RequestRows(g)
    /\ LoopRows' <=> \A g \in Generations : StageRows(g)' /\ RequestRows(g)'
<1>1. LoopRows <=> \A g \in Generations : StageRows(g) /\ RequestRows(g)
  BY Zenon DEF LoopRows, StageRows, RequestRows
<1>2. LoopRows' <=> \A g \in Generations : StageRows(g)' /\ RequestRows(g)'
  BY Zenon DEF LoopRows, StageRows, RequestRows
<1> QED BY <1>1, <1>2

(* A request that stays is still about a delivery it may be about.          *)
LEMMA RequestStays ==
    ASSUME IInv, [Next]_vars, NEW g \in Generations,
           wrapper'[g].request = wrapper[g].request
    PROVE  RequestRows(g)'
<1> DEFINE r == wrapper[g].request
           d == r.delivery
<1>1. r \in Requests /\ RequestRows(g)
  BY LoopRowsParts DEF IInv, TypeOK, Wrappers
<1>2. ASSUME r.kind = "claim"
      PROVE  /\ deliveries'[d].session \in {0, g}
             /\ deliveries'[d].state \in {"none", "attempting"}
             /\ provider'.runs[d] = 0
  <2>1. /\ d \in Deliveries /\ deliveries[d].session \in {0, g}
        /\ deliveries[d].state \in {"none", "attempting"}
        /\ provider.runs[d] = 0
    BY <1>1, <1>2, RequestKinds DEF RequestRows
  <2>2. ASSUME NEW h \in Generations, GrantStep(h, d) PROVE h = g
    BY <1>2, <2>2 DEF GrantStep, IInv, ClaimsApart
  <2>3. ASSUME NEW h \in Generations PROVE ~OutcomeStep(h, d)
    <3>1. OutcomeStep(h, d) => h = g
      BY <2>1, SessionsOfDeliveries DEF OutcomeStep
    <3> QED BY <1>2, <3>1 DEF OutcomeStep
  <2>4. ASSUME NEW h \in Generations PROVE ~QueueStep(h, d)
    <3>1. QueueStep(h, d) => h = g
      BY <2>1, SessionsOfDeliveries DEF QueueStep
    <3>2. wrapper[g].stage = "queueing" => r = NoRequest
      BY DEF IInv, LoopRows
    <3> QED BY <1>2, <3>1, <3>2, RequestKinds DEF QueueStep
  <2>5. /\ deliveries'[d].session \in {0, g}
        /\ deliveries'[d].state \in {"none", "attempting"}
    BY <2>1, <2>2, <2>3, DeliveryChanges
  <2>6. provider'.runs[d] = 0
    BY <2>1, <2>4, QueueChanges
  <2> QED BY <2>5, <2>6
<1>3. ASSUME r.kind = "observe"
      PROVE  /\ d \in Of(g)'
             /\ deliveries'[d].state \in {"attempting", r.outcome}
             /\ r.outcome = "accepted" => d \in provider'.taken
  <2>1. /\ d \in Of(g) /\ d \in Deliveries
        /\ deliveries[d].state \in {"attempting", r.outcome}
        /\ r.outcome = "accepted" => d \in provider.taken
    BY <1>1, <1>3 DEF RequestRows, Of
  <2>2. d \in Of(g)' /\ deliveries[d].session # 0
    BY <2>1, SessionKept, SessionsOfDeliveries
  <2>3. ASSUME NEW h \in Generations, OutcomeStep(h, d) PROVE h = g
    BY <2>1, <2>3, SessionsOfDeliveries DEF OutcomeStep
  <2>4. \A h \in Generations : ~GrantStep(h, d)
    BY <2>2 DEF GrantStep
  <2>5. deliveries'[d].state \in {"attempting", r.outcome}
    BY <2>1, <2>3, <2>4, DeliveryChanges
  <2>6. r.outcome = "accepted" => d \in provider'.taken
    BY <2>1, QueueChanges
  <2> QED BY <2>2, <2>5, <2>6
<1>4. wrapper'[g].request = r
  OBVIOUS
<1> HIDE DEF r, d
<1> QED BY <1>2, <1>3, <1>4 DEF RequestRows, d

LEMMA ProcessChanges ==
    ASSUME IInv, [Next]_vars, NEW g \in Generations
    PROVE  \/ provider'.process[g] = provider.process[g]
           \/ /\ ProcessStep(g) /\ StartProcess(g)
              /\ wrapper[g].stage = "launching"
              /\ wrapper'[g].stage \in {"serving", "gone"}
              /\ provider'.process[g] = "live"
           \/ /\ ProcessStep(g) /\ provider.process[g] = "live"
              /\ provider'.process[g] = "dead"
<1>1. provider \in Providers
  BY DEF IInv, TypeOK
<1>2. ASSUME NEW h \in Generations, ProcessStep(h)
      PROVE  \/ provider'.process[g] = provider.process[g]
             \/ /\ ProcessStep(g) /\ StartProcess(g)
                /\ wrapper[g].stage = "launching"
                /\ wrapper'[g].stage \in {"serving", "gone"}
                /\ provider'.process[g] = "live"
             \/ /\ ProcessStep(g) /\ provider.process[g] = "live"
                /\ provider'.process[g] = "dead"
  BY <1>1, <1>2 DEF ProcessStep, Providers
<1>3. ASSUME NEW h \in Generations, NEW d \in Deliveries, QueueStep(h, d)
      PROVE  provider'.process[g] = provider.process[g]
  BY <1>3, Queued
<1>4. ASSUME NEW d \in Deliveries, NoticeStep(d)
      PROVE  provider'.process[g] = provider.process[g]
  BY <1>1, <1>4 DEF NoticeStep, Providers
<1> QED BY <1>2, <1>3, <1>4, Providing

(* A wrapper that is not moved stays where it may stand.                    *)
LEMMA StageStays ==
    ASSUME IInv, [Next]_vars, NEW g \in Generations, Unmoved(g)
    PROVE  StageRows(g)'
<1> DEFINE w == wrapper[g]
<1>1. StageRows(g)
  BY LoopRowsParts DEF IInv
<1>2. w.stage \in {"enabling", "launching"} => provider'.process[g] = "none"
  BY <1>1, ProcessChanges DEF StageRows, Unmoved
<1>3. ASSUME w.stage \in {"queueing", "waiting"}
      PROVE  /\ w.claim \in Of(g)' /\ deliveries'[w.claim].state = "attempting"
             /\ provider'.runs[w.claim] =
                   IF w.stage = "queueing" THEN 0 ELSE 1
  <2> DEFINE d == w.claim
  <2>1. /\ w.request = NoRequest /\ d \in Of(g) /\ d \in Deliveries
        /\ deliveries[d].state = "attempting"
        /\ provider.runs[d] = IF w.stage = "queueing" THEN 0 ELSE 1
    BY <1>1, <1>3 DEF StageRows, Of
  <2>2. d \in Of(g)' /\ deliveries[d].session = g /\ g # 0
    BY <2>1, SessionKept, SessionsOfDeliveries
  <2>3. ASSUME NEW h \in Generations PROVE ~OutcomeStep(h, d)
    <3>1. OutcomeStep(h, d) => h = g
      BY <2>1, <2>2, SessionsOfDeliveries DEF OutcomeStep
    <3> QED BY <2>1, <3>1, RequestKinds DEF OutcomeStep
  <2>4. ASSUME NEW h \in Generations PROVE ~QueueStep(h, d)
    <3>1. QueueStep(h, d) => h = g
      BY <2>1, <2>2, SessionsOfDeliveries DEF QueueStep
    <3> QED BY <3>1 DEF QueueStep, Unmoved
  <2>5. \A h \in Generations : ~GrantStep(h, d)
    BY <2>2 DEF GrantStep
  <2>6. deliveries'[d].state = "attempting"
    BY <2>1, <2>3, <2>5, DeliveryChanges
  <2>7. provider'.runs[d] = provider.runs[d]
    BY <2>1, <2>4, QueueChanges
  <2> QED BY <2>1, <2>2, <2>6, <2>7
<1>4. /\ wrapper'[g].stage = w.stage /\ wrapper'[g].request = w.request
      /\ wrapper'[g].claim = w.claim
  BY DEF Unmoved
<1>5. /\ w.stage \in {"queueing", "waiting"} => w.request = NoRequest
      /\ w.stage \notin {"queueing", "waiting", "gone"} => w.claim = NoDelivery
      /\ w.stage \notin {"serving", "gone"} => w.request = NoRequest
  BY <1>1 DEF StageRows
<1> HIDE DEF w
<1> QED BY <1>2, <1>3, <1>4, <1>5 DEF StageRows

LEMMA LoopRowsKept ==
    ASSUME IInv, [Next]_vars
    PROVE  LoopRows'
<1> SUFFICES ASSUME NEW g \in Generations
             PROVE  StageRows(g)' /\ RequestRows(g)'
  BY LoopRowsParts
<1>1. StageRows(g) /\ RequestRows(g) /\ wrapper[g].request \in Requests
  BY LoopRowsParts DEF IInv, TypeOK, Wrappers
<1>2. CASE Unmoved(g)
  BY <1>2, StageStays, RequestStays DEF Unmoved
<1>3. CASE Launch /\ g = generation'
           /\ wrapper'[g] = [NoWrapper EXCEPT !.stage = "enabling"]
  <2>1. /\ wrapper'[g].stage = "enabling" /\ wrapper'[g].request = NoRequest
        /\ wrapper'[g].claim = NoDelivery /\ wrapper'[g].request.kind = "ask"
    BY <1>3 DEF NoWrapper, NoRequest
  <2>2. provider'.process[g] = "none"
    <3>1. g > generation
      BY <1>3, Numbers DEF Launch, IInv, TypeOK
    <3>2. provider.process[g] = "none" /\ UNCHANGED provider
      BY <1>3, <3>1 DEF IInv, Unborn, Launch
    <3> QED BY <3>2
  <2> QED BY <2>1, <2>2 DEF StageRows, RequestRows
<1>4. CASE Wrapper(g) /\ Moves(g, wrapper'[g])
  <2> DEFINE w == wrapper'[g]
  <2>1. CASE SamePlace(g, w)
    BY <1>2, <2>1 DEF SamePlace, Unmoved
  <2>2. CASE Leaves(g, w)
    <3>1. w.stage = "gone" /\ w.request = wrapper[g].request
      BY <2>2 DEF Leaves
    <3>2. RequestRows(g)'
      BY <3>1, RequestStays
    <3>3. StageRows(g)'
      BY <3>1 DEF StageRows
    <3> QED BY <3>2, <3>3
  <2>3. CASE Advances(g, w)
    <3>1. /\ w.request = wrapper[g].request /\ w.claim = wrapper[g].claim
          /\ wrapper[g].stage \in {"enabling", "launching", "queueing"}
          /\ w.stage \in {"launching", "serving", "waiting"}
      BY <2>3 DEF Advances
    <3>2. RequestRows(g)'
      BY <3>1, RequestStays
    <3>3. w.request = NoRequest
      BY <1>1, <3>1 DEF StageRows
    <3>4. CASE wrapper[g].stage = "enabling" /\ w.stage = "launching"
      <4>1. provider.process[g] = "none" /\ w.claim = NoDelivery
        BY <1>1, <3>1, <3>4 DEF StageRows
      <4>2. provider'.process[g] = "none"
        BY <3>4, <4>1, ProcessChanges
      <4> QED BY <3>2, <3>3, <3>4, <4>1, <4>2 DEF StageRows
    <3>5. CASE wrapper[g].stage = "launching" /\ w.stage = "serving"
      <4>1. w.claim = NoDelivery
        BY <1>1, <3>1, <3>5 DEF StageRows
      <4> QED BY <3>2, <3>5, <4>1 DEF StageRows
    <3>6. CASE /\ wrapper[g].stage = "queueing" /\ w.stage = "waiting"
               /\ \E taken \in BOOLEAN : Spawned(g, wrapper[g].claim, taken)
      <4> DEFINE d == wrapper[g].claim
      <4>1. /\ d \in Of(g) /\ d \in Deliveries /\ provider.runs[d] = 0
            /\ deliveries[d].state = "attempting"
        BY <1>1, <3>6 DEF StageRows, Of
      <4>2. provider'.runs[d] = 1
        BY <3>6, <4>1 DEF Spawned, IInv, TypeOK, Providers
      <4>3. PICK h \in Generations : QueueStep(h, d)
        BY <4>1, <4>2, QueueChanges
      <4>4. UNCHANGED deliveries
        BY <4>3 DEF QueueStep
      <4>5. /\ d \in Of(g)' /\ deliveries'[d].state = "attempting"
        BY <4>1, <4>4, SessionKept
      <4>6. w.claim = d
        BY <3>1
      <4> HIDE DEF d, w
      <4>7. StageRows(g)'
        BY <3>3, <3>6, <4>2, <4>5, <4>6 DEF StageRows, w
      <4> QED BY <3>2, <4>7
    <3> QED BY <2>3, <3>4, <3>5, <3>6 DEF Advances
  <2>4. CASE Serves(g, w)
    <3>1. w.stage = "serving" /\ w.claim = NoDelivery
      BY <1>1, <2>4 DEF Serves, StageRows
    <3>2. StageRows(g)'
      BY <3>1 DEF StageRows
    <3>3. CASE w.request = NoRequest
      BY <3>2, <3>3, RequestKinds DEF RequestRows
    <3>4. ASSUME NEW d \in Deliveries, Unused(d), w.request = ClaimRequest(d),
                 UNCHANGED <<deliveries, provider>>
          PROVE  RequestRows(g)'
      <4>1. /\ deliveries[d].session = 0 /\ deliveries[d].state = "none"
            /\ provider.runs[d] = 0
        BY <3>4 DEF Unused, IInv, DeliveryRows, NoClaim
      <4>2. /\ wrapper'[g].request.kind = "claim"
            /\ wrapper'[g].request.delivery = d
        BY <3>4, RequestKinds
      <4> QED BY <3>4, <4>1, <4>2 DEF RequestRows
    <3> QED BY <2>4, <3>2, <3>3, <3>4 DEF Serves
  <2>5. CASE Obtains(g, w)
    <3> DEFINE d == wrapper[g].request.delivery
    <3>1. /\ w.stage = "queueing" /\ w.request = NoRequest /\ w.claim = d
          /\ deliveries'[d].session = g /\ Claim(g)
          /\ wrapper[g].request.kind = "claim"
      BY <2>5 DEF Obtains
    <3>2. /\ d \in Deliveries /\ UNCHANGED provider
      BY <3>1, Granting
    <3>3. /\ deliveries[d].state \in {"none", "attempting"}
          /\ provider.runs[d] = 0
      BY <1>1, <3>1 DEF RequestRows
    <3>4. deliveries'[d].state = "attempting"
      <4>1. CASE deliveries[d].session = 0
        <5>1. deliveries'[d] # deliveries[d]
          BY <3>1, <3>2, <4>1, SessionsOfDeliveries
        <5>2. deliveries' = [deliveries EXCEPT ![d] =
                [session |-> g, state |-> "attempting", received |-> FALSE]]
          BY <3>1, <5>1, Granting
        <5> QED BY <3>2, <5>2 DEF IInv, TypeOK
      <4>2. CASE deliveries[d].session # 0
        BY <3>1, <3>2, <3>3, <4>2, Granting DEF IInv, DeliveryRows
      <4> QED BY <4>1, <4>2
    <3>5. d \in Of(g)'
      BY <3>1, <3>2 DEF Of
    <3> HIDE DEF d, w
    <3>6. StageRows(g)'
      BY <3>1, <3>2, <3>3, <3>4, <3>5 DEF StageRows, w
    <3>7. RequestRows(g)'
      BY <3>1, RequestKinds DEF RequestRows, w
    <3> QED BY <3>6, <3>7
  <2>6. CASE Concludes(g, w)
    <3> DEFINE d == wrapper[g].claim
    <3>1. PICK o \in Outcomes :
             /\ w.request = ObserveRequest(d, o)
             /\ o = "accepted" => d \in provider.taken
      BY <2>6 DEF Concludes
    <3>2. /\ w.stage = "serving" /\ w.claim = NoDelivery /\ d \in Of(g)
          /\ UNCHANGED <<deliveries, provider>>
          /\ wrapper[g].stage \in {"queueing", "waiting"}
      BY <2>6 DEF Concludes
    <3>3. d \in Of(g)' /\ deliveries'[d].state = "attempting" /\ d \in Deliveries
      BY <1>1, <3>2 DEF StageRows, Of
    <3>4. /\ w.request.kind = "observe" /\ w.request.delivery = d
          /\ w.request.outcome = o
      BY <3>1, <3>3, RequestKinds
    <3> HIDE DEF d, w
    <3>5. StageRows(g)'
      BY <3>2 DEF StageRows, w
    <3>6. RequestRows(g)'
      BY <3>1, <3>2, <3>3, <3>4 DEF RequestRows, w
    <3> QED BY <3>5, <3>6
  <2> QED BY <1>4, <2>1, <2>2, <2>3, <2>4, <2>5, <2>6 DEF Moves
<1> QED BY <1>2, <1>3, <1>4, Wrapping

(* A claim's identifier is fresh when it is chosen.                         *)
LEMMA ClaimsStayApart ==
    ASSUME IInv, [Next]_vars
    PROVE  ClaimsApart'
<1>1. ASSUME NEW g \in Generations
      PROVE  \/ wrapper'[g].request = wrapper[g].request
             \/ wrapper'[g].request.kind # "claim"
             \/ /\ \E d \in Deliveries :
                      Unused(d) /\ wrapper'[g].request = ClaimRequest(d)
                /\ \A h \in Generations : h # g => Unmoved(h)
  <2>1. CASE Unmoved(g)
    BY <2>1 DEF Unmoved
  <2>2. CASE wrapper'[g] = [NoWrapper EXCEPT !.stage = "enabling"]
    BY <2>2 DEF NoWrapper, NoRequest
  <2>3. CASE /\ Moves(g, wrapper'[g])
             /\ \A h \in Generations : h # g => Unmoved(h)
    <3>1. CASE SamePlace(g, wrapper'[g]) \/ Leaves(g, wrapper'[g])
               \/ Advances(g, wrapper'[g])
      BY <3>1 DEF SamePlace, Leaves, Advances
    <3>2. CASE Serves(g, wrapper'[g])
      BY <2>3, <3>2, RequestKinds DEF Serves
    <3>3. CASE Obtains(g, wrapper'[g])
      BY <3>3, RequestKinds DEF Obtains
    <3>4. CASE Concludes(g, wrapper'[g])
      BY <3>4, RequestKinds DEF Concludes, Of
    <3> QED BY <2>3, <3>1, <3>2, <3>3, <3>4 DEF Moves
  <2> QED BY <2>1, <2>2, <2>3, Wrapping
<1> SUFFICES ASSUME NEW g \in Generations, NEW h \in Generations,
                    wrapper'[g].request.kind = "claim",
                    wrapper'[h].request.kind = "claim",
                    wrapper'[g].request.delivery = wrapper'[h].request.delivery,
                    g # h
             PROVE  FALSE
  BY DEF ClaimsApart
<1>2. CASE /\ wrapper'[g].request = wrapper[g].request
           /\ wrapper'[h].request = wrapper[h].request
  BY <1>2 DEF IInv, ClaimsApart
<1>3. ASSUME NEW x \in Generations, NEW y \in Generations, x # y,
             wrapper'[x].request # wrapper[x].request,
             wrapper'[x].request.kind = "claim",
             wrapper'[y].request.kind = "claim",
             wrapper'[x].request.delivery = wrapper'[y].request.delivery
      PROVE  FALSE
  <2>1. PICK d \in Deliveries :
           Unused(d) /\ wrapper'[x].request = ClaimRequest(d)
    BY <1>1, <1>3
  <2>2. wrapper'[y].request = wrapper[y].request
    BY <1>1, <1>3 DEF Unmoved
  <2>3. wrapper[y].request.kind # "ask" /\ wrapper[y].request.delivery = d
    BY <1>3, <2>1, <2>2, RequestKinds
  <2> QED BY <2>1, <2>3 DEF Unused
<1> QED BY <1>2, <1>3

-----------------------------------------------------------------------------
(* The agent's notice, and notices on their way.                            *)

(* A notice in the agent's hands stays there until its receipt is answered. *)
LEMMA NoticeHeld ==
    ASSUME IInv, [Next]_vars, ~Launch, agent.notice # NoDelivery,
           agent'.notice # agent.notice
    PROVE  /\ agent'.notice = NoDelivery
           /\ \/ agent'.due /\ deliveries'[agent.notice].received
              \/ TurnedAway'
<1>1. agent \in Agents
  BY DEF IInv, TypeOK
<1>2. PICK k \in Receipts : ReportReceipt(k)
  <2>1. ~UNCHANGED agent
    OBVIOUS
  <2>2. \A saved : ~Reborn(saved)
    BY DEF Reborn
  <2>3. ~Poll
    BY Polled
  <2>4. agent' # [agent EXCEPT !.through = 0]
    BY <1>1 DEF Agents
  <2>5. \A d \in Deliveries : ~NoticeStep(d)
    BY DEF NoticeStep
  <2>6. \A ids : agent' # [agent EXCEPT !.through = Through(ids)]
    BY <1>1 DEF Agents
  <2> QED BY <2>1, <2>2, <2>3, <2>4, <2>5, <2>6, AgentSteps DEF AgentStep
<1> DEFINE d == agent.notice
<1>3. /\ d \in Deliveries
      /\ receipts \in [Deliveries -> [Receipts -> {"none", "yes", "no"}]]
  BY <1>1 DEF Agents, IInv, TypeOK
<1>4. PICK answer \in {"yes", "no"} :
         /\ receipts' = [receipts EXCEPT ![d][k] = answer]
         /\ answer = "yes" => deliveries'[d].received
         /\ \/ UNCHANGED agent
            \/ /\ answer = "yes"
               /\ agent' = [agent EXCEPT !.notice = NoDelivery, !.due = TRUE]
            \/ /\ answer = "no"
               /\ agent' = [agent EXCEPT !.notice = NoDelivery]
  BY <1>2, Reporting
<1>5. CASE answer = "yes"
  <2>1. agent' = [agent EXCEPT !.notice = NoDelivery, !.due = TRUE]
    BY <1>4, <1>5
  <2>2. agent'.notice = NoDelivery /\ agent'.due
    BY <1>1, <2>1 DEF Agents
  <2> QED BY <1>4, <1>5, <2>2
<1>6. CASE answer = "no"
  <2>1. agent' = [agent EXCEPT !.notice = NoDelivery]
    BY <1>4, <1>6
  <2>2. agent'.notice = NoDelivery
    BY <1>1, <2>1 DEF Agents
  <2>3. receipts'[d][k] = "no"
    BY <1>3, <1>4, <1>6
  <2> QED BY <1>3, <2>2, <2>3 DEF TurnedAway
<1> QED BY <1>4, <1>5, <1>6

(* The agent owes a poll until it polls.                                    *)
LEMMA PollOwed ==
    ASSUME IInv, [Next]_vars, ~Launch, agent.due, ~agent'.due
    PROVE  Poll
<1>1. agent \in Agents
  BY DEF IInv, TypeOK
<1>2. \A saved : ~Reborn(saved)
  BY DEF Reborn
<1>3. agent' # [agent EXCEPT !.through = 0]
  BY <1>1 DEF Agents
<1>4. \A d \in Deliveries : ~NoticeStep(d)
  BY <1>1 DEF NoticeStep, Agents
<1>5. /\ agent' # [agent EXCEPT !.notice = NoDelivery, !.due = TRUE]
      /\ agent' # [agent EXCEPT !.notice = NoDelivery]
  BY <1>1 DEF Agents
<1>6. \A ids : agent' # [agent EXCEPT !.through = Through(ids)]
  BY <1>1 DEF Agents
<1> QED BY <1>2, <1>3, <1>4, <1>5, <1>6, AgentSteps DEF AgentStep

LEMMA GenerationKept ==
    ASSUME IInv, [Next]_vars
    PROVE  /\ ~Launch => generation' = generation
           /\ Launch => /\ generation' \in Generations
                        /\ generation' > generation
                        /\ \A d \in Deliveries :
                              deliveries'[d].session # generation'
                        /\ provider'.process[generation'] = "none"
                        /\ agent'.due /\ agent'.notice = NoDelivery
<1>1. ~Launch => generation' = generation
  BY Frame
<1>2. CASE Launch
  <2>1. /\ generation' = generation + 1 /\ generation < MaxGenerations
        /\ UNCHANGED <<deliveries, provider>>
    BY <1>2 DEF Launch
  <2>2. generation' \in Generations /\ generation' > generation
    BY <2>1, Numbers DEF IInv, TypeOK, Generations
  <2>3. PICK g \in Generations : g = generation'
    BY <2>2
  <2>4. g > generation
    BY <2>2, <2>3
  <2>5. Of(g) = {} /\ provider.process[g] = "none"
    BY <2>4 DEF IInv, Unborn
  <2>6. \A d \in Deliveries : deliveries'[d].session # generation'
    BY <2>1, <2>3, <2>5 DEF Of
  <2>7. agent'.due /\ agent'.notice = NoDelivery
    BY <1>2 DEF Launch, Newborn
  <2> QED BY <1>2, <2>1, <2>2, <2>3, <2>5, <2>6, <2>7
<1> QED BY <1>1, <1>2

LEMMA AgentRowsKept ==
    ASSUME IInv, [Next]_vars
    PROVE  AgentRows'
<1>1. CASE Launch
  BY <1>1, GenerationKept DEF AgentRows
<1>2. CASE ~Launch
  <2>1. generation' = generation
    BY <1>2, GenerationKept
  <2>2. ASSUME agent'.notice # NoDelivery
        PROVE  generation # 0 /\ agent'.notice \in Of(generation)'
    <3>1. CASE agent.notice # NoDelivery
      <4>1. agent'.notice = agent.notice
        BY <1>2, <2>2, <3>1, NoticeHeld
      <4>2. generation # 0 /\ agent.notice \in Of(generation)
        BY <3>1 DEF IInv, AgentRows
      <4>3. agent.notice \in Deliveries /\ generation \in Generations
        BY <4>2, Numbers DEF Of, Generations, IInv, TypeOK
      <4>4. agent.notice \in Of(generation)'
        BY <2>1, <4>2, <4>3, SessionKept DEF Of
      <4> QED BY <2>1, <4>1, <4>2, <4>4 DEF Of
    <3>2. CASE agent.notice = NoDelivery
      <4>1. agent \in Agents
        BY DEF IInv, TypeOK
      <4>2. PICK d \in Deliveries : NoticeStep(d)
        <5>1. ~UNCHANGED agent
          BY <2>2, <3>2
        <5>2. \A saved : ~Reborn(saved)
          BY <1>2 DEF Reborn
        <5>3. ~Poll
          BY <2>2, <3>2, Polled
        <5>4. agent' # [agent EXCEPT !.through = 0]
          BY <2>2, <3>2, <4>1 DEF Agents
        <5>5. /\ agent' # [agent EXCEPT !.notice = NoDelivery, !.due = TRUE]
              /\ agent' # [agent EXCEPT !.notice = NoDelivery]
          BY <2>2, <4>1 DEF Agents
        <5>6. \A ids : agent' # [agent EXCEPT !.through = Through(ids)]
          BY <2>2, <3>2, <4>1 DEF Agents
        <5> QED BY <5>1, <5>2, <5>3, <5>4, <5>5, <5>6, AgentSteps DEF AgentStep
      <4>3. /\ generation # 0 /\ UNCHANGED deliveries
            /\ agent'.notice = IF deliveries[d].session = generation
                               THEN d ELSE NoDelivery
        BY <4>1, <4>2 DEF NoticeStep, AgentLives, Agents
      <4>4. agent'.notice = d /\ deliveries[d].session = generation
        BY <2>2, <4>3
      <4>5. d \in Of(generation)'
        BY <2>1, <4>3, <4>4 DEF Of
      <4> QED BY <4>3, <4>4, <4>5
    <3> QED BY <3>1, <3>2
  <2>3. ASSUME generation # 0, provider'.process[generation] = "none"
        PROVE  agent'.due /\ agent'.notice = NoDelivery
    <3>1. generation \in Generations
      BY <2>3, Numbers DEF Generations, IInv, TypeOK
    <3>2. provider.process[generation] = "none"
      BY <2>3, <3>1, ProcessChanges
    <3>3. agent.due /\ agent.notice = NoDelivery
      BY <2>3, <3>2 DEF IInv, AgentRows
    <3>4. ~AgentLives
      BY <3>2 DEF AgentLives
    <3>5. agent'.due
      BY <1>2, <3>3, <3>4, PollOwed DEF Poll, Authenticated
    <3>6. agent'.notice = NoDelivery
      <4>1. agent \in Agents
        BY DEF IInv, TypeOK
      <4>2. ~Poll /\ \A d \in Deliveries : ~NoticeStep(d)
        BY <3>4 DEF Poll, Authenticated, NoticeStep
      <4>3. \A saved : ~Reborn(saved)
        BY <1>2 DEF Reborn
      <4>4. [agent EXCEPT !.through = 0].notice = agent.notice
        BY <4>1 DEF Agents
      <4>5. /\ [agent EXCEPT !.notice = NoDelivery, !.due = TRUE].notice
                  = NoDelivery
            /\ [agent EXCEPT !.notice = NoDelivery].notice = NoDelivery
        BY <4>1 DEF Agents
      <4>6. \A ids : [agent EXCEPT !.through = Through(ids)].notice
                        = agent.notice
        BY <4>1 DEF Agents
      <4> QED BY <3>3, <4>2, <4>3, <4>4, <4>5, <4>6, AgentSteps DEF AgentStep
    <3> QED BY <3>5, <3>6
  <2> QED BY <2>1, <2>2, <2>3 DEF AgentRows
<1> QED BY <1>1, <1>2

LEMMA RefusalsStay ==
    ASSUME IInv, [Next]_vars, TurnedAway
    PROVE  TurnedAway'
<1>1. PICK d \in Deliveries, k \in Receipts : receipts[d][k] = "no"
  BY DEF TurnedAway
<1>2. receipts'[d][k] = "no"
  BY <1>1, ReceiptChanges
<1> QED BY <1>2 DEF TurnedAway

LEMMA SuspensionStays ==
    ASSUME IInv, [Next]_vars, NEW d \in Deliveries,
           deliveries[d].state \in {"failed", "unknown"}
    PROVE  deliveries'[d].state \in {"failed", "unknown"}
<1>1. deliveries[d].session # 0
  BY DEF IInv, DeliveryRows, NoClaim
<1>2. \A g \in Generations :
         OutcomeStep(g, d) => wrapper[g].request.outcome = deliveries[d].state
  BY DEF OutcomeStep
<1> QED BY <1>1, <1>2, DeliveryChanges DEF GrantStep

(* A loop that is gone stays gone.                                          *)
LEMMA GoneStays ==
    ASSUME IInv, [Next]_vars, NEW g \in Generations, g <= generation,
           wrapper'[g].stage # "gone"
    PROVE  /\ wrapper[g].stage # "gone"
           /\ Unmoved(g) \/ (Moves(g, wrapper'[g]) /\ Wrapper(g))
<1>1. Unmoved(g) \/ (Moves(g, wrapper'[g]) /\ Wrapper(g))
  <2>1. Launch => g # generation'
    BY GenerationKept, Numbers DEF IInv, TypeOK, Generations
  <2> QED BY <2>1, Wrapping
<1> QED BY <1>1
        DEF Unmoved, Moves, SamePlace, Leaves, Advances, Serves, Obtains,
            Concludes

(* A notice that the provider took is queued or in the agent's hands.       *)
LEMMA TakenStays ==
    ASSUME IInv, [Next]_vars, ~Launch, generation # 0,
           NEW d \in Deliveries, d \in Of(generation),
           d \in provider'.taken, ~deliveries'[d].received
    PROVE  d \in provider'.notices \/ agent'.notice = d \/ TurnedAway'
<1>1. d # NoDelivery /\ deliveries[d].session = generation
  BY DeliveryAssumption DEF Of
<1>2. CASE d \in provider.taken
  <2>1. ~Received(d)
    BY SessionKept DEF Received
  <2>2. d \in provider.notices \/ agent.notice = d \/ TurnedAway
    BY <1>2, <2>1 DEF IInv, NoticesCarried
  <2>3. CASE d \in provider.notices /\ d \notin provider'.notices
    <3>1. NoticeStep(d)
      BY <1>2, <2>3, QueueChanges
    <3>2. agent'.notice = d
      BY <1>1, <3>1 DEF NoticeStep, IInv, TypeOK, Agents
    <3> QED BY <3>2
  <2>4. CASE agent.notice = d
    BY <1>1, <2>4, NoticeHeld
  <2> QED BY <2>2, <2>3, <2>4, RefusalsStay
<1>3. CASE d \notin provider.taken
  BY <1>3, QueueChanges
<1> QED BY <1>2, <1>3

(* A claimed notice is on its way until it is received or suspended.        *)
LEMMA CarriedStays ==
    ASSUME IInv, [Next]_vars, ~Launch, generation # 0,
           NEW d \in Deliveries, d \in Of(generation),
           wrapper'[generation].stage # "gone", ~deliveries'[d].received
    PROVE  \/ Carried(generation, d)' \/ agent'.notice = d
           \/ deliveries'[d].state \in {"failed", "unknown"}
           \/ TurnedAway'
<1>1. PICK g \in Generations : g = generation
  BY Numbers DEF Generations, IInv, TypeOK
<1>2. /\ d # NoDelivery /\ deliveries[d].session = g /\ ~Received(d)
      /\ generation' = generation
  BY <1>1, DeliveryAssumption, SessionKept, GenerationKept DEF Of, Received
<1>3. /\ wrapper[g].stage # "gone"
      /\ Unmoved(g) \/ (Moves(g, wrapper'[g]) /\ Wrapper(g))
  BY <1>1, GoneStays, Numbers DEF Generations
<1>4. \/ Carried(g, d) \/ agent.notice = d
      \/ deliveries[d].state \in {"failed", "unknown"} \/ TurnedAway
  BY <1>1, <1>2, <1>3 DEF IInv, NoticesCarried
<1> DEFINE Carried2 == \/ wrapper'[g].claim = d
                       \/ /\ wrapper'[g].request.kind # "ask"
                          /\ wrapper'[g].request.delivery = d
                       \/ d \in provider'.notices
           Goal == \/ Carried2 \/ agent'.notice = d
                   \/ deliveries'[d].state \in {"failed", "unknown"}
                   \/ TurnedAway'
<1> SUFFICES Goal
  BY <1>1, <1>2 DEF Carried
<1>5. CASE agent.notice = d
  BY <1>2, <1>5, NoticeHeld
<1>6. CASE deliveries[d].state \in {"failed", "unknown"}
  BY <1>6, SuspensionStays
<1>7. CASE TurnedAway
  BY <1>7, RefusalsStay
<1>8. ASSUME d \in provider'.taken PROVE Goal
  BY <1>8, TakenStays
<1>9. CASE d \in provider.notices
  <2>1. d \in provider.taken
    BY <1>9 DEF IInv, DeliveryRows
  <2>2. d \in provider'.taken
    BY <2>1, QueueChanges
  <2> QED BY <1>8, <2>2
<1>10. StageRows(g) /\ RequestRows(g)
  BY LoopRowsParts DEF IInv
<1>11. CASE wrapper[g].claim = d
  <2>1. wrapper[g].stage \in {"queueing", "waiting"}
    BY <1>2, <1>3, <1>10, <1>11 DEF StageRows
  <2>2. CASE Concludes(g, wrapper'[g])
    BY <1>11, <2>2, RequestKinds DEF Concludes, Of
  <2>3. CASE \/ Unmoved(g) \/ SamePlace(g, wrapper'[g])
             \/ Advances(g, wrapper'[g])
    BY <1>11, <2>3 DEF Unmoved, SamePlace, Advances
  <2>4. ~Serves(g, wrapper'[g]) /\ ~Obtains(g, wrapper'[g])
    BY <2>1 DEF Serves, Obtains
  <2>5. ~Leaves(g, wrapper'[g])
    BY <1>1 DEF Leaves
  <2> QED BY <1>3, <2>2, <2>3, <2>4, <2>5 DEF Moves
<1>12. CASE wrapper[g].request.kind # "ask" /\ wrapper[g].request.delivery = d
  <2>1. CASE wrapper'[g].request = wrapper[g].request
    BY <1>12, <2>1
  <2>2. CASE Serves(g, wrapper'[g])
    <3>1. CASE /\ wrapper[g].request.kind = "claim"
               /\ deliveries'[wrapper[g].request.delivery].session # g
      BY <1>2, <1>12, <3>1, SessionKept, SessionsOfDeliveries
    <3>2. CASE Observe(g)
      <4>1. /\ deliveries'[d].state = wrapper[g].request.outcome
            /\ wrapper[g].request.outcome \in Outcomes
            /\ wrapper[g].request.kind = "observe" /\ UNCHANGED provider
        BY <1>12, <3>2, Observing
      <4>2. CASE wrapper[g].request.outcome = "accepted"
        <5>1. d \in provider'.taken
          BY <1>10, <1>12, <4>1, <4>2 DEF RequestRows
        <5> QED BY <1>8, <5>1
      <4>3. CASE wrapper[g].request.outcome # "accepted"
        BY <4>1, <4>3 DEF Outcomes
      <4> QED BY <4>2, <4>3
    <3> QED BY <1>12, <2>2, <3>1, <3>2 DEF Serves
  <2>3. CASE Obtains(g, wrapper'[g])
    BY <1>12, <2>3 DEF Obtains
  <2>4. ~Concludes(g, wrapper'[g])
    BY <1>10, <1>12, RequestKinds DEF Concludes, StageRows
  <2>5. \/ wrapper'[g].request = wrapper[g].request
        \/ Serves(g, wrapper'[g]) \/ Obtains(g, wrapper'[g])
    BY <1>3, <2>4 DEF Moves, Unmoved, SamePlace, Leaves, Advances
  <2> QED BY <2>1, <2>2, <2>3, <2>5
<1> QED BY <1>4, <1>5, <1>6, <1>7, <1>9, <1>11, <1>12 DEF Carried

LEMMA NoticesStayCarried ==
    ASSUME IInv, [Next]_vars
    PROVE  NoticesCarried'
<1> SUFFICES ASSUME generation' # 0, NEW d \in Deliveries,
                    deliveries'[d].session = generation'
             PROVE  /\ wrapper'[generation'].stage # "gone"
                          /\ ~deliveries'[d].received =>
                          \/ Carried(generation, d)' \/ agent'.notice = d
                          \/ deliveries'[d].state \in {"failed", "unknown"}
                          \/ TurnedAway'
                    /\ d \in provider'.taken /\ ~deliveries'[d].received =>
                          d \in provider'.notices \/ agent'.notice = d
                          \/ TurnedAway'
  BY DEF NoticesCarried, Of, Received
<1>1. ~Launch /\ generation' = generation
  BY GenerationKept
<1>2. CASE d \in Of(generation)
  BY <1>1, <1>2, CarriedStays, TakenStays
<1>3. CASE d \notin Of(generation)
  <2>1. deliveries[d].session # generation
    BY <1>3 DEF Of
  <2>2. PICK g \in Generations : GrantStep(g, d) /\ g = generation
    BY <1>1, <2>1, DeliveryChanges
  <2>3. deliveries'[d].session = g /\ wrapper[g].request.delivery = d
    BY <1>1, <2>2 DEF GrantStep
  <2>4. \/ wrapper' = [wrapper EXCEPT ![g].connected = FALSE]
        \/ wrapper' = [wrapper EXCEPT ![g] =
              [@ EXCEPT !.stage = "queueing", !.request = NoRequest, !.claim = d]]
    <3>1. Claim(g)
      BY <2>2 DEF GrantStep
    <3>2. deliveries'[wrapper[g].request.delivery].session = g
      BY <2>3
    <3>3. \/ wrapper' = [wrapper EXCEPT ![g].connected = FALSE]
          \/ wrapper' = [wrapper EXCEPT ![g] =
                [@ EXCEPT !.stage = "queueing", !.request = NoRequest,
                          !.claim = wrapper[g].request.delivery]]
      BY <3>1, <3>2, Granting
    <3> QED BY <2>3, <3>3
  <2>5. wrapper \in [Generations -> Wrappers] /\ wrapper[g].request.kind = "claim"
    BY <2>2 DEF IInv, TypeOK, GrantStep
  <2>6. \/ wrapper'[g].claim = d
        \/ wrapper'[g].request = wrapper[g].request
    BY <2>4, <2>5 DEF Wrappers
  <2>7. Carried(generation, d)'
    BY <1>1, <2>2, <2>3, <2>5, <2>6 DEF Carried
  <2>8. d \notin provider'.taken
    <3>1. d \notin provider.taken
      BY <2>2 DEF GrantStep, IInv, DeliveryRows
    <3>2. UNCHANGED provider
      BY <2>2, Granting DEF GrantStep
    <3> QED BY <3>1, <3>2
  <2> QED BY <2>7, <2>8
<1> QED BY <1>2, <1>3

-----------------------------------------------------------------------------
(* No update is lost.                                                       *)

Awaited == agent.due \/ OnItsWay(generation) \/ Suspended(generation)
           \/ TurnedAway

AllShown ==
    /\ \A m \in Unacknowledged :
          m <= notes[generation].message => m <= agent.seen
    /\ \A e \in External : ReadsProgress =>
          (e <= notes[generation].event => e <= agent.checkpoint.progress)

LEMMA LostParts ==
    /\ NoUpdateLost <=>
          (AgentLives /\ wrapper[generation].stage # "gone" /\ ~Awaited => AllShown)
    /\ NoUpdateLost' <=>
          (AgentLives' /\ wrapper'[generation'].stage # "gone" /\ ~Awaited'
              => AllShown')
<1>1. NoUpdateLost <=>
         (AgentLives /\ wrapper[generation].stage # "gone" /\ ~Awaited => AllShown)
  BY Zenon DEF NoUpdateLost, Awaited, AllShown
<1>2. NoUpdateLost' <=>
         (AgentLives' /\ wrapper'[generation'].stage # "gone" /\ ~Awaited'
             => AllShown')
  BY Zenon DEF NoUpdateLost, Awaited, AllShown
<1> QED BY <1>1, <1>2

(* A delivery of the agent's session that is not received is awaited.       *)
LEMMA UnreceivedAwaited ==
    ASSUME IInv, [Next]_vars, generation' # 0,
           wrapper'[generation'].stage # "gone",
           NEW d \in Deliveries, deliveries'[d].session = generation',
           ~deliveries'[d].received
    PROVE  Awaited'
<1>1. \/ Carried(generation, d)' \/ agent'.notice = d
      \/ deliveries'[d].state \in {"failed", "unknown"} \/ TurnedAway'
  BY NoticesStayCarried DEF NoticesCarried, Of, Received
<1>2. d # NoDelivery
  BY DeliveryAssumption
<1> QED BY <1>1, <1>2 DEF Awaited, OnItsWay, Suspended, Of, Received

(* Receiving a notice leaves a poll owed, or the notice in hand.            *)
LEMMA ReceiptAwaited ==
    ASSUME IInv, [Next]_vars, ~Launch, NEW d \in Deliveries, ReceiptStep(d)
    PROVE  Awaited'
<1>1. agent.notice # NoDelivery
  BY DeliveryAssumption DEF ReceiptStep
<1>2. CASE agent'.notice = agent.notice
  BY <1>1, <1>2 DEF Awaited, OnItsWay
<1>3. CASE agent'.notice # agent.notice
  BY <1>1, <1>3, NoticeHeld DEF Awaited
<1> QED BY <1>2, <1>3

(* Only a poll ends the waiting.                                            *)
LEMMA AwaitedUntilPolled ==
    ASSUME IInv, [Next]_vars, ~Launch, generation # 0,
           wrapper'[generation'].stage # "gone", Awaited, ~Awaited'
    PROVE  Poll
<1>1. generation' = generation
  BY GenerationKept
<1>2. CASE TurnedAway
  BY <1>2, RefusalsStay DEF Awaited
<1>3. CASE Suspended(generation)
  <2>1. PICK d \in Deliveries : /\ deliveries[d].session = generation
                                /\ deliveries[d].state \in {"failed", "unknown"}
    BY <1>3 DEF Suspended, Of
  <2>2. /\ deliveries'[d].session = generation'
        /\ deliveries'[d].state \in {"failed", "unknown"}
    BY <1>1, <2>1, SessionKept, SuspensionStays
  <2> QED BY <2>2 DEF Awaited, Suspended, Of
<1>4. CASE agent.due
  BY <1>4, PollOwed DEF Awaited
<1>5. CASE agent.notice # NoDelivery
  <2>1. agent'.notice = NoDelivery
    BY DEF Awaited, OnItsWay
  <2> QED BY <1>5, <2>1, NoticeHeld DEF Awaited
<1>6. CASE \E d \in Of(generation) : ~Received(d)
  <2>1. PICK d \in Deliveries :
           deliveries[d].session = generation /\ ~deliveries[d].received
    BY <1>6 DEF Of, Received
  <2>2. deliveries'[d].session = generation'
    BY <1>1, <2>1, SessionKept
  <2>3. CASE ~deliveries'[d].received
    BY <1>1, <2>2, <2>3, UnreceivedAwaited
  <2>4. CASE deliveries'[d].received
    <3>1. ReceiptStep(d)
      BY <2>1, <2>4, DeliveryChanges
    <3> QED BY <3>1, ReceiptAwaited
  <2> QED BY <2>3, <2>4
<1> QED BY <1>2, <1>3, <1>4, <1>5, <1>6 DEF Awaited, OnItsWay

(* What was shown stays shown while the cursors stay.                       *)
LEMMA ShownStays ==
    ASSUME IInv, [Next]_vars, ~Launch, generation \in Generations, AllShown,
           ~agent'.due,
           notes'[generation].message = notes[generation].message,
           notes'[generation].event = notes[generation].event
    PROVE  AllShown'
<1>1. PICK g \in Generations : g = generation /\ generation' = g
  BY GenerationKept
<1>2. /\ notes[g].message \in Nat /\ notes[g].message <= Len(messages)
      /\ notes[g].event \in Nat /\ notes[g].event <= Len(events)
      /\ agent \in Agents /\ agent.seen \in Nat
      /\ agent.checkpoint.progress \in Nat
      /\ agent.seen <= Len(messages) /\ agent.checkpoint.progress <= Len(events)
      /\ Len(messages) \in Nat /\ Len(events) \in Nat
  <2>1. /\ notes[g].message <= Len(messages) /\ notes[g].event <= Len(events)
        /\ notes[g] \in Notes /\ agent \in Agents
        /\ agent.seen <= Len(messages)
        /\ agent.checkpoint.progress <= Len(events)
    BY DEF IInv, TypeOK, Bounds
  <2> QED BY <2>1, RowCounts, Numbers DEF Notes, Agents
<1>3. /\ Len(messages) <= Len(messages') /\ Len(events) <= Len(events')
      /\ Len(messages') \in Nat /\ Len(events') \in Nat
      /\ DOMAIN messages = 1..Len(messages) /\ DOMAIN events = 1..Len(events)
      /\ DOMAIN messages' = 1..Len(messages')
      /\ DOMAIN events' = 1..Len(events')
      /\ \A m \in 1..Len(messages) : messages[m] => messages'[m]
      /\ \A e \in 1..Len(events) : events'[e] = events[e]
  BY Rows, RowCounts, Numbers
<1>4. /\ agent'.seen = agent.seen \/ agent'.seen = Len(messages)
      /\ \/ agent'.checkpoint.progress = agent.checkpoint.progress
         \/ ReadsProgress => agent'.checkpoint.progress = Len(events)
  <2>1. CASE Poll
    BY <2>1, Polled
  <2>2. CASE ~Poll
    <3>1. \A saved : ~Reborn(saved)
      BY DEF Reborn
    <3>2. \A b : (\/ b = [agent EXCEPT !.through = 0]
                  \/ b = [agent EXCEPT !.notice = NoDelivery, !.due = TRUE]
                  \/ b = [agent EXCEPT !.notice = NoDelivery])
                 => b.seen = agent.seen /\ b.checkpoint = agent.checkpoint
      BY <1>2 DEF Agents
    <3>3. \A ids, b : b = [agent EXCEPT !.through = Through(ids)]
                 => b.seen = agent.seen /\ b.checkpoint = agent.checkpoint
      BY <1>2 DEF Agents
    <3>4. \A d \in Deliveries : NoticeStep(d)
                 => agent'.seen = agent.seen /\ agent'.checkpoint = agent.checkpoint
      BY <1>2 DEF NoticeStep, Agents
    <3>5. agent'.seen = agent.seen /\ agent'.checkpoint = agent.checkpoint
      BY <2>2, <3>1, <3>2, <3>3, <3>4, AgentSteps DEF AgentStep
    <3> QED BY <3>5
  <2> QED BY <2>1, <2>2
<1>5. ASSUME NEW m \in 1..Len(messages'), ~messages'[m], m <= notes[g].message
      PROVE  m <= agent'.seen
  <2>1. m \in 1..Len(messages) /\ ~messages[m]
    BY <1>2, <1>3, <1>5
  <2>2. m <= agent.seen
    BY <1>1, <1>3, <1>5, <2>1 DEF AllShown, Unacknowledged
  <2> QED BY <1>2, <1>4, <2>1, <2>2
<1>6. ASSUME NEW e \in 1..Len(events'), events'[e] = "external", ReadsProgress,
             e <= notes[g].event
      PROVE  e <= agent'.checkpoint.progress
  <2>1. e \in 1..Len(events) /\ events[e] = "external"
    BY <1>2, <1>3, <1>6
  <2>2. e <= agent.checkpoint.progress
    BY <1>1, <1>3, <1>6, <2>1 DEF AllShown, External
  <2> QED BY <1>2, <1>4, <1>6, <2>1, <2>2
<1>7. /\ notes'[g].message = notes[g].message
      /\ notes'[g].event = notes[g].event
  BY <1>1
<1> QED BY <1>1, <1>3, <1>5, <1>6, <1>7 DEF AllShown, Unacknowledged, External

(* A poll shows everything the cursors have passed.                         *)
LEMMA PollShows ==
    ASSUME IInv, [Next]_vars, Poll, generation \in Generations, ~agent'.due
    PROVE  AllShown'
<1>1. /\ UNCHANGED <<generation, messages, events, notes>>
      /\ agent'.seen = Len(messages)
      /\ ReadsProgress => agent'.checkpoint.progress = Len(events)
  BY Polled DEF Poll, world, happened, store
<1>2. /\ DOMAIN messages = 1..Len(messages) /\ DOMAIN events = 1..Len(events)
  BY RowCounts
<1>3. /\ \A m \in DOMAIN messages' : m <= agent'.seen
      /\ ReadsProgress => \A e \in DOMAIN events' : e <= agent'.checkpoint.progress
  BY <1>1, <1>2
<1> QED BY <1>3 DEF AllShown, Unacknowledged, External

LEMMA NoUpdateGetsLost ==
    ASSUME IInv, [Next]_vars
    PROVE  NoUpdateLost'
<1> SUFFICES ASSUME AgentLives', wrapper'[generation'].stage # "gone", ~Awaited'
             PROVE  AllShown'
  BY LostParts
<1>1. generation' # 0 /\ provider'.process[generation'] = "live"
  BY DEF AgentLives
<1>2. ~Launch /\ generation' = generation
  BY <1>1, GenerationKept
<1>3. PICK g \in Generations : g = generation
  BY <1>1, <1>2, Numbers DEF Generations, IInv, TypeOK
<1>4. wrapper[g].stage # "gone"
  BY <1>2, <1>3, GoneStays, Numbers DEF Generations
<1>5. ~agent'.due
  BY DEF Awaited
<1>6. CASE Poll
  BY <1>3, <1>5, <1>6, PollShows
<1>7. CASE ~Poll
  <2>1. ~Awaited
    BY <1>1, <1>2, <1>7, AwaitedUntilPolled
  <2>2. provider.process[g] = "live"
    <3>1. CASE provider.process[g] # "live"
      <4>1. ProcessStep(g) /\ wrapper[g].stage = "launching"
        BY <1>1, <1>2, <1>3, <3>1, ProcessChanges
      <4>2. provider.process[g] = "none"
        BY <4>1 DEF IInv, LoopRows
      <4>3. agent.due
        BY <1>1, <1>2, <1>3, <4>2 DEF IInv, AgentRows
      <4> QED BY <2>1, <4>3 DEF Awaited
    <3> QED BY <3>1
  <2>3. AllShown
    BY <1>1, <1>2, <1>3, <1>4, <2>1, <2>2, LostParts DEF AgentLives, IInv
  <2>4. /\ notes'[g].message = notes[g].message
        /\ notes'[g].event = notes[g].event
    <3>1. notes \in [Generations -> Notes]
      BY DEF IInv, TypeOK
    <3>2. ASSUME NEW h \in Generations, EnableStep(h)
          PROVE  notes'[g] = notes[g]
      <4>1. g # h
        BY <2>2, <3>2 DEF EnableStep, IInv, LoopRows
      <4> QED BY <3>1, <3>2, <4>1 DEF EnableStep
    <3>3. ASSUME NEW t \in Threads, BindStep(t)
          PROVE  /\ notes'[g].message = notes[g].message
                 /\ notes'[g].event = notes[g].event
      BY <1>3, <3>1, <3>3 DEF BindStep, Notes
    <3>4. ASSUME NEW h \in Generations, NEW d \in Deliveries, GrantStep(h, d)
          PROVE  FALSE
      <4>1. h = g
        BY <1>3, <3>4 DEF GrantStep, Current
      <4>2. deliveries'[d].session = g /\ ~deliveries'[d].received
        BY <3>4, <4>1 DEF GrantStep, IInv, TypeOK
      <4> QED BY <1>1, <1>2, <1>3, <4>2, UnreceivedAwaited
    <3>5. ASSUME NEW d \in Deliveries, ReceiptStep(d)
          PROVE  FALSE
      BY <1>2, <3>5, ReceiptAwaited
    <3>6. CASE UNCHANGED notes
      BY <3>6
    <3>7. CASE \E t \in Threads : BindStep(t)
      BY <3>3, <3>7
    <3>8. CASE \E h \in Generations : EnableStep(h)
      BY <3>2, <3>8
    <3> QED BY <3>4, <3>5, <3>6, <3>7, <3>8, NotesStep
  <2> QED BY <1>2, <1>3, <1>5, <2>3, <2>4, ShownStays
<1> QED BY <1>6, <1>7

-----------------------------------------------------------------------------
(* Everything a step keeps, and what follows.                               *)

LEMMA Consecution == IInv /\ [Next]_vars => IInv'
<1> SUFFICES ASSUME IInv, [Next]_vars PROVE IInv'
  OBVIOUS
<1>1. TypeOK' /\ Unborn' /\ Bounds'
  BY Typed, UnbornHaveNothing, CursorsBounded
<1>2. HandledFirst' /\ HandledThrough'
  BY HandledConsecution
<1>3. DeliveryRows' /\ OneUnsettled'
  BY DeliveryRowsKept, OneUnsettledKept
<1>4. LoopRows' /\ ClaimsApart' /\ AgentRows'
  BY LoopRowsKept, ClaimsStayApart, AgentRowsKept
<1>5. NoticesCarried' /\ NoUpdateLost'
  BY NoticesStayCarried, NoUpdateGetsLost
<1> QED BY <1>1, <1>2, <1>3, <1>4, <1>5 DEF IInv

(* The rows of deliveries, the loops that carry them, the cursors and the   *)
(* agent's notices agree after every step (state/notifications.rs,          *)
(* state/inbox.rs).                                                         *)
THEOREM Inductive == Spec => []IInv
<1>1. Init => IInv
  BY Initially
<1>2. IInv /\ [Next]_vars => IInv'
  BY Consecution
<1> QED BY <1>1, <1>2, PTL DEF Spec

(* While its wrapper and provider live, an update that the store's cursors  *)
(* have passed was read by the agent, or the agent owes a poll, or a notice *)
(* is on its way, or delivery is suspended or was refused: claims, lost     *)
(* replies, receipts in any order with outcomes and restarts lose none.     *)
THEOREM UpdatesReachTheAgent == Spec => []NoUpdateLost
<1>1. IInv => NoUpdateLost
  BY DEF IInv
<1> QED BY <1>1, Inductive, PTL

(* Only messages the agent has handled are ever acknowledged, and no        *)
(* checkpoint stands past one that is not (inbox_handled, poll).            *)
THEOREM AcknowledgedAfterHandling == Spec => []HandledFirst
<1>1. IInv => HandledFirst
  BY DEF IInv
<1> QED BY <1>1, Inductive, PTL

(* The queue command runs at most once for a delivery, for the thread its   *)
(* session is bound to, and a session has at most one notice whose receipt  *)
(* it has not reported (deliver and enqueue of the wrapper).                *)
THEOREM NoticesAreQueuedOnce == Spec => []QueuedOnce
<1>1. IInv => QueuedOnce
  <2> SUFFICES ASSUME IInv PROVE QueuedOnce
    OBVIOUS
  <2>1. \A d \in Deliveries :
           /\ provider.runs[d] <= 1
           /\ provider.runs[d] = 1 =>
                 provider.thread[d] = notes[deliveries[d].session].thread
    BY DEF IInv, DeliveryRows
  <2>2. ASSUME NEW g \in Generations
        PROVE  Cardinality({d \in Of(g) \cap provider.taken : ~Received(d)}) <= 1
    <3> DEFINE S == {d \in Of(g) \cap provider.taken : ~Received(d)}
    <3> SUFFICES Cardinality(S) <= 1
      OBVIOUS
    <3>1. \A d, e \in S : d = e
      BY DEF IInv, OneUnsettled, Settled, Received
    <3>2. CASE S = {}
      BY <3>2, FS_EmptySet
    <3>3. CASE S # {}
      <4>1. PICK d : d \in S
        BY <3>3
      <4>2. S = {d}
        BY <3>1, <4>1
      <4>3. Cardinality({d}) = 1
        BY FS_Singleton
      <4> HIDE DEF S
      <4> QED BY <4>2, <4>3
    <3> QED BY <3>2, <3>3
  <2> QED BY <2>1, <2>2 DEF QueuedOnce
<1> QED BY <1>1, Inductive, PTL

-----------------------------------------------------------------------------
(* Streams: the operator's follower.                                        *)

USE StreamsAssumption

-----------------------------------------------------------------------------
(* Where the characters of a transcript begin.                              *)

(* The last byte that begins a character decides what is missing.           *)
LEMMA LastLead ==
    ASSUME transcript \in Seq(0..4), NEW n \in 0..Len(transcript),
           NEW i \in Leads(n), \A j \in Leads(n) : j <= i
    PROVE  /\ Leads(n) # {} /\ i \in 1..n /\ transcript[i] \in 1..4
           /\ Missing(n) = i + transcript[i] - 1 - n
<1>1. Leads(n) # {} /\ i \in 1..n /\ transcript[i] # Rest
  BY DEF Leads
<1>2. transcript[i] \in 1..4
  BY <1>1 DEF Rest
<1> DEFINE k == CHOOSE k \in Leads(n) : \A j \in Leads(n) : j <= k
<1>3. k \in Leads(n) /\ \A j \in Leads(n) : j <= k
  OBVIOUS
<1>4. k \in Int /\ i \in Int
  BY <1>1, <1>3 DEF Leads
<1>5. k = i
  BY <1>3, <1>4
<1> HIDE DEF k
<1>6. Missing(n) = k + transcript[k] - 1 - n
  BY <1>1 DEF Missing, k
<1> QED BY <1>1, <1>2, <1>5, <1>6

LEMMA LastLeadNext ==
    ASSUME transcript' \in Seq(0..4), NEW n \in 0..Len(transcript)',
           NEW i \in Leads(n)', \A j \in Leads(n)' : j <= i
    PROVE  Missing(n)' = i + transcript'[i] - 1 - n
<1>1. Leads(n)' # {} /\ i \in 1..n
  BY DEF Leads
<1> DEFINE k == CHOOSE k \in Leads(n)' : \A j \in Leads(n)' : j <= k
<1>2. k \in Leads(n)' /\ \A j \in Leads(n)' : j <= k
  OBVIOUS
<1>3. k \in Int /\ i \in Int
  BY <1>1, <1>2 DEF Leads
<1>4. k = i
  BY <1>2, <1>3
<1> HIDE DEF k
<1>5. Missing(n)' = k + transcript'[k] - 1 - n
  BY <1>1 DEF Missing, k
<1> QED BY <1>4, <1>5

(* A byte that continues a character leaves one byte less missing.          *)
LEMMA NextMissing ==
    ASSUME transcript \in Seq(0..4), Characters,
           NEW n \in 0..(Len(transcript) - 1), Missing(n) > 0
    PROVE  Missing(n + 1) = Missing(n) - 1
<1>1. n > 0
  <2>1. ASSUME n = 0 PROVE FALSE
    BY <2>1 DEF Missing, Leads
  <2> QED BY <2>1
<1>2. n \in 0..Len(transcript) /\ n + 1 \in 0..Len(transcript)
  OBVIOUS
<1>3. PICK i \in Leads(n) : \A j \in Leads(n) : j <= i
  BY <1>1, <1>2 DEF Characters
<1>4. transcript[n + 1] = Rest
  BY <1>2 DEF Characters, Whole
<1>5. Leads(n + 1) = Leads(n)
  BY <1>4 DEF Leads
<1>6. Missing(n) = i + transcript[i] - 1 - n /\ i \in 1..n
      /\ transcript[i] \in 1..4
  BY <1>2, <1>3, LastLead
<1>7. Missing(n + 1) = i + transcript[i] - 1 - (n + 1)
  BY <1>2, <1>3, <1>5, LastLead
<1> QED BY <1>6, <1>7, SMTT(60)

(* Taking what is missing ends a page between characters.                   *)
LEMMA Completed ==
    ASSUME transcript \in Seq(0..4), Characters, NEW n \in 0..Len(transcript)
    PROVE  LET end == Least(n + Missing(n), Len(transcript)) IN
           /\ end \in 0..Len(transcript)
           /\ Whole(end) \/ end = Len(transcript)
<1>1. Missing(n) \in 0..3
  BY DEF Characters
<1>2. CASE n + Missing(n) > Len(transcript)
  BY <1>1, <1>2 DEF Least
<1>3. CASE n + Missing(n) <= Len(transcript)
  <2>1. Least(n + Missing(n), Len(transcript)) = n + Missing(n)
    BY <1>1, <1>3 DEF Least
  <2>2. CASE Missing(n) = 0
    BY <2>1, <2>2 DEF Whole
  <2>3. CASE Missing(n) = 1
    <3>1. n \in 0..(Len(transcript) - 1)
      BY <1>3, <2>3
    <3>2. Missing(n + 1) = 0
      BY <2>3, <3>1, NextMissing
    <3> QED BY <1>3, <2>1, <2>3, <3>2 DEF Whole
  <2>4. CASE Missing(n) = 2
    <3>1. n \in 0..(Len(transcript) - 1) /\ n + 1 \in 0..(Len(transcript) - 1)
      BY <1>3, <2>4
    <3>2. Missing(n + 1) = 1
      BY <2>4, <3>1, NextMissing
    <3>3. Missing((n + 1) + 1) = 0
      BY <3>1, <3>2, NextMissing
    <3>4. (n + 1) + 1 = n + 2
      OBVIOUS
    <3> QED BY <1>3, <2>1, <2>4, <3>3, <3>4 DEF Whole
  <2>5. CASE Missing(n) = 3
    <3>1. /\ n \in 0..(Len(transcript) - 1)
          /\ n + 1 \in 0..(Len(transcript) - 1)
          /\ n + 2 \in 0..(Len(transcript) - 1)
      BY <1>3, <2>5
    <3>2. Missing(n + 1) = 2
      BY <2>5, <3>1, NextMissing
    <3>3. Missing((n + 1) + 1) = 1
      BY <3>1, <3>2, NextMissing
    <3>4. (n + 1) + 1 = n + 2 /\ (n + 2) + 1 = n + 3
      OBVIOUS
    <3>5. Missing(n + 2) = 1
      BY <3>3, <3>4
    <3>6. Missing((n + 2) + 1) = 0
      BY <3>1, <3>5, NextMissing
    <3> QED BY <1>3, <2>1, <2>5, <3>4, <3>6 DEF Whole
  <2> QED BY <1>1, <2>2, <2>3, <2>4, <2>5
<1> QED BY <1>1, <1>2, <1>3

(* The characters of one page: what was open before n began at i.           *)
LEMMA OpenCharacter ==
    ASSUME transcript \in Seq(0..4), Characters,
           NEW n \in 0..Len(transcript), ~Whole(n)
    PROVE  \E i \in 1..n :
              /\ n - i < 3 /\ transcript[i] # Rest /\ Whole(i - 1)
              /\ \A m \in i..n : ~Whole(m)
<1>1. Missing(n) \in 1..3
  BY DEF Characters, Whole
<1>2. n > 0
  <2>1. ASSUME n = 0 PROVE FALSE
    BY <1>1, <2>1 DEF Missing, Leads
  <2> QED BY <2>1
<1>3. PICK i \in Leads(n) : \A j \in Leads(n) : j <= i
  BY <1>2 DEF Characters
<1>4. /\ i \in 1..n /\ transcript[i] \in 1..4
      /\ Missing(n) = i + transcript[i] - 1 - n
  BY <1>3, LastLead
<1>5. n - i < 3
  BY <1>1, <1>4, SMTT(60)
<1>6. transcript[i] # Rest
  BY <1>4 DEF Rest
<1>7. Whole(i - 1)
  <2>1. i - 1 \in 0..Len(transcript) /\ i - 1 < Len(transcript)
        /\ (i - 1) + 1 = i
    BY <1>4
  <2> QED BY <1>6, <2>1 DEF Characters
<1>8. ASSUME NEW m \in i..n PROVE ~Whole(m)
  <2>1. m \in 0..Len(transcript) /\ m <= n /\ i <= m
    BY <1>4, <1>8
  <2>2. i \in Leads(m) /\ \A j \in Leads(m) : j <= i
    BY <1>3, <1>4, <1>6, <2>1 DEF Leads
  <2>3. Missing(m) = i + transcript[i] - 1 - m
    BY <2>1, <2>2, LastLead
  <2>4. i \in Int /\ m \in Int /\ n \in Int /\ transcript[i] \in Int
    BY <1>4, <2>1
  <2>6. i + transcript[i] - 1 - n > 0
    BY <1>1, <1>4
  <2>5. i + transcript[i] - 1 - m > 0
    BY <2>1, <2>4, <2>6, SMTT(60)
  <2> QED BY <2>3, <2>5 DEF Whole
<1> QED BY <1>4, <1>5, <1>6, <1>7, <1>8

(* read_page and logs: a page ends between characters, or with the part of  *)
(* one that a session which has ended left behind.                          *)
LEMMA PageEnds ==
    ASSUME transcript \in Seq(0..4), terminal \in BOOLEAN, Characters,
           NEW tail \in BOOLEAN, NEW start \in 0..Len(transcript)
    PROVE  LET through == Shown(End(start, tail)) IN
           /\ through \in 0..Len(transcript)
           /\ Whole(through) \/ (terminal /\ through = Len(transcript))
<1> DEFINE asked == IF tail THEN Len(transcript)
                    ELSE Least(start + ByteLimit, Len(transcript))
           end == End(start, tail)
<1>1. asked \in 0..Len(transcript)
  BY DEF Least
<1>2. end = Least(asked + Missing(asked), Len(transcript))
  BY DEF End
<1> HIDE DEF asked, end
<1>3. end \in 0..Len(transcript) /\ (Whole(end) \/ end = Len(transcript))
  BY <1>1, <1>2, Completed
<1>4. CASE terminal \/ Whole(end)
  BY <1>3, <1>4 DEF Shown, end
<1>5. CASE ~terminal /\ ~Whole(end)
  <2>1. PICK i \in 1..end : Whole(i - 1) /\ \A m \in i..end : ~Whole(m)
    BY <1>3, <1>5, OpenCharacter
  <2>2. i - 1 \in 0..end /\ Whole(i - 1)
        /\ \A m \in ((i - 1) + 1)..end : ~Whole(m)
    BY <1>3, <2>1
  <2> DEFINE last == CHOOSE n \in 0..end : /\ Whole(n)
                                           /\ \A m \in (n + 1)..end : ~Whole(m)
  <2>3. last \in 0..end /\ Whole(last)
    BY <2>2
  <2>4. Shown(end) = last
    BY <1>5 DEF Shown
  <2> QED BY <1>3, <2>3, <2>4 DEF end
<1> QED BY <1>4, <1>5

(* read_tail: the last bytes are shown from the beginning of a character.   *)
LEMMA TailBegins ==
    ASSUME transcript \in Seq(0..4), Characters
    PROVE  TailStart \in 0..Len(transcript) /\ Whole(TailStart)
<1> DEFINE back == IF Len(transcript) > ByteLimit
                   THEN Len(transcript) - ByteLimit ELSE 0
           begins == {n \in 0..back : back - n <= 3 /\
                      (n = 0 \/ n = Len(transcript) \/ transcript[n + 1] # Rest)}
<1>1. back \in 0..Len(transcript) /\ (back = 0 \/ back < Len(transcript))
  OBVIOUS
<1> HIDE DEF back
<1>2. Whole(0)
  BY DEF Whole, Missing, Leads
<1>3. \A n \in begins : n \in 0..Len(transcript) /\ Whole(n)
  <2> SUFFICES ASSUME NEW n \in begins
               PROVE  n \in 0..Len(transcript) /\ Whole(n)
    OBVIOUS
  <2>1. n \in 0..Len(transcript)
    BY <1>1
  <2>2. n = 0 \/ (n < Len(transcript) /\ transcript[n + 1] # Rest)
    BY <1>1
  <2> QED BY <1>2, <2>1, <2>2 DEF Characters
<1>4. \E n \in begins : \A m \in begins : m <= n
  <2>1. CASE Whole(back)
    <3>1. back \in begins
      BY <1>1, <2>1 DEF Characters
    <3> QED BY <1>1, <3>1
  <2>2. CASE ~Whole(back)
    <3>1. PICK i \in 1..back :
             /\ back - i < 3 /\ transcript[i] # Rest
             /\ \A m \in i..back : ~Whole(m)
      BY <1>1, <2>2, OpenCharacter
    <3>2. i - 1 \in begins
      BY <1>1, <3>1
    <3>3. ASSUME NEW m \in begins PROVE m <= i - 1
      <4>1. Whole(m) /\ m \in 0..back
        BY <1>3, <3>3
      <4> QED BY <1>1, <3>1, <4>1
    <3> QED BY <3>2, <3>3
  <2> QED BY <2>1, <2>2
<1>5. TailStart = CHOOSE n \in begins : \A m \in begins : m <= n
  BY DEF TailStart, back
<1>6. TailStart \in begins
  BY <1>4, <1>5
<1> QED BY <1>3, <1>6

-----------------------------------------------------------------------------
(* The invariant.                                                           *)

(* What is written later leaves every earlier cut as it was.                *)
LEMMA Appended ==
    ASSUME transcript \in Seq(0..4), Characters, NEW x \in 0..4,
           transcript' = transcript \o <<x>>
    PROVE  /\ transcript' \in Seq(0..4)
           /\ Len(transcript') = Len(transcript) + 1
           /\ transcript'[Len(transcript) + 1] = x
           /\ \A i \in 1..Len(transcript) : transcript'[i] = transcript[i]
           /\ \A n \in 0..Len(transcript) :
                 Leads(n)' = Leads(n) /\ Missing(n)' = Missing(n)
<1>1. /\ transcript' \in Seq(0..4)
      /\ Len(transcript') = Len(transcript) + 1
      /\ transcript'[Len(transcript) + 1] = x
      /\ \A i \in 1..Len(transcript) : transcript'[i] = transcript[i]
  OBVIOUS
<1>2. ASSUME NEW n \in 0..Len(transcript) PROVE Leads(n)' = Leads(n)
  BY <1>1, <1>2 DEF Leads
<1>3. ASSUME NEW n \in 0..Len(transcript) PROVE Missing(n)' = Missing(n)
  <2>1. Leads(n)' = Leads(n) /\ Leads(n) \subseteq 1..Len(transcript)
    BY <1>2, <1>3 DEF Leads
  <2>2. CASE Leads(n) = {}
    BY <2>1, <2>2 DEF Missing
  <2>3. CASE Leads(n) # {}
    <3> DEFINE i == CHOOSE i \in Leads(n) : \A j \in Leads(n) : j <= i
    <3>1. i \in Leads(n)
      <4>1. n > 0
        BY <2>3 DEF Leads
      <4> QED BY <1>3, <4>1 DEF Characters
    <3>2. transcript'[i] = transcript[i]
      BY <1>1, <2>1, <3>1
    <3>3. Missing(n) = i + transcript[i] - 1 - n
      BY <2>3 DEF Missing
    <3>4. Missing(n)' = i + transcript'[i] - 1 - n
      BY <2>1, <2>3 DEF Missing
    <3> QED BY <3>2, <3>3, <3>4
  <2> QED BY <2>2, <2>3
<1> QED BY <1>1, <1>2, <1>3

LEMMA StreamsInitially == StreamsInit => StreamsInv
<1> SUFFICES ASSUME StreamsInit PROVE StreamsInv
  OBVIOUS
<1>1. StreamsTypeOK
  <2>1. crashes \in 0..MaxCrashes /\ recoveries \in 0..MaxRecoveries
    BY DEF StreamsInit
  <2>2. history \in Seq(Kinds) /\ transcript \in Seq(0..4)
        /\ Len(history) = 0 /\ Len(transcript) = 0
    BY DEF StreamsInit
  <2>3. /\ watch \in [stage : Stages, connected : BOOLEAN,
                      after : 0..Len(history), stopped : BOOLEAN]
        /\ tailing \in [stage : Stages, connected : BOOLEAN,
                        after : 0..Len(transcript),
                        from : 0..Len(transcript), tail : BOOLEAN,
                        cuts : SUBSET (0..Len(transcript))]
    BY <2>2 DEF StreamsInit, Stages
  <2> QED BY <2>1, <2>2, <2>3 DEF StreamsInit, StreamsTypeOK
<1>2. Missing(0) = 0 /\ Len(transcript) = 0
  BY DEF StreamsInit, Missing, Leads
<1>3. Characters /\ CursorWhole
  BY <1>2 DEF StreamsInit, Characters, CursorWhole, Whole
<1>4. StoppedSeen
  BY DEF StreamsInit, StoppedSeen
<1> QED BY <1>1, <1>3, <1>4 DEF StreamsInv

(* A page of the transcript keeps the cursor where it may be.               *)
LEMMA BytesTaken ==
    ASSUME StreamsInv, TakeBytes, UNCHANGED <<transcript, terminal>>
    PROVE  /\ tailing' \in [stage : Stages, connected : BOOLEAN,
                            after : 0..Len(transcript),
                            from : 0..Len(transcript), tail : BOOLEAN,
                            cuts : SUBSET (0..Len(transcript))]
           /\ CursorWhole'
           /\ tailing'.stage = "done" =>
                 tailing'.after = Len(transcript) /\ terminal
<1> DEFINE start == IF tailing.tail THEN TailStart ELSE tailing.after
           through == Shown(End(start, tailing.tail))
<1>1. /\ transcript \in Seq(0..4) /\ terminal \in BOOLEAN /\ Characters
      /\ tailing \in [stage : Stages, connected : BOOLEAN,
                      after : 0..Len(transcript),
                      from : 0..Len(transcript), tail : BOOLEAN,
                      cuts : SUBSET (0..Len(transcript))]
  BY DEF StreamsInv, StreamsTypeOK
<1>2. /\ start \in 0..Len(transcript)
      /\ Whole(start) \/ (terminal /\ start = Len(transcript))
  BY <1>1, TailBegins DEF StreamsInv, CursorWhole
<1>3. /\ through \in 0..Len(transcript)
      /\ Whole(through) \/ (terminal /\ through = Len(transcript))
  BY <1>1, <1>2, PageEnds
<1>4. tailing' = [tailing EXCEPT !.after = through, !.tail = FALSE,
          !.from = IF tailing.tail THEN start ELSE @,
          !.cuts = @ \cup {start, through},
          !.stage = IF through = Len(transcript) /\ terminal
                    THEN "done" ELSE "following"]
  BY DEF TakeBytes
<1> HIDE DEF start, through
<1>5. tailing' \in [stage : Stages, connected : BOOLEAN,
                    after : 0..Len(transcript),
                    from : 0..Len(transcript), tail : BOOLEAN,
                    cuts : SUBSET (0..Len(transcript))]
  BY <1>1, <1>2, <1>3, <1>4 DEF Stages
<1>6. /\ tailing'.after = through
      /\ tailing'.cuts = tailing.cuts \cup {start, through}
      /\ tailing'.stage = "done" => through = Len(transcript) /\ terminal
  BY <1>1, <1>4
<1>7. CursorWhole'
  BY <1>2, <1>3, <1>6 DEF StreamsInv, CursorWhole, Whole, Missing, Leads
<1> QED BY <1>5, <1>6, <1>7

(* A page of the events moves the cursor on; a follower ends at the last    *)
(* event, and after a stop.                                                 *)
LEMMA EventsTaken ==
    ASSUME StreamsInv, NEW stopped \in BOOLEAN, TakeEvents(stopped),
           stopped => run = "stopped"
    PROVE  /\ watch' \in [stage : Stages, connected : BOOLEAN,
                          after : 0..Len(history), stopped : BOOLEAN]
           /\ watch'.stopped => run = "stopped" \/ recoveries > 0
           /\ watch'.stage = "done" =>
                 /\ watch'.after = Len(history)
                 /\ run = "stopped" \/ recoveries > 0
<1>1. /\ history \in Seq(Kinds)
      /\ watch \in [stage : Stages, connected : BOOLEAN,
                    after : 0..Len(history), stopped : BOOLEAN]
  BY DEF StreamsInv, StreamsTypeOK
<1>2. PICK through \in EventsAfter(watch.after) :
        LET page == SubSeq(history, watch.after + 1, through)
            seen == \/ watch.stopped \/ stopped
                    \/ \E i \in DOMAIN page : page[i] = "run.stopped"
        IN watch' = [watch EXCEPT !.after = through, !.stopped = seen,
                !.stage = IF AtEnd(seen, page) THEN "done" ELSE "following"]
  BY DEF TakeEvents
<1> DEFINE page == SubSeq(history, watch.after + 1, through)
           seen == \/ watch.stopped \/ stopped
                   \/ \E i \in DOMAIN page : page[i] = "run.stopped"
<1>3. /\ through \in watch.after..Len(history)
      /\ through = watch.after => through = Len(history)
  <2>1. CASE watch.after = Len(history)
    BY <1>1, <2>1 DEF EventsAfter
  <2>2. CASE watch.after # Len(history)
    <3>1. through \in (watch.after + 1)..Least(watch.after + EventLimit,
                                               Len(history))
      BY <2>2 DEF EventsAfter
    <3> QED BY <1>1, <3>1 DEF Least
  <2> QED BY <2>1, <2>2
<1>4. /\ DOMAIN page = 1..(through - watch.after)
      /\ \A i \in DOMAIN page :
            /\ watch.after + i \in DOMAIN history
            /\ page[i] = history[watch.after + i]
  <2>1. /\ watch.after + 1 \in 1..(Len(history) + 1)
        /\ through \in (watch.after + 1) - 1..Len(history)
    BY <1>1, <1>3
  <2>2. Len(page) = through - watch.after
    BY <1>1, <1>3, <2>1
  <2>3. DOMAIN page = 1..(through - watch.after)
    BY <2>1, <2>2
  <2>4. ASSUME NEW i \in 1..(through - watch.after)
        PROVE  /\ watch.after + i \in DOMAIN history
               /\ page[i] = history[watch.after + i]
    <3>1. (watch.after + 1) + i - 1 = watch.after + i
      BY <1>1
    <3>2. watch.after + i \in 1..Len(history)
      BY <1>1, <1>3
    <3> QED BY <1>1, <1>3, <3>1, <3>2, SMTT(60)
  <2> QED BY <2>3, <2>4
<1>5. seen \in BOOLEAN /\ (seen => run = "stopped" \/ recoveries > 0)
  BY <1>1, <1>4 DEF StreamsInv, StoppedSeen
<1>6. AtEnd(seen, page) => seen /\ through = Len(history)
  <2> SUFFICES ASSUME AtEnd(seen, page) PROVE seen /\ through = Len(history)
    OBVIOUS
  <2>1. seen /\ page = <<>>
    BY DEF AtEnd
  <2>2. DOMAIN page = {}
    <3> HIDE DEF page
    <3> QED BY <2>1
  <2>3. through = watch.after
    <3> HIDE DEF page
    <3>1. 1..(through - watch.after) = {}
      BY <1>4, <2>2
    <3>2. /\ watch.after \in Int /\ through \in Int
          /\ watch.after <= through
      BY <1>1, <1>3
    <3>3. 1 \notin 1..(through - watch.after)
      BY <3>1
    <3> QED BY <3>2, <3>3
  <2> QED BY <1>3, <2>1, <2>3
<1>7. watch' = [watch EXCEPT !.after = through, !.stopped = seen,
                !.stage = IF AtEnd(seen, page) THEN "done" ELSE "following"]
  BY <1>2
<1> HIDE DEF seen, page
<1>8. through \in 0..Len(history)
  BY <1>1, <1>3
<1>9. watch' \in [stage : Stages, connected : BOOLEAN,
                  after : 0..Len(history), stopped : BOOLEAN]
  BY <1>1, <1>5, <1>7, <1>8 DEF Stages
<1>10. /\ watch'.after = through /\ watch'.stopped = seen
       /\ watch'.stage = "done" => AtEnd(seen, page)
  BY <1>1, <1>7
<1> QED BY <1>5, <1>6, <1>9, <1>10

LEMMA NextByte ==
    ASSUME Output
    PROVE  \E x \in 0..4 :
              /\ transcript' = transcript \o <<x>>
              /\ Whole(Len(transcript)) => x \in 1..4
              /\ ~Whole(Len(transcript)) => x = Rest
<1>1. CASE Whole(Len(transcript))
  <2>1. PICK n \in Lengths : Written(<<n>>)
    BY <1>1 DEF Output
  <2>2. n \in 1..4 /\ n \in 0..4
    BY <2>1
  <2>3. transcript' = transcript \o <<n>>
    BY <2>1 DEF Written
  <2> QED BY <1>1, <2>2, <2>3
<1>2. CASE ~Whole(Len(transcript))
  BY <1>2 DEF Output, Written, Rest
<1> QED BY <1>1, <1>2

(* A byte more: one that begins a character after a complete one, or one    *)
(* that continues the character that is open.                               *)
LEMMA OutputKeeps == StreamsInv /\ Output => Characters' /\ CursorWhole'
<1> SUFFICES ASSUME StreamsInv, Output PROVE Characters' /\ CursorWhole'
  OBVIOUS
<1>9. PICK L \in Nat : L = Len(transcript)
  BY DEF StreamsInv, StreamsTypeOK
<1>1. /\ transcript \in Seq(0..4) /\ Characters /\ L = Len(transcript)
      /\ ~terminal /\ tailing' = tailing
      /\ tailing.cuts \subseteq 0..L /\ tailing.after \in 0..L
  BY <1>9 DEF StreamsInv, StreamsTypeOK, Output
<1>2. PICK x \in 0..4 :
        /\ transcript' = transcript \o <<x>>
        /\ Whole(L) => x \in 1..4
        /\ ~Whole(L) => x = Rest
  BY <1>9, NextByte
<1>3. /\ transcript' \in Seq(0..4) /\ Len(transcript') = L + 1
      /\ transcript'[L + 1] = x
      /\ \A i \in 1..L : transcript'[i] = transcript[i]
      /\ \A n \in 0..L : Leads(n)' = Leads(n) /\ Missing(n)' = Missing(n)
  BY <1>1, <1>2, Appended
<1>4. \A n \in 0..L : Whole(n)' <=> Whole(n)
  BY <1>3 DEF Whole
<1>5. CursorWhole'
  BY <1>1, <1>4 DEF StreamsInv, CursorWhole
<1>6. ASSUME NEW n \in 0..L
      PROVE  /\ Missing(n)' \in 0..3
             /\ n > 0 => \E i \in Leads(n)' : \A j \in Leads(n)' : j <= i
             /\ n < L + 1 => (Whole(n)' <=> transcript'[n + 1] # Rest)
  <2>1. /\ Missing(n)' \in 0..3
        /\ n > 0 => \E i \in Leads(n)' : \A j \in Leads(n)' : j <= i
    BY <1>1, <1>3 DEF Characters
  <2>2. CASE n = L
    <3>1. Whole(n)' <=> x # Rest
      BY <1>2, <1>4, <1>6, <2>2 DEF Rest
    <3> QED BY <1>3, <2>1, <2>2, <3>1
  <2>3. CASE n # L
    <3>1. n + 1 \in 1..L /\ n < L
      BY <1>1, <2>3
    <3>2. Whole(n) <=> transcript[n + 1] # Rest
      BY <1>1, <3>1 DEF Characters
    <3> QED BY <1>3, <1>4, <2>1, <3>1, <3>2
  <2> QED BY <2>2, <2>3
<1>7. /\ Missing(L + 1)' \in 0..3
      /\ \E i \in Leads(L + 1)' : \A j \in Leads(L + 1)' : j <= i
  <2>1. CASE Whole(L)
    <3>1. /\ L + 1 \in Leads(L + 1)'
          /\ \A j \in Leads(L + 1)' : j <= L + 1
      BY <1>1, <1>2, <1>3, <2>1 DEF Leads, Rest
    <3>2. Missing(L + 1)' = (L + 1) + transcript'[L + 1] - 1 - (L + 1)
      <4>1. L + 1 \in 0..Len(transcript)'
        BY <1>1, <1>3
      <4> QED BY <1>3, <3>1, <4>1, LastLeadNext
    <3> QED BY <1>1, <1>2, <1>3, <2>1, <3>1, <3>2
  <2>2. CASE ~Whole(L)
    <3>1. L > 0 /\ Missing(L) \in 1..3
      <4>1. Missing(0) = 0
        BY DEF Missing, Leads
      <4> QED BY <1>1, <2>2, <4>1 DEF Characters, Whole
    <3>2. Leads(L + 1)' = Leads(L)
      BY <1>1, <1>2, <1>3, <2>2 DEF Leads
    <3>3. PICK i \in Leads(L) : \A j \in Leads(L) : j <= i
      BY <1>1, <3>1 DEF Characters
    <3>4. /\ i \in 1..L /\ Missing(L) = i + transcript[i] - 1 - L
      BY <1>1, <3>3, LastLead
    <3>5. Missing(L + 1)' = i + transcript'[i] - 1 - (L + 1)
      <4>1. L + 1 \in 0..Len(transcript)'
        BY <1>1, <1>3
      <4> QED BY <1>3, <3>2, <3>3, <4>1, LastLeadNext
    <3>6. transcript'[i] = transcript[i] /\ transcript[i] \in 0..4
      BY <1>1, <1>3, <3>4
    <3>7. Missing(L + 1)' = Missing(L) - 1
      BY <3>4, <3>5, <3>6
    <3> QED BY <3>1, <3>2, <3>3, <3>7
  <2> QED BY <2>1, <2>2
<1>8. Characters'
  <2>1. ASSUME NEW n \in 0..(L + 1)
        PROVE  /\ Missing(n)' \in 0..3
               /\ n > 0 => \E i \in Leads(n)' : \A j \in Leads(n)' : j <= i
               /\ n < L + 1 => (Whole(n)' <=> transcript'[n + 1] # Rest)
    <3>1. CASE n = L + 1
      BY <1>1, <1>7, <3>1
    <3>2. CASE n # L + 1
      <4>1. n \in 0..L
        BY <1>1, <3>2
      <4> QED BY <1>6, <4>1
    <3> QED BY <3>1, <3>2
  <2> QED BY <1>3, <2>1 DEF Characters
<1> QED BY <1>5, <1>8

(* A transcript that stays as it was is cut where it was.                   *)
LEMMA TranscriptKept ==
    ASSUME Characters, UNCHANGED transcript PROVE Characters'
<1>1. \A n : Leads(n)' = Leads(n)
  BY DEF Leads
<1>2. \A n : Missing(n)' = Missing(n)
  BY DEF Missing, Leads
<1> QED BY <1>1, <1>2, ZenonT(60) DEF Characters, Whole

LEMMA CutsKept ==
    ASSUME CursorWhole, UNCHANGED transcript, terminal => terminal',
           tailing'.after = tailing.after, tailing'.cuts = tailing.cuts
    PROVE  CursorWhole'
  BY DEF CursorWhole, Whole, Missing, Leads

LEMMA StreamsTypes == StreamsInv /\ [StreamsNext]_streams => StreamsTypeOK'
<1> SUFFICES ASSUME StreamsInv, [StreamsNext]_streams PROVE StreamsTypeOK'
  OBVIOUS
<1> USE DEF StreamsTypeOK, StreamsInv
<1>1. CASE Output
  <2>1. PICK x \in 0..4 : transcript' = transcript \o <<x>>
    BY <1>1, NextByte
  <2>2. /\ transcript' \in Seq(0..4)
        /\ 0..Len(transcript) \subseteq 0..Len(transcript')
    BY <2>1
  <2>3. tailing \in [stage : Stages, connected : BOOLEAN,
                    after : 0..Len(transcript'),
                    from : 0..Len(transcript'), tail : BOOLEAN,
                    cuts : SUBSET (0..Len(transcript'))]
    BY <2>2
  <2> QED BY <1>1, <2>2, <2>3 DEF Output, counts
<1>2. CASE SessionEnds
  BY <1>2 DEF SessionEnds, counts
<1>3. ASSUME NEW e \in Kinds, history' = Append(history, e)
      PROVE  /\ history' \in Seq(Kinds)
             /\ watch \in [stage : Stages, connected : BOOLEAN,
                           after : 0..Len(history'), stopped : BOOLEAN]
  <2>1. history' \in Seq(Kinds) /\ 0..Len(history) \subseteq 0..Len(history')
    BY <1>3
  <2> QED BY <2>1
<1>4. CASE Change
  <2>1. history' = Append(history, "change") /\ "change" \in Kinds
    BY <1>4 DEF Change, Kinds
  <2> QED BY <1>3, <1>4, <2>1 DEF Change, counts
<1>5. CASE StopRun
  <2>1. history' = Append(history, "run.stopped") /\ "run.stopped" \in Kinds
    BY <1>5 DEF StopRun, Kinds
  <2> QED BY <1>3, <1>5, <2>1 DEF StopRun, counts
<1>6. CASE RecoverRun
  <2>1. history' = Append(history, "run.recovered")
        /\ "run.recovered" \in Kinds
    BY <1>6 DEF RecoverRun, Kinds
  <2>2. recoveries' \in 0..MaxRecoveries
    BY <1>6 DEF RecoverRun
  <2> QED BY <1>3, <1>6, <2>1, <2>2 DEF RecoverRun
<1>7. CASE Retire
  BY <1>7 DEF Retire, Unconnected, durable, counts
<1>8. CASE Crash
  <2>1. crashes' \in 0..MaxCrashes
    BY <1>8 DEF Crash
  <2> QED BY <1>8, <2>1 DEF Crash, Unconnected, durable
<1>9. CASE Restart
  BY <1>9 DEF Restart, durable, counts
<1>10. ASSUME NEW after \in 0..Len(history), StartWatch(after)
       PROVE  StreamsTypeOK'
  BY <1>10 DEF StartWatch, durable, counts, Stages
<1>11. ASSUME NEW tail \in BOOLEAN, StartTailing(tail) PROVE StreamsTypeOK'
  BY <1>11 DEF StartTailing, durable, counts, Stages
<1>12. CASE ReadEvents
  <2>1. TakeEvents(FALSE)
    BY <1>12 DEF ReadEvents
  <2>2. watch' \in [stage : Stages, connected : BOOLEAN,
                   after : 0..Len(history), stopped : BOOLEAN]
    BY <2>1, EventsTaken
  <2> QED BY <1>12, <2>2 DEF ReadEvents, durable, counts
<1>13. CASE FinalEvents
  <2>1. TakeEvents(TRUE) /\ run = "stopped"
    BY <1>13 DEF FinalEvents, OfStoppedRun, Final
  <2>2. watch' \in [stage : Stages, connected : BOOLEAN,
                   after : 0..Len(history), stopped : BOOLEAN]
    BY <2>1, EventsTaken
  <2> QED BY <1>13, <2>2 DEF FinalEvents, durable, counts
<1>14. CASE ReadBytes \/ FinalBytes
  <2>1. TakeBytes /\ UNCHANGED <<durable, up, counts, watch>>
    BY <1>14 DEF ReadBytes, FinalBytes
  <2>2. tailing' \in [stage : Stages, connected : BOOLEAN,
                     after : 0..Len(transcript),
                     from : 0..Len(transcript), tail : BOOLEAN,
                     cuts : SUBSET (0..Len(transcript))]
    BY <2>1, BytesTaken DEF durable
  <2> QED BY <2>1, <2>2 DEF durable, counts
<1>15. CASE ResumeWatch
  <2>1. watch' \in {[watch EXCEPT !.stage = "following", !.connected = TRUE],
                   [watch EXCEPT !.stage = "reconnecting"],
                   [watch EXCEPT !.stage = "failed"]}
    BY <1>15, ZenonT(30) DEF ResumeWatch, Resumed
  <2> QED BY <1>15, <2>1 DEF ResumeWatch, durable, counts, Stages
<1>16. CASE ResumeTailing
  <2>1. tailing' \in {[tailing EXCEPT !.stage = "following",
                                     !.connected = TRUE],
                     [tailing EXCEPT !.stage = "reconnecting"],
                     [tailing EXCEPT !.stage = "failed"]}
    BY <1>16, ZenonT(30) DEF ResumeTailing, Resumed
  <2> QED BY <1>16, <2>1 DEF ResumeTailing, durable, counts, Stages
<1>17. CASE UNCHANGED streams
  BY <1>17 DEF streams
<1> QED
  BY <1>1, <1>2, <1>4, <1>5, <1>6, <1>7, <1>8, <1>9, <1>10, <1>11, <1>12,
     <1>13, <1>14, <1>15, <1>16, <1>17 DEF StreamsNext

LEMMA StreamsConsecution == StreamsInv /\ [StreamsNext]_streams => StreamsInv'
<1> SUFFICES ASSUME StreamsInv, [StreamsNext]_streams PROVE StreamsInv'
  OBVIOUS
<1>1. StreamsTypeOK'
  BY StreamsTypes
<1>2. Characters' /\ CursorWhole'
  <2>1. CASE Output
    BY <2>1, OutputKeeps
  <2>2. CASE ReadBytes \/ FinalBytes
    BY <2>2, BytesTaken, TranscriptKept
       DEF ReadBytes, FinalBytes, durable, StreamsInv
  <2>3. CASE ~Output /\ ~ReadBytes /\ ~FinalBytes
    <3>1. /\ UNCHANGED transcript /\ (terminal => terminal')
          /\ tailing'.after = tailing.after /\ tailing'.cuts = tailing.cuts
      <4>1. tailing \in [stage : Stages, connected : BOOLEAN,
                        after : 0..Len(transcript),
                        from : 0..Len(transcript), tail : BOOLEAN,
                        cuts : SUBSET (0..Len(transcript))]
        BY DEF StreamsInv, StreamsTypeOK
      <4>2. CASE Retire \/ Crash
        BY <4>1, <4>2 DEF Retire, Crash, Unconnected, durable
      <4>3. CASE ResumeTailing
        <5>1. tailing' \in {[tailing EXCEPT !.stage = "following",
                                           !.connected = TRUE],
                           [tailing EXCEPT !.stage = "reconnecting"],
                           [tailing EXCEPT !.stage = "failed"]}
          BY <4>3, ZenonT(30) DEF ResumeTailing, Resumed
        <5> QED BY <4>1, <4>3, <5>1 DEF ResumeTailing, durable
      <4>4. ASSUME NEW tail \in BOOLEAN, StartTailing(tail)
            PROVE  /\ UNCHANGED transcript /\ (terminal => terminal')
                   /\ tailing'.after = tailing.after
                   /\ tailing'.cuts = tailing.cuts
        BY <4>1, <4>4 DEF StartTailing, durable
      <4>5. CASE UNCHANGED <<transcript, tailing>> /\ (terminal => terminal')
        BY <4>5
      <4>6. CASE SessionEnds
        BY <4>5, <4>6 DEF SessionEnds
      <4>7. ASSUME \/ Change \/ StopRun \/ Restart \/ RecoverRun
                   \/ \E after \in 0..Len(history) : StartWatch(after)
                   \/ ReadEvents \/ ResumeWatch \/ FinalEvents
                   \/ UNCHANGED streams
            PROVE  UNCHANGED <<transcript, terminal, tailing>>
        BY <4>7
           DEF Change, StopRun, Restart, RecoverRun, StartWatch, ReadEvents,
               ResumeWatch, FinalEvents, streams, durable
      <4> QED
        BY <2>3, <4>2, <4>3, <4>4, <4>6, <4>7 DEF StreamsNext
    <3> QED BY <3>1, TranscriptKept, CutsKept DEF StreamsInv
  <2> QED BY <2>1, <2>2, <2>3
<1>3. StoppedSeen'
  <2> DEFINE Past == run = "stopped" \/ recoveries > 0
             Said == \E i \in DOMAIN history : history[i] = "run.stopped"
  <2>1. Past => Past'
    <3>1. recoveries \in Nat
      BY DEF StreamsInv, StreamsTypeOK
    <3>2. CASE RecoverRun
      BY <3>1, <3>2 DEF RecoverRun
    <3>3. CASE StopRun
      BY <3>3 DEF StopRun, counts
    <3> QED
      BY <3>2, <3>3
         DEF StreamsNext, Output, SessionEnds, Change, Retire, Crash, Restart,
             StartWatch, StartTailing, ReadEvents, ResumeWatch, ReadBytes,
             ResumeTailing, FinalEvents, FinalBytes, streams, durable, counts
  <2>2. Said' => Said \/ Past'
    <3>1. history \in Seq(Kinds)
      BY DEF StreamsInv, StreamsTypeOK
    <3>2. CASE Change
      <4>1. history' = Append(history, "change")
        BY <3>2 DEF Change
      <4> QED BY <3>1, <4>1
    <3>3. CASE StopRun
      BY <3>3 DEF StopRun
    <3>4. CASE RecoverRun
      <4>1. history' = Append(history, "run.recovered")
        BY <3>4 DEF RecoverRun
      <4> QED BY <3>1, <4>1
    <3>5. CASE ~Change /\ ~StopRun /\ ~RecoverRun
      <4>1. UNCHANGED history
        BY <3>5
           DEF StreamsNext, Output, SessionEnds, Retire, Crash, Restart,
               StartWatch, StartTailing, ReadEvents, ResumeWatch, ReadBytes,
               ResumeTailing, FinalEvents, FinalBytes, streams, durable
      <4> QED BY <4>1
    <3> QED BY <3>2, <3>3, <3>4, <3>5
  <2>3. watch'.stopped => watch.stopped \/ Past'
    <3>1. watch \in [stage : Stages, connected : BOOLEAN,
                    after : 0..Len(history), stopped : BOOLEAN]
      BY DEF StreamsInv, StreamsTypeOK
    <3>2. CASE ReadEvents
      BY <2>1, <3>2, EventsTaken DEF ReadEvents
    <3>3. CASE FinalEvents
      BY <2>1, <3>3, EventsTaken DEF FinalEvents, OfStoppedRun, Final
    <3>4. CASE ~ReadEvents /\ ~FinalEvents
      BY <3>1, <3>4
         DEF StreamsNext, Output, SessionEnds, Change, StopRun, Retire, Crash,
             Restart, RecoverRun, Unconnected, StartWatch, StartTailing,
             ResumeWatch, Resumed, ReadBytes, ResumeTailing, FinalBytes,
             streams
    <3> QED BY <3>2, <3>3, <3>4
  <2> QED BY <2>1, <2>2, <2>3 DEF StreamsInv, StoppedSeen
<1> QED BY <1>1, <1>2, <1>3 DEF StreamsInv

LEMMA StreamsInductive == StreamsSpec => []StreamsInv
<1> QED BY StreamsInitially, StreamsConsecution, PTL DEF StreamsSpec

(* Wherever a follower of a transcript stops and goes on, it cuts no        *)
(* character (transcript.rs, read_page and read_tail).                      *)
THEOREM NoCharacterIsCut == StreamsSpec => []CharactersWhole
<1>1. StreamsInv => CharactersWhole
  BY DEF StreamsInv, CursorWhole, CharactersWhole
<1> QED BY <1>1, StreamsInductive, PTL

(* A follower that ends has shown the last event or byte, of a run that     *)
(* stopped or a session that ended (supervisor.rs, follow_output).          *)
THEOREM FollowersShowAll == StreamsSpec => EndsComplete
<1> DEFINE Step ==
       /\ watch.stage # "done" /\ watch'.stage = "done" =>
             /\ watch'.after = Len(history)
             /\ run = "stopped" \/ recoveries > 0
       /\ tailing.stage # "done" /\ tailing'.stage = "done" =>
             tailing'.after = Len(transcript) /\ terminal
<1>1. StreamsInv /\ [StreamsNext]_streams => [Step]_streams
  <2> SUFFICES ASSUME StreamsInv, StreamsNext PROVE Step
    OBVIOUS
  <2>1. CASE ReadEvents
    BY <2>1, EventsTaken DEF ReadEvents
  <2>2. CASE FinalEvents
    BY <2>2, EventsTaken DEF FinalEvents, OfStoppedRun, Final
  <2>3. CASE ReadBytes \/ FinalBytes
    BY <2>3, BytesTaken DEF ReadBytes, FinalBytes, durable
  <2>4. CASE ~ReadEvents /\ ~FinalEvents /\ ~ReadBytes /\ ~FinalBytes
    <3>1. watch'.stage = "done" => watch.stage = "done"
      BY <2>4
         DEF StreamsNext, StreamsInv, StreamsTypeOK, Output, SessionEnds,
             Change, StopRun, Retire, Crash, Restart, RecoverRun, Unconnected,
             StartWatch, StartTailing, ResumeWatch, Resumed, ResumeTailing
    <3>2. tailing'.stage = "done" => tailing.stage = "done"
      BY <2>4
         DEF StreamsNext, StreamsInv, StreamsTypeOK, Output, SessionEnds,
             Change, StopRun, Retire, Crash, Restart, RecoverRun, Unconnected,
             StartWatch, StartTailing, ResumeWatch, Resumed, ResumeTailing
    <3> QED BY <3>1, <3>2
  <2> QED BY <2>1, <2>2, <2>3, <2>4
<1> QED BY <1>1, StreamsInductive, PTL DEF StreamsSpec, EndsComplete
=============================================================================

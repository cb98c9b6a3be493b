------------------------------- MODULE Progress -------------------------------
(***************************************************************************)
(* How a coordinator learns what has changed in a run: `progress` pages    *)
(* behind a cursor (supervisor/progress.rs, state/progress.rs) and the     *)
(* `poll` helper of the MCP bridge that drains them (mcp/client.rs).  Most *)
(* events are not for the reader: a page is filled from a window of the    *)
(* log, and may be empty although more is to come.  The reader owns its    *)
(* cursor; the supervisor keeps nothing about it.                          *)
(*                                                                         *)
(* A page is read in one transaction.  The deadlines that come with it are *)
(* computed anew for each page and left out, as is the inbox (Delivery).   *)
(***************************************************************************)
EXTENDS Integers, FiniteSets

CONSTANTS
    Readers,    \* agents and the operator that ask for progress
    Limits,     \* changes a call may return: 1..100 or, for a poll, 100
    Pages,      \* pages a call may read: 1, or 16 for a poll
    Window,     \* events that are scanned for a page, 256 in the source
    MaxEvents, MaxCrashes, MaxLosses

(* What is assumed of them.                                                 *)
Bounds ==
    /\ Limits \subseteq Nat \ {0} /\ Pages \subseteq Nat \ {0}
    /\ Window \in Nat \ {0}
    /\ {MaxEvents, MaxCrashes, MaxLosses} \subseteq Nat

VARIABLES
    last,     \* sequence number of the last event
    shown,    \* the events that are lifecycle changes
    up,       \* whether a supervisor serves the run
    saved,    \* per reader, the cursor it holds, 0 for none
    taken,    \* per reader, the changes it has been given since it had none
    call,     \* per reader, its call in progress
    crashes, losses

vars == <<last, shown, up, saved, taken, call, crashes, losses>>
log == <<last, shown>>

Between(low, high) == {n \in shown : low < n /\ n <= high}

Idle ==
    [stage |-> "idle", limit |-> 1, pages |-> 1, patient |-> FALSE,
     waiting |-> FALSE, from |-> 0, cursor |-> 0, after |-> 0, got |-> {},
     more |-> FALSE]

(* patient: the first page may wait. from: the cursor of the call. cursor:  *)
(* the client's, after: that of the supervisor while it waits.              *)
Calls ==
    [stage : {"idle", "asking", "answered"}, limit : Nat, pages : Nat,
     patient : BOOLEAN, waiting : BOOLEAN, from : Nat, cursor : Nat,
     after : Nat, got : SUBSET shown, more : BOOLEAN]

TypeOK ==
    /\ last \in 0..MaxEvents /\ shown \subseteq 1..last /\ up \in BOOLEAN
    /\ saved \in [Readers -> 0..last]
    /\ taken \in [Readers -> SUBSET shown]
    /\ call \in [Readers -> Calls]
    /\ crashes \in 0..MaxCrashes /\ losses \in 0..MaxLosses

Init ==
    /\ last = 0 /\ shown = {} /\ up = TRUE
    /\ saved = [r \in Readers |-> 0] /\ taken = [r \in Readers |-> {}]
    /\ call = [r \in Readers |-> Idle]
    /\ crashes = 0 /\ losses = 0

-----------------------------------------------------------------------------
(* The supervisor.                                                          *)

(* append_event: a change of a task, an assignment, an agent or a session,  *)
(* or an event that is none.                                                *)
Append ==
    /\ up /\ last < MaxEvents /\ last' = last + 1
    /\ shown' \in {shown, shown \cup {last'}}
    /\ UNCHANGED <<up, saved, taken, call, crashes, losses>>

Least(a, b) == IF a <= b THEN a ELSE b

(* progress_after: the scan ends with the window, or before a change that   *)
(* does not fit any more.                                                   *)
Scans(after, limit, next) ==
    /\ next \in after..Least(after + Window, last)
    /\ Cardinality(Between(after, next)) <= limit
    /\ \/ next = Least(after + Window, last)
       \/ next + 1 \in shown /\ Cardinality(Between(after, next)) = limit

(* The changes of a page whose scan ended at next.                          *)
Takes(after, next) == Between(after, next)

-----------------------------------------------------------------------------
(* A call.                                                                  *)

(* parse_cursor: a cursor names its run and its reader.                     *)
OwnCursor(r, owner) == owner = r

(* poll or progress, with the cursor of some reader.                        *)
Ask(r, owner, limit, pages, patient) ==
    /\ call[r].stage = "idle" /\ OwnCursor(r, owner)
    /\ call' = [call EXCEPT ![r] =
                  [Idle EXCEPT !.stage = "asking", !.limit = limit,
                               !.pages = pages, !.patient = patient,
                               !.waiting = patient, !.from = saved[owner],
                               !.cursor = saved[owner],
                               !.after = saved[owner]]]
    /\ UNCHANGED <<log, up, saved, taken, crashes, losses>>

(* wait: an empty page is not returned while there is time.                 *)
Waits(c, next) ==
    c.waiting /\ Takes(c.after, next) = {} /\ next = last

(* The drain ends with the log, a full answer or the last page.             *)
Drained(c) == ~c.more \/ Cardinality(c.got) = c.limit \/ c.pages = 0

(* The call with a page taken.                                              *)
Taken(c, next) ==
    LET d == [c EXCEPT !.got = @ \cup Takes(c.after, next),
                       !.cursor = next, !.after = next,
                       !.pages = @ - 1, !.waiting = FALSE,
                       !.more = next < last]
    IN [d EXCEPT !.stage = IF Drained(d) THEN "answered" ELSE "asking"]

Page(r) ==
    LET c == call[r] IN
    /\ up /\ c.stage = "asking"
    /\ \E next \in c.after..last :
          /\ Scans(c.after, c.limit - Cardinality(c.got), next)
          /\ call' = [call EXCEPT ![r] =
                        IF Waits(c, next) THEN [c EXCEPT !.after = next]
                        ELSE Taken(c, next)]
    /\ UNCHANGED <<log, up, saved, taken, crashes, losses>>

(* The time of a wait is over: the next page is returned as it is.          *)
Expire(r) ==
    /\ call[r].stage = "asking" /\ call[r].waiting
    /\ call' = [call EXCEPT ![r].waiting = FALSE]
    /\ UNCHANGED <<log, up, saved, taken, crashes, losses>>

(* The answer arrives.                                                      *)
Answer(r) ==
    /\ call[r].stage = "answered"
    /\ saved' = [saved EXCEPT ![r] = call[r].cursor]
    /\ taken' = [taken EXCEPT ![r] = @ \cup call[r].got]
    /\ call' = [call EXCEPT ![r] = Idle]
    /\ UNCHANGED <<log, up, crashes, losses>>

-----------------------------------------------------------------------------
(* Failures.                                                                *)

(* The supervisor's side of a call is lost; the bridge connects again and   *)
(* sends the request again (request_reconnecting; only once, which is left *)
(* out).                                                                    *)
Resent(c) ==
    [c EXCEPT !.after = c.cursor, !.waiting = c.patient /\ c.got = {}]

Crash ==
    /\ up /\ crashes < MaxCrashes /\ crashes' = crashes + 1 /\ up' = FALSE
    /\ call' = [r \in Readers |->
                  IF call[r].stage = "asking" THEN Resent(call[r])
                  ELSE call[r]]
    /\ UNCHANGED <<log, saved, taken, losses>>

Restart ==
    /\ ~up /\ up' = TRUE
    /\ UNCHANGED <<log, saved, taken, call, crashes, losses>>

(* There is no supervisor, or the answer is lost with the bridge: the       *)
(* reader still has the cursor it called with.                              *)
GiveUp(r) ==
    /\ call[r].stage = "asking" /\ ~up
    /\ call' = [call EXCEPT ![r] = Idle]
    /\ UNCHANGED <<log, up, saved, taken, crashes, losses>>

LoseAnswer(r) ==
    /\ call[r].stage = "answered" /\ losses < MaxLosses
    /\ losses' = losses + 1
    /\ call' = [call EXCEPT ![r] = Idle]
    /\ UNCHANGED <<log, up, saved, taken, crashes>>

(* A fresh session of the agent has no cursor and begins with the run.      *)
Forget(r) ==
    /\ call[r].stage = "idle" /\ saved[r] > 0 /\ losses < MaxLosses
    /\ losses' = losses + 1
    /\ saved' = [saved EXCEPT ![r] = 0] /\ taken' = [taken EXCEPT ![r] = {}]
    /\ UNCHANGED <<log, up, call, crashes>>

-----------------------------------------------------------------------------
Asks(r) ==
    \E owner \in Readers, limit \in Limits, pages \in Pages,
       patient \in BOOLEAN : Ask(r, owner, limit, pages, patient)

Reading(r) == Asks(r) \/ Page(r) \/ Expire(r) \/ Answer(r)

Next ==
    \/ Append \/ Crash \/ Restart
    \/ \E r \in Readers : Reading(r) \/ GiveUp(r) \/ LoseAnswer(r) \/ Forget(r)

Spec == Init /\ [][Next]_vars

-----------------------------------------------------------------------------
(* Properties.                                                              *)

(* Whatever was written, lost, asked again or resumed meanwhile, a reader   *)
(* has been given all the changes up to its cursor and none behind it: none *)
(* is skipped by a page that was full, by a window without changes or by a  *)
(* wait (progress_after, wait, poll).                                       *)
NothingSkipped == \A r \in Readers : taken[r] = Between(0, saved[r])

(* No change comes twice to a reader that keeps its cursor: a call collects *)
(* none that an earlier answer brought, and no page it may still read,      *)
(* wherever its scan ends, one that it has or that an answer brought.       *)
GivenOnce ==
    \A r \in Readers : call[r].stage # "idle" =>
        /\ call[r].got \cap taken[r] = {}
        /\ \A next \in Nat :
              Takes(call[r].after, next) \cap (call[r].got \cup taken[r]) = {}

ExactlyOnce == NothingSkipped /\ GivenOnce

(* An answer that promises more has come further, even when it has no       *)
(* change to show (poll refuses a page that has not).                       *)
Advances ==
    \A r \in Readers :
        call[r].stage = "answered" /\ call[r].more =>
            call[r].from < call[r].cursor

(* What a call has collected so far.                                        *)
Collected ==
    \A r \in Readers : call[r].stage # "idle" =>
        /\ call[r].from = saved[r]
        /\ call[r].from <= call[r].cursor
        /\ call[r].cursor <= call[r].after /\ call[r].after <= last
        /\ call[r].got = Between(call[r].from, call[r].cursor)
        /\ Between(call[r].cursor, call[r].after) = {}

(* A drain that goes on has room for another change.                        *)
Roomy ==
    \A r \in Readers : call[r].stage = "asking" =>
        /\ call[r].pages > 0
        /\ Cardinality(call[r].got) < call[r].limit

IInv == TypeOK /\ NothingSkipped /\ Collected /\ Roomy /\ Advances

(* A reader that keeps asking comes to know every change.                   *)
CatchesUp == \A r \in Readers : <>[](taken[r] = shown)

(* Agents poll again and again, and a supervisor that died is replaced.     *)
FairSpec ==
    /\ Spec /\ WF_vars(Restart)
    /\ \A r \in Readers : /\ WF_vars(Asks(r)) /\ WF_vars(Page(r))
                          /\ WF_vars(Expire(r)) /\ WF_vars(Answer(r))
=============================================================================

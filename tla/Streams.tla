-------------------------------- MODULE Streams --------------------------------
(***************************************************************************)
(* How the operator follows a run.  `events --follow` and `logs --follow`  *)
(* ask the supervisor for page after page behind a cursor (supervisor.rs,  *)
(* follow_output, events, logs; transcript.rs, read_page).  The supervisor *)
(* may crash and be started again, and a stopped run retires its socket:   *)
(* the follower then reads the final pages from the database itself.       *)
(*                                                                         *)
(* A transcript is the provider's UTF-8 output: a byte is the length of    *)
(* the character it begins, or Rest.  What matters is where pages may be   *)
(* cut.  A page is read and taken at once, for what happens in between     *)
(* might as well happen afterwards; a page whose reply is lost is read     *)
(* again from the same cursor.                                             *)
(***************************************************************************)
EXTENDS Integers, Sequences, FiniteSets

CONSTANTS
    Lengths,     \* lengths of the characters a provider writes, in bytes
    EventLimit,  \* events in a page
    ByteLimit,   \* bytes in a page of a transcript
    MaxBytes, MaxHistory, MaxRecoveries, MaxCrashes

ASSUME StreamsAssumption ==
    /\ Lengths \subseteq 1..4 /\ Lengths # {}
    /\ {EventLimit, ByteLimit} \subseteq Nat \ {0}
    /\ {MaxBytes, MaxHistory, MaxRecoveries, MaxCrashes} \subseteq Nat

Rest == 0
Kinds == {"change", "run.stopped", "run.recovered"}

VARIABLES
    run,         \* status of the run
    up,          \* whether a supervisor serves it
    crashes, recoveries,
    history,     \* the run's events
    transcript,  \* the bytes of one session's transcript
    terminal,    \* whether that session has ended
    watch,       \* `events --follow`
    tailing      \* `logs --follow`, with what it printed

streams == <<run, up, crashes, recoveries, history, transcript, terminal,
             watch, tailing>>
durable == <<run, history, transcript, terminal>>
counts == <<crashes, recoveries>>

Stages == {"idle", "following", "reconnecting", "done", "failed"}

StreamsTypeOK ==
    /\ run \in {"active", "stopped"} /\ {up, terminal} \subseteq BOOLEAN
    /\ crashes \in 0..MaxCrashes /\ recoveries \in 0..MaxRecoveries
    /\ history \in Seq(Kinds) /\ transcript \in Seq(0..4)
    /\ watch \in [stage : Stages, connected : BOOLEAN, after : 0..Len(history),
                  stopped : BOOLEAN]
    /\ tailing \in [stage : Stages, connected : BOOLEAN,
                    after : 0..Len(transcript), from : 0..Len(transcript),
                    tail : BOOLEAN, cuts : SUBSET (0..Len(transcript))]

StreamsInit ==
    /\ run = "active" /\ up = TRUE /\ crashes = 0 /\ recoveries = 0
    /\ history = <<>> /\ transcript = <<>> /\ terminal = FALSE
    /\ watch = [stage |-> "idle", connected |-> FALSE, after |-> 0,
                stopped |-> FALSE]
    /\ tailing = [stage |-> "idle", connected |-> FALSE, after |-> 0,
                  from |-> 0, tail |-> FALSE, cuts |-> {}]

Least(a, b) == IF a <= b THEN a ELSE b

-----------------------------------------------------------------------------
(* The transcript.                                                          *)

(* How many bytes of the character that is open after the first n bytes are *)
(* still missing; none if that cut is between two characters.               *)
Leads(n) == {i \in 1..n : transcript[i] # Rest}
Missing(n) ==
    IF Leads(n) = {} THEN 0
    ELSE LET i == CHOOSE i \in Leads(n) : \A j \in Leads(n) : j <= i
         IN i + transcript[i] - 1 - n
Whole(n) == Missing(n) = 0

(* Slip: a page has the bytes that were asked for and no more.              *)
EndAsAsked(start, tail) ==
    IF tail THEN Len(transcript) ELSE Least(start + ByteLimit, Len(transcript))

(* read_page: the limit, and up to three more bytes of a character it       *)
(* would bisect, as far as they are written.                                *)
End(start, tail) ==
    LET asked == IF tail THEN Len(transcript)
                 ELSE Least(start + ByteLimit, Len(transcript))
    IN Least(asked + Missing(asked), Len(transcript))

(* read_tail begins at a character.                                         *)
TailStart ==
    LET back == IF Len(transcript) > ByteLimit
                THEN Len(transcript) - ByteLimit ELSE 0
        begins == {n \in 0..back : back - n <= 3 /\
                      (n = 0 \/ n = Len(transcript) \/ transcript[n + 1] # Rest)}
    IN CHOOSE n \in begins : \A m \in begins : m <= n

(* logs: the end of a live transcript waits for its last character.         *)
Shown(end) ==
    IF terminal \/ Whole(end) THEN end
    ELSE CHOOSE n \in 0..end : /\ Whole(n)
                               /\ \A m \in (n + 1)..end : ~Whole(m)

Written(bytes) == transcript' = transcript \o bytes

-----------------------------------------------------------------------------
(* The run.                                                                 *)

(* The provider's output is appended chunk by chunk; a chunk may end inside *)
(* a character.                                                             *)
Output ==
    /\ up /\ run = "active" /\ ~terminal /\ Len(transcript) < MaxBytes
    /\ IF Whole(Len(transcript)) THEN \E n \in Lengths : Written(<<n>>)
       ELSE Written(<<Rest>>)
    /\ UNCHANGED <<run, up, counts, history, terminal, watch, tailing>>

(* The session ends, possibly in the middle of a character.                 *)
SessionEnds ==
    /\ up /\ run = "active" /\ ~terminal /\ terminal' = TRUE
    /\ UNCHANGED <<run, up, counts, history, transcript, watch, tailing>>

Change ==
    /\ up /\ run = "active" /\ Len(history) < MaxHistory
    /\ history' = Append(history, "change")
    /\ UNCHANGED <<run, up, counts, transcript, terminal, watch, tailing>>

(* A run stops when no session is left.                                     *)
StopRun ==
    /\ up /\ run = "active" /\ terminal
    /\ run' = "stopped" /\ history' = Append(history, "run.stopped")
    /\ UNCHANGED <<up, counts, transcript, terminal, watch, tailing>>

Unconnected ==
    /\ up' = FALSE
    /\ watch' = [watch EXCEPT !.connected = FALSE]
    /\ tailing' = [tailing EXCEPT !.connected = FALSE]

Retire ==
    /\ up /\ run = "stopped" /\ Unconnected
    /\ UNCHANGED <<durable, counts>>

Crash ==
    /\ up /\ crashes < MaxCrashes /\ crashes' = crashes + 1 /\ Unconnected
    /\ UNCHANGED <<durable, recoveries>>

Restart ==
    /\ ~up /\ run = "active" /\ up' = TRUE
    /\ UNCHANGED <<durable, counts, watch, tailing>>

(* `run recover`: the same run is active again.                             *)
RecoverRun ==
    /\ ~up /\ run = "stopped" /\ recoveries < MaxRecoveries
    /\ run' = "active" /\ up' = TRUE /\ recoveries' = recoveries + 1
    /\ history' = Append(history, "run.recovered")
    /\ UNCHANGED <<crashes, transcript, terminal, watch, tailing>>

-----------------------------------------------------------------------------
(* The followers.                                                           *)

(* From the cursor an earlier follower printed, or from the beginning.      *)
StartWatch(after) ==
    /\ watch.stage = "idle" /\ up
    /\ watch' = [watch EXCEPT !.stage = "following", !.connected = TRUE,
                              !.after = after]
    /\ UNCHANGED <<durable, up, counts, tailing>>

StartTailing(tail) ==
    /\ tailing.stage = "idle" /\ up
    /\ tailing' = [tailing EXCEPT !.stage = "following", !.connected = TRUE,
                                  !.tail = tail]
    /\ UNCHANGED <<durable, up, counts, watch>>

(* Slip: a stopped run needs no further page.                               *)
AtLast(stopped, page) == stopped

(* A run that stopped is followed through its final empty page.             *)
AtEnd(stopped, page) == stopped /\ page = <<>>

(* events_after: where the page behind a cursor may end. It holds the next  *)
(* events up to the limit, fewer when their text would be too long for a    *)
(* page, but always one if there is one.                                    *)
EventsAfter(after) ==
    IF after = Len(history) THEN {after}
    ELSE (after + 1)..Least(after + EventLimit, Len(history))

(* follow_output takes a page of events.                                    *)
TakeEvents(stopped) ==
    \E through \in EventsAfter(watch.after) :
        LET page == SubSeq(history, watch.after + 1, through)
            seen == \/ watch.stopped \/ stopped
                    \/ \E i \in DOMAIN page : page[i] = "run.stopped"
        IN watch' = [watch EXCEPT !.after = through, !.stopped = seen,
                !.stage = IF AtEnd(seen, page) THEN "done" ELSE "following"]

(* follow_output takes a page of the transcript. Later pages continue it.   *)
TakeBytes ==
    LET start == IF tailing.tail THEN TailStart ELSE tailing.after
        through == Shown(End(start, tailing.tail))
    IN tailing' = [tailing EXCEPT !.after = through, !.tail = FALSE,
          !.from = IF tailing.tail THEN start ELSE @,
          !.cuts = @ \cup {start, through},
          !.stage = IF through = Len(transcript) /\ terminal
                    THEN "done" ELSE "following"]

Served(f) == f.stage = "following" /\ f.connected /\ up

ReadEvents ==
    /\ Served(watch) /\ TakeEvents(FALSE)
    /\ UNCHANGED <<durable, up, counts, tailing>>

ReadBytes ==
    /\ Served(tailing) /\ TakeBytes
    /\ UNCHANGED <<durable, up, counts, watch>>

(* The connection failed: first the database is asked whether the run has   *)
(* stopped (stopped_stream_page), then a supervisor is looked for, until    *)
(* five seconds have passed without one.                                    *)
Resumed(f, next) ==
    /\ f.stage \in {"following", "reconnecting"} /\ ~f.connected
    /\ run = "active"
    /\ IF up THEN next = [f EXCEPT !.stage = "following", !.connected = TRUE]
       ELSE next \in {[f EXCEPT !.stage = "reconnecting"],
                      [f EXCEPT !.stage = "failed"]}

Final(f) ==
    f.stage \in {"following", "reconnecting"} /\ ~f.connected /\ run = "stopped"

ResumeWatch ==
    /\ Resumed(watch, watch')
    /\ UNCHANGED <<durable, up, counts, tailing>>

ResumeTailing ==
    /\ Resumed(tailing, tailing')
    /\ UNCHANGED <<durable, up, counts, watch>>

(* Slip: pages read without a supervisor are taken like any others.         *)
LikeAnyPage == FALSE

(* Pages read from the database are those of a stopped run.                 *)
OfStoppedRun == TRUE

FinalEvents ==
    /\ Final(watch) /\ TakeEvents(OfStoppedRun)
    /\ UNCHANGED <<durable, up, counts, tailing>>

FinalBytes ==
    /\ Final(tailing) /\ TakeBytes
    /\ UNCHANGED <<durable, up, counts, watch>>

-----------------------------------------------------------------------------
StreamsNext ==
    \/ Output \/ SessionEnds \/ Change \/ StopRun \/ Retire \/ Crash \/ Restart
    \/ RecoverRun
    \/ \E after \in 0..Len(history) : StartWatch(after)
    \/ \E tail \in BOOLEAN : StartTailing(tail)
    \/ ReadEvents \/ ReadBytes \/ ResumeWatch \/ ResumeTailing
    \/ FinalEvents \/ FinalBytes

StreamsSpec == StreamsInit /\ [][StreamsNext]_streams

-----------------------------------------------------------------------------
(* Properties.                                                              *)

(* Where a follower cuts the transcript, no character is cut, so that its   *)
(* output is the provider's, whatever page size, chunk boundaries and       *)
(* restarts; only a session that ended inside a character shows a part.     *)
CharactersWhole ==
    \A n \in tailing.cuts : Whole(n) \/ (terminal /\ n = Len(transcript))

(* The bytes are those of characters, one after the other, each of which    *)
(* begins where the one before it is complete.                              *)
Characters ==
    \A n \in 0..Len(transcript) :
        /\ Missing(n) \in 0..3
        /\ n > 0 => \E i \in Leads(n) : \A j \in Leads(n) : j <= i
        /\ n < Len(transcript) => (Whole(n) <=> transcript[n + 1] # Rest)

(* Pages are cut, and continued, between characters.                        *)
CursorWhole ==
    \A n \in tailing.cuts \cup {tailing.after} :
        Whole(n) \/ (terminal /\ n = Len(transcript))

(* Who has seen that the run stopped is right, or the run was recovered.    *)
StoppedSeen ==
    (\/ watch.stopped
     \/ \E i \in DOMAIN history : history[i] = "run.stopped")
        => run = "stopped" \/ recoveries > 0

StreamsInv == StreamsTypeOK /\ Characters /\ CursorWhole /\ StoppedSeen

(* A follower that ends has shown everything: the transcript of a session   *)
(* that has ended, or the events of a run that stopped. The exception is a   *)
(* run that was recovered: see the README.                                  *)
EndsComplete ==
    [][/\ watch.stage # "done" /\ watch'.stage = "done" =>
             /\ watch'.after = Len(history)
             /\ run = "stopped" \/ recoveries > 0
       /\ tailing.stage # "done" /\ tailing'.stage = "done" =>
             tailing'.after = Len(transcript) /\ terminal]_streams

(* Every follower of a run that stays stopped ends, whether it was ahead of *)
(* or behind the last event and whether or not it lost its supervisor.      *)
FollowersEnd ==
    <>[](run = "stopped" /\ ~up) =>
        <>[](\A f \in {watch.stage, tailing.stage} :
                f \in {"idle", "done", "failed"})

StreamsFairness ==
    /\ WF_streams(ReadEvents) /\ WF_streams(ReadBytes)
    /\ WF_streams(ResumeWatch) /\ WF_streams(ResumeTailing)
    /\ WF_streams(FinalEvents) /\ WF_streams(FinalBytes)

StreamsFairSpec == StreamsSpec /\ StreamsFairness
=============================================================================

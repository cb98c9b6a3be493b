----------------------------- MODULE Bridge_proofs -----------------------------
(***************************************************************************)
(* Proofs about Bridge: for any operations, arguments, memory of the       *)
(* bridge, faults and ends of sessions, an answer is never taken for       *)
(* another's, an outcome the agent does not know can be asked again, and   *)
(* an operation takes effect once, for a session that has not ended.       *)
(***************************************************************************)
EXTENDS Bridge, FiniteSetTheorems, SequenceTheorems, WellFoundedInduction, TLAPS

-----------------------------------------------------------------------------
(* Numbers and sequences.                                                   *)

Less == {p \in Nat \X Nat : p[1] < p[2]}

LEMMA LessWellFounded == IsWellFoundedOn(Less, Nat)
  BY NatLessThanWellFounded, Zenon DEF OpToRel, Less

(* A set of numbers has a least one, as the eviction of the oldest assumes. *)
LEMMA Least ==
    ASSUME NEW S, S \subseteq Nat, S # {}
    PROVE  \E m \in S : \A n \in S : m <= n
<1>1. \E m \in S : \A n \in S : <<n, m>> \notin Less
  BY LessWellFounded, WFMin
<1>2. \A n, m \in S : <<n, m>> \notin Less => m <= n
  <2> TAKE n, m \in S
  <2>1. n \in Nat /\ m \in Nat
    OBVIOUS
  <2>2. n < m => <<n, m>> \in Less
    BY <2>1 DEF Less
  <2> QED BY <2>1, <2>2
<1> QED BY <1>1, <1>2

(* A sequence one of whose elements is taken out.                           *)
TakeOut(s, i) == SubSeq(s, 1, i - 1) \o SubSeq(s, i + 1, Len(s))

LEMMA TakenOut ==
    ASSUME NEW S, NEW s \in Seq(S), NEW i \in 1..Len(s)
    PROVE  /\ TakeOut(s, i) \in Seq(S)
           /\ Len(TakeOut(s, i)) = Len(s) - 1
           /\ \A k \in 1..(Len(s) - 1) :
                 TakeOut(s, i)[k] = IF k < i THEN s[k] ELSE s[k + 1]
<1> DEFINE a == SubSeq(s, 1, i - 1)
           b == SubSeq(s, i + 1, Len(s))
<1>0. Len(s) \in Nat /\ i \in Nat /\ 1 <= i /\ i <= Len(s)
  BY LenProperties
<1>1. /\ a \in Seq(S) /\ Len(a) = i - 1
      /\ \A k \in 1..(i - 1) : a[k] = s[k]
  OBVIOUS
<1>2. /\ b \in Seq(S) /\ Len(b) = Len(s) - i
      /\ \A k \in 1..(Len(s) - i) : b[k] = s[k + i]
  OBVIOUS
<1> HIDE DEF a, b
<1>3. /\ a \o b \in Seq(S)
      /\ Len(a \o b) = Len(a) + Len(b)
      /\ \A k \in 1..(Len(a) + Len(b)) :
            (a \o b)[k] = IF k <= Len(a) THEN a[k] ELSE b[k - Len(a)]
  BY <1>1, <1>2, ConcatProperties
<1> DEFINE t == a \o b
<1> HIDE DEF t
<1>4. /\ t \in Seq(S) /\ Len(t) = Len(a) + Len(b)
      /\ \A k \in 1..(Len(a) + Len(b)) :
            t[k] = IF k <= Len(a) THEN a[k] ELSE b[k - Len(a)]
  BY <1>3 DEF t
<1>5. Len(a) + Len(b) = Len(s) - 1
  BY <1>0, <1>1, <1>2
<1>6. ASSUME NEW k \in 1..(Len(s) - 1)
      PROVE  t[k] = IF k < i THEN s[k] ELSE s[k + 1]
  <2>0. t[k] = IF k <= i - 1 THEN a[k] ELSE b[k - (i - 1)]
    BY <1>1, <1>4, <1>5
  <2>1. CASE k < i
    <3>1. k \in 1..(i - 1)
      BY <1>0, <2>1
    <3> QED BY <1>0, <1>1, <2>0, <2>1, <3>1
  <2>2. CASE ~(k < i)
    <3>1. k - (i - 1) \in 1..(Len(s) - i)
      BY <1>0, <2>2
    <3>2. b[k - (i - 1)] = s[k - (i - 1) + i]
      BY <1>2, <3>1
    <3>3. k - (i - 1) + i = k + 1
      BY <1>0
    <3> QED BY <1>0, <2>0, <2>2, <3>2, <3>3
  <2> QED BY <2>1, <2>2
<1>7. t = TakeOut(s, i)
  BY DEF t, TakeOut, a, b
<1> QED BY <1>4, <1>5, <1>6, <1>7

(* A sequence of at most one element.                                       *)
LEMMA Single ==
    ASSUME NEW S, NEW s \in Seq(S), s # <<>>, Len(s) <= 1
    PROVE  s = <<Head(s)>> /\ Len(s) = 1
<1>1. Len(s) \in Nat /\ Len(s) # 0
  BY EmptySeq, LenProperties
<1>2. \A n \in Nat : n # 0 /\ n <= 1 => n = 1
  OBVIOUS
<1>3. Len(s) = 1
  BY <1>1, <1>2
<1> QED BY <1>3

LEMMA One ==
    ASSUME NEW S, NEW x \in S
    PROVE  <<x>> \in Seq(S) /\ Len(<<x>>) = 1 /\ Len(<<x>>) <= 1
<1>1. <<x>> \in Seq(S) /\ Len(<<x>>) = 1
  OBVIOUS
<1> QED BY <1>1

-----------------------------------------------------------------------------
(* The supervisor's effects.                                                *)

(* A request has its effect once, for the session that is current, and is   *)
(* answered by what is recorded.                                            *)
LEMMA ExecutedOnce ==
    ASSUME BridgeAssumption, applied \in [Operations -> Seq(Arguments)],
           EffectsOnce, NEW r \in RequestSet, NEW kind \in Kinds,
           Executed(r, kind)
    PROVE  /\ applied' \in [Operations -> Seq(Arguments)]
           /\ EffectsOnce'
           /\ \A o \in Operations :
                 applied[o] # <<>> => applied'[o] = applied[o]
           /\ kind = "ok" /\ r.op # Whoami => applied'[r.op] = <<r.args>>
           /\ applied' # applied =>
                 /\ r.op # Whoami /\ r.generation = generation /\ active
                 /\ applied[r.op] = <<>> /\ Len(applied'[r.op]) = 1
<1>1. CASE ~Allowed(r)
  BY <1>1 DEF Executed, EffectsOnce
<1>2. CASE Allowed(r) /\ r.op = Whoami
  BY <1>2 DEF Executed, EffectsOnce
<1>3. CASE Allowed(r) /\ r.op # Whoami
  <2>1. kind \in Outcomes(r) /\ applied' = Effects(r, kind)
    BY <1>3 DEF Executed
  <2>2. r.op \in Operations /\ r.args \in Arguments
    BY <1>3 DEF RequestSet
  <2>3. r.generation = generation /\ active
    BY <1>3 DEF Allowed, Current
  <2>4. CASE applied[r.op] # <<>>
    <3>1. applied' = applied
      BY <2>1, <2>4 DEF Effects
    <3>2. kind = "ok" => Head(applied[r.op]) = r.args
      BY <2>1, <2>4 DEF Outcomes
    <3>3. applied[r.op] \in Seq(Arguments) /\ Len(applied[r.op]) <= 1
      BY <2>2 DEF EffectsOnce
    <3>4. applied[r.op] = <<Head(applied[r.op])>>
      BY <2>4, <3>3, Single
    <3> QED BY <3>1, <3>2, <3>4 DEF EffectsOnce
  <2>5. CASE applied[r.op] = <<>> /\ kind = "ok"
    <3>1. applied' = [applied EXCEPT ![r.op] = <<r.args>>]
      BY <2>1, <2>5, <2>2 DEF Effects
    <3>2. /\ <<r.args>> \in Seq(Arguments) /\ Len(<<r.args>>) = 1
          /\ Len(<<r.args>>) <= 1
      BY <2>2, One
    <3>3. applied' \in [Operations -> Seq(Arguments)]
      BY <3>1, <3>2
    <3>4. applied'[r.op] = <<r.args>>
      BY <3>1, <2>2
    <3>5. \A o \in Operations : o # r.op => applied'[o] = applied[o]
      BY <3>1
    <3>6. EffectsOnce'
      <4>1. ASSUME NEW o \in Operations PROVE Len(applied'[o]) <= 1
        <5>1. CASE o = r.op
          BY <3>2, <3>4, <5>1
        <5>2. CASE o # r.op
          BY <3>5, <5>2 DEF EffectsOnce
        <5> QED BY <5>1, <5>2
      <4> QED BY <4>1 DEF EffectsOnce
    <3> QED BY <1>3, <2>3, <2>5, <3>2, <3>3, <3>4, <3>5, <3>6
  <2>6. CASE applied[r.op] = <<>> /\ kind # "ok"
    BY <2>1, <2>6 DEF Effects, EffectsOnce
  <2> QED BY <2>4, <2>5, <2>6
<1> QED BY <1>1, <1>2, <1>3

(* What was true of effects stays true of them.                             *)
LEMMA TruthStays ==
    ASSUME \A o \in Operations :
              applied[o] # <<>> => applied'[o] = applied[o],
           NEW a \in AnswerSet, Truthful(a)
    PROVE  Truthful(a)'
<1>1. CASE a.kind = "ok" /\ a.op # Whoami
  <2>1. a.op \in Operations /\ applied[a.op] = <<a.args>>
    BY <1>1 DEF AnswerSet, Truthful
  <2>2. applied[a.op] # <<>>
    BY <2>1
  <2> QED BY <2>1, <2>2 DEF Truthful
<1> QED BY <1>1 DEF Truthful

-----------------------------------------------------------------------------
(* The bridge's memory.                                                     *)

BridgeSet == [op : Operations \cup {NoCall}, args : Arguments \cup {NoCall},
              step : Steps, generation : 1..MaxGenerations,
              stage : {"new", "initialized", "ready"}]
SavedSet == [op : Operations, args : Arguments, succeeded : BOOLEAN]
Outcome == {"never", "uncertain", "orphaned", "refused", "done"}

ClientTypes ==
    /\ bridge \in BridgeSet /\ saved \in Seq(SavedSet)
    /\ told \in [Operations -> Outcome]

Client == ClientTypes /\ Memory /\ AnswersTrue /\ UncertainKept

(* The operation of a call that has begun is one the bridge remembers.      *)
LEMMA CallIsSaved ==
    ASSUME BridgeAssumption, ClientTypes, Memory, bridge.step # "idle"
    PROVE  /\ bridge.op \in Operations /\ bridge.args \in Arguments
           /\ \E i \in DOMAIN saved :
                 saved[i].op = bridge.op /\ saved[i].args = bridge.args
<1>1. PICK i \in DOMAIN saved :
        saved[i].op = bridge.op /\ saved[i].args = bridge.args
  BY DEF Memory, SavedAt
<1>2. saved[i] \in SavedSet
  BY <1>1 DEF ClientTypes
<1> QED BY <1>1, <1>2 DEF SavedSet

(* The end of a call, as SavedMutation and the agent record it.             *)
LEMMA EndedKeeps ==
    ASSUME BridgeAssumption, Client, bridge.step # "idle", applied' = applied,
           NEW kind, Ended(kind),
           kind = "ok" => applied[bridge.op] = <<bridge.args>>
    PROVE  Client' /\ bridge'.step = "idle"
<1> DEFINE o == bridge.op
           mark(i) == IF saved[i].op = o
                      THEN [saved[i] EXCEPT !.succeeded = (kind = "ok")]
                      ELSE saved[i]
<1>0. o \in Operations /\ bridge.args \in Arguments
  BY CallIsSaved DEF Client
<1> USE DEF Client
<1>1. bridge' = [bridge EXCEPT !.op = NoCall, !.args = NoCall, !.step = "idle"]
  BY DEF Ended
<1>2. /\ bridge' \in BridgeSet
      /\ bridge'.op = NoCall /\ bridge'.step = "idle"
  BY <1>1 DEF ClientTypes, BridgeSet, Steps
<1>3. saved' = [i \in DOMAIN saved |-> mark(i)]
  BY DEF Ended
<1>4. DOMAIN saved' = DOMAIN saved /\ Len(saved) \in Nat
      /\ DOMAIN saved = 1..Len(saved)
  BY <1>3, LenProperties DEF ClientTypes
<1>5. ASSUME NEW i \in DOMAIN saved
      PROVE  /\ saved[i] \in SavedSet /\ saved'[i] \in SavedSet
             /\ saved'[i].op = saved[i].op /\ saved'[i].args = saved[i].args
             /\ saved[i].op # o => saved'[i] = saved[i]
             /\ saved[i].op = o => saved'[i].succeeded = (kind = "ok")
  <2>1. saved[i] \in SavedSet
    BY <1>4, <1>5, ElementOfSeq DEF ClientTypes
  <2>2. saved'[i] = mark(i)
    BY <1>3
  <2>3. (kind = "ok") \in BOOLEAN
    OBVIOUS
  <2>4. CASE saved[i].op = o
    BY <2>1, <2>2, <2>3, <2>4 DEF SavedSet
  <2>5. CASE saved[i].op # o
    BY <2>1, <2>2, <2>5
  <2> QED BY <2>1, <2>4, <2>5
<1>6. saved' \in Seq(SavedSet)
  BY <1>3, <1>4, <1>5, IsASeq
<1> HIDE DEF mark
<1>7. /\ told' \in [Operations -> Outcome]
      /\ \A p \in Operations : p # o => told'[p] = told[p]
      /\ told'[o] = "done" <=> kind = "ok" \/ told[o] = "done"
  <2>1. told' = [told EXCEPT ![o] =
           IF kind = "ok" \/ @ = "done" THEN "done"
           ELSE IF kind \in {"refused", "conflict"} THEN "refused"
           ELSE "uncertain"]
    BY DEF Ended
  <2>2. told \in [Operations -> Outcome]
    BY DEF ClientTypes
  <2>3. CASE kind = "ok" \/ told[o] = "done"
    BY <1>0, <2>1, <2>2, <2>3 DEF Outcome
  <2>4. CASE ~(kind = "ok" \/ told[o] = "done")
    BY <1>0, <2>1, <2>2, <2>4 DEF Outcome
  <2> QED BY <2>3, <2>4
<1>8. Memory'
  <2>1. \A i, j \in DOMAIN saved' : saved'[i].op = saved'[j].op => i = j
    BY <1>4, <1>5 DEF Memory
  <2>2. ASSUME NEW i \in DOMAIN saved', saved'[i].succeeded
        PROVE  told'[saved'[i].op] = "done"
    <3>1. CASE saved[i].op = o
      BY <1>4, <1>5, <1>7, <2>2, <3>1
    <3>2. CASE saved[i].op # o
      <4>1. saved[i].op \in Operations /\ saved[i].succeeded
        BY <1>4, <1>5, <2>2, <3>2 DEF SavedSet
      <4>2. told[saved[i].op] = "done"
        BY <1>4, <2>2, <4>1 DEF Memory
      <4> QED BY <1>4, <1>5, <1>7, <3>2, <4>1, <4>2
    <3> QED BY <3>1, <3>2
  <2> QED BY <1>2, <2>1, <2>2 DEF Memory
<1>9. AnswersTrue'
  <2>1. ASSUME NEW p \in Operations, told'[p] = "done"
        PROVE  applied'[p] # <<>>
    <3>1. CASE p = o /\ kind = "ok"
      <4>1. applied'[p] = <<bridge.args>>
        BY <3>1
      <4> QED BY <4>1
    <3>2. CASE ~(p = o /\ kind = "ok")
      <4>1. told[p] = "done"
        BY <1>7, <2>1, <3>2
      <4> QED BY <4>1 DEF AnswersTrue
    <3> QED BY <3>1, <3>2
  <2>2. ASSUME NEW i \in DOMAIN saved', saved'[i].succeeded
        PROVE  applied'[saved'[i].op] = <<saved'[i].args>>
    <3>1. CASE saved[i].op = o
      <4>1. kind = "ok"
        BY <1>4, <1>5, <2>2, <3>1
      <4>2. saved[i].args = bridge.args
        <5>1. PICK j \in DOMAIN saved :
                saved[j].op = o /\ saved[j].args = bridge.args
          BY CallIsSaved
        <5>2. i = j
          BY <1>4, <2>2, <3>1, <5>1 DEF Memory
        <5> QED BY <5>1, <5>2
      <4> QED BY <1>4, <1>5, <2>2, <3>1, <4>1, <4>2
    <3>2. CASE saved[i].op # o
      BY <1>4, <1>5, <2>2, <3>2 DEF AnswersTrue
    <3> QED BY <3>1, <3>2
  <2> QED BY <2>1, <2>2 DEF AnswersTrue
<1>10. UncertainKept'
  <2>1. ASSUME NEW p \in Operations, told'[p] = "uncertain"
        PROVE  \E i \in DOMAIN saved' : saved'[i].op = p
    <3>1. CASE p = o
      <4>1. PICK i \in DOMAIN saved : saved[i].op = o
        BY CallIsSaved
      <4> QED BY <1>4, <1>5, <3>1, <4>1
    <3>2. CASE p # o
      <4>1. told[p] = "uncertain"
        BY <1>7, <2>1, <3>2
      <4>2. PICK i \in DOMAIN saved : saved[i].op = p
        BY <4>1 DEF UncertainKept, IsSaved, SavedAt
      <4> QED BY <1>4, <1>5, <4>2
    <3> QED BY <3>1, <3>2
  <2> QED BY <2>1 DEF UncertainKept, IsSaved, SavedAt
<1> QED BY <1>2, <1>6, <1>7, <1>8, <1>9, <1>10 DEF ClientTypes

-----------------------------------------------------------------------------
(* One connection. "app" stands for what was applied, now or next.          *)

TruthfulOf(app, a) == a.kind = "ok" /\ a.op # Whoami => app[a.op] = <<a.args>>

Fits(app, link) ==
    /\ link \in LinkSet
    /\ ~link.open => link.queue = <<>>
    /\ \A i \in DOMAIN link.answers : TruthfulOf(app, link.answers[i])

(* What is on the new connection of the requests is on the old one.         *)
Follows(link, y) ==
    /\ \A o, a : Only(link, o, a) => Only(y, o, a)
    /\ Nothing(link) => Nothing(y)

LEMMA LinkFields ==
    ASSUME NEW link \in LinkSet
    PROVE  /\ link.open \in BOOLEAN
           /\ link.queue \in Seq(RequestSet) /\ link.answers \in Seq(AnswerSet)
           /\ link.behind \in Nat
           /\ Len(link.queue) \in Nat /\ DOMAIN link.queue = 1..Len(link.queue)
           /\ Len(link.answers) \in Nat
           /\ DOMAIN link.answers = 1..Len(link.answers)
<1>1. /\ link.open \in BOOLEAN
      /\ link.queue \in Seq(RequestSet) /\ link.answers \in Seq(AnswerSet)
      /\ link.behind \in Nat
  BY DEF LinkSet
<1> QED BY <1>1, LenProperties

LEMMA LinkUpdates ==
    ASSUME NEW link \in LinkSet
    PROVE  /\ \A q \in Seq(RequestSet) : [link EXCEPT !.queue = q] \in LinkSet
           /\ \A q \in Seq(RequestSet), s \in Seq(AnswerSet) :
                 [link EXCEPT !.queue = q, !.answers = s] \in LinkSet
           /\ \A s \in Seq(AnswerSet) : [link EXCEPT !.answers = s] \in LinkSet
           /\ [link EXCEPT !.open = FALSE, !.queue = <<>>] \in LinkSet
           /\ [link EXCEPT !.behind = @ + 1] \in LinkSet
<1>1. <<>> \in Seq(RequestSet)
  BY EmptySeq
<1>2. \A q \in Seq(RequestSet) : [link EXCEPT !.queue = q] \in LinkSet
  BY DEF LinkSet
<1>3. \A q \in Seq(RequestSet), s \in Seq(AnswerSet) :
        [link EXCEPT !.queue = q, !.answers = s] \in LinkSet
  BY DEF LinkSet
<1>4. \A s \in Seq(AnswerSet) : [link EXCEPT !.answers = s] \in LinkSet
  BY DEF LinkSet
<1>5. [link EXCEPT !.open = FALSE, !.queue = <<>>] \in LinkSet
  BY <1>1 DEF LinkSet
<1>6. [link EXCEPT !.behind = @ + 1] \in LinkSet
  <2>1. link.behind + 1 \in Nat
    BY LinkFields
  <2> QED BY <2>1 DEF LinkSet
<1> QED BY <1>2, <1>3, <1>4, <1>5, <1>6

(* Sequences with an element taken from the front, or put at the end.       *)
LEMMA Shifted ==
    ASSUME NEW S, NEW s \in Seq(S), s # <<>>
    PROVE  /\ Head(s) \in S /\ Head(s) = s[1] /\ 1 \in DOMAIN s
           /\ Tail(s) \in Seq(S) /\ Len(Tail(s)) = Len(s) - 1
           /\ \A i \in DOMAIN Tail(s) :
                 i + 1 \in DOMAIN s /\ Tail(s)[i] = s[i + 1]
<1>1. /\ Head(s) \in S /\ Tail(s) \in Seq(S) /\ Len(Tail(s)) = Len(s) - 1
      /\ \A i \in 1..Len(Tail(s)) : Tail(s)[i] = s[i + 1]
  BY HeadTailProperties
<1>2. /\ Len(s) \in Nat \ {0} /\ DOMAIN s = 1..Len(s)
      /\ DOMAIN Tail(s) = 1..Len(Tail(s))
  BY <1>1, EmptySeq, LenProperties
<1>3. Head(s) = s[1] /\ 1 \in DOMAIN s
  BY <1>2
<1>4. \A i \in DOMAIN Tail(s) : i + 1 \in DOMAIN s
  BY <1>1, <1>2
<1> QED BY <1>1, <1>2, <1>3, <1>4

LEMMA Added ==
    ASSUME NEW S, NEW s \in Seq(S), NEW x \in S
    PROVE  /\ Append(s, x) \in Seq(S) /\ Len(Append(s, x)) = Len(s) + 1
           /\ \A i \in DOMAIN Append(s, x) :
                 \/ i \in DOMAIN s /\ Append(s, x)[i] = s[i]
                 \/ i = Len(s) + 1 /\ Append(s, x)[i] = x
<1>1. /\ Append(s, x) \in Seq(S) /\ Len(Append(s, x)) = Len(s) + 1
      /\ \A i \in 1..Len(s) : Append(s, x)[i] = s[i]
      /\ Append(s, x)[Len(s) + 1] = x
  BY AppendProperties
<1>2. /\ Len(s) \in Nat /\ DOMAIN s = 1..Len(s)
      /\ DOMAIN Append(s, x) = 1..(Len(s) + 1)
  BY <1>1, LenProperties
<1>3. \A i \in 1..(Len(s) + 1) : i \in 1..Len(s) \/ i = Len(s) + 1
  BY <1>2
<1> QED BY <1>1, <1>2, <1>3

(* A connection that carries nothing: closed, opened, or with one request.  *)
LEMMA Fresh ==
    ASSUME BridgeAssumption, NEW app
    PROVE  /\ Fits(app, Closed) /\ Nothing(Closed) /\ Closed.queue = <<>>
           /\ Fits(app, Opened) /\ Nothing(Opened)
           /\ \A r \in RequestSet :
                 LET y == [Opened EXCEPT !.queue = <<r>>]
                 IN Fits(app, y) /\ Only(y, r.op, r.args)
<1>1. /\ <<>> \in Seq(RequestSet) /\ <<>> \in Seq(AnswerSet) /\ 0 \in Nat
      /\ DOMAIN <<>> = {} /\ Len(<<>>) = 0
  BY EmptySeq
<1>2. Fits(app, Closed) /\ Nothing(Closed) /\ Closed.queue = <<>>
  BY <1>1 DEF Fits, Closed, Nothing, LinkSet
<1>3. Fits(app, Opened) /\ Nothing(Opened)
  BY <1>1 DEF Fits, Opened, Closed, Nothing, LinkSet
<1>4. ASSUME NEW r \in RequestSet
      PROVE  LET y == [Opened EXCEPT !.queue = <<r>>]
             IN Fits(app, y) /\ Only(y, r.op, r.args)
  <2> DEFINE y == [Opened EXCEPT !.queue = <<r>>]
  <2>1. <<r>> \in Seq(RequestSet) /\ Len(<<r>>) = 1
    BY One
  <2>0. /\ Opened \in LinkSet /\ Opened.open
        /\ Opened.answers = <<>> /\ Opened.behind = 0
    BY <1>3 DEF Fits, Opened, Closed
  <2>2. y \in LinkSet
    BY <2>0, <2>1, LinkUpdates
  <2>5. /\ y.open /\ y.queue = <<r>> /\ y.answers = <<>> /\ y.behind = 0
    BY <2>0 DEF LinkSet
  <2> HIDE DEF y
  <2>3. Fits(app, y)
    BY <1>1, <2>2, <2>5 DEF Fits
  <2>4. Only(y, r.op, r.args)
    <3>1. Len(y.queue) + Len(y.answers) <= 1
      BY <1>1, <2>1, <2>5
    <3>2. DOMAIN y.queue = {1} /\ y.queue[1] = r /\ DOMAIN y.answers = {}
      BY <1>1, <2>5
    <3> QED BY <3>1, <3>2 DEF Only
  <2> QED BY <2>3, <2>4 DEF y
<1> QED BY <1>2, <1>3, <1>4

(* The server authenticates the first request, or refuses it, or answers.   *)
LEMMA Authenticated ==
    ASSUME NEW app, NEW link, Fits(app, link), link.queue # <<>>
    PROVE  LET y == [link EXCEPT !.queue[1].authentic = TRUE]
           IN Fits(app, y) /\ Follows(link, y)
<1> DEFINE q == [link.queue EXCEPT ![1] = [@ EXCEPT !.authentic = TRUE]]
           y == [link EXCEPT !.queue = q]
<1>0. link \in LinkSet
  BY DEF Fits
<1>1. /\ Head(link.queue) \in RequestSet /\ link.queue[1] = Head(link.queue)
      /\ 1 \in DOMAIN link.queue
  BY <1>0, LinkFields, Shifted
<1>2. [link.queue[1] EXCEPT !.authentic = TRUE] \in RequestSet
  BY <1>1 DEF RequestSet
<1>3. /\ q \in Seq(RequestSet) /\ Len(q) = Len(link.queue)
      /\ DOMAIN q = DOMAIN link.queue
      /\ \A i \in DOMAIN q : /\ q[i].op = link.queue[i].op
                             /\ q[i].args = link.queue[i].args
  <2>1. q = [link.queue EXCEPT ![1] = [link.queue[1] EXCEPT !.authentic = TRUE]]
    OBVIOUS
  <2>2. q \in Seq(RequestSet) /\ Len(q) = Len(link.queue)
        /\ DOMAIN q = DOMAIN link.queue
    BY <1>0, <1>1, <1>2, <2>1, ExceptSeq, LinkFields
  <2>3. \A i \in DOMAIN q : /\ q[i].op = link.queue[i].op
                             /\ q[i].args = link.queue[i].args
    BY <1>1, <2>1 DEF RequestSet
  <2> QED BY <2>2, <2>3
<1> HIDE DEF q
<1>4. y \in LinkSet
  BY <1>0, <1>3, LinkUpdates
<1>5. /\ y.open = link.open /\ y.answers = link.answers
      /\ y.behind = link.behind /\ y.queue = q
  BY <1>0 DEF LinkSet
<1> HIDE DEF y
<1>6. Fits(app, y)
  <2>1. link.open
    BY DEF Fits
  <2> QED BY <1>4, <1>5, <2>1 DEF Fits
<1>7. Follows(link, y)
  <2>1. ASSUME NEW o, NEW a, Only(link, o, a) PROVE Only(y, o, a)
    BY <1>3, <1>5, <2>1 DEF Only
  <2>2. Nothing(link) => Nothing(y)
    BY <1>5 DEF Nothing
  <2> QED BY <2>1, <2>2 DEF Follows
<1>8. [link EXCEPT !.queue[1].authentic = TRUE] = y
  BY DEF y, q
<1> QED BY <1>6, <1>7, <1>8

LEMMA Answered ==
    ASSUME NEW app, NEW link, Fits(app, link), link.queue # <<>>,
           NEW a \in AnswerSet, TruthfulOf(app, a),
           a.op = Head(link.queue).op, a.args = Head(link.queue).args
    PROVE  LET y == [link EXCEPT !.queue = Tail(@), !.answers = Append(@, a)]
           IN Fits(app, y) /\ Follows(link, y)
<1> DEFINE y == [link EXCEPT !.queue = Tail(@), !.answers = Append(@, a)]
           q == link.queue
           s == link.answers
<1>0. link \in LinkSet /\ link.open
  BY DEF Fits
<1>1. q \in Seq(RequestSet) /\ s \in Seq(AnswerSet)
      /\ Len(q) \in Nat /\ Len(s) \in Nat /\ q # <<>> /\ link.behind \in Nat
  BY <1>0, LinkFields
<1>2. /\ y.open /\ y.queue = Tail(q) /\ y.answers = Append(s, a)
      /\ y.behind = link.behind
  BY <1>0 DEF LinkSet
<1>3. /\ Head(q) = q[1] /\ 1 \in DOMAIN q
      /\ Tail(q) \in Seq(RequestSet) /\ Len(Tail(q)) = Len(q) - 1
      /\ \A i \in DOMAIN Tail(q) : i + 1 \in DOMAIN q /\ Tail(q)[i] = q[i + 1]
  BY <1>1, Shifted
<1>4. /\ Append(s, a) \in Seq(AnswerSet) /\ Len(Append(s, a)) = Len(s) + 1
      /\ \A i \in DOMAIN Append(s, a) :
            \/ i \in DOMAIN s /\ Append(s, a)[i] = s[i]
            \/ i = Len(s) + 1 /\ Append(s, a)[i] = a
  BY <1>1, Added
<1>5. y \in LinkSet
  BY <1>0, <1>3, <1>4, LinkUpdates
<1> HIDE DEF y, q, s
<1>6. Fits(app, y)
  <2>1. \A i \in DOMAIN s : TruthfulOf(app, s[i])
    BY DEF Fits, s
  <2> QED BY <1>2, <1>4, <1>5, <2>1 DEF Fits
<1>7. ASSUME NEW o, NEW b, Only(link, o, b) PROVE Only(y, o, b)
  <2> SUFFICES ASSUME y.behind = 0
               PROVE  /\ Len(y.queue) + Len(y.answers) <= 1
                      /\ \A i \in DOMAIN y.queue :
                            y.queue[i].op = o /\ y.queue[i].args = b
                      /\ \A i \in DOMAIN y.answers :
                            y.answers[i].op = o /\ y.answers[i].args = b
    BY DEF Only
  <2>1. /\ Len(q) + Len(s) <= 1
        /\ \A i \in DOMAIN q : q[i].op = o /\ q[i].args = b
        /\ \A i \in DOMAIN s : s[i].op = o /\ s[i].args = b
    BY <1>2, <1>7 DEF Only, q, s
  <2>2. Len(y.queue) + Len(y.answers) <= 1
    <3>1. Len(q) - 1 + (Len(s) + 1) = Len(q) + Len(s)
      BY <1>1
    <3> QED BY <1>2, <1>3, <1>4, <2>1, <3>1
  <2>3. a.op = o /\ a.args = b
    BY <1>3, <2>1 DEF q
  <2> QED BY <1>2, <1>3, <1>4, <2>1, <2>2, <2>3
<1>8. Nothing(link) => Nothing(y)
  BY <1>1, <1>2 DEF Nothing, q
<1> QED BY <1>6, <1>7, <1>8 DEF Follows, y

(* The connection is cut; a request is sent on it, or finds it cut.         *)
LEMMA Cut ==
    ASSUME NEW app, NEW link, Fits(app, link)
    PROVE  LET y == [link EXCEPT !.open = FALSE, !.queue = <<>>]
           IN Fits(app, y) /\ Follows(link, y)
<1> DEFINE y == [link EXCEPT !.open = FALSE, !.queue = <<>>]
<1>0. link \in LinkSet
  BY DEF Fits
<1>1. /\ ~y.open /\ y.queue = <<>> /\ y.answers = link.answers
      /\ y.behind = link.behind
  BY <1>0 DEF LinkSet
<1>2. y \in LinkSet
  BY <1>0, LinkUpdates
<1>3. /\ Len(link.queue) \in Nat /\ Len(link.answers) \in Nat
      /\ Len(<<>>) = 0 /\ DOMAIN <<>> = {}
  BY <1>0, LinkFields, EmptySeq
<1> HIDE DEF y
<1>4. Fits(app, y)
  BY <1>1, <1>2 DEF Fits
<1>5. ASSUME NEW o, NEW a, Only(link, o, a) PROVE Only(y, o, a)
  <2>1. Len(link.queue) + Len(link.answers) <= 1
          => 0 + Len(link.answers) <= 1
    <3>1. \A m, n \in Nat : m + n <= 1 => 0 + n <= 1
      OBVIOUS
    <3> QED BY <1>3, <3>1
  <2> QED BY <1>1, <1>3, <1>5, <2>1 DEF Only
<1>6. Nothing(link) => Nothing(y)
  BY <1>1 DEF Nothing
<1> QED BY <1>4, <1>5, <1>6 DEF Follows, y

SentOn(link, r) == IF link.open THEN [link EXCEPT !.queue = Append(@, r)]
                   ELSE [link EXCEPT !.answers = <<>>]

LEMMA SentAlone ==
    ASSUME NEW app, NEW link, Fits(app, link), NEW r \in RequestSet,
           Nothing(link)
    PROVE  Fits(app, SentOn(link, r)) /\ Only(SentOn(link, r), r.op, r.args)
<1>0. link \in LinkSet
  BY DEF Fits
<1>1. /\ link.queue \in Seq(RequestSet) /\ link.answers \in Seq(AnswerSet)
      /\ <<>> \in Seq(AnswerSet) /\ DOMAIN <<>> = {} /\ Len(<<>>) = 0
  BY <1>0, LinkFields, EmptySeq
<1> DEFINE y == SentOn(link, r)
<1>2. CASE link.open
  <2>1. /\ y.open /\ y.queue = Append(link.queue, r)
        /\ y.answers = link.answers /\ y.behind = link.behind
    BY <1>0, <1>2 DEF LinkSet, SentOn
  <2>2. /\ Append(link.queue, r) \in Seq(RequestSet)
        /\ Len(Append(link.queue, r)) = Len(link.queue) + 1
        /\ \A i \in DOMAIN Append(link.queue, r) :
              \/ i \in DOMAIN link.queue /\ Append(link.queue, r)[i] = link.queue[i]
              \/ i = Len(link.queue) + 1 /\ Append(link.queue, r)[i] = r
    BY <1>1, Added
  <2>3. y \in LinkSet
    BY <1>0, <1>2, <2>2, LinkUpdates DEF SentOn
  <2> HIDE DEF y
  <2>4. Fits(app, y)
    BY <2>1, <2>3 DEF Fits
  <2>5. Only(y, r.op, r.args)
    <3> SUFFICES ASSUME link.behind = 0
                 PROVE  /\ Len(y.queue) + Len(y.answers) <= 1
                        /\ \A i \in DOMAIN y.queue : y.queue[i] = r
                        /\ DOMAIN y.answers = {}
      BY <2>1 DEF Only
    <3>1. link.queue = <<>> /\ link.answers = <<>>
      BY DEF Nothing
    <3>2. Len(y.queue) = 1 /\ Len(y.answers) = 0
      BY <1>1, <2>1, <2>2, <3>1
    <3> QED BY <1>1, <2>1, <2>2, <3>1, <3>2
  <2> QED BY <2>4, <2>5 DEF y
<1>3. CASE ~link.open
  <2>1. /\ ~y.open /\ y.queue = <<>> /\ y.answers = <<>>
    BY <1>0, <1>3 DEF LinkSet, SentOn, Fits
  <2>2. y \in LinkSet
    BY <1>0, <1>1, <1>3, LinkUpdates DEF SentOn
  <2> HIDE DEF y
  <2>3. Fits(app, y) /\ Only(y, r.op, r.args)
    <3>1. Len(y.queue) + Len(y.answers) <= 1
      BY <1>1, <2>1
    <3> QED BY <1>1, <2>1, <2>2, <3>1 DEF Fits, Only
  <2> QED BY <2>3 DEF y
<1> QED BY <1>2, <1>3

(* An answer is taken from it; one is given up; all answers are in.         *)
LEMMA Taken ==
    ASSUME NEW app, NEW link, Fits(app, link), link.answers # <<>>
    PROVE  LET y == [link EXCEPT !.answers = Tail(@)]
           IN /\ Fits(app, y) /\ y.open = link.open /\ y.queue = link.queue
              /\ \A o, a : Only(link, o, a) => Nothing(y)
              /\ Nothing(link) => Nothing(y)
              /\ Head(link.answers) \in AnswerSet
              /\ TruthfulOf(app, Head(link.answers))
              /\ \A o, a : Only(link, o, a) /\ link.behind = 0 =>
                    Head(link.answers).op = o /\ Head(link.answers).args = a
<1> DEFINE y == [link EXCEPT !.answers = Tail(@)]
           s == link.answers
<1>0. link \in LinkSet
  BY DEF Fits
<1>1. /\ s \in Seq(AnswerSet) /\ Len(s) \in Nat /\ s # <<>>
      /\ link.queue \in Seq(RequestSet) /\ Len(link.queue) \in Nat
  BY <1>0, LinkFields
<1>2. /\ y.open = link.open /\ y.queue = link.queue /\ y.answers = Tail(s)
      /\ y.behind = link.behind
  BY <1>0 DEF LinkSet
<1>3. /\ Head(s) \in AnswerSet /\ Head(s) = s[1] /\ 1 \in DOMAIN s
      /\ Tail(s) \in Seq(AnswerSet) /\ Len(Tail(s)) = Len(s) - 1
      /\ \A i \in DOMAIN Tail(s) : i + 1 \in DOMAIN s /\ Tail(s)[i] = s[i + 1]
  BY <1>1, Shifted
<1>4. y \in LinkSet
  BY <1>0, <1>3, LinkUpdates
<1> HIDE DEF y, s
<1>5. Fits(app, y)
  BY <1>2, <1>3, <1>4 DEF Fits, s
<1>6. TruthfulOf(app, Head(s))
  BY <1>3 DEF Fits, s
<1>7. ASSUME NEW o, NEW a, Only(link, o, a) PROVE Nothing(y)
  <2> SUFFICES ASSUME link.behind = 0
               PROVE  link.queue = <<>> /\ Tail(s) = <<>>
    BY <1>2 DEF Nothing
  <2>1. Len(link.queue) + Len(s) <= 1
    BY <1>7 DEF Only, s
  <2>2. Len(s) # 0
    BY <1>1, EmptySeq
  <2>3. Len(link.queue) = 0 /\ Len(s) = 1
    <3>1. \A m, n \in Nat : m + n <= 1 /\ n # 0 => m = 0 /\ n = 1
      OBVIOUS
    <3> QED BY <1>1, <2>1, <2>2, <3>1
  <2>4. Len(Tail(s)) = 0
    BY <1>3, <2>3
  <2> QED BY <1>1, <1>3, <2>3, <2>4, EmptySeq
<1>8. Nothing(link) => Nothing(y)
  <2> SUFFICES ASSUME Nothing(link), link.behind = 0 PROVE FALSE
    BY <1>2 DEF Nothing
  <2> QED BY <1>1 DEF Nothing, s
<1>9. ASSUME NEW o, NEW a, Only(link, o, a), link.behind = 0
      PROVE  Head(s).op = o /\ Head(s).args = a
  BY <1>3, <1>9 DEF Only, s
<1> QED BY <1>1, <1>2, <1>3, <1>5, <1>6, <1>7, <1>8, <1>9 DEF y, s

LEMMA GivenUp ==
    ASSUME NEW app, NEW link, Fits(app, link)
    PROVE  LET y == [link EXCEPT !.behind = @ + 1]
           IN Fits(app, y) /\ Nothing(y)
<1> DEFINE y == [link EXCEPT !.behind = @ + 1]
<1>0. link \in LinkSet /\ link.behind \in Nat
  BY LinkFields DEF Fits
<1>1. /\ y.open = link.open /\ y.queue = link.queue
      /\ y.answers = link.answers /\ y.behind = link.behind + 1
  BY <1>0 DEF LinkSet
<1>2. y \in LinkSet
  BY <1>0, LinkUpdates
<1> HIDE DEF y
<1>3. y.behind # 0
  BY <1>0, <1>1
<1> QED BY <1>1, <1>2, <1>3 DEF Fits, Nothing, y

LEMMA Drained ==
    ASSUME NEW app, NEW link, Fits(app, link), ~link.open, link.answers = <<>>
    PROVE  Nothing(link)
  BY DEF Fits, Nothing

-----------------------------------------------------------------------------
(* The invariant in parts.                                                  *)

Server ==
    /\ faults \in 0..MaxFaults /\ up \in BOOLEAN /\ active \in BOOLEAN
    /\ generation \in 1..MaxGenerations
    /\ applied \in [Operations -> Seq(Arguments)]
    /\ abandoned \subseteq RequestSet
    /\ EffectsOnce

Wires ==
    /\ links \in [Ends -> LinkSet]
    /\ \A e \in Ends : Fits(applied, links[e])

LEMMA Parts == IInv <=> Server /\ Client /\ Wires /\ InStep
  BY DEF IInv, TypeOK, Server, Client, ClientTypes, Wires, Fits, LinksTruthful,
         Truthful, TruthfulOf, BridgeSet, SavedSet, Outcome

LEMMA PartsNext == IInv' <=> Server' /\ Client' /\ Wires' /\ InStep'
  BY Parts, PTL

Stable == \A o \in Operations : applied[o] # <<>> => applied'[o] = applied[o]

(* What is said of effects stays true as long as effects stay.              *)
LEMMA FitsStays ==
    ASSUME Stable, NEW link, Fits(applied, link)
    PROVE  Fits(applied', link)
<1>1. ASSUME NEW a \in AnswerSet, TruthfulOf(applied, a)
      PROVE  TruthfulOf(applied', a)
  <2>1. CASE a.kind = "ok" /\ a.op # Whoami
    <3>1. a.op \in Operations /\ applied[a.op] = <<a.args>>
      BY <1>1, <2>1 DEF AnswerSet, TruthfulOf
    <3>2. applied[a.op] # <<>>
      BY <3>1
    <3> QED BY <3>1, <3>2 DEF TruthfulOf, Stable
  <2> QED BY <2>1 DEF TruthfulOf
<1>2. \A i \in DOMAIN link.answers : link.answers[i] \in AnswerSet
  BY LinkFields, ElementOfSeq DEF Fits
<1> QED BY <1>1, <1>2 DEF Fits

LEMMA ClientStays ==
    ASSUME Client, Stable, UNCHANGED client
    PROVE  Client'
<1> USE DEF Client
<1>0. bridge' = bridge /\ saved' = saved /\ told' = told
  BY DEF client
<1>1. ClientTypes' /\ Memory' /\ UncertainKept'
  BY <1>0 DEF ClientTypes, Memory, SavedAt, UncertainKept, IsSaved
<1>2. AnswersTrue'
  <2>1. ASSUME NEW o \in Operations, told[o] = "done"
        PROVE  applied'[o] # <<>>
    BY <2>1 DEF AnswersTrue, Stable
  <2>2. ASSUME NEW i \in DOMAIN saved, saved[i].succeeded
        PROVE  applied'[saved[i].op] = <<saved[i].args>>
    <3>1. saved[i].op \in Operations
      <4>1. saved[i] \in SavedSet
        BY DEF ClientTypes
      <4> QED BY <4>1 DEF SavedSet
    <3>2. applied[saved[i].op] = <<saved[i].args>>
      BY <2>2 DEF AnswersTrue
    <3>3. applied[saved[i].op] # <<>>
      BY <3>2
    <3> QED BY <3>1, <3>2, <3>3 DEF Stable
  <2> QED BY <1>0, <2>1, <2>2 DEF AnswersTrue
<1> QED BY <1>1, <1>2

(* One of the connections changes.                                          *)
LEMMA OneWire ==
    ASSUME Wires, Stable, NEW e \in Ends, NEW y, Fits(applied', y),
           links' = [links EXCEPT ![e] = y]
    PROVE  /\ Wires' /\ links'[e] = y
           /\ \A x \in Ends : x # e => links'[x] = links[x]
<1>1. /\ links'[e] = y
      /\ \A x \in Ends : x # e => links'[x] = links[x]
      /\ links' \in [Ends -> LinkSet]
  BY DEF Wires, Fits
<1>2. ASSUME NEW x \in Ends PROVE Fits(applied', links'[x])
  <2>1. CASE x = e
    BY <1>1, <2>1
  <2>2. CASE x # e
    <3>1. Fits(applied, links[x])
      BY DEF Wires
    <3> QED BY <1>1, <2>2, <3>1, FitsStays
  <2> QED BY <2>1, <2>2
<1> QED BY <1>1, <1>2 DEF Wires

(* The server takes a request; no request was on a closed replacement.      *)
LEMMA ServedInStep ==
    ASSUME BridgeAssumption, Wires, InStep, NEW e \in Ends, NEW y,
           links[e].queue # <<>>, Follows(links[e], y),
           links' = [links EXCEPT ![e] = y], bridge' = bridge
    PROVE  InStep'
<1>1. /\ links'[e] = y
      /\ \A x \in Ends : x # e => links'[x] = links[x]
  BY DEF Wires
<1>2. /\ "current" \in Ends /\ "replacement" \in Ends
      /\ "current" # "replacement" /\ Closed.queue = <<>>
  BY DEF Ends, Closed
<1>3. CASE e = "current"
  BY <1>1, <1>2, <1>3 DEF InStep, Follows
<1>4. CASE e = "replacement"
  <2>1. links["replacement"] # Closed
    BY <1>2, <1>4
  <2> QED BY <1>1, <1>2, <1>4, <2>1 DEF InStep, Follows
<1> QED BY <1>3, <1>4 DEF Ends

-----------------------------------------------------------------------------
(* The supervisor keeps the invariant.                                      *)

LEMMA AuthenticateKeeps ==
    ASSUME BridgeAssumption, IInv, NEW e \in Ends, Authenticate(e)
    PROVE  IInv'
<1> DEFINE link == links[e]
           r == Head(link.queue)
           a == Answer("unauthenticated", r)
           yes == [link EXCEPT !.queue[1].authentic = TRUE]
           no == [link EXCEPT !.queue = Tail(@), !.answers = Append(@, a)]
           y == IF Current(r.generation) THEN yes ELSE no
<1>0. Server /\ Client /\ Wires /\ InStep
  BY Parts
<1>1. /\ link.queue # <<>> /\ UNCHANGED <<faults, server, client, abandoned>>
      /\ links' = [links EXCEPT ![e] = y]
  BY DEF Authenticate
<1>2. /\ applied' = applied /\ Stable /\ bridge' = bridge
      /\ Server' /\ Client'
  <2>1. applied' = applied /\ Stable /\ bridge' = bridge
    BY <1>1 DEF server, client, Stable
  <2>2. Server'
    BY <1>0, <1>1 DEF Server, server, EffectsOnce
  <2> QED BY <1>0, <1>1, <2>1, <2>2, ClientStays
<1>3. Fits(applied, link) /\ link \in LinkSet
  BY <1>0 DEF Wires
<1>4. r \in RequestSet
  BY <1>1, <1>3, LinkFields, Shifted
<1>5. /\ a \in AnswerSet /\ TruthfulOf(applied, a)
      /\ a.op = r.op /\ a.args = r.args
  BY <1>4 DEF Answer, AnswerSet, RequestSet, TruthfulOf
<1>6. Fits(applied, yes) /\ Follows(link, yes)
  BY <1>1, <1>3, Authenticated
<1>7. Fits(applied, no) /\ Follows(link, no)
  BY <1>1, <1>3, <1>5, Answered
<1>8. Fits(applied', y) /\ Follows(link, y)
  BY <1>2, <1>6, <1>7
<1> HIDE DEF y, yes, no, a, r
<1>9. Wires'
  BY <1>0, <1>1, <1>2, <1>8, OneWire
<1>10. InStep'
  BY <1>0, <1>1, <1>2, <1>8, ServedInStep
<1> QED BY <1>2, <1>9, <1>10, PartsNext

(* Both ways a request is executed: the effects, and what is said of them.  *)
LEMMA ExecutedKeeps ==
    ASSUME BridgeAssumption, Server, Client, NEW r \in RequestSet,
           NEW kind \in Kinds, Executed(r, kind),
           UNCHANGED <<faults, up, generation, active, client>>,
           abandoned' \subseteq RequestSet
    PROVE  /\ Server' /\ Client' /\ Stable
           /\ Answer(kind, r) \in AnswerSet
           /\ TruthfulOf(applied', Answer(kind, r))
<1>1. applied \in [Operations -> Seq(Arguments)] /\ EffectsOnce
  BY DEF Server
<1>2. /\ applied' \in [Operations -> Seq(Arguments)] /\ EffectsOnce'
      /\ \A o \in Operations : applied[o] # <<>> => applied'[o] = applied[o]
      /\ kind = "ok" /\ r.op # Whoami => applied'[r.op] = <<r.args>>
  BY <1>1, ExecutedOnce
<1>3. Stable
  BY <1>2 DEF Stable
<1>4. Server'
  BY <1>2 DEF Server
<1>5. Client'
  BY <1>3, ClientStays
<1>6. Answer(kind, r) \in AnswerSet
  BY DEF Answer, AnswerSet, RequestSet, Kinds
<1>7. TruthfulOf(applied', Answer(kind, r))
  BY <1>2 DEF Answer, TruthfulOf
<1> QED BY <1>3, <1>4, <1>5, <1>6, <1>7

LEMMA ExecuteKeeps ==
    ASSUME BridgeAssumption, IInv, NEW e \in Ends, Execute(e)
    PROVE  IInv'
<1> DEFINE link == links[e]
           r == Head(link.queue)
           y(kind) == [link EXCEPT !.queue = Tail(@),
                           !.answers = Append(@, Answer(kind, r))]
<1>0. Server /\ Client /\ Wires /\ InStep
  BY Parts
<1>1. PICK kind \in Kinds :
        Executed(r, kind) /\ links' = [links EXCEPT ![e] = y(kind)]
  BY DEF Execute
<1>2. /\ link.queue # <<>>
      /\ UNCHANGED <<faults, up, generation, active, client, abandoned>>
  BY DEF Execute
<1>3. Fits(applied, link) /\ link \in LinkSet
  BY <1>0 DEF Wires
<1>4. r \in RequestSet
  BY <1>2, <1>3, LinkFields, Shifted
<1>5. abandoned' \subseteq RequestSet
  BY <1>0, <1>2 DEF Server
<1>6. /\ Server' /\ Client' /\ Stable
      /\ Answer(kind, r) \in AnswerSet
      /\ TruthfulOf(applied', Answer(kind, r))
  BY <1>0, <1>1, <1>2, <1>4, <1>5, ExecutedKeeps
<1>7. Fits(applied', link)
  BY <1>3, <1>6, FitsStays
<1>8. Fits(applied', y(kind)) /\ Follows(link, y(kind))
  <2>1. Answer(kind, r).op = r.op /\ Answer(kind, r).args = r.args
    BY DEF Answer
  <2> QED BY <1>2, <1>6, <1>7, <2>1, Answered
<1>9. bridge' = bridge
  BY <1>2 DEF client
<1> HIDE DEF y, r
<1>10. Wires'
  BY <1>0, <1>1, <1>6, <1>8, OneWire
<1>11. InStep'
  BY <1>0, <1>1, <1>2, <1>8, <1>9, ServedInStep
<1> QED BY <1>6, <1>10, <1>11, PartsNext

(* The connections and the bridge stay as they are.                         *)
LEMMA WiresStay ==
    ASSUME Wires, InStep, Stable, UNCHANGED <<links, bridge>>
    PROVE  Wires' /\ InStep'
<1>1. ASSUME NEW e \in Ends PROVE Fits(applied', links'[e])
  <2>1. Fits(applied, links[e])
    BY DEF Wires
  <2> QED BY <2>1, FitsStays
<1>2. Wires'
  BY <1>1 DEF Wires
<1> QED BY <1>2 DEF InStep

LEMMA ExecuteAbandonedKeeps ==
    ASSUME BridgeAssumption, IInv, NEW r \in abandoned, ExecuteAbandoned(r)
    PROVE  IInv'
<1>0. Server /\ Client /\ Wires /\ InStep
  BY Parts
<1>1. r \in RequestSet
  BY <1>0 DEF Server
<1>2. UNCHANGED <<faults, up, generation, active, client, links>>
  BY DEF ExecuteAbandoned
<1>3. links' = links /\ bridge' = bridge
  BY <1>2 DEF client
<1>4. CASE r.authentic
  <2>1. PICK kind \in Kinds : Executed(r, kind)
    BY <1>4 DEF ExecuteAbandoned
  <2>2. abandoned' \subseteq RequestSet
    BY <1>0, <1>4 DEF ExecuteAbandoned, Server
  <2>3. Server' /\ Client' /\ Stable
    BY <1>0, <1>1, <1>2, <2>1, <2>2, ExecutedKeeps
  <2>4. Wires' /\ InStep'
    BY <1>0, <1>3, <2>3, WiresStay
  <2> QED BY <2>3, <2>4, PartsNext
<1>5. CASE ~r.authentic
  <2>1. applied' = applied /\ Stable
    BY <1>5 DEF ExecuteAbandoned, Stable
  <2>2. [r EXCEPT !.authentic = TRUE] \in RequestSet
    BY <1>1 DEF RequestSet
  <2>3. abandoned' \subseteq RequestSet
    BY <1>0, <1>5, <2>2 DEF ExecuteAbandoned, Server
  <2>4. Server'
    BY <1>0, <1>2, <2>1, <2>3 DEF Server, EffectsOnce
  <2>5. Client'
    BY <1>0, <1>2, <2>1, ClientStays
  <2>6. Wires' /\ InStep'
    BY <1>0, <1>3, <2>1, WiresStay
  <2> QED BY <2>4, <2>5, <2>6, PartsNext
<1> QED BY <1>4, <1>5

LEMMA FaultCounted ==
    ASSUME BridgeAssumption, faults \in 0..MaxFaults, Fault
    PROVE  faults' \in 0..MaxFaults
  BY DEF BridgeAssumption, Fault

LEMMA CrashKeeps ==
    ASSUME BridgeAssumption, IInv, Crash
    PROVE  IInv'
<1> DEFINE y(e) == [links[e] EXCEPT !.open = FALSE, !.queue = <<>>]
<1>0. Server /\ Client /\ Wires /\ InStep
  BY Parts
<1>1. /\ Fault /\ up' = FALSE /\ abandoned' = {}
      /\ links' = [e \in Ends |-> y(e)]
      /\ UNCHANGED <<generation, active, applied, client>>
  BY DEF Crash
<1>2. applied' = applied /\ Stable /\ bridge' = bridge
  BY <1>1 DEF Stable, client
<1>3. Server'
  <2>1. faults' \in 0..MaxFaults
    BY <1>0, <1>1, FaultCounted DEF Server
  <2> QED BY <1>0, <1>1, <2>1 DEF Server, EffectsOnce
<1>4. Client'
  BY <1>0, <1>1, <1>2, ClientStays
<1>5. ASSUME NEW e \in Ends
      PROVE  Fits(applied, y(e)) /\ Follows(links[e], y(e)) /\ links'[e] = y(e)
  <2>1. Fits(applied, links[e])
    BY <1>0 DEF Wires
  <2> QED BY <1>1, <2>1, Cut
<1>6. Closed = [Closed EXCEPT !.open = FALSE, !.queue = <<>>]
  <2>1. Closed \in LinkSet /\ Closed.open = FALSE /\ Closed.queue = <<>>
    BY Fresh DEF Fits, Closed
  <2>2. \A link \in LinkSet :
          [link EXCEPT !.open = link.open, !.queue = link.queue] = link
    BY DEF LinkSet
  <2> QED BY <2>1, <2>2
<1>7. links["replacement"] = Closed => y("replacement") = Closed
  BY <1>6
<1> HIDE DEF y
<1>8. Wires'
  <2>1. links' \in [Ends -> LinkSet]
    BY <1>1, <1>5 DEF Fits
  <2> QED BY <1>2, <1>5, <2>1 DEF Wires
<1>9. InStep'
  <2>1. "current" \in Ends /\ "replacement" \in Ends
    BY DEF Ends
  <2> QED BY <1>0, <1>2, <1>5, <1>7, <2>1 DEF InStep, Follows
<1> QED BY <1>3, <1>4, <1>8, <1>9, PartsNext

LEMMA SessionKeeps ==
    ASSUME BridgeAssumption, IInv, Restart \/ SessionEnds \/ SessionStarts
    PROVE  IInv'
<1>0. Server /\ Client /\ Wires /\ InStep
  BY Parts
<1>1. UNCHANGED <<faults, applied, client, links, abandoned>>
  BY DEF Restart, SessionEnds, SessionStarts
<1>6. up' \in BOOLEAN /\ active' \in BOOLEAN /\ generation' \in 1..MaxGenerations
  <2>0. /\ up \in BOOLEAN /\ active \in BOOLEAN
        /\ generation \in 1..MaxGenerations
    BY <1>0 DEF Server
  <2>1. CASE Restart
    BY <2>0, <2>1 DEF Restart
  <2>2. CASE SessionEnds
    BY <2>0, <2>2 DEF SessionEnds
  <2>3. CASE SessionStarts
    <3>1. /\ active' = TRUE /\ up' = up
          /\ generation < MaxGenerations /\ generation' = generation + 1
      BY <2>3 DEF SessionStarts
    <3> QED BY <2>0, <3>1 DEF BridgeAssumption
  <2> QED BY <2>1, <2>2, <2>3
<1>2. Stable /\ bridge' = bridge
  BY <1>1 DEF Stable, client
<1>3. Server'
  BY <1>0, <1>1, <1>6 DEF Server, EffectsOnce
<1>4. Client'
  BY <1>0, <1>1, <1>2, ClientStays
<1>5. Wires' /\ InStep'
  BY <1>0, <1>1, <1>2, WiresStay
<1> QED BY <1>3, <1>4, <1>5, PartsNext

-----------------------------------------------------------------------------
(* The bridge keeps the invariant.                                          *)

(* What is left on a dropped connection are requests.                       *)
LEMMA RemainsTypes ==
    ASSUME NEW link \in LinkSet
    PROVE  Remains(link) \subseteq RequestSet
  BY LinkFields, ElementOfSeq DEF Remains

LEMMA RequestTypes ==
    ASSUME BridgeAssumption, ClientTypes
    PROVE  /\ \A o \in Operations, a \in Arguments :
                 /\ Request(o, a) \in RequestSet
                 /\ Request(o, a).op = o /\ Request(o, a).args = a
           /\ Request(Whoami, NoCall) \in RequestSet
           /\ Request(Whoami, NoCall).op = Whoami
           /\ Request(Whoami, NoCall).args = NoCall
<1>1. bridge.generation \in 1..MaxGenerations
  BY DEF ClientTypes, BridgeSet
<1>2. Whoami \notin Operations
  BY DEF BridgeAssumption
<1> QED BY <1>1, <1>2 DEF Request, RequestSet

LEMMA IdleInStep ==
    ASSUME bridge'.step = "idle", Nothing(links'["current"]),
           links'["replacement"] = Closed
    PROVE  InStep'
  BY DEF InStep

LEMMA TwoEnds ==
    /\ Ends = {"current", "replacement"}
    /\ "current" \in Ends /\ "replacement" \in Ends
    /\ "current" # "replacement"
  BY DEF Ends

(* The replacement takes the place of the connection.                       *)
LEMMA ReplacedKeeps ==
    ASSUME BridgeAssumption, Server, Wires, applied' = applied,
           NEW link, Fits(applied, link), Nothing(link), Replaced(link)
    PROVE  /\ Wires' /\ abandoned' \subseteq RequestSet
           /\ links'["current"] = link /\ links'["replacement"] = Closed
<1>1. /\ links' = [links EXCEPT !["current"] = link, !["replacement"] = Closed]
      /\ abandoned' = abandoned \cup Remains(links["current"])
  BY DEF Replaced, Dropped
<1>2. /\ links'["current"] = link /\ links'["replacement"] = Closed
  BY <1>1, TwoEnds DEF Wires
<1>3. link \in LinkSet /\ Closed \in LinkSet /\ Fits(applied, Closed)
  BY Fresh DEF Fits
<1>4. links' \in [Ends -> LinkSet]
  BY <1>1, <1>3 DEF Wires
<1>5. Wires'
  BY <1>2, <1>3, <1>4, TwoEnds DEF Wires
<1>6. abandoned' \subseteq RequestSet
  <2>1. Remains(links["current"]) \subseteq RequestSet
    BY TwoEnds, RemainsTypes DEF Wires
  <2> QED BY <1>1, <2>1 DEF Server
<1> QED BY <1>2, <1>5, <1>6

(* The replacement is dropped, what it carried with it.                     *)
LEMMA DroppedKeeps ==
    ASSUME BridgeAssumption, Server, Wires, applied' = applied,
           NEW link \in LinkSet, Nothing(links["current"]),
           links' = [links EXCEPT !["replacement"] = Closed],
           abandoned' = Dropped(link)
    PROVE  /\ Wires' /\ abandoned' \subseteq RequestSet
           /\ Nothing(links'["current"]) /\ links'["replacement"] = Closed
<1>1. Stable /\ Fits(applied', Closed)
  BY Fresh DEF Stable
<1>2. Wires' /\ links'["replacement"] = Closed
      /\ links'["current"] = links["current"]
  BY <1>1, OneWire, TwoEnds
<1>3. abandoned' \subseteq RequestSet
  BY RemainsTypes DEF Dropped, Server
<1> QED BY <1>2, <1>3

(* Only the bridge, the connections and what is abandoned change.           *)
LEMMA ServerStays ==
    ASSUME Server, UNCHANGED server, faults' \in 0..MaxFaults,
           abandoned' \subseteq RequestSet
    PROVE  Server' /\ applied' = applied /\ Stable
  BY DEF Server, server, EffectsOnce, Stable

LEMMA ReplaceBridgeKeeps ==
    ASSUME BridgeAssumption, IInv, ReplaceBridge
    PROVE  IInv'
<1>0. Server /\ Client /\ Wires /\ InStep
  BY Parts
<1>1. /\ Fault /\ bridge' = NewBridge(generation) /\ saved' = <<>>
      /\ links' = [e \in Ends |-> IF e = "current" THEN Opened ELSE Closed]
      /\ abandoned' = abandoned \cup UNION {Remains(links[e]) : e \in Ends}
      /\ told' = [o \in Operations |->
             IF told[o] = "uncertain" \/ (o = bridge.op /\ told[o] # "done")
             THEN "orphaned" ELSE told[o]]
      /\ UNCHANGED server
  BY DEF ReplaceBridge
<1>2. abandoned' \subseteq RequestSet
  <2>1. \A e \in Ends : Remains(links[e]) \subseteq RequestSet
    BY <1>0, RemainsTypes DEF Wires
  <2> QED BY <1>0, <1>1, <2>1 DEF Server
<1>3. faults' \in 0..MaxFaults
  BY <1>0, <1>1, FaultCounted DEF Server
<1>4. Server' /\ applied' = applied
  BY <1>0, <1>1, <1>2, <1>3, ServerStays
<1>5. /\ bridge' \in BridgeSet /\ bridge'.step = "idle"
      /\ bridge'.op = NoCall
  BY <1>0, <1>1 DEF Server, NewBridge, BridgeSet, Steps
<1>6. /\ told' \in [Operations -> Outcome]
      /\ \A o \in Operations : /\ told'[o] = "done" => told[o] = "done"
                               /\ told'[o] # "uncertain"
  BY <1>0, <1>1 DEF Client, ClientTypes, Outcome
<1>7. saved' \in Seq(SavedSet) /\ DOMAIN saved' = {}
  BY <1>1, EmptySeq
<1>8. Client'
  <2>1. Memory'
    BY <1>5, <1>7 DEF Memory
  <2>2. AnswersTrue' /\ UncertainKept'
    BY <1>0, <1>4, <1>6, <1>7 DEF Client, AnswersTrue, UncertainKept
  <2> QED BY <1>5, <1>6, <1>7, <2>1, <2>2 DEF Client, ClientTypes
<1>9. /\ links'["current"] = Opened /\ links'["replacement"] = Closed
      /\ \A e \in Ends : links'[e] \in {Opened, Closed}
  BY <1>1, TwoEnds
<1>10. Wires'
  <2>1. links' \in [Ends -> LinkSet]
    BY <1>1, <1>9, Fresh DEF Fits
  <2> QED BY <1>9, <2>1, Fresh DEF Wires
<1>11. InStep'
  BY <1>5, <1>9, Fresh, IdleInStep
<1> QED BY <1>4, <1>8, <1>10, <1>11, PartsNext

LEMMA InitializeKeeps ==
    ASSUME BridgeAssumption, IInv, Initialize
    PROVE  IInv'
<1>0. Server /\ Client /\ Wires /\ InStep
  BY Parts
<1>1. /\ UNCHANGED <<faults, server, saved, links, abandoned, told>>
      /\ bridge' = [bridge EXCEPT !.stage =
                       IF @ = "new" THEN "initialized" ELSE "ready"]
  BY DEF Initialize
<1>2. /\ bridge' \in BridgeSet /\ bridge'.op = bridge.op
      /\ bridge'.args = bridge.args /\ bridge'.step = bridge.step
  BY <1>0, <1>1 DEF Client, ClientTypes, BridgeSet
<1>3. Server' /\ applied' = applied
  BY <1>0, <1>1, ServerStays DEF Server
<1>4. Client'
  <2>1. Memory' /\ UncertainKept' /\ AnswersTrue'
    BY <1>0, <1>1, <1>2, <1>3 DEF Client, Memory, SavedAt, UncertainKept,
                                  IsSaved, AnswersTrue
  <2> QED BY <1>0, <1>1, <1>2, <2>1 DEF Client, ClientTypes
<1>5. Wires' /\ InStep'
  BY <1>0, <1>1, <1>2, <1>3 DEF Wires, InStep
<1> QED BY <1>3, <1>4, <1>5, PartsNext

(* The cache when a call is dispatched: the request is in it, and nothing   *)
(* has left it that did not succeed.                                        *)
Remembers(t, o, a) ==
    /\ t \in Seq(SavedSet)
    /\ \A i, j \in DOMAIN t : t[i].op = t[j].op => i = j
    /\ \A i \in DOMAIN t : t[i].succeeded =>
          /\ told[t[i].op] = "done"
          /\ applied[t[i].op] = <<t[i].args>>
    /\ \E i \in DOMAIN t : t[i].op = o /\ t[i].args = a
    /\ \A p \in Operations : IsSaved(p) /\ told[p] # "done" =>
          \E i \in DOMAIN t : t[i].op = p

LEMMA RoomKeeps ==
    ASSUME BridgeAssumption, ClientTypes, Memory, AnswersTrue,
           NEW o \in Operations, NEW a \in Arguments, Admitted(o, a)
    PROVE  Remembers(Room(o, a), o, a)
<1> DEFINE t == Room(o, a)
           fresh == [op |-> o, args |-> a, succeeded |-> FALSE]
<1> HIDE DEF t
<1> SUFFICES Remembers(t, o, a)
  BY DEF t
<1>0. /\ saved \in Seq(SavedSet) /\ Len(saved) \in Nat
      /\ DOMAIN saved = 1..Len(saved)
      /\ \A i \in DOMAIN saved : saved[i] \in SavedSet
  BY LenProperties, ElementOfSeq DEF ClientTypes
<1>1. /\ fresh \in SavedSet
      /\ fresh.op = o /\ fresh.args = a /\ fresh.succeeded = FALSE
  BY DEF SavedSet
<1>2. CASE IsSaved(o)
  <2>1. t = saved
    BY <1>2 DEF Room, t
  <2>2. \E i \in DOMAIN saved : saved[i].op = o /\ saved[i].args = a
    BY <1>2 DEF Admitted, SavedAt
  <2>3. \A p \in Operations : IsSaved(p) => \E i \in DOMAIN saved : saved[i].op = p
    BY DEF IsSaved, SavedAt
  <2> QED BY <1>0, <2>1, <2>2, <2>3 DEF Memory, AnswersTrue, Remembers
<1>3. CASE ~IsSaved(o)
  <2>1. \A i \in DOMAIN saved : saved[i].op # o
    BY <1>3 DEF IsSaved, SavedAt
  <2> DEFINE P(s, m) ==
                /\ t = Append(s, fresh)
                /\ \A i \in 1..Len(s) : s[i] = saved[m[i]]
                /\ \A i, j \in 1..Len(s) : m[i] = m[j] => i = j
                /\ \A k \in DOMAIN saved :
                      told[saved[k].op] # "done" => \E i \in 1..Len(s) : m[i] = k
  <2>9. \E s \in Seq(SavedSet) : \E m \in [1..Len(s) -> DOMAIN saved] : P(s, m)
    <3>1. CASE Len(saved) < MaxRetries
      <4>1. t = Append(saved, fresh)
        BY <1>3, <3>1 DEF Room, t
      <4> DEFINE m == [i \in 1..Len(saved) |-> i]
      <4>2. m \in [1..Len(saved) -> DOMAIN saved]
        BY <1>0
      <4>3. /\ \A i \in 1..Len(saved) : saved[i] = saved[m[i]]
            /\ \A i, j \in 1..Len(saved) : m[i] = m[j] => i = j
            /\ \A k \in DOMAIN saved : \E i \in 1..Len(saved) : m[i] = k
        BY <1>0
      <4> HIDE DEF m, fresh
      <4>4. P(saved, m)
        BY <4>1, <4>3
      <4> HIDE DEF P
      <4> QED BY <1>0, <4>2, <4>4
    <3>2. CASE ~(Len(saved) < MaxRetries)
      <4> DEFINE first == CHOOSE i \in Evictable : \A j \in Evictable : i <= j
      <4>1. t = Append(Without(first), fresh)
        BY <1>3, <3>2 DEF Room, t
      <4>2. Evictable # {} /\ Evictable \subseteq Nat
        BY <1>0, <1>3, <3>2 DEF Admitted, Evictable
      <4>3. first \in Evictable
        BY <4>2, Least
      <4> HIDE DEF first
      <4>4. first \in 1..Len(saved) /\ saved[first].succeeded
        BY <1>0, <4>3 DEF Evictable
      <4>5. Without(first) = TakeOut(saved, first)
        BY DEF Without, TakeOut
      <4> DEFINE s == Without(first)
                 n == Len(saved) - 1
                 m == [i \in 1..n |-> IF i < first THEN i ELSE i + 1]
      <4>13. /\ TakeOut(saved, first) \in Seq(SavedSet)
             /\ Len(TakeOut(saved, first)) = Len(saved) - 1
             /\ \A k \in 1..(Len(saved) - 1) : TakeOut(saved, first)[k] =
                   IF k < first THEN saved[k] ELSE saved[k + 1]
        BY <1>0, <4>4, TakenOut
      <4>6. /\ s \in Seq(SavedSet) /\ Len(s) = n
            /\ \A k \in 1..n : s[k] = IF k < first THEN saved[k] ELSE saved[k + 1]
        BY <4>5, <4>13
      <4>7. n \in Nat /\ first \in Nat
        BY <1>0, <4>4
      <4>8. m \in [1..n -> DOMAIN saved]
        BY <1>0, <4>4, <4>7
      <4>9. \A i \in 1..n : s[i] = saved[m[i]]
        BY <4>6, <4>7
      <4>10. \A i, j \in 1..n : m[i] = m[j] => i = j
        BY <4>7
      <4>11. ASSUME NEW k \in DOMAIN saved, told[saved[k].op] # "done"
             PROVE  \E i \in 1..n : m[i] = k
        <5>1. k # first
          BY <4>4, <4>11 DEF Memory
        <5>2. CASE k < first
          <6>1. k \in 1..n /\ m[k] = k
            BY <1>0, <4>4, <4>7, <5>2
          <6> QED BY <6>1
        <5>3. CASE ~(k < first)
          <6>1. k - 1 \in 1..n /\ ~(k - 1 < first) /\ k - 1 + 1 = k
            BY <1>0, <4>4, <4>7, <5>1, <5>3
          <6>2. m[k - 1] = k
            BY <6>1
          <6> QED BY <6>1, <6>2
        <5> QED BY <5>2, <5>3
      <4> HIDE DEF s, n, m, fresh
      <4>12. t = Append(s, fresh)
        BY <4>1 DEF s
      <4>14. P(s, m)
        BY <4>6, <4>9, <4>10, <4>11, <4>12
      <4>15. m \in [1..Len(s) -> DOMAIN saved]
        BY <4>6, <4>8
      <4> HIDE DEF P
      <4> QED BY <4>6, <4>14, <4>15
    <3> QED BY <3>1, <3>2
  <2>10. PICK s \in Seq(SavedSet) : \E m \in [1..Len(s) -> DOMAIN saved] : P(s, m)
    BY <2>9
  <2>11. PICK m \in [1..Len(s) -> DOMAIN saved] : P(s, m)
    BY <2>10
  <2> DEFINE n == Len(s)
  <2>12. /\ n \in Nat /\ m \in [1..n -> DOMAIN saved]
         /\ t = Append(s, fresh)
         /\ \A i \in 1..n : s[i] = saved[m[i]]
         /\ \A k \in DOMAIN saved :
               told[saved[k].op] # "done" => \E i \in 1..n : m[i] = k
    BY <2>11, LenProperties
  <2> HIDE DEF fresh, P, n
  <2>2. /\ t \in Seq(SavedSet) /\ Len(t) = n + 1 /\ DOMAIN t = 1..(n + 1)
        /\ \A i \in 1..n : t[i] = s[i]
        /\ t[n + 1] = fresh
    <3>1. n = Len(s)
      BY DEF n
    <3> QED BY <1>1, <2>12, <3>1, AppendProperties, LenProperties
  <2>3. \A i \in DOMAIN t : i \in 1..n \/ i = n + 1
    BY <2>2, <2>12
  <2>4. \A i \in 1..n : t[i] = saved[m[i]] /\ m[i] \in DOMAIN saved
    BY <2>2, <2>12
  <2>5. ASSUME NEW i \in DOMAIN t, NEW j \in DOMAIN t, t[i].op = t[j].op
        PROVE  i = j
    <3>1. CASE i \in 1..n /\ j \in 1..n
      <4>1. m[i] = m[j]
        BY <2>4, <2>5, <3>1 DEF Memory
      <4>2. \A x, y \in 1..n : m[x] = m[y] => x = y
        BY <2>11 DEF P, n
      <4> QED BY <3>1, <4>1, <4>2
    <3>2. CASE i \in 1..n /\ j = n + 1
      BY <1>1, <2>1, <2>2, <2>4, <2>5, <3>2
    <3>3. CASE i = n + 1 /\ j \in 1..n
      BY <1>1, <2>1, <2>2, <2>4, <2>5, <3>3
    <3> QED BY <2>3, <3>1, <3>2, <3>3
  <2>6. ASSUME NEW i \in DOMAIN t, t[i].succeeded
        PROVE  told[t[i].op] = "done" /\ applied[t[i].op] = <<t[i].args>>
    <3>1. i \in 1..n
      BY <1>1, <2>2, <2>3, <2>6
    <3>2. t[i] = saved[m[i]] /\ m[i] \in DOMAIN saved
      BY <2>4, <3>1
    <3>3. saved[m[i]].succeeded
      BY <2>6, <3>2
    <3>4. /\ told[saved[m[i]].op] = "done"
          /\ applied[saved[m[i]].op] = <<saved[m[i]].args>>
      BY <3>2, <3>3 DEF Memory, AnswersTrue
    <3> QED BY <3>2, <3>4
  <2>7. n + 1 \in DOMAIN t /\ t[n + 1].op = o /\ t[n + 1].args = a
    BY <1>1, <2>2, <2>12
  <2>8. ASSUME NEW p \in Operations, IsSaved(p), told[p] # "done"
        PROVE  \E i \in DOMAIN t : t[i].op = p
    <3>1. PICK k \in DOMAIN saved : saved[k].op = p
      BY <2>8 DEF IsSaved, SavedAt
    <3>2. PICK i \in 1..n : m[i] = k
      BY <2>8, <2>12, <3>1
    <3>3. i \in DOMAIN t
      BY <2>2, <2>12
    <3> QED BY <2>4, <3>1, <3>2, <3>3
  <2> QED BY <2>2, <2>5, <2>6, <2>7, <2>8 DEF Remembers
<1> QED BY <1>2, <1>3

LEMMA DispatchKeeps ==
    ASSUME BridgeAssumption, IInv, NEW o \in Operations, NEW a \in Arguments,
           Dispatch(o, a)
    PROVE  IInv'
<1>0. Server /\ Client /\ Wires /\ InStep
  BY Parts
<1>1. /\ bridge.step = "idle" /\ Admitted(o, a)
      /\ saved' = Room(o, a)
      /\ bridge' = [bridge EXCEPT !.op = o, !.args = a, !.step = "sent"]
      /\ links' = Sent("current", Request(o, a))
      /\ UNCHANGED <<faults, server, abandoned, told>>
  BY DEF Dispatch
<1>2. Server' /\ applied' = applied /\ Stable /\ told' = told
  BY <1>0, <1>1, ServerStays DEF Server
<1>3. /\ bridge' \in BridgeSet /\ bridge'.op = o
      /\ bridge'.args = a /\ bridge'.step = "sent"
  BY <1>0, <1>1 DEF Client, ClientTypes, BridgeSet, Steps
<1>4. /\ saved' \in Seq(SavedSet)
      /\ \A i, j \in DOMAIN saved' : saved'[i].op = saved'[j].op => i = j
      /\ \A i \in DOMAIN saved' : saved'[i].succeeded =>
            /\ told[saved'[i].op] = "done"
            /\ applied[saved'[i].op] = <<saved'[i].args>>
      /\ \E i \in DOMAIN saved' : saved'[i].op = o /\ saved'[i].args = a
      /\ \A p \in Operations : IsSaved(p) /\ told[p] # "done" =>
            \E i \in DOMAIN saved' : saved'[i].op = p
  <2>1. Remembers(saved', o, a)
    BY <1>0, <1>1, RoomKeeps DEF Client
  <2> QED BY <2>1 DEF Remembers
<1>5. Client'
  <2>1. Memory'
    BY <1>2, <1>3, <1>4 DEF Memory, SavedAt
  <2>2. AnswersTrue'
    BY <1>0, <1>2, <1>4 DEF Client, AnswersTrue
  <2>3. ASSUME NEW p \in Operations, told[p] = "uncertain"
        PROVE  \E i \in DOMAIN saved' : saved'[i].op = p
    BY <1>0, <1>4, <2>3 DEF Client, UncertainKept
  <2>4. UncertainKept'
    BY <1>2, <2>3 DEF UncertainKept, IsSaved, SavedAt
  <2> QED BY <1>0, <1>2, <1>3, <1>4, <2>1, <2>2, <2>4 DEF Client, ClientTypes
<1> DEFINE r == Request(o, a)
           y == SentOn(links["current"], r)
<1>6. r \in RequestSet /\ r.op = o /\ r.args = a
  BY <1>0, RequestTypes DEF Client
<1>7. links' = [links EXCEPT !["current"] = y]
  <2>1. links' = [links EXCEPT !["current"] =
                    IF links["current"].open
                    THEN [links["current"] EXCEPT !.queue = Append(@, r)]
                    ELSE [links["current"] EXCEPT !.answers = <<>>]]
    BY <1>1 DEF Sent
  <2>2. y = IF links["current"].open
            THEN [links["current"] EXCEPT !.queue = Append(@, r)]
            ELSE [links["current"] EXCEPT !.answers = <<>>]
    BY DEF SentOn
  <2> HIDE DEF y, r
  <2> QED BY <2>1, <2>2
<1>8. Fits(applied', y) /\ Only(y, o, a)
  <2>1. Nothing(links["current"]) /\ Fits(applied, links["current"])
    BY <1>0, <1>1, TwoEnds DEF InStep, Wires
  <2> QED BY <1>2, <1>6, <2>1, SentAlone
<1> HIDE DEF y, r
<1>9. Wires' /\ links'["current"] = y
      /\ links'["replacement"] = links["replacement"]
  BY <1>0, <1>2, <1>7, <1>8, OneWire, TwoEnds
<1>10. InStep'
  BY <1>0, <1>1, <1>3, <1>8, <1>9 DEF InStep
<1> QED BY <1>2, <1>5, <1>9, <1>10, PartsNext

(* The end of a call leaves the bridge waiting for nothing.                 *)
LEMMA EndedInParts ==
    ASSUME BridgeAssumption, Server, Client, bridge.step # "idle",
           UNCHANGED server, faults' \in 0..MaxFaults,
           abandoned' \subseteq RequestSet, Wires',
           NEW kind, Ended(kind),
           kind = "ok" => applied[bridge.op] = <<bridge.args>>,
           Nothing(links'["current"]), links'["replacement"] = Closed
    PROVE  IInv'
<1>1. Server' /\ applied' = applied
  BY ServerStays
<1>2. Client' /\ bridge'.step = "idle"
  BY <1>1, EndedKeeps
<1>3. InStep'
  BY <1>2, IdleInStep
<1> QED BY <1>1, <1>2, <1>3, PartsNext

LEMMA ReceiveKeeps ==
    ASSUME BridgeAssumption, IInv, Receive
    PROVE  IInv'
<1> DEFINE link == links[Channel]
           rest == [link EXCEPT !.answers = Tail(@)]
           kind == IF Matches(link) THEN Head(link.answers).kind ELSE "mismatch"
<1>0. Server /\ Client /\ Wires /\ InStep
  BY Parts
<1>1. /\ bridge.step \in Waiting /\ link.answers # <<>>
      /\ UNCHANGED <<faults, server>>
  BY DEF Receive
<1>2. bridge.step = "sent" =>
        /\ links' = [links EXCEPT !["current"] = rest]
        /\ Ended(kind) /\ UNCHANGED abandoned
  BY DEF Receive
<1>3. bridge.step = "authenticating" /\ kind = "ok" =>
        /\ links' = [links EXCEPT !["replacement"] =
              [rest EXCEPT !.queue = IF rest.open
                  THEN Append(@, Request(bridge.op, bridge.args)) ELSE @]]
        /\ bridge' = [bridge EXCEPT !.step = "repeated"]
        /\ UNCHANGED <<saved, told, abandoned>>
  BY DEF Receive
<1>4. bridge.step = "authenticating" /\ kind # "ok" =>
        /\ links' = [links EXCEPT !["replacement"] = Closed]
        /\ abandoned' = Dropped(rest)
        /\ Ended(kind)
  BY DEF Receive
<1>5. bridge.step = "repeated" => Replaced(rest) /\ Ended(kind)
  BY DEF Receive
<1>6. /\ bridge.step # "idle" /\ Channel \in Ends
      /\ bridge.step = "sent" => Channel = "current"
      /\ bridge.step # "sent" => Channel = "replacement"
  BY <1>1 DEF Waiting, Channel, Ends
<1>7. Fits(applied, link)
  BY <1>0, <1>6 DEF Wires
<1>8. /\ Fits(applied, rest) /\ rest.open = link.open
      /\ rest.queue = link.queue
      /\ \A o, a : Only(link, o, a) => Nothing(rest)
      /\ TruthfulOf(applied, Head(link.answers))
      /\ \A o, a : Only(link, o, a) /\ link.behind = 0 =>
            Head(link.answers).op = o /\ Head(link.answers).args = a
  BY <1>1, <1>7, Taken
<1>9. /\ bridge.op \in Operations /\ bridge.args \in Arguments
      /\ bridge.op # Whoami
  BY <1>0, <1>6, CallIsSaved DEF Client, BridgeAssumption
<1>10. Only(link, bridge.op, bridge.args) /\ kind = "ok" =>
         applied[bridge.op] = <<bridge.args>>
  <2> SUFFICES ASSUME Only(link, bridge.op, bridge.args), kind = "ok"
               PROVE  applied[bridge.op] = <<bridge.args>>
    OBVIOUS
  <2>1. link.behind = 0 /\ Head(link.answers).kind = "ok"
    BY DEF Matches
  <2>2. /\ Head(link.answers).op = bridge.op
        /\ Head(link.answers).args = bridge.args
    BY <1>8, <2>1
  <2> QED BY <1>8, <1>9, <2>1, <2>2 DEF TruthfulOf
<1>11. /\ faults' \in 0..MaxFaults /\ UNCHANGED server
       /\ applied' = applied /\ Stable
       /\ abandoned \subseteq RequestSet /\ rest \in LinkSet
  BY <1>0, <1>1, <1>8 DEF Server, server, Stable, Fits
<1> HIDE DEF kind, rest, link
<1>12. CASE bridge.step = "sent"
  <2>1. Only(link, bridge.op, bridge.args) /\ links["replacement"] = Closed
    BY <1>0, <1>6, <1>12 DEF InStep, link
  <2>2. Nothing(rest) /\ Fits(applied', rest)
    BY <1>8, <1>11, <2>1
  <2>3. Wires' /\ links'["current"] = rest /\ links'["replacement"] = Closed
    BY <1>0, <1>2, <1>11, <1>12, <2>1, <2>2, OneWire, TwoEnds
  <2> QED BY <1>0, <1>2, <1>6, <1>10, <1>11, <1>12, <2>1, <2>2, <2>3,
             EndedInParts
<1>13. CASE bridge.step = "authenticating" /\ kind = "ok"
  <2> DEFINE r == Request(bridge.op, bridge.args)
             y == [rest EXCEPT !.queue = IF rest.open THEN Append(@, r) ELSE @]
  <2>1. Only(link, Whoami, NoCall) /\ Nothing(links["current"])
    BY <1>0, <1>6, <1>13 DEF InStep, link
  <2>2. Nothing(rest)
    BY <1>8, <2>1
  <2>3. /\ r \in RequestSet
        /\ r.op = bridge.op /\ r.args = bridge.args
    BY <1>0, <1>9, RequestTypes DEF Client
  <2> HIDE DEF r
  <2>4. Fits(applied', y) /\ Only(y, bridge.op, bridge.args)
    <3>1. CASE rest.open
      <4>1. y = SentOn(rest, r)
        BY <3>1 DEF SentOn
      <4> HIDE DEF y
      <4>2. Fits(applied', rest)
        BY <1>8, <1>11
      <4>3. Fits(applied', SentOn(rest, r)) /\ Only(SentOn(rest, r), r.op, r.args)
        BY <2>2, <2>3, <4>2, SentAlone
      <4> QED BY <2>3, <4>1, <4>3
    <3>2. CASE ~rest.open
      <4>1. y = rest
        BY <1>11, <3>2 DEF LinkSet
      <4>2. /\ rest.queue = <<>>
            /\ rest.behind = 0 => rest.answers = <<>>
        BY <1>8, <2>2, <3>2 DEF Fits, Nothing
      <4>3. DOMAIN <<>> = {} /\ Len(<<>>) + Len(<<>>) <= 1
        OBVIOUS
      <4>4. Only(rest, bridge.op, bridge.args)
        BY <4>2, <4>3 DEF Only
      <4> QED BY <1>8, <1>11, <4>1, <4>4
    <3> QED BY <3>1, <3>2
  <2>5. links' = [links EXCEPT !["replacement"] = y]
    BY <1>3, <1>13 DEF r
  <2> HIDE DEF y
  <2>6. Wires' /\ links'["replacement"] = y
        /\ links'["current"] = links["current"]
    BY <1>0, <1>11, <2>4, <2>5, OneWire, TwoEnds
  <2>7. /\ bridge' \in BridgeSet /\ bridge'.op = bridge.op
        /\ bridge'.args = bridge.args /\ bridge'.step = "repeated"
    BY <1>0, <1>3, <1>13 DEF Client, ClientTypes, BridgeSet, Steps
  <2>8. InStep'
    BY <2>1, <2>4, <2>6, <2>7 DEF InStep
  <2>9. UNCHANGED <<saved, told, abandoned>>
    BY <1>3, <1>13
  <2>10. Server'
    BY <1>0, <1>11, <2>9, ServerStays
  <2>11. Client'
    <3>1. Memory' /\ UncertainKept' /\ AnswersTrue'
      BY <1>0, <1>6, <1>11, <2>7, <2>9
         DEF Client, Memory, SavedAt, UncertainKept, IsSaved, AnswersTrue
    <3> QED BY <1>0, <2>7, <2>9, <3>1 DEF Client, ClientTypes
  <2> QED BY <2>6, <2>8, <2>10, <2>11, PartsNext
<1>14. CASE bridge.step = "authenticating" /\ kind # "ok"
  <2>1. Nothing(links["current"])
    BY <1>0, <1>14 DEF InStep
  <2>2. /\ Wires' /\ abandoned' \subseteq RequestSet
        /\ Nothing(links'["current"]) /\ links'["replacement"] = Closed
    BY <1>0, <1>4, <1>11, <1>14, <2>1, DroppedKeeps
  <2> QED BY <1>0, <1>4, <1>6, <1>11, <1>14, <2>2, EndedInParts
<1>15. CASE bridge.step = "repeated"
  <2>1. Only(link, bridge.op, bridge.args)
    BY <1>0, <1>6, <1>15 DEF InStep, link
  <2>2. Nothing(rest)
    BY <1>8, <2>1
  <2>3. /\ Wires' /\ abandoned' \subseteq RequestSet
        /\ links'["current"] = rest /\ links'["replacement"] = Closed
    BY <1>0, <1>5, <1>8, <1>11, <1>15, <2>2, ReplacedKeeps
  <2> QED BY <1>0, <1>5, <1>6, <1>10, <1>11, <1>15, <2>1, <2>2, <2>3,
             EndedInParts
<1> QED BY <1>1, <1>12, <1>13, <1>14, <1>15 DEF Waiting

(* A call or a handshake is given up.                                       *)
LEMMA GiveUpKeeps ==
    ASSUME BridgeAssumption, IInv, bridge.step \in Waiting,
           NEW y, Fits(applied, y), Nothing(y), GiveUp(y),
           UNCHANGED server, faults' \in 0..MaxFaults
    PROVE  IInv'
<1>0. Server /\ Client /\ Wires /\ InStep
  BY Parts
<1>1. /\ bridge.step # "idle" /\ "lost" # "ok"
      /\ applied' = applied /\ Stable /\ y \in LinkSet
      /\ abandoned \subseteq RequestSet
  BY <1>0 DEF Waiting, server, Stable, Fits, Server
<1>2. CASE bridge.step = "sent"
  <2>1. /\ links' = [links EXCEPT !["current"] = y]
        /\ bridge' = [bridge EXCEPT !.step = "reconnecting"]
        /\ UNCHANGED <<saved, told, abandoned>>
    BY <1>2 DEF GiveUp
  <2>2. /\ Wires' /\ links'["current"] = y
        /\ links'["replacement"] = links["replacement"]
    BY <1>0, <1>1, <2>1, OneWire, TwoEnds
  <2>3. /\ bridge' \in BridgeSet /\ bridge'.op = bridge.op
        /\ bridge'.args = bridge.args /\ bridge'.step = "reconnecting"
    BY <1>0, <2>1 DEF Client, ClientTypes, BridgeSet, Steps
  <2>4. InStep'
    BY <1>0, <1>2, <2>2, <2>3 DEF InStep
  <2>5. Server'
    BY <1>0, <1>1, <2>1, ServerStays
  <2>6. Client'
    <3>1. Memory' /\ UncertainKept' /\ AnswersTrue'
      BY <1>0, <1>1, <2>1, <2>3
         DEF Client, Memory, SavedAt, UncertainKept, IsSaved, AnswersTrue
    <3> QED BY <1>0, <2>1, <2>3, <3>1 DEF Client, ClientTypes
  <2> QED BY <2>2, <2>4, <2>5, <2>6, PartsNext
<1>3. CASE bridge.step = "authenticating"
  <2>1. /\ links' = [links EXCEPT !["replacement"] = Closed]
        /\ abandoned' = Dropped(y) /\ Ended("lost")
    BY <1>3 DEF GiveUp
  <2>2. Nothing(links["current"])
    BY <1>0, <1>3 DEF InStep
  <2>3. /\ Wires' /\ abandoned' \subseteq RequestSet
        /\ Nothing(links'["current"]) /\ links'["replacement"] = Closed
    BY <1>0, <1>1, <2>1, <2>2, DroppedKeeps
  <2> QED BY <1>0, <1>1, <2>1, <2>3, EndedInParts
<1>4. CASE bridge.step = "repeated"
  <2>1. Replaced(y) /\ Ended("lost")
    BY <1>4 DEF GiveUp
  <2>2. /\ Wires' /\ abandoned' \subseteq RequestSet
        /\ links'["current"] = y /\ links'["replacement"] = Closed
    BY <1>0, <1>1, <2>1, ReplacedKeeps
  <2> QED BY <1>0, <1>1, <2>1, <2>2, EndedInParts
<1> QED BY <1>2, <1>3, <1>4 DEF Waiting

LEMMA FailureKeeps ==
    ASSUME BridgeAssumption, IInv, TimeOut \/ ConnectionEnds
    PROVE  IInv'
<1>0. Server /\ Wires
  BY Parts
<1>1. /\ bridge.step \in Waiting /\ UNCHANGED server
      /\ Fits(applied, links[Channel])
  <2>1. Channel \in Ends
    BY DEF Channel, Ends
  <2> QED BY <1>0, <2>1 DEF Wires, TimeOut, ConnectionEnds
<1>2. CASE TimeOut
  <2> DEFINE y == [links[Channel] EXCEPT !.behind = @ + 1]
  <2>1. GiveUp(y) /\ faults' \in 0..MaxFaults
    BY <1>0, <1>2, FaultCounted DEF TimeOut, Server
  <2>2. Fits(applied, y) /\ Nothing(y)
    BY <1>1, GivenUp
  <2> HIDE DEF y
  <2> QED BY <1>1, <2>1, <2>2, GiveUpKeeps
<1>3. CASE ConnectionEnds
  <2>1. /\ GiveUp(links[Channel]) /\ faults' \in 0..MaxFaults
        /\ ~links[Channel].open /\ links[Channel].answers = <<>>
    BY <1>0, <1>3 DEF ConnectionEnds, Server
  <2>2. Nothing(links[Channel])
    BY <1>1, <2>1, Drained
  <2> QED BY <1>1, <2>1, <2>2, GiveUpKeeps
<1> QED BY <1>2, <1>3

LEMMA ReconnectKeeps ==
    ASSUME BridgeAssumption, IInv, Reconnect
    PROVE  IInv'
<1>0. Server /\ Client /\ Wires /\ InStep
  BY Parts
<1>1. /\ bridge.step = "reconnecting" /\ UNCHANGED <<server, abandoned>>
      /\ applied' = applied /\ Stable /\ abandoned' \subseteq RequestSet
      /\ links["replacement"] = Closed /\ Nothing(links["current"])
  BY <1>0 DEF Reconnect, server, Stable, Server, InStep
<1>2. CASE /\ up /\ UNCHANGED <<faults, saved, told>>
           /\ links' = [links EXCEPT !["replacement"] =
                 [Opened EXCEPT !.queue = <<Request(Whoami, NoCall)>>]]
           /\ bridge' = [bridge EXCEPT !.step = "authenticating"]
  <2> DEFINE r == Request(Whoami, NoCall)
             y == [Opened EXCEPT !.queue = <<r>>]
  <2>1. r \in RequestSet /\ r.op = Whoami /\ r.args = NoCall
    BY <1>0, RequestTypes DEF Client
  <2> HIDE DEF r
  <2>2. Fits(applied', y) /\ Only(y, Whoami, NoCall)
    BY <2>1, Fresh
  <2>3. links' = [links EXCEPT !["replacement"] = y]
    BY <1>2 DEF r
  <2> HIDE DEF y
  <2>4. /\ Wires' /\ links'["replacement"] = y
        /\ links'["current"] = links["current"]
    BY <1>0, <1>1, <2>2, <2>3, OneWire, TwoEnds
  <2>5. /\ bridge' \in BridgeSet /\ bridge'.op = bridge.op
        /\ bridge'.args = bridge.args /\ bridge'.step = "authenticating"
    BY <1>0, <1>2 DEF Client, ClientTypes, BridgeSet, Steps
  <2>6. InStep'
    BY <1>1, <2>2, <2>4, <2>5 DEF InStep
  <2>7. Server'
    <3>1. faults' \in 0..MaxFaults
      BY <1>0, <1>2 DEF Server
    <3> QED BY <1>0, <1>1, <3>1, ServerStays
  <2>8. Client'
    <3>1. Memory' /\ UncertainKept' /\ AnswersTrue'
      BY <1>0, <1>1, <1>2, <2>5
         DEF Client, Memory, SavedAt, UncertainKept, IsSaved, AnswersTrue
    <3> QED BY <1>0, <1>2, <2>5, <3>1 DEF Client, ClientTypes
  <2> QED BY <2>4, <2>6, <2>7, <2>8, PartsNext
<1>3. CASE /\ ~up \/ faults < MaxFaults
           /\ faults' = IF up THEN faults + 1 ELSE faults
           /\ UNCHANGED links /\ Ended("lost")
  <2>1. faults' \in 0..MaxFaults
    BY <1>0, <1>3 DEF Server, BridgeAssumption
  <2>2. Wires'
    BY <1>0, <1>1, <1>3 DEF Wires
  <2>3. Nothing(links'["current"]) /\ links'["replacement"] = Closed
    BY <1>1, <1>3
  <2>4. bridge.step # "idle" /\ "lost" # "ok"
    BY <1>1
  <2> QED BY <1>0, <1>1, <1>3, <2>1, <2>2, <2>3, <2>4, EndedInParts
<1> QED BY <1>2, <1>3 DEF Reconnect

-----------------------------------------------------------------------------
(* The theorems.                                                            *)

(* At the start no operation has an effect, and nothing is on its way.      *)
LEMMA InitHolds ==
    ASSUME BridgeAssumption, Init
    PROVE  IInv
<1>1. /\ links["current"] = Opened /\ links["replacement"] = Closed
      /\ \A e \in Ends : links[e] \in {Opened, Closed}
      /\ links = [e \in Ends |-> IF e = "current" THEN Opened ELSE Closed]
  BY TwoEnds DEF Init
<1>2. Wires
  <2>1. links \in [Ends -> LinkSet]
    BY <1>1, Fresh DEF Fits
  <2> QED BY <1>1, <2>1, Fresh DEF Wires
<1>3. bridge.step = "idle" /\ bridge.op = NoCall /\ bridge \in BridgeSet
  BY DEF Init, NewBridge, BridgeSet, Steps, BridgeAssumption
<1>4. InStep
  BY <1>1, <1>3, Fresh DEF InStep
<1>5. Server
  <2>1. /\ <<>> \in Seq(Arguments) /\ Len(<<>>) <= 1
    BY EmptySeq
  <2>2. applied = [o \in Operations |-> <<>>] /\ abandoned = {}
    BY DEF Init
  <2>3. /\ applied \in [Operations -> Seq(Arguments)] /\ EffectsOnce
    BY <2>1, <2>2 DEF EffectsOnce
  <2> QED BY <2>2, <2>3 DEF Init, Server, BridgeAssumption
<1>6. Client
  <2>1. saved \in Seq(SavedSet) /\ DOMAIN saved = {}
    BY EmptySeq DEF Init
  <2>2. /\ told \in [Operations -> Outcome]
        /\ \A o \in Operations : told[o] = "never"
    BY DEF Init, Outcome
  <2> QED BY <1>3, <2>1, <2>2
     DEF Client, ClientTypes, Memory, AnswersTrue, UncertainKept
<1> QED BY <1>2, <1>4, <1>5, <1>6, Parts

(* A step that changes nothing.                                             *)
LEMMA StutterKeeps ==
    ASSUME IInv, UNCHANGED vars
    PROVE  IInv'
<1>1. /\ faults' = faults /\ up' = up /\ generation' = generation
      /\ active' = active /\ applied' = applied /\ bridge' = bridge
      /\ saved' = saved /\ links' = links /\ abandoned' = abandoned
      /\ told' = told
  BY DEF vars
<1> QED BY <1>1 DEF IInv, TypeOK, EffectsOnce, LinksTruthful, Truthful, Memory,
                    SavedAt, InStep, AnswersTrue, UncertainKept, IsSaved

LEMMA NextKeeps ==
    ASSUME BridgeAssumption, IInv, Next
    PROVE  IInv'
<1>1. ASSUME NEW e \in Ends, Authenticate(e) \/ Execute(e)
      PROVE  IInv'
  BY <1>1, AuthenticateKeeps, ExecuteKeeps
<1>2. ASSUME NEW r \in abandoned, ExecuteAbandoned(r)
      PROVE  IInv'
  BY <1>2, ExecuteAbandonedKeeps
<1>3. CASE Crash
  BY <1>3, CrashKeeps
<1>4. CASE Restart \/ SessionEnds \/ SessionStarts
  BY <1>4, SessionKeeps
<1>5. CASE ReplaceBridge
  BY <1>5, ReplaceBridgeKeeps
<1>6. CASE Initialize
  BY <1>6, InitializeKeeps
<1>7. ASSUME NEW o \in Operations, NEW a \in Arguments, Call(o, a)
      PROVE  IInv'
  BY <1>7, DispatchKeeps DEF Call
<1>8. ASSUME NEW o \in Operations, Retry(o)
      PROVE  IInv'
  <2>1. PICK i \in SavedAt(o) : Dispatch(o, saved[i].args)
    BY <1>8 DEF Retry
  <2>2. saved[i] \in SavedSet
    BY <2>1, Parts DEF Client, ClientTypes, SavedAt
  <2>3. saved[i].args \in Arguments
    BY <2>2 DEF SavedSet
  <2> QED BY <2>1, <2>3, DispatchKeeps
<1>9. CASE Receive
  BY <1>9, ReceiveKeeps
<1>10. CASE TimeOut \/ ConnectionEnds
  BY <1>10, FailureKeeps
<1>11. CASE Reconnect
  BY <1>11, ReconnectKeeps
<1>12. CASE Supervisor
  BY <1>1, <1>2, <1>3, <1>4, <1>12 DEF Supervisor
<1>13. CASE Agent
  BY <1>5, <1>6, <1>7, <1>8, <1>9, <1>10, <1>11, <1>13 DEF Agent
<1> QED BY <1>12, <1>13 DEF Next

(* The invariant of the requests on their way: what answers say is true,    *)
(* and a connection that is not behind carries the call and nothing else.   *)
THEOREM Inductive == Spec => []IInv
<1>1. Init => IInv
  BY InitHolds, BridgeAssumption
<1>2. IInv /\ [Next]_vars => IInv'
  BY NextKeeps, StutterKeeps, BridgeAssumption
<1> QED BY <1>1, <1>2, PTL DEF Spec

(* An answer that comes late, on a connection on which earlier requests     *)
(* were given up, is never taken for the answer to another request          *)
(* (request_unbounded compares the numbers).                                *)
THEOREM AnswersMatched == Spec => []AnswersTrue
<1>1. IInv => AnswersTrue
  BY DEF IInv
<1> QED BY <1>1, Inductive, PTL

(* The agent can repeat every operation of unknown outcome while its bridge *)
(* lives: SavedMutation evicts only what succeeded.                         *)
THEOREM UncertainRepeatable == Spec => []UncertainKept
<1>1. IInv => UncertainKept
  BY DEF IInv
<1> QED BY <1>1, Inductive, PTL

Waiters == abandoned \cup UNION {Remains(links[e]) : e \in Ends}

Admissible(r) ==
    /\ r.op # Whoami /\ r.generation = generation /\ active
    /\ applied[r.op] = <<>> /\ Len(applied'[r.op]) = 1

(* What a step does to the effects.                                         *)
LEMMA StepApplies ==
    ASSUME BridgeAssumption, IInv, Next, applied' # applied
    PROVE  \E r \in Waiters : Admissible(r)
<1>0. Server /\ Wires
  BY Parts
<1>1. applied \in [Operations -> Seq(Arguments)] /\ EffectsOnce
  BY <1>0 DEF Server
<1>2. ASSUME NEW r \in RequestSet, NEW kind \in Kinds, Executed(r, kind)
      PROVE  Admissible(r)
  BY <1>1, <1>2, ExecutedOnce DEF Admissible
<1>3. CASE \E e \in Ends : Execute(e)
  <2>1. PICK e \in Ends : Execute(e)
    BY <1>3
  <2> DEFINE q == links[e].queue
             r == Head(q)
  <2>2. PICK kind \in Kinds : Executed(r, kind)
    BY <2>1 DEF Execute
  <2>3. q # <<>> /\ q \in Seq(RequestSet)
    BY <1>0, <2>1, LinkFields DEF Execute, Wires
  <2>4. r \in RequestSet /\ r = q[1] /\ 1 \in DOMAIN q
    BY <2>3, Shifted
  <2>5. r \in Remains(links[e])
    BY <2>4 DEF Remains
  <2>6. r \in Waiters
    BY <2>5 DEF Waiters
  <2> HIDE DEF r, q
  <2> QED BY <1>2, <2>2, <2>4, <2>6
<1>4. CASE \E r \in abandoned : ExecuteAbandoned(r)
  <2>1. PICK r \in abandoned : ExecuteAbandoned(r)
    BY <1>4
  <2>2. r \in RequestSet /\ r \in Waiters
    BY <1>0 DEF Server, Waiters
  <2>3. PICK kind \in Kinds : Executed(r, kind)
    BY <2>1 DEF ExecuteAbandoned
  <2> QED BY <1>2, <2>2, <2>3
<1>5. ASSUME NEW e \in Ends, Authenticate(e) PROVE FALSE
  BY <1>5 DEF Authenticate, server
<1>6. CASE Crash \/ Restart \/ SessionEnds \/ SessionStarts
  BY <1>6 DEF Crash, Restart, SessionEnds, SessionStarts
<1>7. CASE ReplaceBridge \/ Initialize
  BY <1>7 DEF ReplaceBridge, Initialize, server
<1>8. ASSUME NEW o, NEW a, Dispatch(o, a) PROVE FALSE
  BY <1>8 DEF Dispatch, server
<1>9. CASE Receive \/ TimeOut \/ ConnectionEnds \/ Reconnect
  BY <1>9 DEF Receive, TimeOut, ConnectionEnds, Reconnect, server
<1>10. CASE Supervisor
  BY <1>3, <1>4, <1>5, <1>6, <1>10 DEF Supervisor
<1>11. CASE Agent
  BY <1>7, <1>8, <1>9, <1>11 DEF Agent, Call, Retry
<1> QED BY <1>10, <1>11 DEF Next

(* Whatever is repeated, an operation takes effect once, at the first of    *)
(* its requests that is executed, and for a session that has not ended      *)
(* (require_current_caller and operation_replay in mutate).                 *)
THEOREM EffectsAppliedOnce == Spec => AppliedOnce
<1>1. IInv /\ [Next]_vars =>
        [applied' # applied => \E r \in Waiters : Admissible(r)]_vars
  BY StepApplies, BridgeAssumption DEF vars
<1>2. IInv /\ [Next]_vars =>
        [applied' # applied =>
          \E r \in abandoned \cup UNION {Remains(links[e]) : e \in Ends} :
              /\ r.op # Whoami /\ r.generation = generation /\ active
              /\ applied[r.op] = <<>> /\ Len(applied'[r.op]) = 1]_vars
  BY <1>1 DEF Waiters, Admissible
<1> QED BY <1>2, Inductive, PTL DEF Spec, AppliedOnce

-----------------------------------------------------------------------------
(* Polling: theorems about Progress, whose pages the `poll` helper of the   *)
(* bridge drains.  For any number of readers, any length of the log, any    *)
(* window and any limits, no reader misses a change or is given one twice,  *)
(* and a drain always comes further.                                        *)

CONSTANTS Readers, Limits, Pages, Window, MaxEvents, MaxCrashes, MaxLosses
VARIABLES last, shown, cursors, taken, call, crashes, losses

P == INSTANCE Progress WITH saved <- cursors

(* Progress counts as the modules extended here do.                         *)
LEMMA Counts == \A S : P!Cardinality(S) = Cardinality(S)
  BY DEF P!Cardinality, Cardinality

(* The changes of a stretch of the log are finitely many.                   *)
LEMMA Stretch ==
    ASSUME P!TypeOK, NEW a \in Nat, NEW b \in Nat
    PROVE  /\ P!Between(a, b) \subseteq shown
           /\ IsFiniteSet(P!Between(a, b))
           /\ Cardinality(P!Between(a, b)) \in Nat
<1>1. IsFiniteSet(1..last)
  BY FS_Interval DEF P!TypeOK
<1>2. IsFiniteSet(P!Between(a, b))
  BY <1>1, FS_Subset DEF P!TypeOK, P!Between
<1> QED BY <1>2, FS_CardinalityType DEF P!Between

(* Two stretches, one behind the other.                                     *)
LEMMA JoinedStretches ==
    ASSUME P!TypeOK, NEW a \in Nat, NEW b \in Nat, NEW c \in Nat,
           a <= b, b <= c
    PROVE  P!Between(a, b) \cup P!Between(b, c) = P!Between(a, c)
<1>1. ASSUME NEW n \in shown
      PROVE  (n \in P!Between(a, b) \/ n \in P!Between(b, c))
                <=> n \in P!Between(a, c)
  <2>1. n \in Int
    BY DEF P!TypeOK
  <2> QED BY <2>1 DEF P!Between
<1>2. /\ P!Between(a, b) \subseteq shown /\ P!Between(b, c) \subseteq shown
      /\ P!Between(a, c) \subseteq shown
  BY DEF P!Between
<1> QED BY <1>1, <1>2

(* Nothing lies between a place and itself.                                 *)
LEMMA EmptyStretch == ASSUME P!TypeOK, NEW a \in Nat PROVE P!Between(a, a) = {}
<1>1. ASSUME NEW n \in shown PROVE ~(a < n /\ n <= a)
  <2>1. n \in Int
    BY DEF P!TypeOK
  <2> QED BY <2>1
<1> QED BY <1>1 DEF P!Between

(* Two finite sets together are no larger than the sum of their sizes.      *)
LEMMA Sizes ==
    ASSUME NEW S, NEW T, IsFiniteSet(S), IsFiniteSet(T)
    PROVE  /\ Cardinality(S \cup T) \in Nat
           /\ Cardinality(S \cup T) <= Cardinality(S) + Cardinality(T)
<1>1. IsFiniteSet(S \cap T) /\ IsFiniteSet(S \cup T)
  BY FS_Subset, FS_Union
<1>2. /\ Cardinality(S) \in Nat /\ Cardinality(T) \in Nat
      /\ Cardinality(S \cap T) \in Nat /\ Cardinality(S \cup T) \in Nat
  BY <1>1, FS_CardinalityType
<1>3. Cardinality(S \cup T)
        = Cardinality(S) + Cardinality(T) - Cardinality(S \cap T)
  BY FS_Union
<1> QED BY <1>2, <1>3

(* What a page can be, given what the call has collected.                   *)
LEMMA PageFacts ==
    ASSUME P!Bounds, P!IInv, NEW r \in Readers, call[r].stage = "asking",
           NEW next \in Int,
           P!Scans(call[r].after, call[r].limit - Cardinality(call[r].got), next)
    PROVE  LET c == call[r]
               got == c.got \cup P!Between(c.after, next)
           IN /\ c \in P!Calls /\ next \in Nat
              /\ c.from = cursors[r] /\ c.from <= c.cursor
              /\ c.cursor <= c.after /\ c.after <= next /\ next <= last
              /\ got = P!Between(c.from, next) /\ got \subseteq shown
              /\ P!Between(c.cursor, next) = P!Between(c.after, next)
              /\ Cardinality(got) \in Nat /\ Cardinality(got) <= c.limit
              /\ next < last => c.from < next
              /\ c.pages \in Nat /\ c.pages > 0
<1> DEFINE c == call[r]
           new == P!Between(c.after, next)
           got == c.got \cup new
<1>1. /\ c \in P!Calls /\ c.from = cursors[r] /\ c.from <= c.cursor
      /\ c.cursor <= c.after /\ c.after <= last
      /\ c.got = P!Between(c.from, c.cursor)
      /\ P!Between(c.cursor, c.after) = {}
      /\ c.pages > 0 /\ Cardinality(c.got) < c.limit
  BY Counts DEF P!IInv, P!TypeOK, P!Collected, P!Roomy
<1>2. /\ c.from \in Nat /\ c.cursor \in Nat /\ c.after \in Nat
      /\ c.limit \in Nat /\ c.pages \in Nat /\ last \in Nat
      /\ Window \in Nat /\ Window > 0
  BY <1>1 DEF P!Calls, P!IInv, P!TypeOK, P!Bounds
<1>3. /\ next \in Nat /\ c.after <= next /\ next <= last
      /\ Cardinality(new) <= c.limit - Cardinality(c.got)
      /\ \/ next = P!Least(c.after + Window, last)
         \/ Cardinality(new) = c.limit - Cardinality(c.got)
  BY <1>2, Counts DEF P!Scans, P!Least
<1>4. P!Between(c.cursor, next) = new
  <2>1. /\ P!TypeOK /\ next \in Nat /\ c.after <= next
        /\ c.cursor \in Nat /\ c.after \in Nat /\ c.cursor <= c.after
    BY <1>1, <1>2, <1>3 DEF P!IInv
  <2>2. P!Between(c.cursor, c.after) \cup P!Between(c.after, next)
          = P!Between(c.cursor, next)
    BY <2>1, JoinedStretches
  <2> QED BY <2>2, <1>1
<1>5. got = P!Between(c.from, next)
  <2>1. P!TypeOK /\ next \in Nat /\ c.cursor <= next
    BY <1>1, <1>2, <1>3 DEF P!IInv
  <2>2. P!Between(c.from, c.cursor) \cup P!Between(c.cursor, next)
          = P!Between(c.from, next)
    BY <1>1, <1>2, <2>1, JoinedStretches
  <2> QED BY <2>2, <1>1, <1>4
<1>6. /\ IsFiniteSet(c.got) /\ Cardinality(c.got) \in Nat
      /\ IsFiniteSet(new) /\ Cardinality(new) \in Nat
      /\ got \subseteq shown
  BY <1>1, <1>2, <1>3, <1>5, Stretch DEF P!IInv
<1>7. Cardinality(got) \in Nat /\ Cardinality(got) <= c.limit
  <2>1. /\ Cardinality(got) \in Nat
        /\ Cardinality(got) <= Cardinality(c.got) + Cardinality(new)
    BY <1>6, Sizes
  <2> QED BY <2>1, <1>2, <1>3, <1>6
<1>8. next < last => c.from < next
  <2>1. CASE next = P!Least(c.after + Window, last)
    BY <2>1, <1>1, <1>2, <1>3 DEF P!Least
  <2>2. CASE Cardinality(new) = c.limit - Cardinality(c.got)
    <3>1. Cardinality(new) > 0
      BY <2>2, <1>1, <1>2, <1>6
    <3>2. new # {}
      <4>1. Cardinality({}) = 0
        BY FS_EmptySet
      <4>2. ~ 0 > 0
        OBVIOUS
      <4> HIDE DEF new
      <4> QED BY <3>1, <4>1, <4>2, Zenon
    <3>3. PICK n \in shown : c.after < n /\ n <= next
      BY <3>2 DEF P!Between
    <3>4. n \in Nat
      BY DEF P!IInv, P!TypeOK
    <3> QED BY <3>3, <3>4, <1>1, <1>2, <1>3
  <2> QED BY <1>3, <2>1, <2>2
<1> QED BY <1>1, <1>2, <1>3, <1>4, <1>5, <1>6, <1>7, <1>8

-----------------------------------------------------------------------------
(* The invariant holds of an empty log.                                     *)
LEMMA PollStarts == ASSUME P!Bounds, P!Init PROVE P!IInv
<1>1. P!TypeOK
  BY DEF P!Bounds, P!Init, P!TypeOK, P!Idle, P!Calls
<1>2. P!NothingSkipped
  BY DEF P!Init, P!NothingSkipped, P!Between
<1>3. P!Collected /\ P!Roomy /\ P!Advances
  BY DEF P!Init, P!Idle, P!Collected, P!Roomy, P!Advances
<1> QED BY <1>1, <1>2, <1>3 DEF P!IInv

(* A new event is behind every cursor.                                      *)
LEMMA AppendPolls == ASSUME P!Bounds, P!IInv, P!Append PROVE P!IInv'
<1>1. /\ last \in Nat /\ last' = last + 1 /\ last' \in 0..MaxEvents
      /\ shown \subseteq 1..last /\ shown' \subseteq 1..last'
      /\ shown \subseteq shown'
      /\ UNCHANGED <<up, cursors, taken, call, crashes, losses>>
  BY DEF P!Append, P!IInv, P!TypeOK, P!Bounds
<1>2. P!TypeOK'
  <2>1. call' \in [Readers -> P!Calls']
    BY <1>1 DEF P!IInv, P!TypeOK, P!Calls
  <2>2. cursors' \in [Readers -> 0..last']
    <3>1. cursors \in [Readers -> 0..last] /\ 0..last \subseteq 0..last'
      BY <1>1 DEF P!IInv, P!TypeOK
    <3> QED BY <3>1, <1>1
  <2>3. taken' \in [Readers -> SUBSET shown']
    <3>1. taken \in [Readers -> SUBSET shown]
      BY DEF P!IInv, P!TypeOK
    <3> QED BY <3>1, <1>1
  <2> QED BY <1>1, <2>1, <2>2, <2>3 DEF P!IInv, P!TypeOK
<1>3. ASSUME NEW a \in Nat, NEW b \in Nat, b <= last
      PROVE  {n \in shown' : a < n /\ n <= b} = P!Between(a, b)
  <2>1. ASSUME NEW n \in shown', n <= b PROVE n \in shown
    BY <1>1, <1>3, <2>1 DEF P!Append
  <2> QED BY <1>1, <2>1 DEF P!Between
<1>4. P!NothingSkipped'
  <2> SUFFICES ASSUME NEW r \in Readers
               PROVE  taken'[r] = {n \in shown' : 0 < n /\ n <= cursors'[r]}
    BY DEF P!NothingSkipped, P!Between
  <2>1. cursors[r] \in Nat /\ cursors[r] <= last
    BY <1>1 DEF P!IInv, P!TypeOK
  <2>2. {n \in shown' : 0 < n /\ n <= cursors[r]} = P!Between(0, cursors[r])
    BY <2>1, <1>3
  <2> QED BY <1>1, <2>2 DEF P!IInv, P!NothingSkipped
<1>5. P!Collected'
  <2> SUFFICES
        ASSUME NEW r \in Readers, call[r].stage # "idle"
        PROVE  LET c == call[r] IN
               /\ c.from = cursors[r] /\ c.from <= c.cursor
               /\ c.cursor <= c.after /\ c.after <= last'
               /\ c.got = {n \in shown' : c.from < n /\ n <= c.cursor}
               /\ {n \in shown' : c.cursor < n /\ n <= c.after} = {}
    BY <1>1 DEF P!Collected, P!Between
  <2> DEFINE c == call[r]
  <2>1. c.from \in Nat /\ c.cursor \in Nat /\ c.after \in Nat
    BY DEF P!IInv, P!TypeOK, P!Calls
  <2>2. /\ c.from = cursors[r] /\ c.from <= c.cursor
        /\ c.cursor <= c.after /\ c.after <= last
        /\ c.got = P!Between(c.from, c.cursor)
        /\ P!Between(c.cursor, c.after) = {}
    BY DEF P!IInv, P!Collected
  <2>3. c.cursor <= last /\ c.after <= last'
    BY <1>1, <2>1, <2>2
  <2>4. {n \in shown' : c.from < n /\ n <= c.cursor}
          = P!Between(c.from, c.cursor)
    BY <2>1, <2>3, <1>3
  <2>5. {n \in shown' : c.cursor < n /\ n <= c.after}
          = P!Between(c.cursor, c.after)
    BY <2>1, <2>2, <1>3
  <2> QED BY <2>2, <2>3, <2>4, <2>5
<1>6. P!Roomy' /\ P!Advances'
  BY <1>1 DEF P!IInv, P!Roomy, P!Advances
<1> QED BY <1>2, <1>4, <1>5, <1>6 DEF P!IInv

(* The steps of a call leave the log alone.                                 *)
LEMMA AskPolls ==
    ASSUME P!Bounds, P!IInv, NEW r \in Readers, P!Asks(r) PROVE P!IInv'
<1>0. PICK owner \in Readers, limit \in Limits, pages \in Pages,
           patient \in BOOLEAN : P!Ask(r, owner, limit, pages, patient)
  BY DEF P!Asks
<1>1. P!Ask(r, r, limit, pages, patient)
  <2>1. owner = r
    BY <1>0 DEF P!Ask, P!OwnCursor
  <2> QED BY <1>0, <2>1
<1> DEFINE c == [P!Idle EXCEPT !.stage = "asking", !.limit = limit,
                             !.pages = pages, !.patient = patient,
                             !.waiting = patient, !.from = cursors[r],
                             !.cursor = cursors[r], !.after = cursors[r]]
<1>2. /\ call' = [call EXCEPT ![r] = c]
      /\ UNCHANGED <<last, shown, up, cursors, taken, crashes, losses>>
  BY <1>1 DEF P!Ask, P!log
<1>3. /\ cursors[r] \in Nat /\ cursors[r] <= last
      /\ limit \in Nat /\ limit > 0 /\ pages \in Nat /\ pages > 0
  BY DEF P!IInv, P!TypeOK, P!Bounds
<1>4. /\ c.stage = "asking" /\ c.limit = limit /\ c.pages = pages
      /\ c.from = cursors[r] /\ c.cursor = cursors[r] /\ c.after = cursors[r]
      /\ c.got = {} /\ c.more = FALSE
  BY DEF P!Idle
<1>5. c \in P!Calls
  BY <1>3 DEF P!Idle, P!Calls
<1>6. P!TypeOK'
  BY <1>2, <1>5 DEF P!IInv, P!TypeOK, P!Calls
<1>7. P!Collected'
  <2>1. P!Between(cursors[r], cursors[r]) = {}
    BY <1>3, EmptyStretch DEF P!IInv
  <2> QED BY <1>2, <1>3, <1>4, <2>1 DEF P!IInv, P!TypeOK, P!Collected, P!Between
<1>8. P!Roomy' /\ P!Advances'
  BY <1>2, <1>3, <1>4, FS_EmptySet, Counts DEF P!IInv, P!TypeOK, P!Roomy, P!Advances
<1> QED BY <1>2, <1>6, <1>7, <1>8 DEF P!IInv, P!NothingSkipped, P!Between

LEMMA PagePolls ==
    ASSUME P!Bounds, P!IInv, NEW r \in Readers, P!Page(r) PROVE P!IInv'
<1> DEFINE c == call[r]
<1>1. /\ c.stage = "asking"
      /\ UNCHANGED <<last, shown, up, cursors, taken, crashes, losses>>
  BY DEF P!Page, P!log
<1>2. PICK next \in c.after..last :
        /\ P!Scans(c.after, c.limit - Cardinality(c.got), next)
        /\ call' = [call EXCEPT ![r] =
                      IF P!Waits(c, next) THEN [c EXCEPT !.after = next]
                      ELSE P!Taken(c, next)]
  BY Counts DEF P!Page
<1>3. /\ c \in P!Calls /\ next \in Nat
      /\ c.from = cursors[r] /\ c.from <= c.cursor
      /\ c.cursor <= c.after /\ c.after <= next /\ next <= last
      /\ c.got \cup P!Between(c.after, next) = P!Between(c.from, next)
      /\ c.got \cup P!Between(c.after, next) \subseteq shown
      /\ P!Between(c.cursor, next) = P!Between(c.after, next)
      /\ Cardinality(c.got \cup P!Between(c.after, next)) \in Nat
      /\ Cardinality(c.got \cup P!Between(c.after, next)) <= c.limit
      /\ next < last => c.from < next
      /\ c.pages \in Nat /\ c.pages > 0
  BY <1>1, <1>2, PageFacts, SMTT(60)
<1>4. CASE P!Waits(c, next)
  <2> DEFINE d == [c EXCEPT !.after = next]
  <2>1. /\ call' = [call EXCEPT ![r] = d] /\ d \in P!Calls
        /\ d.stage = c.stage /\ d.from = c.from /\ d.cursor = c.cursor
        /\ d.after = next /\ d.got = c.got /\ d.pages = c.pages
        /\ d.limit = c.limit /\ P!Between(c.cursor, next) = {}
    BY <1>2, <1>3, <1>4 DEF P!Calls, P!Waits, P!Takes
  <2>2. P!TypeOK'
    BY <1>1, <2>1 DEF P!IInv, P!TypeOK, P!Calls
  <2>3. P!Collected'
    BY <1>1, <1>3, <2>1 DEF P!IInv, P!TypeOK, P!Collected, P!Between, P!Calls
  <2>4. P!Roomy' /\ P!Advances'
    BY <1>1, <2>1 DEF P!IInv, P!TypeOK, P!Roomy, P!Advances
  <2> QED BY <1>1, <2>2, <2>3, <2>4 DEF P!IInv, P!NothingSkipped, P!Between
<1>5. CASE ~P!Waits(c, next)
  <2> DEFINE e == [c EXCEPT !.got = @ \cup P!Takes(c.after, next),
                            !.cursor = next, !.after = next,
                            !.pages = @ - 1, !.waiting = FALSE,
                            !.more = next < last]
             d == [e EXCEPT !.stage = IF P!Drained(e) THEN "answered"
                                      ELSE "asking"]
  <2>1. call' = [call EXCEPT ![r] = d]
    BY <1>2, <1>5 DEF P!Taken
  <2>2. /\ e.got = P!Between(c.from, next) /\ e.cursor = next
        /\ e.after = next /\ e.pages = c.pages - 1 /\ e.limit = c.limit
        /\ e.from = c.from /\ e.more = (next < last) /\ e \in P!Calls
    <3>1. c.pages - 1 \in Nat
      BY <1>3
    <3>2. (next < last) \in BOOLEAN
      OBVIOUS
    <3>3. c.got \cup P!Takes(c.after, next) = P!Between(c.from, next)
      BY <1>3 DEF P!Takes
    <3> HIDE DEF c
    <3>4. /\ e.got = c.got \cup P!Takes(c.after, next) /\ e.cursor = next
          /\ e.after = next /\ e.pages = c.pages - 1 /\ e.limit = c.limit
          /\ e.from = c.from /\ e.more = (next < last)
      BY <1>3 DEF P!Calls
    <3>5. e \in P!Calls
      BY <1>3, <3>1, <3>2, <3>3 DEF P!Calls
    <3> QED BY <3>3, <3>4, <3>5
  <2>3. /\ d.got = P!Between(c.from, next) /\ d.cursor = next
        /\ d.after = next /\ d.pages = c.pages - 1 /\ d.limit = c.limit
        /\ d.from = c.from /\ d.more = (next < last) /\ d \in P!Calls
        /\ d.stage = IF P!Drained(e) THEN "answered" ELSE "asking"
    BY <2>2 DEF P!Calls
  <2>4. d.stage = "asking" => d.pages > 0 /\ Cardinality(d.got) < d.limit
    <3>1. d.stage = "asking" => e.pages # 0 /\ Cardinality(e.got) # e.limit
      BY <2>3, Counts DEF P!Drained
    <3>2. c.limit \in Nat
      BY <1>3 DEF P!Calls
    <3>3. /\ d.pages = e.pages /\ d.pages = c.pages - 1 /\ d.limit = c.limit
          /\ d.got = e.got /\ e.limit = c.limit
      BY <2>2, <2>3
    <3>4. Cardinality(d.got) \in Nat /\ Cardinality(d.got) <= c.limit
      BY <1>3, <2>3
    <3> HIDE DEF c, d, e
    <3> QED BY <3>1, <3>2, <3>3, <3>4, <1>3
  <2>5. d.stage = "answered" /\ d.more => d.from < d.cursor
    BY <1>3, <2>3
  <2>6. P!TypeOK'
    BY <1>1, <2>1, <2>3 DEF P!IInv, P!TypeOK, P!Calls
  <2>7. P!Collected'
    <3>1. P!Between(next, next) = {}
      BY <1>3, EmptyStretch DEF P!IInv
    <3>2. DOMAIN call = Readers /\ P!Collected
      BY DEF P!IInv, P!TypeOK
    <3> HIDE DEF c, d, e
    <3>3. call'[r] = d /\ \A q \in Readers \ {r} : call'[q] = call[q]
      BY <2>1, <3>2
    <3> DEFINE Right(q) ==
            /\ call[q].from = cursors[q]
            /\ call[q].from <= call[q].cursor
            /\ call[q].cursor <= call[q].after /\ call[q].after <= last
            /\ call[q].got = P!Between(call[q].from, call[q].cursor)
            /\ P!Between(call[q].cursor, call[q].after) = {}
    <3>4. Right(r)'
      <4>1. /\ d.from = cursors'[r] /\ d.from <= d.cursor
            /\ d.cursor <= d.after /\ d.after <= last'
        <5>1. /\ c.from \in Nat /\ c.cursor \in Nat /\ c.after \in Nat
              /\ last \in Int
          BY <1>3 DEF P!Calls, P!IInv, P!TypeOK
        <5>2. c.from <= next /\ next <= next
          BY <1>3, <5>1
        <5> QED BY <1>1, <1>3, <2>3, <5>2
      <4>2. /\ d.got = P!Between(d.from, d.cursor)
            /\ P!Between(d.cursor, d.after) = {}
        BY <2>3, <3>1
      <4> QED BY <1>1, <3>3, <4>1, <4>2 DEF P!Between
    <3>5. ASSUME NEW q \in Readers \ {r}, call'[q].stage # "idle"
          PROVE  Right(q)'
      <4>1. Right(q)
        BY <3>2, <3>3, <3>5 DEF P!Collected
      <4> QED BY <1>1, <3>3, <4>1 DEF P!Between
    <3> QED BY <3>4, <3>5 DEF P!Collected
  <2>8. P!Roomy' /\ P!Advances'
    BY <1>1, <2>1, <2>4, <2>5, Counts
       DEF P!IInv, P!TypeOK, P!Roomy, P!Advances
  <2> QED BY <1>1, <2>6, <2>7, <2>8 DEF P!IInv, P!NothingSkipped, P!Between
<1> QED BY <1>4, <1>5

(* An answer, or the loss of one, ends a call.                              *)
LEMMA EndPolls ==
    ASSUME P!Bounds, P!IInv, NEW r \in Readers,
           P!Answer(r) \/ P!GiveUp(r) \/ P!LoseAnswer(r)
    PROVE  P!IInv'
<1> DEFINE c == call[r]
<1>1. /\ call' = [call EXCEPT ![r] = P!Idle]
      /\ UNCHANGED <<last, shown, up, crashes>> /\ losses' \in 0..MaxLosses
      /\ P!Idle \in P!Calls /\ P!Idle.stage = "idle"
  BY DEF P!Answer, P!GiveUp, P!LoseAnswer, P!log, P!IInv, P!TypeOK, P!Bounds, P!Idle, P!Calls
<1>2. CASE P!Answer(r)
  <2>1. /\ c.from = cursors[r] /\ c.from <= c.cursor /\ c.cursor <= last
        /\ c.got = P!Between(c.from, c.cursor) /\ c.got \subseteq shown
        /\ c.cursor \in Nat /\ c.from \in Nat /\ last \in Nat
        /\ cursors' = [cursors EXCEPT ![r] = c.cursor]
        /\ taken' = [taken EXCEPT ![r] = @ \cup c.got]
    BY <1>2 DEF P!Answer, P!IInv, P!TypeOK, P!Collected, P!Calls
  <2>2. P!Between(0, c.from) \cup P!Between(c.from, c.cursor)
          = P!Between(0, c.cursor)
    BY <2>1, JoinedStretches DEF P!IInv
  <2>3. P!TypeOK'
    BY <1>1, <2>1 DEF P!IInv, P!TypeOK, P!Calls
  <2>4. P!NothingSkipped'
    BY <1>1, <2>1, <2>2 DEF P!IInv, P!TypeOK, P!NothingSkipped, P!Between
  <2>5. P!Collected' /\ P!Roomy' /\ P!Advances'
    BY <1>1, <2>1 DEF P!IInv, P!TypeOK, P!Collected, P!Roomy, P!Advances, P!Between
  <2> QED BY <2>3, <2>4, <2>5 DEF P!IInv
<1>3. CASE P!GiveUp(r) \/ P!LoseAnswer(r)
  <2>1. UNCHANGED <<cursors, taken>>
    BY <1>3 DEF P!GiveUp, P!LoseAnswer
  <2>2. P!TypeOK' /\ P!NothingSkipped'
    BY <1>1, <2>1 DEF P!IInv, P!TypeOK, P!Calls, P!NothingSkipped, P!Between
  <2>3. P!Collected' /\ P!Roomy' /\ P!Advances'
    BY <1>1, <2>1 DEF P!IInv, P!TypeOK, P!Collected, P!Roomy, P!Advances, P!Between
  <2> QED BY <2>2, <2>3 DEF P!IInv
<1> QED BY <1>2, <1>3

(* The rest.                                                                *)
LEMMA ExpirePolls ==
    ASSUME P!Bounds, P!IInv, NEW r \in Readers, P!Expire(r) PROVE P!IInv'
<1> DEFINE c == call[r]
           d == [c EXCEPT !.waiting = FALSE]
<1>1. /\ call' = [call EXCEPT ![r] = d] /\ d \in P!Calls /\ d.stage = c.stage
      /\ d.from = c.from /\ d.cursor = c.cursor /\ d.after = c.after
      /\ d.got = c.got /\ d.pages = c.pages /\ d.limit = c.limit
      /\ d.more = c.more
      /\ UNCHANGED <<last, shown, up, cursors, taken, crashes, losses>>
  BY DEF P!Expire, P!log, P!IInv, P!TypeOK, P!Calls
<1>2. P!TypeOK' /\ P!NothingSkipped'
  BY <1>1 DEF P!IInv, P!TypeOK, P!Calls, P!NothingSkipped, P!Between
<1>3. P!Collected' /\ P!Roomy' /\ P!Advances'
  BY <1>1 DEF P!IInv, P!TypeOK, P!Collected, P!Roomy, P!Advances, P!Between
<1> QED BY <1>2, <1>3 DEF P!IInv

LEMMA CrashPolls == ASSUME P!Bounds, P!IInv, P!Crash PROVE P!IInv'
<1>1. /\ call' = [r \in Readers |-> IF call[r].stage = "asking"
                                    THEN P!Resent(call[r]) ELSE call[r]]
      /\ UNCHANGED <<last, shown, cursors, taken, losses>>
      /\ crashes' \in 0..MaxCrashes /\ up' = FALSE
  BY DEF P!Crash, P!log, P!IInv, P!TypeOK, P!Bounds
<1>2. ASSUME NEW r \in Readers
      PROVE  LET c == call[r]
                 d == P!Resent(c)
             IN /\ d \in P!Calls /\ d.stage = c.stage /\ d.from = c.from
                /\ d.cursor = c.cursor /\ d.after = c.cursor
                /\ d.got = c.got /\ d.pages = c.pages /\ d.limit = c.limit
  <2>1. call[r] \in P!Calls
    BY DEF P!IInv, P!TypeOK
  <2>2. (call[r].patient /\ call[r].got = {}) \in BOOLEAN
    OBVIOUS
  <2> QED BY <2>1, <2>2 DEF P!Resent, P!Calls
<1>3. P!TypeOK' /\ P!NothingSkipped'
  BY <1>1, <1>2 DEF P!IInv, P!TypeOK, P!Calls, P!NothingSkipped, P!Between
<1>4. P!Collected'
  <2> SUFFICES
        ASSUME NEW r \in Readers, call'[r].stage # "idle"
        PROVE  /\ call'[r].from = cursors[r]
               /\ call'[r].from <= call'[r].cursor
               /\ call'[r].cursor <= call'[r].after /\ call'[r].after <= last
               /\ call'[r].got = P!Between(call'[r].from, call'[r].cursor)
               /\ P!Between(call'[r].cursor, call'[r].after) = {}
    BY <1>1 DEF P!Collected, P!Between
  <2>1. /\ call[r].stage # "idle"
        /\ call'[r] = call[r] \/ call'[r] = P!Resent(call[r])
    BY <1>1, <1>2
  <2>2. /\ call[r].from = cursors[r] /\ call[r].from <= call[r].cursor
        /\ call[r].cursor <= call[r].after /\ call[r].after <= last
        /\ call[r].got = P!Between(call[r].from, call[r].cursor)
        /\ P!Between(call[r].cursor, call[r].after) = {}
    BY <2>1 DEF P!IInv, P!Collected
  <2>0. /\ call[r].cursor \in Nat /\ call[r].after \in Nat
        /\ last \in Nat
    BY DEF P!IInv, P!TypeOK, P!Calls
  <2>3. P!Between(call[r].cursor, call[r].cursor) = {}
    BY <2>0, EmptyStretch DEF P!IInv
  <2> QED BY <1>2, <2>0, <2>1, <2>2, <2>3
<1>5. P!Roomy' /\ P!Advances'
  BY <1>1, <1>2 DEF P!IInv, P!Roomy, P!Advances
<1> QED BY <1>3, <1>4, <1>5 DEF P!IInv

LEMMA ForgetPolls ==
    ASSUME P!Bounds, P!IInv, NEW r \in Readers, P!Forget(r) PROVE P!IInv'
<1>1. /\ call[r].stage = "idle"
      /\ cursors' = [cursors EXCEPT ![r] = 0]
      /\ taken' = [taken EXCEPT ![r] = {}]
      /\ UNCHANGED <<last, shown, up, call, crashes>>
      /\ losses' \in 0..MaxLosses /\ last \in Nat
  BY DEF P!Forget, P!log, P!IInv, P!TypeOK, P!Bounds
<1>2. P!TypeOK'
  BY <1>1 DEF P!IInv, P!TypeOK, P!Calls
<1>3. P!Between(0, 0) = {}
  BY EmptyStretch DEF P!IInv
<1>4. P!NothingSkipped'
  BY <1>1, <1>3 DEF P!IInv, P!TypeOK, P!NothingSkipped, P!Between
<1>5. P!Collected' /\ P!Roomy' /\ P!Advances'
  BY <1>1 DEF P!IInv, P!TypeOK, P!Collected, P!Roomy, P!Advances, P!Between
<1> QED BY <1>2, <1>4, <1>5 DEF P!IInv

LEMMA RestartPolls == ASSUME P!IInv, P!Restart \/ UNCHANGED P!vars PROVE P!IInv'
<1>1. /\ UNCHANGED <<last, shown, cursors, taken, call, crashes, losses>>
      /\ up' \in BOOLEAN
  BY DEF P!Restart, P!vars, P!log, P!IInv, P!TypeOK
<1>2. P!TypeOK' /\ P!NothingSkipped' /\ P!Collected'
  BY <1>1 DEF P!IInv, P!TypeOK, P!Calls, P!NothingSkipped, P!Collected, P!Between
<1>3. P!Roomy' /\ P!Advances'
  BY <1>1 DEF P!IInv, P!Roomy, P!Advances
<1> QED BY <1>2, <1>3 DEF P!IInv

LEMMA PollSteps == ASSUME P!Bounds, P!IInv, [P!Next]_(P!vars) PROVE P!IInv'
BY AppendPolls, AskPolls, PagePolls, EndPolls, ExpirePolls, CrashPolls, ForgetPolls,
   RestartPolls DEF P!Next, P!Reading

LEMMA CursorsKnown == ASSUME P!Bounds PROVE P!Spec => []P!IInv
<1>1. P!Init => P!IInv
  BY PollStarts
<1>2. P!IInv /\ [P!Next]_(P!vars) => P!IInv'
  BY PollSteps
<1> QED BY <1>1, <1>2, PTL DEF P!Spec

(* For any number of readers, any log and any bounds of the pages: a reader *)
(* has been given every change up to its cursor, and no page of any call    *)
(* brings one that the call or an earlier answer has brought already,       *)
(* through crashes, lost answers and repeated calls (progress_after, wait,  *)
(* poll).                                                                   *)
THEOREM ChangesExactlyOnce == ASSUME P!Bounds PROVE P!Spec => []P!ExactlyOnce
<1>1. ASSUME P!IInv PROVE P!ExactlyOnce
  <2>1. P!NothingSkipped
    BY <1>1 DEF P!IInv
  <2>2. ASSUME NEW r \in Readers, call[r].stage # "idle"
        PROVE  /\ call[r].got \cap taken[r] = {}
               /\ \A next \in Nat :
                     P!Takes(call[r].after, next)
                        \cap (call[r].got \cup taken[r]) = {}
    <3>1. /\ shown \subseteq Nat /\ cursors[r] \in Nat
          /\ call[r].cursor \in Nat /\ call[r].after \in Nat
      BY <1>1 DEF P!IInv, P!TypeOK, P!Calls
    <3>2. /\ call[r].got = P!Between(cursors[r], call[r].cursor)
          /\ taken[r] = P!Between(0, cursors[r])
          /\ cursors[r] <= call[r].cursor /\ call[r].cursor <= call[r].after
      BY <1>1, <2>2 DEF P!IInv, P!NothingSkipped, P!Collected
    <3>3. /\ \A n \in call[r].got : n > cursors[r] /\ n <= call[r].after
          /\ \A n \in taken[r] : n <= cursors[r] /\ n <= call[r].after
      <4>1. ASSUME NEW n \in call[r].got
            PROVE  n > cursors[r] /\ n <= call[r].after
        <5>1. n \in Nat /\ cursors[r] < n /\ n <= call[r].cursor
          BY <3>1, <3>2 DEF P!Between
        <5> QED BY <3>1, <3>2, <5>1
      <4>2. ASSUME NEW n \in taken[r]
            PROVE  n <= cursors[r] /\ n <= call[r].after
        <5>1. n \in Nat /\ n <= cursors[r]
          BY <3>1, <3>2 DEF P!Between
        <5> QED BY <3>1, <3>2, <5>1
      <4> QED BY <4>1, <4>2
    <3>5. call[r].got \subseteq Nat /\ taken[r] \subseteq Nat
      BY <3>1, <3>2 DEF P!Between
    <3>4. ASSUME NEW next \in Nat
          PROVE  \A n \in P!Takes(call[r].after, next) :
                    n \in Nat /\ call[r].after < n
      BY <3>1 DEF P!Takes, P!Between
    <3>6. call[r].got \cap taken[r] = {}
      BY <3>1, <3>3, <3>5
    <3>7. ASSUME NEW next \in Nat
          PROVE  P!Takes(call[r].after, next)
                    \cap (call[r].got \cup taken[r]) = {}
      BY <3>1, <3>3, <3>4, <3>5
    <3> QED BY <3>6, <3>7
  <2> QED BY <2>1, <2>2 DEF P!ExactlyOnce, P!GivenOnce
<1> QED BY <1>1, CursorsKnown, PTL

(* An answer that promises more has moved its cursor: poll never refuses a  *)
(* page and no reader turns on the spot, whatever fills the log.            *)
THEOREM DrainAdvances == ASSUME P!Bounds PROVE P!Spec => []P!Advances
<1>1. P!IInv => P!Advances
  BY DEF P!IInv
<1> QED BY <1>1, CursorsKnown, PTL
=============================================================================

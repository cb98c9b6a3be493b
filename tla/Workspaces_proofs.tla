-------------------------- MODULE Workspaces_proofs -------------------------
(***************************************************************************)
(* Proofs about Integration: what the supervisor integrates into a target  *)
(* branch, however often it is interrupted and whatever the operator does  *)
(* in the same checkout, for any numbers of assignments, operations,       *)
(* crashes, faults and steps of the operator.                              *)
(*                                                                         *)
(* It rests on one correspondence: a merge or rebase that coterie          *)
(* puts on the branch is the change a durable plan leads to, the same in   *)
(* every attempt, so that as many changes exist as plans at most.          *)
(*                                                                         *)
(* At the end: Worktrees, how the worktree of an assignment comes to be.   *)
(***************************************************************************)
EXTENDS Integration, Worktrees, FiniteSetTheorems, TLAPS

USE BoundsAssumption, AuthorsAssumption

-----------------------------------------------------------------------------
(* Plans and the commits they lead to.                                      *)

(* What a durable plan leads to: a commit that adds to the planned tip, is  *)
(* the assignment's, and holds no merge or rebase but the plan's own.       *)
LEMMA CandidateFacts ==
    ASSUME TypeOK, Durable, NEW o \in Operations, Planned(o)
    PROVE  LET p == plan[o] IN
           /\ p = [asg |-> p.asg, strategy |-> p.strategy, expected |-> p.expected]
           /\ p.asg \in Assignments /\ p.strategy \in Strategies
           /\ p.expected \in reached
           /\ p.expected \subseteq Candidate(p)
           /\ p.asg \in Authors(Candidate(p))
           /\ \A x \in Candidate(p) :
                 \/ x \in p.expected
                 \/ x.how \notin Strategies
                 \/ x = Change(p.asg, p.strategy, p.expected)
<1> DEFINE p == plan[o]
<1>1. p \in [asg : Assignments, strategy : Strategies, expected : reached]
  BY DEF Durable, PlanSet, Planned
<1>2. /\ p = [asg |-> p.asg, strategy |-> p.strategy, expected |-> p.expected]
      /\ p.asg \in Assignments /\ p.strategy \in Strategies
      /\ p.expected \in reached
  BY <1>1
<1> HIDE DEF p
<1>3. Change(p.asg, "work", {}).by = p.asg /\ Change(p.asg, "work", {}).how = "work"
      /\ \A how, on : Change(p.asg, how, on).by = p.asg
  BY DEF Change
<1>4. CASE Contains(p.expected, p.asg)
  <2>1. Candidate(p) = p.expected
    BY <1>4 DEF Candidate
  <2>2. Change(p.asg, "work", {}) \in p.expected
    BY <1>4 DEF Contains, Result
  <2> QED BY <1>2, <1>3, <2>1, <2>2 DEF Authors, p
<1>5. CASE ~Contains(p.expected, p.asg) /\ p.expected = {}
  <2>1. Candidate(p) = {Change(p.asg, "work", {})}
    BY <1>5 DEF Candidate, Result
  <2> QED BY <1>2, <1>3, <1>5, <2>1 DEF Authors, Strategies, p
<1>6. CASE ~Contains(p.expected, p.asg) /\ p.expected # {}
            /\ p.strategy = "merge"
  <2>1. Candidate(p) = p.expected \cup {Change(p.asg, "work", {})}
                         \cup {Change(p.asg, p.strategy, p.expected)}
    BY <1>6 DEF Candidate, Merged, Result
  <2> QED BY <1>2, <1>3, <2>1 DEF Authors, Strategies, p
<1>7. CASE ~Contains(p.expected, p.asg) /\ p.expected # {}
            /\ p.strategy # "merge"
  <2>1. p.strategy = "rebase"
    BY <1>2, <1>7 DEF Strategies
  <2>2. Candidate(p) = p.expected \cup {Change(p.asg, p.strategy, p.expected)}
    BY <1>7, <2>1 DEF Candidate, Rebased
  <2> QED BY <1>2, <1>3, <2>2 DEF Authors, p
<1> QED BY <1>4, <1>5, <1>6, <1>7

(* The durable plans change only by the request that makes a new one.       *)
LEMMA PlansKept ==
    ASSUME IInv, [Next]_vars
    PROVE  /\ reached \subseteq reached'
           /\ \A o \in Operations : Planned(o) => plan'[o] = plan[o]
           /\ \/ plan' = plan
              \/ \E o \in Operations, a \in Assignments, strategy \in Strategies :
                    /\ ~Planned(o)
                    /\ plan' = [plan EXCEPT ![o] = Prepared(a, strategy)]
                    /\ attempt' = o /\ stage' = "inspect"
                    /\ recorded[a] = {}
                    /\ opState' = [opState EXCEPT ![o] = "desired"]
                    /\ UNCHANGED <<reached, recorded, published>>
<1>1. reached \subseteq reached'
  BY DEF Next, Operate, OperatorCommit, OperatorCommitStaged, OperatorEdit,
     OperatorReset, TouchWorktree, Start, Request, Replay, Reconcile, Proceed,
     Inspect, Checkout,
     Advance, Verify, Record, Fail, Crash, WriteFails, MoveTip, vars, gitVars
<1>2. \/ plan' = plan
      \/ \E o \in Operations, a \in Assignments, strategy \in Strategies :
            Request(o, a, strategy)
  BY DEF Next, Operate, OperatorCommit, OperatorCommitStaged, OperatorEdit,
     OperatorReset, TouchWorktree, OperatorStep, Start, Replay, Reconcile, Proceed, Inspect,
     Checkout, Advance, Verify, Record, Fail, Crash, WriteFails, vars, storeVars
<1>3. DOMAIN plan = Operations
  BY DEF IInv, Durable
<1>4. ASSUME NEW o \in Operations, NEW a \in Assignments, NEW strategy \in Strategies,
             Request(o, a, strategy)
      PROVE  /\ ~Planned(o)
             /\ plan' = [plan EXCEPT ![o] = Prepared(a, strategy)]
             /\ attempt' = o /\ stage' = "inspect"
             /\ recorded[a] = {}
             /\ opState' = [opState EXCEPT ![o] = "desired"]
             /\ UNCHANGED <<reached, recorded, published>>
  BY <1>4 DEF Request, Begin, gitVars
<1> QED BY <1>1, <1>2, <1>3, <1>4

(* A commit new on the branch is the operator's, or what the plan of the    *)
(* attempt leads to, on the tip the plan expects.                           *)
LEMMA CommitsKnown ==
    ASSUME IInv, [Next]_vars
    PROVE  /\ tip' \in reached'
           /\ \/ reached' = reached
              \/ \E c : /\ reached' = reached \cup {c}
                        /\ \A x \in c : x \in tip \/ x.how \notin Strategies
              \/ /\ reached' = reached \cup {Candidate(InPlan)}
                 /\ attempt \in Operations /\ Planned(attempt) /\ stage = "advance"
                 /\ plan' = plan
<1>1. tip \in reached
  BY DEF IInv, TypeOK
<1>2. ASSUME NEW c \in OperatorCommits
      PROVE  \A x \in c : x \in tip \/ x.how \notin Strategies
  BY <1>2 DEF OperatorCommits, Change, Result, Strategies
<1>3. ASSUME NEW c \in OperatorCommits, OperatorCommit(c)
      PROVE  tip' \in reached' /\ reached' = reached \cup {c}
  BY <1>3 DEF OperatorCommit, MoveTip
<1>4. ASSUME NEW a \in Assignments, OperatorCommitStaged(a)
      PROVE  LET c == tip \cup {Change(a, "pick", tip)} IN
             /\ tip' \in reached' /\ reached' = reached \cup {c}
             /\ \A x \in c : x \in tip \/ x.how \notin Strategies
  BY <1>4 DEF OperatorCommitStaged, MoveTip, Change, Strategies
<1>5. ASSUME NEW c \in reached, OperatorReset(c)
      PROVE  tip' \in reached' /\ reached' = reached
  BY <1>5 DEF OperatorReset, TouchWorktree
<1>6. ASSUME Proceed, Advance(InPlan)
      PROVE  /\ tip' \in reached'
             /\ \/ reached' = reached
                \/ /\ reached' = reached \cup {Candidate(InPlan)}
                   /\ attempt \in Operations /\ Planned(attempt) /\ stage = "advance"
                   /\ plan' = plan
  BY <1>1, <1>6 DEF Proceed, Advance, MoveTip, IInv, TypeOK, storeVars
<1>7. CASE \/ OperatorEdit \/ (\E a \in Assignments : TouchWorktree(a))
           \/ Start \/ Crash \/ WriteFails \/ UNCHANGED vars
           \/ Inspect(InPlan) \/ Checkout(InPlan) \/ Verify(InPlan)
           \/ Record(InPlan) \/ Fail
  <2>1. tip' = tip /\ reached' = reached
    BY <1>7 DEF OperatorEdit, TouchWorktree, Start, Request, Replay, Reconcile,
       Crash, WriteFails, Inspect, Checkout, Verify, Record, Fail, vars, gitVars
  <2> QED BY <1>1, <2>1
<1>8. \/ \E c \in OperatorCommits : OperatorCommit(c)
      \/ \E a \in Assignments : OperatorCommitStaged(a)
      \/ \E c \in reached : OperatorReset(c)
      \/ Proceed /\ Advance(InPlan)
      \/ OperatorEdit \/ (\E a \in Assignments : TouchWorktree(a))
           \/ Start \/ Crash \/ WriteFails \/ UNCHANGED vars
           \/ Inspect(InPlan) \/ Checkout(InPlan) \/ Verify(InPlan)
           \/ Record(InPlan) \/ Fail
  BY DEF Next, Operate, Proceed
<1> QED BY <1>2, <1>3, <1>4, <1>5, <1>6, <1>7, <1>8

(* The plans stay plans, finitely many for each assignment.                 *)
LEMMA PlansTyped ==
    ASSUME IInv, [Next]_vars
    PROVE  /\ Durable'
           /\ FewPlans'
           /\ \A o \in Operations :
                 /\ plan'[o].asg \in Assignments \cup {NoAssignment}
                 /\ plan'[o].strategy \in Strategies
                 /\ plan'[o].expected \in reached'
<1>1. /\ plan \in [Operations -> PlanSet] /\ {} \in reached /\ tip \in reached
      /\ reached \subseteq reached' /\ FewPlans
  BY PlansKept DEF IInv, Durable, TypeOK
<1>2. PlanSet \subseteq PlanSet'
  BY <1>1 DEF PlanSet
<1>3. ASSUME plan' = plan
      PROVE  Durable' /\ FewPlans'
  <2>1. plan' \in [Operations -> PlanSet']
    BY <1>1, <1>2, <1>3
  <2>2. FewPlans'
    BY <1>1, <1>3 DEF FewPlans
  <2> QED BY <1>1, <2>1, <2>2 DEF Durable
<1>4. ASSUME NEW o \in Operations, NEW a \in Assignments, NEW strategy \in Strategies,
             plan' = [plan EXCEPT ![o] = Prepared(a, strategy)]
      PROVE  Durable' /\ FewPlans'
  <2>1. Prepared(a, strategy) \in PlanSet
    BY <1>1 DEF PlanSet, Prepared
  <2>2. plan' \in [Operations -> PlanSet]
    BY <1>1, <1>4, <2>1
  <2>3. plan' \in [Operations -> PlanSet']
    BY <1>2, <2>2
  <2>4. ASSUME NEW b \in Assignments
        PROVE  IsFiniteSet({q \in Operations : plan'[q].asg = b})
    <3> DEFINE S == {q \in Operations : plan[q].asg = b}
               T == {q \in Operations : plan'[q].asg = b}
    <3>1. IsFiniteSet(S)
      BY <1>1, <2>4 DEF FewPlans
    <3>2. T \in SUBSET (S \cup {o})
      BY <1>1, <1>4
    <3>3. IsFiniteSet(S \cup {o})
      <4> HIDE DEF S
      <4> QED BY <3>1, FS_AddElement
    <3> HIDE DEF S, T
    <3>4. IsFiniteSet(T)
      BY <3>2, <3>3, FS_Subset
    <3> QED BY <3>4 DEF T
  <2> QED BY <1>1, <2>3, <2>4 DEF Durable, FewPlans
<1>5. Durable' /\ FewPlans'
  BY <1>3, <1>4, PlansKept
<1>6. \A o \in Operations : plan'[o] \in PlanSet'
  BY <1>5 DEF Durable
<1>7. \A q \in PlanSet' : /\ q.asg \in Assignments \cup {NoAssignment}
                          /\ q.strategy \in Strategies
                          /\ q.expected \in reached'
  BY <1>5 DEF PlanSet, NoPlan, Strategies, Durable
<1> QED BY <1>5, <1>6, <1>7

(* Each merge or rebase on the branch is some plan's: the operator makes    *)
(* none, and an attempt those of its plan alone (Advance).                  *)
LEMMA SourcedKept ==
    ASSUME IInv, [Next]_vars PROVE Sourced'
<1> DEFINE Stands(x, plans) ==
        x.by \in Assignments /\ x.how \in Strategies =>
            /\ x = Change(x.by, x.how, x.on)
            /\ \E o \in Operations :
                  plans[o] = [asg |-> x.by, strategy |-> x.how, expected |-> x.on]
<1>1. \A c \in reached : \A x \in c : Stands(x, plan)
  BY DEF IInv, Sourced
<1>2. ASSUME NEW c \in reached, NEW x \in c PROVE Stands(x, plan')
  <2> SUFFICES ASSUME x.by \in Assignments, x.how \in Strategies
               PROVE  Stands(x, plan')
    OBVIOUS
  <2>1. PICK o \in Operations :
            plan[o] = [asg |-> x.by, strategy |-> x.how, expected |-> x.on]
    BY <1>1, <1>2
  <2>2. Planned(o)
    BY <2>1 DEF Planned, NoPlan
  <2>3. plan'[o] = plan[o]
    BY <2>2, PlansKept
  <2> QED BY <1>1, <1>2, <2>1, <2>3
<1>3. tip \in reached
  BY DEF IInv, TypeOK
<1>4. CASE reached' = reached
  BY <1>2, <1>4 DEF Sourced
<1>5. ASSUME NEW c, reached' = reached \cup {c},
             \A x \in c : x \in tip \/ x.how \notin Strategies
      PROVE  Sourced'
  <2>1. \A x \in c : Stands(x, plan')
    BY <1>2, <1>3, <1>5
  <2> QED BY <1>2, <1>5, <2>1 DEF Sourced
<1>6. CASE /\ reached' = reached \cup {Candidate(InPlan)}
           /\ attempt \in Operations /\ Planned(attempt) /\ stage = "advance"
           /\ plan' = plan
  <2> DEFINE p == plan[attempt]
  <2>1. /\ p = [asg |-> p.asg, strategy |-> p.strategy, expected |-> p.expected]
        /\ p.expected \in reached
        /\ \A x \in Candidate(p) :
              \/ x \in p.expected
              \/ x.how \notin Strategies
              \/ x = Change(p.asg, p.strategy, p.expected)
    BY <1>6, CandidateFacts DEF IInv
  <2>2. ASSUME NEW x, x = Change(p.asg, p.strategy, p.expected)
        PROVE  Stands(x, plan')
    <3> HIDE DEF p
    <3>1. x.by = p.asg /\ x.how = p.strategy /\ x.on = p.expected
      BY <2>2 DEF Change
    <3>2. plan'[attempt] = [asg |-> x.by, strategy |-> x.how, expected |-> x.on]
      BY <1>6, <2>1, <3>1 DEF p
    <3>3. x = Change(x.by, x.how, x.on)
      BY <2>2, <3>1
    <3> QED BY <1>6, <3>2, <3>3
  <2>3. \A x \in Candidate(p) : Stands(x, plan')
    BY <1>2, <2>1, <2>2
  <2> QED BY <1>2, <1>6, <2>3 DEF Sourced, InPlan
<1> QED BY <1>4, <1>5, <1>6, CommitsKnown

(* What an attempt does to itself: it begins on a durable plan and loses    *)
(* sight of none of the commits it has seen.                                *)
LEMMA AttemptKept ==
    ASSUME IInv, [Next]_vars
    PROVE  /\ Attempting'
           /\ attempt' \in Operations \cup {NoOperation}
           /\ stage' \in {"idle", "inspect", "checkout", "advance", "verify",
                          "record", "fail"}
           /\ stage' = "idle" <=> attempt' = NoOperation
           /\ stage' # "idle" => Planned(attempt)'
           /\ published' \subseteq Assignments
           /\ published \subseteq published'
<1> DEFINE Goal ==
        /\ Attempting'
        /\ attempt' \in Operations \cup {NoOperation}
        /\ stage' \in {"idle", "inspect", "checkout", "advance", "verify",
                       "record", "fail"}
        /\ stage' = "idle" <=> attempt' = NoOperation
        /\ stage' # "idle" => Planned(attempt)'
        /\ published' \subseteq Assignments
        /\ published \subseteq published'
<1>1. /\ attempt \in Operations \cup {NoOperation}
      /\ stage \in {"idle", "inspect", "checkout", "advance", "verify",
                    "record", "fail"}
      /\ stage = "idle" <=> attempt = NoOperation
      /\ stage # "idle" => Planned(attempt)
      /\ published \subseteq Assignments
      /\ reached \subseteq reached' /\ tip \in reached /\ tip' \in reached'
  BY PlansKept, CommitsKnown DEF IInv, TypeOK
<1>2. ASSUME NEW o \in Operations, NEW a \in Assignments, NEW strategy \in Strategies,
             Request(o, a, strategy)
      PROVE  Goal
  <2>1. plan'[o] = Prepared(a, strategy)
    BY <1>2 DEF IInv, Durable, Request
  <2>2. plan'[o] # NoPlan
    BY <2>1 DEF Prepared, NoPlan
  <2>3. /\ attempt' = o /\ stage' = "inspect" /\ published' = published
    BY <1>2 DEF Request, Begin
  <2> QED BY <1>1, <2>2, <2>3 DEF Attempting, Planned
<1>3. ASSUME ~(\E o \in Operations, a \in Assignments, strategy \in Strategies :
                  Request(o, a, strategy))
      PROVE  plan' = plan
  BY <1>3 DEF Next, Operate, OperatorCommit, OperatorCommitStaged, OperatorEdit,
     OperatorReset, TouchWorktree, OperatorStep, Start, Replay, Reconcile, Proceed, Inspect,
     Checkout, Advance, Verify, Record, Fail, Crash, WriteFails, vars, storeVars
<1>4. CASE plan' = plan
           /\ (Operate \/ Fail \/ Crash \/ UNCHANGED vars)
  <2>1. /\ published' = published
        /\ \/ attempt' = attempt /\ stage' = stage
           \/ attempt' = NoOperation /\ stage' = "idle"
    BY <1>4 DEF Operate, OperatorCommit, OperatorCommitStaged, OperatorEdit,
       OperatorReset, TouchWorktree, OperatorStep, Fail, Crash, vars
  <2>2. CASE attempt' = attempt /\ stage' = stage
    <3>1. Candidate(InPlan)' = Candidate(InPlan) /\ InPlan' = InPlan
          /\ Planned(attempt)' = Planned(attempt)
      BY <1>4, <2>2 DEF InPlan, Candidate, Contains, Result, Merged, Rebased, Planned
    <3> QED BY <1>1, <2>1, <2>2, <3>1 DEF IInv, Attempting
  <2>3. CASE attempt' = NoOperation /\ stage' = "idle"
    BY <1>1, <2>1, <2>3 DEF Attempting
  <2> QED BY <2>1, <2>2, <2>3
<1>5. CASE /\ plan' = plan
           /\ \E o \in Operations : Replay(o) \/ Reconcile(o)
  <2>1. PICK o \in Operations : Replay(o) \/ Reconcile(o)
    BY <1>5
  <2>2. Planned(o)
    BY <2>1 DEF Replay, Reconcile, Unresolved, IInv, TypeOK
  <2>3. Planned(o)'
    BY <1>5, <2>2 DEF Planned
  <2>4. /\ published' = published /\ stage = "idle"
        /\ \/ attempt' = attempt /\ stage' = stage
           \/ attempt' = o /\ stage' = "inspect"
    BY <2>1 DEF Replay, Reconcile, Begin
  <2> QED BY <1>1, <2>3, <2>4 DEF Attempting
<1>6. CASE /\ plan' = plan /\ attempt # NoOperation
           /\ \/ Inspect(InPlan) \/ Checkout(InPlan) \/ Advance(InPlan)
              \/ Verify(InPlan) \/ Record(InPlan)
  <2> DEFINE p == plan[attempt]
  <2>1. attempt \in Operations /\ Planned(attempt) /\ p.asg \in Assignments
    BY <1>1, <1>6, CandidateFacts DEF IInv
  <2>2. InPlan = p
    BY DEF InPlan
  <2> HIDE DEF p
  <2>3. CASE attempt' = NoOperation
    <3>1. stage' = "idle" /\ published' = published
      BY <1>6, <2>1, <2>3 DEF Inspect, Checkout, Advance, Verify, Record, Goto
    <3> QED BY <1>1, <2>3, <3>1 DEF Attempting
  <2>4. CASE attempt' # NoOperation
    <3>1. attempt' = attempt /\ stage' \in {"checkout", "advance", "verify", "record", "fail"}
      BY <1>6, <2>4 DEF Inspect, Checkout, Advance, Verify, Record, Goto
    <3>2. /\ InPlan' = p /\ Candidate(InPlan)' = Candidate(p) /\ Planned(attempt)'
      BY <1>6, <2>1, <3>1 DEF InPlan, Candidate, Contains, Result, Merged, Rebased,
         Planned, p
    <3>3. published' = published \/ published' = published \cup {p.asg}
      BY <1>6, <2>2 DEF Inspect, Checkout, Advance, Verify, Record
    <3>4. stage' = "verify" => p.asg \in published'
      BY <1>6, <2>2, <2>4 DEF Inspect, Checkout, Advance, Verify, Record, Goto
    <3>5. stage' = "record" => /\ stage = "verify" /\ published' = published
                               /\ tip = Candidate(p)
      BY <1>6, <2>2, <2>4 DEF Inspect, Checkout, Advance, Verify, Record, Goto
    <3>6. stage' = "record" => p.asg \in published' /\ Candidate(p) \in reached'
      BY <1>1, <2>2, <3>5 DEF IInv, Attempting
    <3>7. Attempting'
      BY <3>2, <3>4, <3>6 DEF Attempting
    <3> QED BY <1>1, <2>1, <3>1, <3>2, <3>3, <3>7
  <2> QED BY <2>3, <2>4
<1>7. CASE plan' = plan /\ WriteFails
  <2>1. attempt' = attempt /\ stage' = "fail" /\ published' = published /\ stage # "idle"
    BY <1>7 DEF WriteFails, Goto
  <2>2. Planned(attempt)'
    BY <1>1, <1>7, <2>1 DEF Planned
  <2> QED BY <1>1, <2>1, <2>2 DEF Attempting
<1> QED
  BY <1>2, <1>3, <1>4, <1>5, <1>6, <1>7 DEF Next, Start, Proceed

(* What the store says of operations and results after a step.              *)
LEMMA StoreKept ==
    ASSUME IInv, [Next]_vars
    PROVE  /\ opState' \in [Operations -> {"none", "desired", "unknown", "observed"}]
           /\ \A o \in Operations : Planned(o)' <=> opState'[o] # "none"
           /\ DOMAIN recorded' = Assignments
           /\ \A a \in Assignments : Cardinality(recorded'[a]) <= 1
           /\ RecordedReached'
           /\ Found'
<1> DEFINE Values == {"none", "desired", "unknown", "observed"}
<1>1. /\ opState \in [Operations -> Values]
      /\ \A o \in Operations : Planned(o) <=> opState[o] # "none"
      /\ DOMAIN recorded = Assignments
      /\ \A a \in Assignments : Cardinality(recorded[a]) <= 1
      /\ plan \in [Operations -> PlanSet]
      /\ stage # "idle" => attempt \in Operations /\ Planned(attempt)
      /\ RecordedReached /\ Found
  BY DEF IInv, TypeOK, Durable
<1>2. reached \subseteq reached' /\ published \subseteq published'
  BY PlansKept, AttemptKept
<1>3. CASE plan' = plan /\ opState' = opState /\ recorded' = recorded
  <2>1. \A o \in Operations : Planned(o)' <=> Planned(o)
    BY <1>3 DEF Planned
  <2>2. Found'
    BY <1>1, <1>2, <1>3 DEF Found
  <2>3. RecordedReached'
    BY <1>1, <1>2, <1>3 DEF RecordedReached, Authors
  <2> QED BY <1>1, <1>3, <2>1, <2>2, <2>3
<1>4. ASSUME NEW o \in Operations, NEW a \in Assignments, NEW strategy \in Strategies,
             ~Planned(o),
             plan' = [plan EXCEPT ![o] = Prepared(a, strategy)],
             opState' = [opState EXCEPT ![o] = "desired"],
             UNCHANGED <<reached, recorded, published>>
      PROVE  /\ opState' \in [Operations -> Values]
             /\ \A q \in Operations : Planned(q)' <=> opState'[q] # "none"
             /\ RecordedReached' /\ Found'
  <2>1. /\ plan'[o].asg = a /\ plan'[o] # NoPlan
        /\ \A q \in Operations \ {o} : plan'[q] = plan[q] /\ opState'[q] = opState[q]
        /\ opState'[o] = "desired"
    BY <1>1, <1>4 DEF Prepared, NoPlan
  <2>2. \A q \in Operations : Planned(q)' <=> opState'[q] # "none"
    BY <1>1, <2>1 DEF Planned
  <2>3. Found'
    BY <1>1, <1>4, <2>1 DEF Found
  <2>4. RecordedReached'
    BY <1>1, <1>4 DEF RecordedReached, Authors
  <2> QED BY <1>1, <1>4, <2>2, <2>3, <2>4
<1>5. ASSUME NEW o \in Operations, Planned(o), NEW s \in {"unknown", "observed"},
             plan' = plan,
             opState' = [opState EXCEPT ![o] = s],
             s = "observed" => plan[o].asg \in published'
      PROVE  /\ opState' \in [Operations -> Values]
             /\ \A q \in Operations : Planned(q)' <=> opState'[q] # "none"
             /\ \A q \in Operations : opState'[q] = "observed"
                                        => plan'[q].asg \in published'
  <2>1. /\ \A q \in Operations \ {o} : opState'[q] = opState[q]
        /\ opState'[o] = s
    BY <1>1, <1>5
  <2>2. \A q \in Operations : Planned(q)' <=> opState'[q] # "none"
    BY <1>1, <1>5, <2>1 DEF Planned
  <2>3. \A q \in Operations : opState'[q] = "observed" => plan'[q].asg \in published'
    BY <1>1, <1>2, <1>5, <2>1 DEF Found
  <2> QED BY <1>1, <1>5, <2>2, <2>3
<1>6. ASSUME NEW o \in Operations, Reconcile(o), opState' # opState
      PROVE  /\ Planned(o) /\ plan' = plan /\ recorded' = recorded
             /\ opState' = [opState EXCEPT ![o] = "observed"]
             /\ plan[o].asg \in published'
  <2>1. /\ Planned(o) /\ plan' = plan /\ recorded' = recorded
        /\ opState' = [opState EXCEPT ![o] = "observed"]
        /\ recorded[plan[o].asg] # {}
    BY <1>1, <1>6 DEF Reconcile, Unresolved
  <2>2. plan[o].asg \in Assignments
    BY <2>1, CandidateFacts DEF IInv
  <2> QED BY <1>1, <1>2, <2>1, <2>2 DEF Found
<1>7. ASSUME attempt # NoOperation, Record(InPlan), opState' # opState \/ recorded' # recorded
      PROVE  LET p == plan[attempt] IN
             /\ attempt \in Operations /\ Planned(attempt) /\ plan' = plan
             /\ p.asg \in Assignments /\ p.asg \in published'
             /\ opState' = [opState EXCEPT ![attempt] = "observed"]
             /\ recorded' = [recorded EXCEPT ![p.asg] = {Candidate(p)}]
             /\ Candidate(p) \in reached' /\ p.asg \in Authors(Candidate(p))
  <2>1. attempt \in Operations /\ Planned(attempt) /\ stage = "record"
    BY <1>1, <1>7 DEF Record
  <2>2. /\ plan' = plan
        /\ opState' = [opState EXCEPT ![attempt] = "observed"]
        /\ recorded' = [recorded EXCEPT ![plan[attempt].asg] = {Candidate(plan[attempt])}]
    BY <1>7 DEF Record, InPlan
  <2>3. plan[attempt].asg \in published' /\ Candidate(plan[attempt]) \in reached'
    BY <1>2, <2>1 DEF IInv, Attempting, InPlan
  <2> QED BY <2>1, <2>2, <2>3, CandidateFacts DEF IInv
<1>8. ASSUME NEW a \in Assignments, NEW c, c \in reached', a \in Authors(c),
             a \in published',
             recorded' = [recorded EXCEPT ![a] = {c}]
      PROVE  /\ DOMAIN recorded' = Assignments
             /\ \A b \in Assignments : Cardinality(recorded'[b]) <= 1
             /\ \A b \in Assignments : recorded'[b] # {} => b \in published'
             /\ RecordedReached'
  <2>1. /\ DOMAIN recorded' = Assignments
        /\ recorded'[a] = {c}
        /\ \A b \in Assignments \ {a} : recorded'[b] = recorded[b]
    BY <1>1, <1>8
  <2>2. Cardinality({c}) <= 1
    BY FS_Singleton
  <2>3. \A b \in Assignments : Cardinality(recorded'[b]) <= 1
    BY <1>1, <2>1, <2>2
  <2>4. \A b \in Assignments : recorded'[b] # {} => b \in published'
    BY <1>1, <1>2, <1>8, <2>1 DEF Found
  <2>5. RecordedReached'
    BY <1>1, <1>2, <1>8, <2>1 DEF RecordedReached, Authors
  <2> QED BY <2>1, <2>3, <2>4, <2>5
<1>9. ASSUME recorded' = recorded
      PROVE  /\ DOMAIN recorded' = Assignments
             /\ \A b \in Assignments : Cardinality(recorded'[b]) <= 1
             /\ \A b \in Assignments : recorded'[b] # {} => b \in published'
             /\ RecordedReached'
  BY <1>1, <1>2, <1>9 DEF Found, RecordedReached, Authors
<1>10. CASE \E o \in Operations : Reconcile(o) /\ opState' # opState
  BY <1>5, <1>6, <1>9, <1>10 DEF Found
<1>11. CASE /\ attempt # NoOperation /\ Record(InPlan)
            /\ opState' # opState \/ recorded' # recorded
  <2>1. /\ opState' \in [Operations -> Values]
        /\ \A q \in Operations : Planned(q)' <=> opState'[q] # "none"
        /\ \A q \in Operations : opState'[q] = "observed" => plan'[q].asg \in published'
    BY <1>5, <1>7, <1>11
  <2>2. /\ DOMAIN recorded' = Assignments
        /\ \A b \in Assignments : Cardinality(recorded'[b]) <= 1
        /\ \A b \in Assignments : recorded'[b] # {} => b \in published'
        /\ RecordedReached'
    BY <1>7, <1>8, <1>11
  <2> QED BY <2>1, <2>2 DEF Found
<1>12. CASE attempt # NoOperation /\ Fail
  <2>1. /\ attempt \in Operations /\ Planned(attempt) /\ plan' = plan
        /\ opState' = [opState EXCEPT ![attempt] = "unknown"]
        /\ recorded' = recorded
    BY <1>1, <1>12 DEF Fail
  <2> QED BY <1>5, <1>9, <2>1 DEF Found
<1>13. CASE \E o \in Operations, a \in Assignments, strategy \in Strategies :
                /\ ~Planned(o)
                /\ plan' = [plan EXCEPT ![o] = Prepared(a, strategy)]
                /\ opState' = [opState EXCEPT ![o] = "desired"]
                /\ UNCHANGED <<reached, recorded, published>>
  BY <1>1, <1>4, <1>13
<1>14. \/ plan' = plan /\ opState' = opState /\ recorded' = recorded
       \/ \E o \in Operations : Reconcile(o) /\ opState' # opState
       \/ /\ attempt # NoOperation /\ Record(InPlan)
          /\ opState' # opState \/ recorded' # recorded
       \/ attempt # NoOperation /\ Fail
       \/ plan' # plan
  <2>1. CASE Operate \/ Crash \/ WriteFails \/ UNCHANGED vars
    BY <2>1 DEF Operate, OperatorCommit, OperatorCommitStaged, OperatorEdit,
       OperatorReset, TouchWorktree, OperatorStep, Crash, WriteFails, vars, storeVars
  <2>2. ASSUME NEW o \in Operations, NEW a \in Assignments, NEW strategy \in Strategies,
               Request(o, a, strategy)
        PROVE  plan' # plan
    <3>1. plan'[o] = Prepared(a, strategy) /\ plan[o] = NoPlan
      BY <1>1, <2>2 DEF Request, Planned
    <3> QED BY <3>1 DEF Prepared, NoPlan
  <2>3. ASSUME NEW o \in Operations, Replay(o)
        PROVE  plan' = plan /\ opState' = opState /\ recorded' = recorded
    BY <2>3 DEF Replay, storeVars
  <2>4. ASSUME NEW o \in Operations, Reconcile(o)
        PROVE  plan' = plan /\ recorded' = recorded
    BY <2>4 DEF Reconcile
  <2>5. CASE /\ attempt # NoOperation
             /\ Inspect(InPlan) \/ Checkout(InPlan) \/ Advance(InPlan)
                \/ Verify(InPlan)
    BY <2>5 DEF Inspect, Checkout, Advance, Verify, storeVars
  <2>6. ASSUME Record(InPlan)
        PROVE  plan' = plan
    BY <2>6 DEF Record
  <2> QED BY <2>1, <2>2, <2>3, <2>4, <2>5, <2>6 DEF Next, Start, Proceed
<1> QED BY <1>3, <1>10, <1>11, <1>12, <1>13, <1>14, PlansKept

(* The invariant: at first, and after every step.                           *)
LEMMA Initially == Init => IInv
<1> SUFFICES ASSUME Init PROVE IInv
  OBVIOUS
<1>1. Durable
  BY DEF Init, Durable, PlanSet
<1>2. \A o \in Operations : plan[o] = NoPlan
  BY DEF Init
<1>3. FewPlans
  <2>1. \A a \in Assignments : {o \in Operations : plan[o].asg = a} = {}
    BY <1>2 DEF NoPlan
  <2> QED BY <2>1, FS_EmptySet DEF FewPlans
<1>4. TypeOK
  <2>1. Cardinality({}) <= 1
    BY FS_EmptySet
  <2> QED BY <1>2, <2>1 DEF Init, TypeOK, Planned, NoPlan, Strategies
<1>5. Attempting /\ Sourced /\ Found /\ RecordedReached
  BY DEF Init, Attempting, Sourced, Found, RecordedReached
<1> QED BY <1>1, <1>3, <1>4, <1>5 DEF IInv

LEMMA Consecution == IInv /\ [Next]_vars => IInv'
<1> SUFFICES ASSUME IInv, [Next]_vars PROVE IInv'
  OBVIOUS
<1>1. /\ soiled' \in {"no", "foreign", "torn"}
      /\ edits' \in 0..MaxEdits /\ faults' \in 0..MaxFaults
      /\ altered' \subseteq Assignments
  <2>1. /\ soiled \in {"no", "foreign", "torn"}
        /\ edits \in 0..MaxEdits /\ faults \in 0..MaxFaults
        /\ altered \subseteq Assignments
    BY DEF IInv, TypeOK
  <2>2. CASE Operate /\ OperatorStep
    <3>1. /\ edits < MaxEdits /\ edits' = edits + 1 /\ faults' = faults
          /\ altered' = altered
      BY <2>2 DEF OperatorStep
    <3>2. soiled' \in {"no", "foreign", "torn"}
      BY <2>1, <2>2 DEF Operate, OperatorCommit, OperatorCommitStaged, OperatorEdit,
         OperatorReset, TouchWorktree
    <3> QED BY <2>1, <3>1, <3>2
  <2>5. ASSUME NEW a \in Assignments, TouchWorktree(a)
        PROVE  /\ UNCHANGED <<soiled, edits, faults>>
               /\ altered' \subseteq Assignments
    BY <2>1, <2>5 DEF TouchWorktree
  <2>6. CASE Operate
    <3>1. OperatorStep \/ \E a \in Assignments : TouchWorktree(a)
      BY <2>6 DEF Operate, OperatorCommit, OperatorCommitStaged, OperatorEdit,
         OperatorReset
    <3> QED BY <2>1, <2>2, <2>5, <2>6, <3>1
  <2>3. CASE Crash \/ WriteFails
    BY <2>1, <2>3 DEF Crash, WriteFails, Tear
  <2>4. CASE Start \/ Proceed \/ UNCHANGED vars
    <3>1. UNCHANGED <<soiled, edits, altered, faults>>
      BY <2>4 DEF Start, Request, Replay, Reconcile, Proceed, Inspect, Checkout,
         Advance, Verify, Record, Fail, vars, gitVars
    <3> QED BY <2>1, <3>1
  <2> QED BY <2>3, <2>4, <2>6 DEF Next
<1>2. TypeOK'
  BY <1>1, CommitsKnown, PlansTyped, AttemptKept, StoreKept DEF TypeOK
<1> QED
  BY <1>2, PlansTyped, SourcedKept, AttemptKept, StoreKept DEF IInv

(* What an attempt, a plan and a record know of the branch is true whatever *)
(* happens between the attempt's steps (GitWorkspace::integrate).           *)
THEOREM Inductive == Spec => []IInv
BY Initially, Consecution, PTL DEF Spec

-----------------------------------------------------------------------------
(* What it promises.                                                        *)

(* However often an operation is attempted, interrupted and retried while   *)
(* the branch moves, one plan makes at most one merge or rebase of its      *)
(* assignment, and what is recorded had been published                      *)
(* (GitWorkspace::integrate, Database::record_integration).                 *)
LEMMA MadeOnce == IInv => OncePerOperation
<1> SUFFICES ASSUME IInv, NEW a \in Assignments
             PROVE  LET S == {x \in UNION reached : x.by = a /\ x.how \in Strategies}
                        T == {o \in Operations : plan[o].asg = a}
                    IN  Cardinality(S) <= Cardinality(T)
  BY DEF OncePerOperation
<1> DEFINE S == {x \in UNION reached : x.by = a /\ x.how \in Strategies}
           T == {o \in Operations : plan[o].asg = a}
           PlanOf(x) == [asg |-> x.by, strategy |-> x.how, expected |-> x.on]
           source == [x \in S |-> CHOOSE o \in Operations : plan[o] = PlanOf(x)]
<1>1. \A x \in S : /\ x.by = a
                   /\ x = Change(x.by, x.how, x.on)
                   /\ \E o \in Operations : plan[o] = PlanOf(x)
  BY DEF IInv, Sourced
<1>2. \A x \in S : source[x] \in Operations /\ plan[source[x]] = PlanOf(x)
  BY <1>1
<1>6. DOMAIN source = S /\ source = [x \in S |-> source[x]]
  OBVIOUS
<1> HIDE DEF source
<1>3. ASSUME NEW x \in S PROVE source[x] \in T
  <2>1. x.by = a /\ source[x] \in Operations /\ plan[source[x]] = PlanOf(x)
    BY <1>1, <1>2
  <2>2. plan[source[x]].asg = a
    BY <2>1
  <2> QED BY <2>1, <2>2
<1>4. ASSUME NEW x \in S, NEW y \in S, source[x] = source[y]
      PROVE  x = y
  <2>1. PlanOf(x) = PlanOf(y)
    BY <1>2, <1>4
  <2>2. x.by = y.by /\ x.how = y.how /\ x.on = y.on
    BY <2>1
  <2> QED BY <1>1, <2>2
<1>5. IsFiniteSet(T)
  BY DEF IInv, FewPlans
<1> HIDE DEF S, T
<1>7. source \in Injection(S, T)
  <2>1. source \in [S -> T]
    BY <1>3, <1>6
  <2> QED BY <1>4, <2>1 DEF Injection, IsInjective
<1>8. Cardinality(S) <= Cardinality(T)
  BY <1>5, <1>7, FS_Injection
<1> QED BY <1>8 DEF S, T

(* What is recorded as integrated was published, once per operation.        *)
THEOREM ResultsPublishedOnce == Spec => []PublishedOnce
<1>1. IInv => PublishedOnce
  BY MadeOnce DEF IInv, PublishedOnce
<1> QED BY <1>1, Inductive, PTL

(* The branch loses no commit and the target's files none of the operator's *)
(* edits by a step of coterie: the update is a compare-and-set to a commit  *)
(* that adds to the one expected (GitWorkspace::integrate).                 *)
THEOREM OperatorsWorkKept == Spec => OperatorKept
<1> DEFINE Kept == edits' = edits =>
                      /\ tip \subseteq tip'
                      /\ soiled # "no" => soiled' = soiled
<1>1. ASSUME IInv, [Next]_vars PROVE Kept
  <2> SUFFICES ASSUME edits' = edits
               PROVE  (tip \subseteq tip') /\ (soiled # "no" => soiled' = soiled)
    OBVIOUS
  <2>1. edits \in Nat
    BY <1>1 DEF IInv, TypeOK
  <2>2. CASE Operate
    <3>1. ~OperatorStep
      BY <2>1 DEF OperatorStep
    <3>2. tip' = tip /\ soiled' = soiled
      BY <2>2, <3>1 DEF Operate, OperatorCommit, OperatorCommitStaged, OperatorEdit,
         OperatorReset, TouchWorktree
    <3> QED BY <3>2
  <2>3. CASE Proceed /\ Advance(InPlan)
    <3>1. attempt \in Operations /\ Planned(attempt) /\ stage = "advance"
      BY <1>1, <2>3 DEF IInv, TypeOK, Proceed, Advance
    <3>2. InPlan.expected \subseteq Candidate(InPlan)
      BY <1>1, <3>1, CandidateFacts DEF IInv, InPlan
    <3>3. /\ soiled' = soiled
          /\ tip' = tip \/ (tip = InPlan.expected /\ tip' = Candidate(InPlan))
      BY <2>3 DEF Advance, MoveTip
    <3> QED BY <3>2, <3>3
  <2>4. CASE Crash \/ WriteFails
    BY <2>4 DEF Crash, WriteFails, Tear
  <2>5. CASE \/ Start \/ UNCHANGED vars
             \/ Inspect(InPlan) \/ Checkout(InPlan) \/ Verify(InPlan)
             \/ Record(InPlan) \/ Fail
    BY <2>5 DEF Start, Request, Replay, Reconcile, Inspect, Checkout, Verify, Record,
       Fail, vars, gitVars
  <2> QED BY <1>1, <2>2, <2>3, <2>4, <2>5 DEF Next, Proceed
<1>2. IInv /\ [Next]_vars => [Kept]_vars
  BY <1>1
<1> QED BY <1>2, Inductive, PTL DEF Spec, OperatorKept

-----------------------------------------------------------------------------
(* What the ledger sees of it.                                              *)

\* The ledger's variables that no integration changes.
Shown ==
    /\ Ledger!taskVars' = Ledger!taskVars
    /\ Ledger!ownerVars' = Ledger!ownerVars
    /\ Ledger!recoveryVars' = Ledger!recoveryVars
    /\ Ledger!workerVars' = Ledger!workerVars
    /\ Ledger!sourceVars' = Ledger!sourceVars

\* The others, as Integration derives them.
Targets == [a \in Assignments |-> IF recorded[a] = {} THEN -1 ELSE 0]
Publications == [a \in Assignments |-> IF a \in published THEN 0 ELSE -1]
Named == [o \in Operations |-> plan[o].asg]

LEMMA ShownFixed == Shown
BY DEF Shown, Ledger!taskVars, Ledger!ownerVars, Ledger!recoveryVars,
   Ledger!workerVars, Ledger!sourceVars

\* Steps the ledger does not see.
LEMMA Unseen ==
    ASSUME UNCHANGED <<Targets, Publications, Named, opState>>
    PROVE  UNCHANGED Ledger!vars
BY ShownFixed DEF Shown, Ledger!vars, Ledger!integrationVars, Targets, Publications,
   Named

\* Request: the ledger's RequestIntegration.
LEMMA RequestSeen ==
    ASSUME NEW o \in Operations, NEW a \in Assignments,
           opState[o] = "none", Targets[a] = -1,
           Named' = [Named EXCEPT ![o] = a],
           opState' = [opState EXCEPT ![o] = "desired"],
           UNCHANGED <<Targets, Publications>>
    PROVE  Ledger!IntegrationStep(o)
<1>1. Ledger!TipIsRecorded(a)
  BY DEF Ledger!TipIsRecorded, Ledger!Worktree, Ledger!NoCommit
<1>2. Ledger!RequestIntegration(o, a)
  BY ShownFixed, <1>1 DEF Ledger!RequestIntegration, Shown, Ledger!NoCommit, Targets,
     Publications, Named
<1> QED BY <1>2 DEF Ledger!IntegrationStep

\* Finding the candidate on the branch: PublishResult.
LEMMA PublicationSeen ==
    ASSUME NEW o \in Operations, Named[o] \in Assignments,
           opState[o] \in {"desired", "unknown"},
           Publications' = [Publications EXCEPT ![Named[o]] = 0],
           UNCHANGED <<Targets, Named, opState>>
    PROVE  Ledger!IntegrationStep(o)
<1>1. Ledger!TipIsRecorded(Named[o])
  BY DEF Ledger!TipIsRecorded, Ledger!Worktree, Ledger!NoCommit
<1>2. Ledger!PublishResult(o)
  BY ShownFixed, <1>1 DEF Ledger!PublishResult, Shown, Targets, Publications, Named
<1> QED BY <1>2 DEF Ledger!IntegrationStep

\* Record: RecordIntegration.
LEMMA RecordSeen ==
    ASSUME NEW o \in Operations, Named[o] \in Assignments,
           opState[o] # "none", Publications[Named[o]] = 0,
           Targets' = [Targets EXCEPT ![Named[o]] = 0],
           opState' = [opState EXCEPT ![o] = "observed"],
           UNCHANGED <<Publications, Named>>
    PROVE  Ledger!IntegrationStep(o)
<1>1. Ledger!TipIsRecorded(Named[o])
  BY DEF Ledger!TipIsRecorded, Ledger!Worktree, Ledger!NoCommit
<1>2. Targets[Named[o]] \in {-1, 0}
  BY DEF Targets
<1>3. Ledger!RecordIntegration(o)
  BY ShownFixed, <1>1, <1>2 DEF Ledger!RecordIntegration, Shown, Ledger!NoCommit,
     Targets, Publications, Named
<1> QED BY <1>3 DEF Ledger!IntegrationStep

\* Fail: FailIntegration.
LEMMA FailureSeen ==
    ASSUME NEW o \in Operations,
           opState[o] # "none",
           opState' = [opState EXCEPT ![o] = "unknown"],
           UNCHANGED <<Targets, Publications, Named>>
    PROVE  Ledger!IntegrationStep(o)
BY ShownFixed DEF Ledger!FailIntegration, Shown, Targets, Publications, Named,
   Ledger!IntegrationStep

\* Reconcile, when the target commit is recorded: AdoptIntegration.
LEMMA AdoptionSeen ==
    ASSUME NEW o \in Operations,
           opState[o] \in {"desired", "unknown"}, Targets[Named[o]] # -1,
           opState' = [opState EXCEPT ![o] = "observed"],
           UNCHANGED <<Targets, Publications, Named>>
    PROVE  Ledger!IntegrationStep(o)
BY ShownFixed DEF Ledger!AdoptIntegration, Shown, Ledger!NoCommit, Targets,
   Publications, Named, Ledger!IntegrationStep

\* What the ledger is shown of this module's variables.
LEMMA ShownBy ==
    /\ plan' = plan => Named' = Named
    /\ recorded' = recorded => Targets' = Targets
    /\ published' = published => Publications' = Publications
BY DEF Named, Targets, Publications

(* Attempts, replays, crashes and reconciliation amount to what TaskLedger  *)
(* lets an integrate operation do to submitted work: the ledger's freedom   *)
(* to publish, fail and adopt is all that this module's attempts use        *)
(* (integrate_workspace, reconcile_integrations).                           *)
THEOREM AttemptsAreLedgerSteps == Spec => LedgerSteps
<1> DEFINE A == \E o \in Operations : Ledger!IntegrationStep(o)
<1>1. ASSUME IInv, [Next]_vars PROVE A \/ UNCHANGED Ledger!vars
  <2>1. /\ stage # "idle" => attempt \in Operations /\ Planned(attempt)
        /\ \A o \in Operations : Planned(o) <=> opState[o] # "none"
        /\ opState \in [Operations -> {"none", "desired", "unknown", "observed"}]
        /\ plan \in [Operations -> PlanSet] /\ DOMAIN recorded = Assignments
        /\ Attempting /\ Found
    BY <1>1 DEF IInv, TypeOK, Durable
  <2>2. \A o \in Operations : Named[o] = plan[o].asg
                              /\ (Planned(o) => Named[o] \in Assignments)
    BY <1>1, CandidateFacts DEF IInv, Named
  <2>3. CASE UNCHANGED <<plan, recorded, published, opState>>
    BY <2>3, ShownBy, Unseen
  <2>4. ASSUME NEW o \in Operations, NEW a \in Assignments, NEW strategy \in Strategies,
               Request(o, a, strategy)
        PROVE  A
    <3>1. /\ plan' = [plan EXCEPT ![o] = Prepared(a, strategy)]
          /\ opState' = [opState EXCEPT ![o] = "desired"]
          /\ opState[o] = "none" /\ recorded[a] = {}
          /\ UNCHANGED <<recorded, published>>
      BY <2>1, <2>4 DEF Request
    <3>2. \A q \in Operations :
              plan'[q].asg = IF q = o THEN a ELSE plan[q].asg
      BY <2>1, <3>1 DEF Prepared
    <3>3. Named' = [Named EXCEPT ![o] = a]
      BY <3>2 DEF Named
    <3>4. Targets[a] = -1
      BY <3>1 DEF Targets
    <3> QED BY <3>1, <3>3, <3>4, ShownBy, RequestSeen
  <2>5. ASSUME NEW o \in Operations, Reconcile(o), opState' # opState
        PROVE  A
    <3>1. /\ opState[o] \in {"desired", "unknown"} /\ recorded[plan[o].asg] # {}
          /\ opState' = [opState EXCEPT ![o] = "observed"]
          /\ UNCHANGED <<plan, recorded, published>>
      BY <2>5 DEF Reconcile, Unresolved
    <3>2. Targets[Named[o]] # -1
      BY <2>1, <2>2, <3>1 DEF Targets
    <3> QED BY <3>1, <3>2, ShownBy, AdoptionSeen
  <2>6. ASSUME NEW o \in Operations, o = attempt, Planned(o),
               published' = published \cup {plan[o].asg},
               UNCHANGED <<plan, recorded, opState>>
        PROVE  A \/ UNCHANGED Ledger!vars
    <3>1. CASE plan[o].asg \in published
      <4>1. published' = published
        BY <2>6, <3>1
      <4> QED BY <2>6, <4>1, ShownBy, Unseen
    <3>2. CASE plan[o].asg \notin published
      <4>1. opState[o] \in {"desired", "unknown"}
        BY <2>1, <2>6, <3>2 DEF Found
      <4>2. Publications' = [Publications EXCEPT ![Named[o]] = 0]
        BY <2>2, <2>6 DEF Publications
      <4> QED BY <2>2, <2>6, <4>1, <4>2, ShownBy, PublicationSeen
    <3> QED BY <3>1, <3>2
  <2>7. ASSUME Record(InPlan), attempt # NoOperation
        PROVE  A \/ UNCHANGED Ledger!vars
    <3> DEFINE a == plan[attempt].asg
    <3>1. /\ attempt \in Operations /\ Planned(attempt) /\ a \in published
          /\ UNCHANGED <<plan, published>>
      BY <2>1, <2>7 DEF Record, Attempting, InPlan
    <3>2. CASE UNCHANGED <<recorded, opState>>
      BY <2>3, <3>1, <3>2
    <3>3. CASE /\ recorded' = [recorded EXCEPT ![a] = {Candidate(InPlan)}]
               /\ opState' = [opState EXCEPT ![attempt] = "observed"]
      <4>1. Targets' = [Targets EXCEPT ![Named[attempt]] = 0]
        BY <2>1, <2>2, <3>1, <3>3 DEF Targets
      <4>2. Publications[Named[attempt]] = 0
        BY <2>2, <3>1 DEF Publications
      <4> QED BY <2>1, <2>2, <3>1, <3>3, <4>1, <4>2, ShownBy, RecordSeen
    <3> QED BY <2>7, <3>2, <3>3 DEF Record, InPlan
  <2>8. ASSUME Fail, attempt # NoOperation
        PROVE  A
    <3>1. /\ attempt \in Operations /\ opState[attempt] # "none"
          /\ opState' = [opState EXCEPT ![attempt] = "unknown"]
          /\ UNCHANGED <<plan, recorded, published>>
      BY <2>1, <2>8 DEF Fail
    <3> QED BY <3>1, ShownBy, FailureSeen
  <2>9. ASSUME Inspect(InPlan) \/ Advance(InPlan), attempt # NoOperation
        PROVE  A \/ UNCHANGED Ledger!vars
    <3>1. /\ attempt \in Operations /\ Planned(attempt)
          /\ UNCHANGED <<plan, recorded, opState>>
      BY <2>1, <2>9 DEF Inspect, Advance, storeVars
    <3>2. \/ published' = published
          \/ published' = published \cup {plan[attempt].asg}
      BY <2>9 DEF Inspect, Advance, InPlan
    <3> QED BY <2>3, <2>6, <3>1, <3>2
  <2>10. CASE \/ Operate \/ Crash \/ WriteFails \/ UNCHANGED vars
              \/ Checkout(InPlan) \/ Verify(InPlan)
              \/ \E o \in Operations : Replay(o)
    <3>1. UNCHANGED <<plan, recorded, published, opState>>
      BY <2>10 DEF Operate, OperatorCommit, OperatorCommitStaged, OperatorEdit,
         OperatorReset, TouchWorktree, OperatorStep, Crash, WriteFails, vars, Checkout, Verify,
         Replay, storeVars
    <3> QED BY <2>3, <3>1
  <2>11. ASSUME NEW o \in Operations, Reconcile(o), opState' = opState
         PROVE  UNCHANGED Ledger!vars
    <3>1. UNCHANGED <<plan, recorded, published, opState>>
      BY <2>11 DEF Reconcile
    <3> QED BY <3>1, ShownBy, Unseen
  <2> QED
    BY <1>1, <2>4, <2>5, <2>7, <2>8, <2>9, <2>10, <2>11 DEF Next, Start, Proceed
<1>2. IInv /\ [Next]_vars => [A]_(Ledger!vars)
  BY <1>1
<1> QED BY <1>2, Inductive, PTL DEF Spec, LedgerSteps
-----------------------------------------------------------------------------
(* The creation of worktrees, whatever the numbers of crashes, refusals and *)
(* changes made by others.                                                  *)

USE WorktreesAssumption

LEMMA WorktreesInitially == WorktreesInit => WorktreesInv
<1> SUFFICES ASSUME WorktreesInit PROVE WorktreesInv
  OBVIOUS
<1>1. crashes \in 0..MaxCrashes /\ refusals \in 0..MaxRefusals
      /\ meddling \in 0..MaxMeddling
  BY DEF WorktreesInit
<1>2. /\ row \in States /\ git \in GitState /\ pc \in Steps
      /\ agent \in {"none", "running", "ended"} /\ cut \in BOOLEAN
            /\ stopped \in BOOLEAN
      /\ Undisturbed
  BY DEF WorktreesInit, GitState, States, Steps, Undisturbed, Nothing,
         PathOwned
<1> QED BY <1>1, <1>2 DEF WorktreesInv, WorktreesTypeOK

(* One step per action: how far the creation has come stays known.          *)
LEMMA WorktreesConsecution == WorktreesInv /\ [WorktreesNext]_worktree => WorktreesInv'
<1> SUFFICES ASSUME WorktreesInv, [WorktreesNext]_worktree PROVE WorktreesInv'
  OBVIOUS
<1> USE DEF WorktreesInv, WorktreesTypeOK, Undisturbed, Nothing, Complete,
        Observed, PathOwned, RecordState, GitState, States, Steps, counts
<1>1. CASE Pass
  BY <1>1 DEF Pass, Observation, Orphan, Creatable
<1>2. CASE ShutdownPass
  BY <1>2 DEF ShutdownPass, Observation, Orphan
<1>3. CASE Reopen
  BY <1>3 DEF Reopen, Observation, Orphan
<1>18. CASE MakeParents
  BY <1>18 DEF MakeParents, BackendFails
<1>4. CASE MakeReference
  BY <1>4 DEF MakeReference, OwnReference, BackendFails
<1>5. CASE CheckFree
  BY <1>5 DEF CheckFree, BackendFails
<1>6. CASE AddRecord
  BY <1>6 DEF AddRecord, BackendFails
<1>7. CASE AddDirectory
  <2>1. CASE BackendFails
    <3>1. /\ cut' = TRUE /\ pc' = "idle" /\ git' = git /\ row' = "unknown"
          /\ UNCHANGED <<agent, counts>>
      BY <1>7, <2>1 DEF AddDirectory, BackendFails
    <3> QED BY <3>1
  <2>2. CASE ~BackendFails
    BY <1>7, <2>2, SMTT(60) DEF AddDirectory
  <2> QED BY <2>1, <2>2
<1>8. CASE AddHead
  <2>1. /\ pc = "head" /\ pc' = "checkout" /\ git' \in GitState
        /\ UNCHANGED <<row, agent, cut, counts>>
    BY <1>8 DEF AddHead
  <2>2. /\ git'.head = "own"
        /\ git'.admin = IF git.admin = "none" THEN "none" ELSE "whole"
        /\ \A x \in DOMAIN git \ {"head", "admin"} : git'[x] = git[x]
    BY <1>8 DEF AddHead
  <2> QED BY <2>1, <2>2
<1>9. CASE CheckoutFiles
  BY <1>9 DEF CheckoutFiles
<1>10. CASE RecordCreated
  BY <1>10 DEF RecordCreated, Observation, Orphan
<1>11. CASE Launch
  BY <1>11 DEF Launch
<1>12. CASE Fault
  <2>1. /\ crashes' \in 0..MaxCrashes
        /\ refusals' \in 0..MaxRefusals
        /\ meddling' \in 0..MaxMeddling
    BY <1>12 DEF Fault
  <2>2. /\ row' \in States /\ git' \in GitState /\ pc' \in Steps
        /\ agent' \in {"none", "running", "ended"} /\ cut' \in BOOLEAN
              /\ stopped' \in BOOLEAN
    BY <1>12, ZenonT(60) DEF Fault, BackendFails
  <2>3. CASE pc \in {"directory", "head", "checkout"}
    <3>1. cut' = TRUE
      BY <1>12, <2>3 DEF Fault
    <3> QED BY <2>1, <2>2, <3>1
  <2>4. CASE pc \notin {"directory", "head", "checkout"}
    <3>1. /\ ~cut' => ~cut
          /\ git' = git /\ pc' = "idle" /\ meddling' = meddling
      BY <1>12, <2>4 DEF Fault, BackendFails
    <3>2. Undisturbed'
      BY <2>4, <3>1
    <3> QED BY <2>1, <2>2, <3>2
  <2> QED BY <2>3, <2>4
<1>13. CASE Commit
  BY <1>13 DEF Commit
<1>14. CASE AgentEnds
  BY <1>14 DEF AgentEnds
<1>15. CASE SupervisorDies
  <2>1. /\ crashes' \in 0..MaxCrashes
        /\ refusals' \in 0..MaxRefusals
        /\ meddling' \in 0..MaxMeddling
    BY <1>15 DEF SupervisorDies
  <2>2. /\ row' \in States /\ git' \in GitState /\ pc' \in Steps
        /\ agent' \in {"none", "running", "ended"} /\ cut' \in BOOLEAN
              /\ stopped' \in BOOLEAN
    BY <1>15, ZenonT(60) DEF SupervisorDies
  <2>3. CASE pc \in {"directory", "head", "checkout"}
    <3>1. cut' = TRUE
      BY <1>15, <2>3 DEF SupervisorDies
    <3> QED BY <2>1, <2>2, <3>1
  <2>4. CASE pc \notin {"directory", "head", "checkout"}
    <3>1. /\ ~cut' => ~cut
          /\ git' = git /\ pc' = "idle" /\ meddling' = meddling
      BY <1>15, <2>4 DEF SupervisorDies
    <3>2. Undisturbed'
      BY <2>4, <3>1
    <3> QED BY <2>1, <2>2, <3>2
  <2> QED BY <2>3, <2>4
<1>16. CASE Meddle
  <2>1. /\ crashes' \in 0..MaxCrashes
        /\ refusals' \in 0..MaxRefusals
        /\ meddling' \in 0..MaxMeddling
    BY <1>16 DEF Meddle
  <2>2. /\ row' \in States /\ pc' \in Steps
        /\ agent' \in {"none", "running", "ended"} /\ cut' \in BOOLEAN
              /\ stopped' \in BOOLEAN
    BY <1>16 DEF Meddle
  <2>3. meddling' # 0
    BY <1>16 DEF Meddle
  <2>4. git \in GitState /\ git' \in Meddled
    BY <1>16 DEF Meddle
  <2>5. git' \in GitState
    BY <2>4, ZenonT(60) DEF Meddled
  <2> QED BY <2>1, <2>2, <2>3, <2>5
<1>17. CASE UNCHANGED worktree
  BY <1>17 DEF worktree
<1> QED
  BY <1>1, <1>2, <1>3, <1>4, <1>5, <1>6, <1>7, <1>8, <1>9, <1>10, <1>11,
     <1>12, <1>13, <1>14, <1>15, <1>16, <1>17, <1>18
     DEF WorktreesNext, Supervisor

LEMMA WorktreesInductive == WorktreesSpec => []WorktreesInv
<1> QED BY WorktreesInitially, WorktreesConsecution, PTL DEF WorktreesSpec

(* Whatever is left of a creation that failed or was cut off outside Git's  *)
(* own writes, the next pass can go on from it (materialize).               *)
THEOREM CreationResumes == WorktreesSpec => []Resumable
<1>1. WorktreesInv => Resumable
  BY DEF WorktreesInv, WorktreesTypeOK, Undisturbed, Nothing, Complete,
         Observed, PathOwned, Resumable, Observation, Orphan, GitState
<1> QED BY <1>1, WorktreesInductive, PTL

(* No step of the supervisor moves an existing branch or touches what is at *)
(* the path (create).                                                       *)
THEOREM SupervisorKeepsWork == WorktreesSpec => WorkKept
<1>1. WorktreesInv /\ [WorktreesNext]_worktree =>
        [Supervisor => /\ git.ref # "none" => git'.ref = git.ref
                       /\ git.dir # "none" => git'.dir = git.dir]_worktree
  <2> SUFFICES ASSUME WorktreesInv, Supervisor
               PROVE  /\ git.ref # "none" => git'.ref = git.ref
                      /\ git.dir # "none" => git'.dir = git.dir
    OBVIOUS
  <2>1. git \in GitState
    BY DEF WorktreesInv, WorktreesTypeOK
  <2>5. CASE MakeParents
    BY <2>1, <2>5 DEF MakeParents, BackendFails, GitState
  <2>2. CASE MakeReference
    BY <2>1, <2>2 DEF MakeReference, OwnReference, BackendFails, GitState
  <2>3. CASE AddRecord \/ AddDirectory \/ AddHead
    BY <2>1, <2>3 DEF AddRecord, AddDirectory, AddHead, BackendFails, GitState
  <2>4. CASE UNCHANGED git
    BY <2>4
  <2> QED
    BY <2>2, <2>3, <2>4, <2>5
       DEF Supervisor, Pass, ShutdownPass, Reopen, CheckFree,
       BackendFails, CheckoutFiles, RecordCreated, Launch
<1> QED BY <1>1, WorktreesInductive, PTL DEF WorktreesSpec, WorkKept

LEMMA FreshStartInitially == WorktreesInit => FreshStartInv
  BY WorktreesInitially DEF WorktreesInit, FreshStartInv, NoFreshStart,
     Settled, WorktreesInv

LEMMA FreshStartConsecution ==
    WorktreesInv /\ WorktreesInv' /\ FreshStartInv /\ [WorktreesNext]_worktree
        => FreshStartInv'
<1> SUFFICES ASSUME WorktreesInv, WorktreesInv', FreshStartInv,
                    [WorktreesNext]_worktree
             PROVE  FreshStartInv'
  OBVIOUS
<1> USE DEF FreshStartInv, NoFreshStart, Settled
<1>1. WorktreesTypeOK /\ WorktreesTypeOK'
  BY DEF WorktreesInv
<1>2. git \in GitState /\ meddling \in Nat
  BY <1>1 DEF WorktreesTypeOK
<1>3. CASE Pass
  BY <1>1, <1>2, <1>3
     DEF Pass, RecordState, Observation, Observed, PathOwned, Orphan, Creatable,
         counts
<1>4. CASE ShutdownPass
  BY <1>1, <1>2, <1>4
     DEF ShutdownPass, RecordState, Observation, Observed, PathOwned, Orphan,
         Creatable
<1>5. CASE \/ Reopen \/ MakeParents \/ MakeReference \/ CheckFree \/ AddRecord
           \/ AddDirectory \/ AddHead \/ CheckoutFiles
  <2>1. pc \notin {"idle", "launch"} /\ pc' # "launch"
    BY <1>5 DEF Reopen, MakeParents, MakeReference, OwnReference, CheckFree,
       AddRecord, AddDirectory, AddHead, CheckoutFiles, BackendFails
  <2>2. UNCHANGED <<agent, meddling>>
    BY <1>5 DEF Reopen, MakeParents, MakeReference, OwnReference, CheckFree,
       AddRecord, AddDirectory, AddHead, CheckoutFiles, BackendFails, counts
  <2> QED BY <1>1, <1>2, <2>1, <2>2
<1>6. CASE RecordCreated
  <2>1. pc \notin {"idle", "launch"} /\ UNCHANGED <<agent, meddling>>
    BY <1>6 DEF RecordCreated, counts
  <2>2. ~(agent # "none" /\ meddling <= 1)
    BY <2>1
  <2>3. UNCHANGED git /\ row' = Observation
    BY <1>6 DEF RecordCreated, RecordState
  <2>4. Observation' = Observation
    BY <2>3 DEF Observation, Observed, PathOwned, Orphan
  <2>5. pc' = "launch" => row' = "observed"
    BY <1>6, <2>3 DEF RecordCreated
  <2> QED BY <1>1, <2>1, <2>2, <2>3, <2>4, <2>5
<1>7. CASE Launch
  BY <1>1, <1>2, <1>7
     DEF Launch, Observation, Observed, PathOwned, Orphan, Creatable, counts
<1>8. CASE Fault
  BY <1>1, <1>2, <1>8 DEF Fault, BackendFails
<1>9. CASE Commit
  BY <1>1, <1>2, <1>9
     DEF Commit, Observation, Observed, PathOwned, Orphan, Creatable, counts,
         GitState
<1>10. CASE AgentEnds
  BY <1>1, <1>2, <1>10
     DEF AgentEnds, Observation, Observed, PathOwned, Orphan, Creatable, counts
<1>11. CASE SupervisorDies
  BY <1>1, <1>2, <1>11
     DEF SupervisorDies, Observation, Observed, PathOwned, Orphan, Creatable
<1>12. CASE Meddle
  BY <1>1, <1>2, <1>12 DEF Meddle, Creatable
<1>13. CASE UNCHANGED worktree
  BY <1>1, <1>13
     DEF worktree, Observation, Observed, PathOwned, Orphan, Creatable
<1> QED
  BY <1>3, <1>4, <1>5, <1>6, <1>7, <1>8, <1>9, <1>10, <1>11, <1>12, <1>13
     DEF WorktreesNext, Supervisor

(* Where an agent has worked, one act on its worktree, whatever it is,      *)
(* never makes a later pass create it as if it had not (materialize).       *)
THEOREM NotMadeAnew == WorktreesSpec => []NoFreshStart
<1>1. FreshStartInv => NoFreshStart
  BY DEF FreshStartInv
<1> QED
  BY <1>1, FreshStartInitially, FreshStartConsecution, WorktreesInductive, PTL
     DEF WorktreesSpec
=============================================================================

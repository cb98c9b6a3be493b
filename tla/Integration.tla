---------------------------- MODULE Integration ----------------------------
(***************************************************************************)
(* Guarded integration of submitted worktrees into one project's target    *)
(* branch: the durable plan, the attempts that apply it step by step in    *)
(* Git, the reconciler, and the operator who works in the same checkout.   *)
(*                                                                         *)
(* The supervisor runs one attempt at a time; its steps on the repository  *)
(* interleave with the operator's.  A crash forgets the attempt and keeps  *)
(* the store and the repository.  A commit is its history: the set of the  *)
(* changes it and its ancestors made, so that one commit descends from     *)
(* another when it includes it.  All worktrees start at the same base, the *)
(* empty history.  A tree is what a history adds up to, whoever committed. *)
(***************************************************************************)
EXTENDS Integers, FiniteSets

CONSTANTS
    Assignments,   \* completed worktree assignments awaiting integration
    Operations,    \* identities of workspace.integrate operations
    Operator,      \* author of the commits made outside coterie
    Clash,         \* pairs of authors whose changes conflict in a merge
    Tangled,       \* assignments whose commits conflict when replayed singly
    MaxEdits,      \* bound: steps of the operator
    MaxFaults,     \* bound: crashes and failed writes
    NoTask, NoAssignment, NoOperation

ASSUME BoundsAssumption == MaxEdits \in Nat /\ MaxFaults \in Nat
ASSUME AuthorsAssumption ==
    /\ Operator \notin Assignments
    /\ Tangled \subseteq Assignments
    /\ NoAssignment \notin Assignments
    /\ NoOperation \notin Operations

VARIABLES
    tip,        \* the commit of the target branch
    work,       \* the tree in the target's index and working directory
    soiled,     \* "no", "foreign" edits in it, or a "torn" checkout
    reached,    \* commits the target branch has been at (its reflog)
    edits,      \* operator steps taken
    altered,    \* assignments whose worktree is not as it was submitted
    plan,       \* the plan in an operation's result_json
    opState,    \* its reconciliation_state
    recorded,   \* workspaces.target_commit: a set of at most one commit
    published,  \* assignments whose candidate an attempt found on the branch
    attempt,    \* the operation the supervisor is applying
    stage,      \* how far it is
    faults      \* crashes and failed writes so far

gitVars == <<tip, work, soiled, reached, edits, altered>>
storeVars == <<plan, opState, recorded>>
vars == <<gitVars, storeVars, published, attempt, stage, faults>>

Strategies == {"merge", "rebase"}
NoPlan == [asg |-> NoAssignment, strategy |-> "merge", expected |-> {}]

Planned(o) == plan[o] # NoPlan
Unresolved(o) == opState[o] \in {"desired", "unknown"}

-----------------------------------------------------------------------------
(* Commits and trees.                                                      *)

Change(author, how, on) == [by |-> author, how |-> how, on |-> on]

\* An assignment's commits, one line from the base, count as one change.
Result(a) == {Change(a, "work", {})}

\* Whether a commit is the assignment's result or descends from it.
Contains(c, a) == Result(a) \subseteq c

\* The operator's own changes are told apart by the tip they were made on.
Tree(c) == {[by |-> x.by, on |-> IF x.by = Operator THEN x.on ELSE {}] : x \in c}
Authors(c) == {x.by : x \in c}
Conflicts(c, a) == \E author \in Authors(c) : {author, a} \in Clash

\* A merge commit of the target and the result.
Merged(p) ==
    p.expected \cup Result(p.asg) \cup {Change(p.asg, "merge", p.expected)}

\* The commits of the result replayed onto the target.
Rebased(p) == p.expected \cup {Change(p.asg, "rebase", p.expected)}

\* The commit a plan leads to, the same in every attempt: the target itself
\* when it holds the result, the result when the target is still at the base.
Candidate(p) ==
    IF Contains(p.expected, p.asg) THEN p.expected
    ELSE IF p.expected = {} THEN Result(p.asg)
    ELSE IF p.strategy = "merge" THEN Merged(p)
    ELSE Rebased(p)

\* Whether git refuses to construct the candidate.  The preflight only
\* merges the trees; the attempt replays every commit of a rebase.
Refused(p, replaying) ==
    /\ ~Contains(p.expected, p.asg)
    /\ p.expected # {}
    /\ \/ Conflicts(p.expected, p.asg)
       \/ replaying /\ p.strategy = "rebase" /\ p.asg \in Tangled

\* The worktree is the one bound to the assignment, clean, and its tip is the
\* recorded result.  That the result is one line from the base never changes.
AsSubmitted(a) == a \notin altered

Clean == soiled = "no" /\ work = Tree(tip)
Staged(p) == soiled = "no" /\ work = Tree(Candidate(p))

\* One type invariant: an attempt has a durable plan, a plan an outcome.
TypeOK ==
    /\ tip \in reached
    /\ soiled \in {"no", "foreign", "torn"}
    /\ edits \in 0..MaxEdits /\ faults \in 0..MaxFaults
    /\ altered \subseteq Assignments
    /\ \A o \in Operations :
          /\ plan[o].asg \in Assignments \cup {NoAssignment}
          /\ plan[o].strategy \in Strategies
          /\ plan[o].expected \in reached
          /\ Planned(o) <=> opState[o] # "none"
    /\ opState \in [Operations -> {"none", "desired", "unknown", "observed"}]
    /\ DOMAIN recorded = Assignments
    /\ \A a \in Assignments : Cardinality(recorded[a]) <= 1
    /\ published \subseteq Assignments
    /\ attempt \in Operations \cup {NoOperation}
    /\ stage \in {"idle", "inspect", "checkout", "advance", "verify",
                  "record", "fail"}
    /\ stage = "idle" <=> attempt = NoOperation
    /\ stage # "idle" => Planned(attempt)

Init ==
    /\ tip = {} /\ work = {} /\ soiled = "no" /\ reached = {{}} /\ edits = 0
    /\ altered = {}
    /\ plan = [o \in Operations |-> NoPlan]
    /\ opState = [o \in Operations |-> "none"]
    /\ recorded = [a \in Assignments |-> {}]
    /\ published = {}
    /\ attempt = NoOperation /\ stage = "idle" /\ faults = 0

-----------------------------------------------------------------------------
(* The operator, in the target's checkout.                                 *)

MoveTip(c) == tip' = c /\ reached' = reached \cup {c}

OperatorStep ==
    /\ edits < MaxEdits
    /\ edits' = edits + 1
    /\ UNCHANGED <<altered, storeVars, published, attempt, stage, faults>>

\* A commit of their own, or a cherry-pick or merge of a submitted branch.
OperatorCommit(c) ==
    /\ OperatorStep
    /\ Clean
    /\ c # tip
    /\ MoveTip(c)
    /\ work' = Tree(c)
    /\ UNCHANGED soiled

\* git commit of whatever an interrupted checkout left staged.
OperatorCommitStaged(a) ==
    LET c == tip \cup {Change(a, "pick", tip)} IN
    /\ OperatorStep
    /\ soiled = "no"
    /\ work # Tree(tip)
    /\ work = Tree(c)
    /\ MoveTip(c)
    /\ UNCHANGED <<work, soiled>>

OperatorEdit ==
    /\ OperatorStep
    /\ soiled = "no"
    /\ soiled' = "foreign"
    /\ UNCHANGED <<tip, work, reached>>

\* git reset --hard, to the tip or to an earlier commit of the branch.
OperatorReset(c) ==
    /\ OperatorStep
    /\ c \in reached
    /\ c # tip \/ ~Clean
    /\ tip' = c
    /\ work' = Tree(c)
    /\ soiled' = "no"
    /\ UNCHANGED reached

\* A worker that lives on after its finish, or anybody else, edits, moves or
\* removes a submitted worktree, or puts it back as it was.
TouchWorktree(a) ==
    /\ altered' = IF a \in altered THEN altered \ {a} ELSE altered \cup {a}
    /\ UNCHANGED <<tip, work, soiled, reached, edits, storeVars, published,
                   attempt, stage, faults>>

OperatorCommits ==
    {tip \cup {Change(Operator, "work", tip)}}
        \cup UNION {{tip \cup {Change(a, "pick", tip)},
                     tip \cup Result(a) \cup {Change(a, "hand", tip)}} :
                        a \in Assignments}

-----------------------------------------------------------------------------
(* Starting an attempt.                                                    *)

Begin(o) == attempt' = o /\ stage' = "inspect"

\* prepare_integration: the plan captures the tip it finds.
Prepared(a, strategy) == [asg |-> a, strategy |-> strategy, expected |-> tip]

\* integration_inputs: the worktree is as submitted, the target is clean and
\* its tip would take the result.
Preflighted(p) == AsSubmitted(p.asg) /\ Clean /\ ~Refused(p, FALSE)

\* workspace integrate: preflight the current target, then make the plan
\* durable, then apply it.
Request(o, a, strategy) ==
    LET p == Prepared(a, strategy) IN
    /\ stage = "idle"
    /\ ~Planned(o)
    /\ recorded[a] = {}
    /\ Preflighted(p)
    /\ plan' = [plan EXCEPT ![o] = p]
    /\ opState' = [opState EXCEPT ![o] = "desired"]
    /\ Begin(o)
    /\ UNCHANGED <<gitVars, recorded, published, faults>>

\* Slip: the retry plans anew, on the tip it finds.
ReplayReplanned(o) ==
    /\ stage = "idle"
    /\ Planned(o)
    /\ plan' = [plan EXCEPT ![o].expected = tip]
    /\ Begin(o)
    /\ UNCHANGED <<gitVars, opState, recorded, published, faults>>

\* The caller repeats the operation, whatever became of it.
Replay(o) ==
    /\ stage = "idle"
    /\ Planned(o)
    /\ Begin(o)
    /\ UNCHANGED <<gitVars, storeVars, published, faults>>

\* Slip: work the target contains passes for an integration recorded.
ReconcileContained(o) ==
    /\ stage = "idle"
    /\ Unresolved(o)
    /\ IF Contains(tip, plan[o].asg)
       THEN /\ opState' = [opState EXCEPT ![o] = "observed"]
            /\ UNCHANGED <<attempt, stage>>
       ELSE Begin(o) /\ UNCHANGED opState
    /\ UNCHANGED <<gitVars, plan, recorded, published, faults>>

\* The reconciler, after a restart and on every tick.
Reconcile(o) ==
    /\ stage = "idle"
    /\ Unresolved(o)
    /\ IF recorded[plan[o].asg] # {}
       THEN /\ opState' = [opState EXCEPT ![o] = "observed"]
            /\ UNCHANGED <<attempt, stage>>
       ELSE Begin(o) /\ UNCHANGED opState
    /\ UNCHANGED <<gitVars, plan, recorded, published, faults>>

-----------------------------------------------------------------------------
(* GitWorkspace::integrate, on the plan of the operation being attempted.  *)

Goto(next) == stage' = next /\ UNCHANGED attempt
InPlan == plan[attempt]

\* Nothing of a worktree that is not as submitted is applied, and a candidate
\* may not be constructible.
Inapplicable(p) == ~AsSubmitted(p.asg) \/ Refused(p, TRUE)

\* Slip: the staged tree of an interrupted attempt is not recognised.
InspectCleanOnly(p) ==
    /\ stage = "inspect"
    /\ \/ Inapplicable(p) /\ Goto("fail") /\ UNCHANGED published
       \/ ~Inapplicable(p) /\ tip = Candidate(p) /\ Goto("verify")
          /\ published' = published \cup {p.asg}
       \/ /\ ~Inapplicable(p) /\ tip # Candidate(p)
          /\ IF tip = p.expected /\ Clean THEN Goto("checkout") ELSE Goto("fail")
          /\ UNCHANGED published
    /\ UNCHANGED <<gitVars, storeVars, faults>>

\* Check the submitted worktree once more, construct the candidate and compare
\* it with the branch and the files.
Inspect(p) ==
    /\ stage = "inspect"
    /\ \/ /\ Inapplicable(p)
          /\ Goto("fail")
          /\ UNCHANGED published
       \/ /\ ~Inapplicable(p)
          /\ tip = Candidate(p)
          /\ Goto("verify")
          /\ published' = published \cup {p.asg}
       \/ /\ ~Inapplicable(p)
          /\ tip # Candidate(p)
          /\ Goto(IF tip # p.expected THEN "fail"
                  ELSE IF Clean THEN "checkout"
                  ELSE IF Staged(p) THEN "advance"
                  ELSE "fail")
          /\ UNCHANGED published
    /\ UNCHANGED <<gitVars, storeVars, faults>>

\* A safe checkout of the candidate's tree.  Files edited since the
\* inspection are left alone, and when they are in the way it does nothing.
Checkout(p) ==
    /\ stage = "checkout"
    /\ \/ /\ work' = Tree(Candidate(p))
          /\ Goto("advance")
       \/ /\ soiled # "no"
          /\ Goto("fail")
          /\ UNCHANGED work
    /\ UNCHANGED <<tip, soiled, reached, edits, altered, storeVars, published,
                   faults>>

\* Slip: the reference is set without comparing it first.
AdvanceUnguarded(p) ==
    /\ stage = "advance"
    /\ MoveTip(Candidate(p))
    /\ published' = published \cup {p.asg}
    /\ Goto("verify")
    /\ UNCHANGED <<work, soiled, edits, altered, storeVars, faults>>

\* Write the commit, then compare-and-set the reference.
Advance(p) ==
    /\ stage = "advance"
    /\ \/ /\ tip = p.expected
          /\ MoveTip(Candidate(p))
          /\ published' = published \cup {p.asg}
          /\ Goto("verify")
       \/ /\ tip # p.expected
          /\ Goto("fail")
          /\ UNCHANGED <<tip, reached, published>>
    /\ UNCHANGED <<work, soiled, edits, altered, storeVars, faults>>

\* verify_publication, through a fresh handle.
Verify(p) ==
    /\ stage = "verify"
    /\ Goto(IF tip = Candidate(p) /\ Clean THEN "record" ELSE "fail")
    /\ UNCHANGED <<gitVars, storeVars, published, faults>>

\* One transaction; another commit recorded before is a conflict.
Record(p) ==
    /\ stage = "record"
    /\ IF recorded[p.asg] \subseteq {Candidate(p)}
       THEN /\ recorded' = [recorded EXCEPT ![p.asg] = {Candidate(p)}]
            /\ opState' = [opState EXCEPT ![attempt] = "observed"]
            /\ attempt' = NoOperation
            /\ stage' = "idle"
       ELSE Goto("fail") /\ UNCHANGED <<recorded, opState>>
    /\ UNCHANGED <<gitVars, plan, published, faults>>

\* The error is recorded and reported.
Fail ==
    /\ stage = "fail"
    /\ opState' = [opState EXCEPT ![attempt] = "unknown"]
    /\ attempt' = NoOperation
    /\ stage' = "idle"
    /\ UNCHANGED <<gitVars, plan, recorded, published, faults>>

-----------------------------------------------------------------------------
(* Faults.  A checkout in progress may be left half done by either.        *)

Tear ==
    soiled' = IF stage = "checkout" /\ soiled = "no" THEN "torn" ELSE soiled

Crash ==
    /\ faults < MaxFaults
    /\ stage # "idle"
    /\ faults' = faults + 1
    /\ attempt' = NoOperation
    /\ stage' = "idle"
    /\ Tear \/ UNCHANGED soiled
    /\ UNCHANGED <<tip, work, reached, edits, altered, storeVars, published>>

\* Reading, checking out, writing the commit or the reference, or the store.
WriteFails ==
    /\ faults < MaxFaults
    /\ stage \notin {"idle", "fail"}
    /\ faults' = faults + 1
    /\ Goto("fail")
    /\ Tear \/ UNCHANGED soiled
    /\ UNCHANGED <<tip, work, reached, edits, altered, storeVars, published>>

-----------------------------------------------------------------------------
Operate ==
    \/ \E c \in OperatorCommits : OperatorCommit(c)
    \/ \E a \in Assignments : OperatorCommitStaged(a)
    \/ OperatorEdit
    \/ \E c \in reached : OperatorReset(c)
    \/ \E a \in Assignments : TouchWorktree(a)

Start ==
    \/ \E o \in Operations, a \in Assignments, strategy \in Strategies :
          Request(o, a, strategy)
    \/ \E o \in Operations : Replay(o)
    \/ \E o \in Operations : Reconcile(o)

\* The rest of an attempt, which nothing but a fault interrupts.
Proceed ==
    /\ attempt # NoOperation
    /\ \/ Inspect(InPlan)
       \/ Checkout(InPlan)
       \/ Advance(InPlan)
       \/ Verify(InPlan)
       \/ Record(InPlan)
       \/ Fail

Next == Operate \/ Start \/ Proceed \/ Crash \/ WriteFails

Spec == Init /\ [][Next]_vars

\* An attempt runs to its end, and the reconciler's pass over the unresolved
\* operations comes round again however many requests arrive in between.
Fairness ==
    /\ WF_vars(Proceed)
    /\ \A o \in Operations : SF_vars(Reconcile(o))

FairSpec == Spec /\ Fairness

-----------------------------------------------------------------------------
(* Safety.                                                                 *)

\* No step of coterie takes a commit off the target branch, discards what the
\* operator has edited, or takes the remains of a torn checkout for its own
\* work, also when the operator commits or edits between the inspection of an
\* attempt and its updates.
OperatorKept ==
    [][edits' = edits =>
          /\ tip \subseteq tip'
          /\ soiled # "no" => soiled' = soiled]_vars

\* A recorded target commit is one the branch was at, and holds the result:
\* neither a returned identifier nor an equal tree stands in for it.
RecordedReached ==
    \A a \in Assignments :
        \A c \in recorded[a] : c \in reached /\ a \in Authors(c)

\* An operation adds its commits to the branch at most once, however often it
\* is attempted, interrupted and retried while the branch moves.
OncePerOperation ==
    \A a \in Assignments :
        Cardinality({x \in UNION reached : x.by = a /\ x.how \in Strategies})
            <= Cardinality({o \in Operations : plan[o].asg = a})

\* What is recorded as integrated was published, and published once.
PublishedOnce == RecordedReached /\ OncePerOperation

-----------------------------------------------------------------------------
(* The inductive invariant behind them.                                    *)

\* A plan, once durable, names an assignment and a tip the branch was at.
PlanSet ==
    [asg : Assignments, strategy : Strategies, expected : reached] \cup {NoPlan}

Durable == plan \in [Operations -> PlanSet] /\ {} \in reached

\* Past the update of the branch, an attempt has seen the candidate there.
Attempting ==
    /\ stage \in {"verify", "record"} => InPlan.asg \in published
    /\ stage = "record" => Candidate(InPlan) \in reached

\* A change that a merge or a rebase of coterie made stands for the plan it
\* carries out: no other plan leads to it.
Sourced ==
    \A c \in reached : \A x \in c :
        x.by \in Assignments /\ x.how \in Strategies =>
            /\ x = Change(x.by, x.how, x.on)
            /\ \E o \in Operations :
                  plan[o] = [asg |-> x.by, strategy |-> x.how, expected |-> x.on]

FewPlans ==
    \A a \in Assignments : IsFiniteSet({o \in Operations : plan[o].asg = a})

\* What the store says was integrated had been found on the branch.
Found ==
    /\ \A a \in Assignments : recorded[a] # {} => a \in published
    /\ \A o \in Operations : opState[o] = "observed" => plan[o].asg \in published

IInv ==
    /\ TypeOK /\ Durable /\ Attempting
    /\ Sourced /\ FewPlans /\ Found /\ RecordedReached

-----------------------------------------------------------------------------
(* Liveness.                                                               *)

\* The plan can still be, or has just been, applied as it was made.
Applicable(o) ==
    LET p == plan[o] IN
    /\ Unresolved(o)
    /\ ~Inapplicable(p)
    /\ \/ tip = p.expected /\ (Clean \/ Staged(p))
       \/ tip = Candidate(p) /\ Clean

\* An intent that survived a crash anywhere between its transaction and its
\* record is applied and recorded, unless someone else moves the target,
\* edits its files or touches the submitted worktree first.
IntentApplied ==
    \A o \in Operations :
        Applicable(o) ~> (opState[o] = "observed" \/ ~Applicable(o))

-----------------------------------------------------------------------------
(* The ledger's view: every step here is an integration step, or no step,  *)
(* of TaskLedger, which leaves out where the target branch stands.         *)
(* The tip it sees is the one the attempt inspected: the ledger takes the  *)
(* inspection of the worktree and what follows for one step.               *)

Ledger ==
    INSTANCE TaskLedger WITH
        Tasks <- Assignments,
        IntegrateOps <- Operations,
        MaxCommit <- 0,
        FaultyWorktrees <- {},
        RoleKinds <- {"worktree"},
        status <- [t \in Assignments |-> "submitted"],
        deps <- [t \in Assignments |-> {}],
        taskResult <- [t \in Assignments |-> 0],
        evidence <- [t \in Assignments |-> "none"],
        asgTask <- [a \in Assignments |-> a],
        asgState <- [a \in Assignments |-> "completed"],
        claim <- [a \in Assignments |-> "released"],
        latest <- [t \in Assignments |-> t],
        retired <- [a \in Assignments |-> FALSE],
        continues <- [a \in Assignments |-> NoAssignment],
        session <- [a \in Assignments |-> "exited"],
        spawnOp <- [a \in Assignments |-> "observed"],
        kind <- [a \in Assignments |-> "worktree"],
        wsState <- [a \in Assignments |-> "observed"],
        head <- [a \in Assignments |-> 0],
        result <- [a \in Assignments |-> 0],
        target <- [a \in Assignments |-> IF recorded[a] = {} THEN -1 ELSE 0],
        published <- [a \in Assignments |-> IF a \in published THEN 0 ELSE -1],
        opAsg <- [o \in Operations |-> plan[o].asg]

\* Attempts, replays, crashes and reconciliation amount to what TaskLedger
\* lets an integrate operation do to submitted work.
LedgerSteps ==
    [][\E o \in Operations : Ledger!IntegrationStep(o)]_(Ledger!vars)
=============================================================================

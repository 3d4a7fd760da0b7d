----------------------------- MODULE HybridScores -----------------------------
(***************************************************************************)
(* The decision heuristic of core/Solver.cc and what the controller does   *)
(* to it: variable activities, the increment they are bumped with, the     *)
(* order heap, and the copies of activities and increment that are saved   *)
(* when scores are to hold for a number of decisions only ("hybrid") and   *)
(* restored afterwards.                                                    *)
(*                                                                         *)
(* The clauses are left out: what propagation assigns and what a conflict  *)
(* resolves on is chosen freely.  The variables are those decisions may be *)
(* made on (decision[v]).  Rescaling activities and increment at 1e100     *)
(* changes their unit and nothing else.                                    *)
(***************************************************************************)
EXTENDS OrderHeap, FiniteSetsExt, Functions

CONSTANTS Limit,            \* decision_limit
          Requests,         \* the answers to a score request
          RandomDecisions,  \* random_var_freq > 0
          Decay,            \* 1 / var_decay
          MaxDecisions,     \* bound
          MaxConflicts      \* bound

\* A request is made static or not, gives scores to some variables, says for how
\* many decisions a static one holds, and how far to run at least.
ASSUME RequestsAssumption ==
  \A r \in Requests : /\ r.static \in BOOLEAN
                      /\ DOMAIN r.scores \subseteq Vars
                      /\ \A v \in DOMAIN r.scores : r.scores[v] \in Nat
                      /\ r.period \in Nat /\ r.forward \in Nat
ASSUME BoundsAssumption == /\ IsFiniteSet(Vars)
                           /\ Limit \in Nat \ {0} /\ Decay \in Nat \ {0}
                           /\ MaxDecisions \in Nat /\ MaxConflicts \in Nat
                           /\ RandomDecisions \in BOOLEAN

VARIABLES
  activity, varInc, order,       \* activity, var_inc, order_heap
  activityCopy, varIncCopy,      \* activity_copy, var_inc_copy, local to solve_
  useStatic, staticDecisions,    \* use_static_scores, static_decisions
  forward, lastDecisions, decisions, conflicts,
  trail, trailLim,               \* the variables assigned, and where levels begin
  pc

scoreVars == <<activity, varInc, order, activityCopy, varIncCopy>>
vars == <<activity, varInc, order, activityCopy, varIncCopy, useStatic,
          staticDecisions, forward, lastDecisions, decisions, conflicts, trail,
          trailLim, pc>>

Assigned == {trail[i] : i \in 1 .. Len(trail)}
Open == Vars \ Assigned
DecisionLevel == Len(trailLim)
PeriodDecisions == decisions - lastDecisions

\* The variables of S, by number.
InOrder(S) ==
  CHOOSE q \in [1 .. Cardinality(S) -> S] :
    \A i, j \in DOMAIN q : i < j => q[i] < q[j]

RebuildOrderHeap(act) == Build(order, act, InOrder(Open))

Init ==
  /\ activity = [v \in Vars |-> 0]
  /\ varInc = 1
  /\ order = Build(EmptyHeap, activity, InOrder(Vars))
  /\ activityCopy = activity
  /\ varIncCopy = 0
  /\ useStatic = FALSE
  /\ staticDecisions = 0
  /\ forward = 0
  /\ lastDecisions = 0
  /\ decisions = 0
  /\ conflicts = 0
  /\ trail = <<>>
  /\ trailLim = <<>>
  /\ pc = "propagate"

-----------------------------------------------------------------------------
\* propagate enqueues a literal of v.
Imply(v) ==
  /\ pc = "propagate"
  /\ v \in Open
  /\ trail' = Append(trail, v)
  /\ UNCHANGED <<scoreVars, useStatic, staticDecisions, forward, lastDecisions,
                 decisions, conflicts, trailLim, pc>>

\* varBumpActivity for the variables of q, one after the other.
Bumped(h, act, q) ==
  LET after[i \in 0 .. Len(q)] ==
        IF i = 0 THEN [h |-> h, act |-> act]
        ELSE LET b == after[i - 1]
                 a == [b.act EXCEPT ![q[i]] = @ + varInc]
             IN [h |-> IF InHeap(b.h, q[i]) THEN Decrease(b.h, a, q[i]) ELSE b.h,
                 act |-> a]
  IN after[Len(q)]

\* cancelUntil(k): insertVarOrder for the variables above, the last first.
NothingInserted(h, act, k) == h                                          \* mutant
Released(h, act, k) ==
  LET from == IF k < DecisionLevel THEN trailLim[k + 1] ELSE Len(trail)
      after[i \in from .. Len(trail)] ==
        IF i = Len(trail) THEN h
        ELSE LET g == after[i + 1]
             IN IF InHeap(g, trail[i + 1]) THEN g ELSE Insert(g, act, trail[i + 1])
  IN after[from]

KeptTrail(k) == IF k < DecisionLevel THEN SubSeq(trail, 1, trailLim[k + 1]) ELSE trail

\* The variables of level k and above; those implied at the current level.
AboveLevel(k) == {trail[i] : i \in trailLim[k] + 1 .. Len(trail)}
Implied       == {trail[i] : i \in trailLim[DecisionLevel] + 2 .. Len(trail)}

Orders(S) == {q \in [1 .. Cardinality(S) -> S] : IsInjective(q)}

\* A conflict: analyze bumps the variables S that it meets, and then those of T,
\* implied at the current level, a second time; search jumps back to level k,
\* asserts a literal of the variable uip and lets older bumps decay.
Conflict(S, T, uip, k) ==
  /\ pc = "propagate"
  /\ DecisionLevel > 0
  /\ conflicts < MaxConflicts
  /\ k < DecisionLevel
  /\ S \subseteq AboveLevel(1)
  /\ T \subseteq S \cap Implied
  /\ uip \in S \cap AboveLevel(DecisionLevel)
  /\ \E q \in Orders(S), r \in Orders(T) :
       LET b == Bumped(order, activity, q \o r)
       IN /\ activity' = b.act
          /\ order' = Released(b.h, b.act, k)
  /\ trail' = Append(KeptTrail(k), uip)
  /\ trailLim' = SubSeq(trailLim, 1, k)
  /\ varInc' = varInc * Decay
  /\ conflicts' = conflicts + 1
  /\ UNCHANGED <<activityCopy, varIncCopy, useStatic, staticDecisions, forward,
                 lastDecisions, decisions, pc>>

\* No conflict.  Static scores that have held for their time are taken back.
KeepIncrement ==                                                         \* mutant
  /\ activity' = activityCopy
  /\ varInc' = varInc
KeepScores ==                                                            \* mutant
  /\ activity' = activity
  /\ varInc' = varIncCopy
TakeBack ==
  /\ activity' = activityCopy
  /\ varInc' = varIncCopy

OneTooLate == useStatic /\ PeriodDecisions > staticDecisions             \* mutant
StaticOver == useStatic /\ PeriodDecisions >= staticDecisions

NoConflict ==
  /\ pc = "propagate"
  /\ pc' = "report"
  /\ IF StaticOver
     THEN TakeBack /\ useStatic' = FALSE
     ELSE UNCHANGED <<activity, varInc, useStatic>>
  /\ UNCHANGED <<order, activityCopy, varIncCopy, staticDecisions, forward,
                 lastDecisions, decisions, conflicts, trail, trailLim>>

AtBoundary ==
  \/ decisions = 0
  \/ PeriodDecisions >= Limit /\ PeriodDecisions >= forward

\* waitForActivityScores.  The activities are saved by "m scores static"; order
\* and increment change only if a score was given.
IncOf(r) == 1                                                            \* mutant
NextInc(r) == IF useStatic \/ r.static THEN 0 ELSE 1

TakeScores(r) ==
  /\ useStatic' = (useStatic \/ r.static)
  /\ activityCopy' = IF r.static THEN activity ELSE activityCopy
  /\ activity' = [v \in Vars |-> IF v \in DOMAIN r.scores THEN r.scores[v]
                                                          ELSE activity[v]]
  /\ staticDecisions' = IF r.static THEN r.period ELSE staticDecisions
  /\ IF DOMAIN r.scores # {}
     THEN /\ order' = RebuildOrderHeap(activity')
          /\ varIncCopy' = varInc
          /\ varInc' = NextInc(r)
     ELSE UNCHANGED <<order, varIncCopy, varInc>>
  /\ forward' = r.forward

Report ==
  /\ pc = "report"
  /\ AtBoundary
  /\ lastDecisions' = decisions
  /\ \E r \in Requests : TakeScores(r)
  /\ pc' = "decide"
  /\ UNCHANGED <<decisions, conflicts, trail, trailLim>>

NoReport ==
  /\ pc = "report"
  /\ ~AtBoundary
  /\ pc' = "decide"
  /\ UNCHANGED <<scoreVars, useStatic, staticDecisions, forward, lastDecisions,
                 decisions, conflicts, trail, trailLim>>

Restart ==
  /\ pc = "decide"
  /\ conflicts > 0
  /\ DecisionLevel > 0
  /\ order' = Released(order, activity, 0)
  /\ trail' = KeptTrail(0)
  /\ trailLim' = <<>>
  /\ pc' = "propagate"
  /\ UNCHANGED <<activity, varInc, activityCopy, varIncCopy, useStatic,
                 staticDecisions, forward, lastDecisions, decisions, conflicts>>

\* simplify, at level 0
Simplify ==
  /\ pc = "decide"
  /\ DecisionLevel = 0
  /\ order' = RebuildOrderHeap(activity)
  /\ UNCHANGED <<activity, varInc, activityCopy, varIncCopy, useStatic,
                 staticDecisions, forward, lastDecisions, decisions, conflicts,
                 trail, trailLim, pc>>

\* pickBranchLit takes variables off the heap until one is not assigned.  The sign it
\* gives the variable is left out.
Popped[n \in 0 .. Cardinality(Vars)] ==
  IF n = 0 THEN order ELSE RemoveMin(Popped[n - 1], activity)

TakeOff(n) == /\ n < Len(order.heap)
              /\ \A m \in 0 .. n - 1 : Top(Popped[m]) \in Assigned
              /\ Top(Popped[n]) \in Open
              /\ order' = Popped[n + 1]
              /\ trail' = Append(trail, Top(Popped[n]))

\* A random variable stays in the heap.
AtRandom == /\ RandomDecisions
            /\ \E v \in Elements(order) \cap Open : trail' = Append(trail, v)
            /\ UNCHANGED order

Decide ==
  /\ pc = "decide"
  /\ decisions < MaxDecisions
  /\ \/ \E n \in 0 .. Len(order.heap) : TakeOff(n)
     \/ AtRandom
  /\ trailLim' = Append(trailLim, Len(trail))
  /\ decisions' = decisions + 1
  /\ pc' = "propagate"
  /\ UNCHANGED <<activity, varInc, activityCopy, varIncCopy, useStatic,
                 staticDecisions, forward, lastDecisions, conflicts>>

\* There is none: search takes the assignment for a model.
NoneLeft ==
  /\ pc = "decide"
  /\ Elements(order) \subseteq Assigned
  /\ order' = EmptyHeap
  /\ decisions' = decisions + 1
  /\ pc' = "model"
  /\ UNCHANGED <<activity, varInc, activityCopy, varIncCopy, useStatic,
                 staticDecisions, forward, lastDecisions, conflicts, trail,
                 trailLim>>

Next ==
  \/ \E v \in Vars : Imply(v)
  \/ \E S, T \in SUBSET Vars, uip \in Vars, k \in 0 .. DecisionLevel :
       Conflict(S, T, uip, k)
  \/ NoConflict \/ Report \/ NoReport \/ Restart \/ Simplify \/ Decide \/ NoneLeft

Spec == Init /\ [][Next]_vars

-----------------------------------------------------------------------------
\* What the controller has to observe: a static request gives a score, and is over
\* by the time of the next request.
OnTime == \A r \in Requests :
            r.static => /\ DOMAIN r.scores # {}
                        /\ r.period <= Limit \/ r.period <= r.forward

TypeOK ==
  /\ activity \in [Vars -> Nat] /\ activityCopy \in [Vars -> Nat]
  /\ varInc \in Nat /\ varIncCopy \in Nat
  /\ order.heap \in Seq(Vars) /\ order.index \in [Vars -> 0 .. Cardinality(Vars)]
  /\ useStatic \in BOOLEAN
  /\ staticDecisions \in Nat /\ forward \in Nat
  /\ decisions \in 0 .. MaxDecisions + 1
  /\ lastDecisions \in 0 .. decisions
  /\ conflicts \in 0 .. MaxConflicts
  /\ trail \in Seq(Vars) /\ Len(trail) <= Cardinality(Vars)
  /\ trailLim \in Seq(0 .. Len(trail))
  /\ pc \in {"propagate", "report", "decide", "model"}

\* The indices of the heap are right after any mixture of insertions, removals,
\* bumps and rebuilds (Heap.h asserts inHeap on them), and the types hold.
HeapIndexed == TypeOK /\ IndexAgrees(order)

\* Every variable that is not assigned is in the heap: when pickBranchLit finds
\* none the assignment is complete, and search may call it a model.
OpenInHeap == Open \subseteq Elements(order)

\* "A priority queue of variables ordered with respect to the variable activity"
\* (Solver.h, order_heap)
HeapOrdered == Ordered(order, activity)

\* A conflict counts: away from static scores the increment is never zero, which it
\* would stay for ever (varDecayActivity multiplies it).
IncrementAlive == ~useStatic => varInc > 0

\* "changed with variable bump disabled": conflicts do not alter static scores.
StaticScoresStay == [][useStatic /\ useStatic' /\ pc = "propagate" => activity' = activity]_vars
================================================================================

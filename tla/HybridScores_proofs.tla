-------------------------- MODULE HybridScores_proofs --------------------------
(***************************************************************************)
(* Whatever the variables, the decision limit, the conflicts and the       *)
(* requests: if the controller is on time, static scores hold for as many  *)
(* decisions as was asked for, conflicts leave them alone, what they       *)
(* replaced comes back after them, and the increment is never lost.  And   *)
(* whether it is or not, the order heap is a heap of all the variables     *)
(* without a value.                                                        *)
(***************************************************************************)
EXTENDS MCHybridScores, RecursionTheorems, FiniteSetTheorems, SequenceTheorems, TLAPS

Counters ==
  /\ varInc \in Nat /\ varIncCopy \in Nat
  /\ useStatic \in BOOLEAN
  /\ staticDecisions \in Nat /\ forward \in Nat
  /\ decisions \in Nat /\ lastDecisions \in Nat

\* The copy is worth restoring, and a static phase is over at the next boundary.
StaticPhase ==
  useStatic => /\ varIncCopy > 0
               /\ staticDecisions <= Limit \/ staticDecisions <= forward
               /\ pc = "report" => PeriodDecisions < staticDecisions

\* The first request comes before the first decision.
BeforeDecisions ==
  decisions = 0 => /\ trailLim = <<>>
                   /\ pc \in {"propagate", "report"} => ~useStatic

IncInv == Counters /\ IncrementAlive /\ StaticPhase /\ BeforeDecisions

\* Nothing is static at first.
LEMMA AliveInit == Init => IncInv
<1> SUFFICES ASSUME Init
             PROVE  IncInv
  OBVIOUS
<1>1. /\ varInc = 1 /\ varIncCopy = 0 /\ useStatic = FALSE /\ staticDecisions = 0
      /\ forward = 0 /\ decisions = 0 /\ lastDecisions = 0 /\ trailLim = <<>>
  BY DEF Init
<1>2. Counters
  BY <1>1 DEF Counters
<1>3. IncrementAlive
  BY <1>1 DEF IncrementAlive
<1>4. StaticPhase /\ BeforeDecisions
  BY <1>1, Zenon DEF StaticPhase, BeforeDecisions
<1> QED
  BY <1>2, <1>3, <1>4 DEF IncInv

\* At a boundary nothing is static.
LEMMA BoundaryFree ==
  ASSUME IncInv, pc = "report", AtBoundary
  PROVE  ~useStatic
  BY BoundsAssumption
  DEF IncInv, Counters, StaticPhase, BeforeDecisions, AtBoundary, PeriodDecisions

\* varDecayActivity keeps an increment positive.
LEMMA DecayKeepsPositive ==
  ASSUME NEW n \in Nat
  PROVE  /\ n * Decay \in Nat
         /\ n > 0 => n * Decay > 0
  BY BoundsAssumption

\* A request leaves an increment that can be lived with.
LEMMA TakeScoresAlive ==
  ASSUME IncInv, OnTime, pc = "report", AtBoundary, NEW r \in Requests, TakeScores(r),
         lastDecisions' = decisions, pc' = "decide", UNCHANGED <<decisions, trailLim>>
  PROVE  IncInv'
<1>1. ~useStatic
  BY BoundaryFree
<1>2. varInc \in Nat \ {0}
  BY <1>1 DEF IncInv, Counters, IncrementAlive
<1>3. r.static \in BOOLEAN /\ r.period \in Nat /\ r.forward \in Nat
  BY RequestsAssumption
<1>4. r.static => DOMAIN r.scores # {} /\ (r.period <= Limit \/ r.period <= r.forward)
  BY DEF OnTime
<1>5. useStatic' = r.static
  BY <1>1, <1>3 DEF TakeScores
<1>6. Counters'
  BY <1>2, <1>3, <1>5 DEF TakeScores, NextInc, IncInv, Counters
<1>7. IncrementAlive'
  BY <1>1, <1>2, <1>3, <1>5 DEF TakeScores, NextInc, IncrementAlive
<1>8. StaticPhase'
  BY <1>2, <1>3, <1>4, <1>5 DEF TakeScores, StaticPhase
<1>9. BeforeDecisions'
  BY DEF IncInv, BeforeDecisions
<1> QED
  BY <1>6, <1>7, <1>8, <1>9 DEF IncInv

\* Every step keeps the increment alive, if the controller is on time.
LEMMA AliveNext == IncInv /\ OnTime /\ [Next]_vars => IncInv'
<1> SUFFICES ASSUME IncInv, OnTime, [Next]_vars
             PROVE  IncInv'
  OBVIOUS
<1> USE DEF IncInv, Counters, IncrementAlive, StaticPhase, BeforeDecisions,
            PeriodDecisions
<1>1. ASSUME NEW v \in Vars, Imply(v)
      PROVE  IncInv'
  BY <1>1 DEF Imply, scoreVars
<1>2. ASSUME NEW S \in SUBSET Vars, NEW T \in SUBSET Vars, NEW uip \in Vars,
             NEW k \in 0 .. DecisionLevel, Conflict(S, T, uip, k)
      PROVE  IncInv'
  <2>1. decisions # 0
    BY <1>2 DEF Conflict, DecisionLevel
  <2>2. varInc' \in Nat /\ (varInc > 0 => varInc' > 0)
    BY <1>2, DecayKeepsPositive DEF Conflict
  <2> QED
    BY <1>2, <2>1, <2>2 DEF Conflict
<1>3. CASE NoConflict
  <2>1. CASE StaticOver
    BY <1>3, <2>1 DEF NoConflict, StaticOver, TakeBack
  <2>2. CASE ~StaticOver
    BY <1>3, <2>2 DEF NoConflict, StaticOver
  <2> QED
    BY <2>1, <2>2
<1>4. CASE Report
  <2>1. PICK r \in Requests : TakeScores(r)
    BY <1>4 DEF Report
  <2> QED
    BY <1>4, <2>1, TakeScoresAlive DEF Report
<1>5. CASE NoReport
  BY <1>5 DEF NoReport, AtBoundary, scoreVars
<1>6. CASE Restart
  BY <1>6 DEF Restart, DecisionLevel
<1>7. CASE Simplify
  BY <1>7 DEF Simplify
<1>8. CASE Decide
  BY <1>8 DEF Decide
<1>9. CASE NoneLeft
  BY <1>9 DEF NoneLeft
<1>10. CASE UNCHANGED vars
  BY <1>10 DEF vars
<1> QED
  BY <1>1, <1>2, <1>3, <1>4, <1>5, <1>6, <1>7, <1>8, <1>9, <1>10 DEF Next

\* The increment that conflicts bump with is positive whenever no static scores are
\* in force (search and waitForActivityScores), if the controller is on time.
THEOREM Alive ==
  ASSUME OnTime
  PROVE  Spec => []IncrementAlive
<1>1. Init => IncInv
  BY AliveInit
<1>2. IncInv /\ [Next]_vars => IncInv'
  BY AliveNext
<1>3. IncInv => IncrementAlive
  BY DEF IncInv
<1> QED
  BY <1>1, <1>2, <1>3, PTL DEF Spec

-----------------------------------------------------------------------------
\* What the static scores in force replaced is what was saved, and no request has
\* come in between: the period counts from the one that started them.
Saved ==
  useStatic => /\ activityCopy = begun.scores
               /\ varIncCopy = begun.inc
               /\ begun.at = lastDecisions

PeriodKept ==
  useStatic => /\ PeriodDecisions <= staticDecisions
               /\ pc = "decide" => PeriodDecisions < staticDecisions

PeriodsAsked == \A r \in Requests : r.static => r.period > 0

\* Only a request starts a static phase, and then nothing was static.
LEMMA StartsAtRequest ==
  ASSUME IncInv, Next, useStatic'
  PROVE  \/ useStatic /\ UNCHANGED <<activityCopy, varIncCopy, staticDecisions,
                                     lastDecisions>>
         \/ ~useStatic /\ Report
<1>1. IncInv /\ Report => ~useStatic
  BY BoundaryFree DEF Report
<1> QED
  BY <1>1 DEF Next, Imply, Conflict, NoConflict, NoReport, Restart, Simplify, Decide,
              NoneLeft, scoreVars, IncInv, Counters

\* Nothing is saved at first.
LEMMA SavedInit == MCInit => Saved
  BY DEF MCInit, Init, Saved

\* Only a static request saves, and only when nothing is static.
LEMMA SavedNext ==
  IncInv /\ OnTime /\ Saved /\ [MCNext]_<<vars, begun>> => Saved'
<1> SUFFICES ASSUME IncInv, OnTime, Saved, [MCNext]_<<vars, begun>>, useStatic'
             PROVE  /\ activityCopy' = begun'.scores
                    /\ varIncCopy' = begun'.inc
                    /\ begun'.at = lastDecisions'
  BY DEF Saved
<1>1. CASE UNCHANGED <<vars, begun>>
  BY <1>1 DEF vars, Saved
<1>2. CASE MCNext
  <2>1. CASE useStatic /\ UNCHANGED <<activityCopy, varIncCopy, staticDecisions,
                                      lastDecisions>>
    BY <1>2, <2>1 DEF MCNext, Saved
  <2>2. CASE ~useStatic /\ Report
    <3>1. PICK r \in Requests : TakeScores(r)
      BY <2>2 DEF Report
    <3>2. begun' = Now(activity, varInc, decisions)
      BY <1>2, <2>2 DEF MCNext
    <3>3. r.static /\ DOMAIN r.scores # {}
      BY <2>2, <3>1 DEF TakeScores, OnTime
    <3>4. activityCopy' = activity /\ varIncCopy' = varInc /\ lastDecisions' = decisions
      BY <2>2, <3>1, <3>3 DEF TakeScores, Report
    <3> QED
      BY <3>2, <3>4 DEF Now
  <2> QED
    BY <1>2, <2>1, <2>2, StartsAtRequest DEF MCNext
<1> QED
  BY <1>1, <1>2

\* Static scores change nothing for good: when they are over, activities and
\* increment are what they were before (search at Solver.cc:1595-1600 and
\* waitForActivityScores), if the controller is on time.
THEOREM ScoresComeBack ==
  ASSUME OnTime
  PROVE  MCSpec => Restored
<1>1. MCInit => IncInv /\ Saved
  BY AliveInit, SavedInit DEF MCInit
<1>2. IncInv /\ Saved /\ [MCNext]_<<vars, begun>> => IncInv' /\ Saved'
  <2>1. [MCNext]_<<vars, begun>> => [Next]_vars
    BY DEF MCNext
  <2> QED
    BY <2>1, AliveNext, SavedNext
<1>3. IncInv /\ Saved /\ [MCNext]_<<vars, begun>>
        => (useStatic /\ ~useStatic' => activity' = begun.scores /\ varInc' = begun.inc)
  <2> SUFFICES ASSUME IncInv, Saved, [MCNext]_<<vars, begun>>, useStatic, ~useStatic'
               PROVE  activity' = begun.scores /\ varInc' = begun.inc
    OBVIOUS
  <2>1. NoConflict /\ StaticOver
    BY DEF MCNext, Next, Imply, Conflict, NoConflict, Report, TakeScores, NoReport,
           Restart, Simplify, Decide, NoneLeft, vars
  <2> QED
    BY <2>1 DEF NoConflict, TakeBack, Saved
<1> QED
  BY <1>1, <1>2, <1>3, PTL DEF MCSpec, Restored

\* A period ends before it has decided once too often.
LEMMA PeriodNext ==
  IncInv /\ OnTime /\ PeriodsAsked /\ PeriodKept /\ [Next]_vars => PeriodKept'
<1> SUFFICES ASSUME IncInv, OnTime, PeriodsAsked, PeriodKept, [Next]_vars, useStatic'
             PROVE  /\ PeriodDecisions' <= staticDecisions'
                    /\ pc' = "decide" => PeriodDecisions' < staticDecisions'
  BY DEF PeriodKept
<1> USE DEF PeriodDecisions
<1>1. CASE UNCHANGED vars
  BY <1>1 DEF vars, PeriodKept
<1>2. CASE ~useStatic /\ Report
  <2>1. PICK r \in Requests : TakeScores(r)
    BY <1>2 DEF Report
  <2>2. staticDecisions' = r.period /\ r.period \in Nat \ {0}
    BY <1>2, <2>1, RequestsAssumption DEF TakeScores, PeriodsAsked
  <2>3. decisions' = decisions /\ lastDecisions' = decisions /\ decisions \in Nat
    BY <1>2 DEF Report, IncInv, Counters
  <2> QED
    BY <2>2, <2>3
<1>3. CASE /\ Next /\ useStatic
           /\ UNCHANGED <<activityCopy, varIncCopy, staticDecisions, lastDecisions>>
  <2>1. /\ PeriodDecisions <= staticDecisions
        /\ pc = "decide" => PeriodDecisions < staticDecisions
        /\ pc = "report" => PeriodDecisions < staticDecisions
        /\ decisions \in Nat /\ lastDecisions \in Nat /\ staticDecisions \in Nat
    BY <1>3 DEF PeriodKept, IncInv, StaticPhase, Counters
  <2>2. CASE pc = "decide" /\ pc' # "decide" /\ decisions' = decisions + 1
    <3>1. PeriodDecisions < staticDecisions
      BY <2>1, <2>2
    <3>2. lastDecisions' = lastDecisions /\ staticDecisions' = staticDecisions
      BY <1>3
    <3> QED
      BY <2>1, <2>2, <3>1, <3>2
  <2>3. CASE /\ decisions' = decisions
             /\ pc' = "decide" => pc \in {"decide", "report"}
    BY <1>3, <2>1, <2>3
  <2>4. CASE Decide \/ NoneLeft
    BY <2>2, <2>4 DEF Decide, NoneLeft
  <2>5. CASE ~(Decide \/ NoneLeft)
    <3>1. /\ decisions' = decisions
          /\ pc' = "decide" => pc \in {"decide", "report"}
      BY <1>3, <2>5 DEF Next, Imply, Conflict, NoConflict, Report, NoReport, Restart,
                        Simplify
    <3> QED BY <2>3, <3>1
  <2> QED BY <2>4, <2>5
<1> QED
  BY <1>1, <1>2, <1>3, StartsAtRequest

\* Static scores decide as often as was asked for and no more (search counts the
\* decisions since the request), if the controller is on time and asks for at least
\* one decision.
THEOREM HeldAsAsked ==
  ASSUME OnTime, PeriodsAsked
  PROVE  MCSpec => []HeldForPeriod
<1> DEFINE HInv == IncInv /\ Saved /\ PeriodKept
<1>1. MCInit => HInv
  BY AliveInit, SavedInit DEF MCInit, Init, PeriodKept
<1>2. HInv /\ [MCNext]_<<vars, begun>> => HInv'
  <2>1. [MCNext]_<<vars, begun>> => [Next]_vars
    BY DEF MCNext
  <2> QED
    BY <2>1, AliveNext, SavedNext, PeriodNext
<1>3. HInv => HeldForPeriod
  BY DEF Saved, PeriodKept, HeldForPeriod, PeriodDecisions
<1> QED
  <2> HIDE DEF HInv
  <2> QED BY <1>1, <1>2, <1>3, PTL DEF MCSpec

-----------------------------------------------------------------------------
\* Heaps whose indices are right.
GoodHeaps == {h \in [heap : Seq(Vars), index : [Vars -> Nat]] : IndexAgrees(h)}

\* From place i a variable moves along next through the places of P to the end of the
\* path, and those it passes take one another's places.
Path(i, P, next) == {i} \cup {next[k] : k \in P}
Chain(h, i, P, next, end) ==
  /\ i \in Places(h)
  /\ next \in [P -> Places(h)]
  /\ P \subseteq Path(i, P, next)
  /\ \A k \in P : next[k] # i
  /\ \A k, m \in P : next[k] = next[m] => k = m
  /\ end \in Path(i, P, next) \ P
  /\ \A k \in Path(i, P, next) \ P : k = end

Moved(h, i, P, next) ==
  [k \in Places(h) |-> IF k \in P THEN h.heap[next[k]]
                       ELSE IF k \in Path(i, P, next) THEN h.heap[i] ELSE h.heap[k]]

\* A heap in which a variable has moved keeps its variables and finds them.
LEMMA MovedAgrees ==
  ASSUME NEW h \in GoodHeaps, NEW i, NEW P, NEW next, NEW end, Chain(h, i, P, next, end)
  PROVE  /\ Rewritten(h, Moved(h, i, P, next), Path(i, P, next)) \in GoodHeaps
         /\ Elements(Rewritten(h, Moved(h, i, P, next), Path(i, P, next))) = Elements(h)
<1> DEFINE path == Path(i, P, next)
           q == Moved(h, i, P, next)
           from == [k \in Places(h) |-> IF k \in P THEN next[k]
                                        ELSE IF k \in path THEN i ELSE k]
           g == Rewritten(h, q, path)
<1>1. /\ h.heap \in Seq(Vars) /\ h.index \in [Vars -> Nat]
      /\ \A k \in Places(h) : h.heap[k] \in Vars /\ h.index[h.heap[k]] = k
      /\ \A v \in Vars : h.index[v] # 0 => h.index[v] \in Places(h) /\ h.heap[h.index[v]] = v
      /\ Len(h.heap) \in Nat
  <2>1. h.heap \in Seq(Vars) /\ h.index \in [Vars -> Nat] /\ Len(h.heap) \in Nat
    BY DEF GoodHeaps
  <2>2. \A k \in Places(h) : h.heap[k] \in Vars
    BY <2>1 DEF Places
  <2> QED BY <2>1, <2>2 DEF GoodHeaps, IndexAgrees, InHeap
<1>2. path \subseteq Places(h) /\ P \subseteq path
  BY DEF Chain, Path
<1>3. \A k \in Places(h) : /\ from[k] \in Places(h)
                           /\ q[k] = h.heap[from[k]]
                           /\ (k \in path <=> from[k] \in path)
  BY <1>2 DEF Chain, Path, Moved
<1>4. \A k, m \in Places(h) : from[k] = from[m] => k = m
  BY <1>2 DEF Chain, Path
<1>5. \A m \in Places(h) : \E k \in Places(h) : from[k] = m
  <2> SUFFICES ASSUME NEW m \in Places(h) PROVE \E k \in Places(h) : from[k] = m
    OBVIOUS
  <2>1. CASE m \notin path
    BY <1>2, <2>1
  <2>2. CASE m = i
    <3>1. end \in path /\ end \notin P /\ end \in Places(h)
      BY <1>2 DEF Chain
    <3> QED BY <2>2, <3>1
  <2>3. CASE m \in path /\ m # i
    <3>1. PICK k \in P : next[k] = m
      BY <2>3 DEF Path
    <3> QED BY <1>2, <3>1
  <2> QED BY <2>1, <2>2, <2>3
<1>6. \A k, m \in Places(h) : q[k] = q[m] => k = m
  <2>1. \A k, m \in Places(h) : h.heap[k] = h.heap[m] => k = m
    BY <1>1
  <2> QED BY <1>3, <1>4, <2>1
<1>7. q \in Seq(Vars) /\ Len(q) = Len(h.heap) /\ \A k \in Places(h) : q[k] \in Vars
  <2>1. \A k \in Places(h) : q[k] \in Vars
    BY <1>1, <1>3
  <2>2. q \in [1 .. Len(h.heap) -> Vars]
    <3>1. q = [k \in Places(h) |-> q[k]]
      BY DEF Moved
    <3> HIDE DEF q
    <3> QED BY <2>1, <3>1 DEF Places
  <2> HIDE DEF q
  <2> QED BY <1>1, <2>1, <2>2
<1> HIDE DEF q, from, path
<1>8. /\ g.heap = q
      /\ g.index = [v \in Vars |-> IF \E k \in path : q[k] = v
                                   THEN CHOOSE k \in path : q[k] = v ELSE h.index[v]]
      /\ g = [heap |-> g.heap, index |-> g.index]
  BY DEF Rewritten
<1> HIDE DEF g
<1>9. Places(g) = Places(h)
  BY <1>7, <1>8 DEF Places
<1>10. ASSUME NEW k \in Places(h) PROVE g.index[q[k]] = k
  <2>1. CASE k \in path
    BY <1>2, <1>6, <1>7, <1>8, <2>1
  <2>2. CASE k \notin path
    <3>1. ~\E m \in path : q[m] = q[k]
      BY <1>2, <1>6, <2>2
    <3>2. q[k] = h.heap[k]
      BY <1>3, <2>2 DEF from, path, Path
    <3> QED BY <1>1, <1>7, <1>8, <3>1, <3>2
  <2> QED BY <2>1, <2>2
<1>11. ASSUME NEW v \in Vars PROVE /\ g.index[v] \in Nat
                                   /\ g.index[v] # 0 => g.index[v] \in Places(h) /\ q[g.index[v]] = v
  <2>1. CASE \E k \in path : q[k] = v
    BY <1>1, <1>2, <1>10, <2>1 DEF Places
  <2>2. CASE ~\E k \in path : q[k] = v
    <3>1. g.index[v] = h.index[v]
      BY <1>8, <2>2
    <3>2. ASSUME h.index[v] # 0 PROVE h.index[v] \in Places(h) /\ q[h.index[v]] = v
      <4> DEFINE m == h.index[v]
      <4>1. m \in Places(h) /\ h.heap[m] = v
        BY <1>1, <3>2
      <4>2. PICK k \in Places(h) : from[k] = m
        BY <1>5, <4>1
      <4>3. q[k] = v
        BY <1>3, <4>1, <4>2
      <4>4. k \notin path
        BY <2>2, <4>3
      <4>5. k = m
        BY <1>2, <4>2, <4>4 DEF from
      <4> QED BY <4>1, <4>3, <4>5
    <3> QED BY <1>1, <3>1, <3>2
  <2> QED BY <2>1, <2>2
<1>12. g.index \in [Vars -> Nat]
  BY <1>8, <1>11
<1>13. g \in GoodHeaps
  BY <1>7, <1>8, <1>9, <1>10, <1>11, <1>12 DEF GoodHeaps, IndexAgrees, InHeap
<1>14. Elements(g) = Elements(h)
  <2>1. Elements(g) = {q[k] : k \in Places(h)} /\ Elements(h) = {h.heap[k] : k \in Places(h)}
    BY <1>7, <1>8 DEF Elements, Places
  <2>2. \A k \in Places(h) : \E m \in Places(h) : q[k] = h.heap[m]
    BY <1>3
  <2>3. \A m \in Places(h) : \E k \in Places(h) : q[k] = h.heap[m]
    BY <1>3, <1>5
  <2> QED BY <2>1, <2>2, <2>3
<1> QED BY <1>13, <1>14 DEF g, q, path

-----------------------------------------------------------------------------
\* The tree in the sequence.
LEMMA Tree ==
  /\ \A k \in Nat : k > 1 => Parent(k) \in Nat /\ 1 <= Parent(k) /\ Parent(k) < k
  /\ \A k \in Nat : k > 0 => /\ Left(k) \in Nat /\ Left(k) > k /\ Parent(Left(k)) = k
                             /\ Right(k) \in Nat /\ Right(k) > k /\ Parent(Right(k)) = k
  /\ \A k \in Nat : k > 1 => k = Left(Parent(k)) \/ k = Right(Parent(k))
  BY DEF Parent, Left, Right

\* The places that the variable x passes on its way up from k.
UpChain(h, act, x, k, P) ==
  /\ P \subseteq 2 .. k
  /\ \A m \in P : Above(act, x, h.heap[Parent(m)])
  /\ \E end \in 1 .. k : /\ Chain(h, k, P, [m \in P |-> Parent(m)], end)
                         /\ end = 1 \/ ~Above(act, x, h.heap[Parent(end)])

\* A variable stays where its parent is not smaller, ...
LEMMA UpChainStarts ==
  ASSUME NEW h \in GoodHeaps, NEW act, NEW x, NEW k \in Places(h),
         k = 1 \/ ~Above(act, x, h.heap[Parent(k)])
  PROVE  UpChain(h, act, x, k, {})
<1>1. k \in Nat /\ k >= 1
  BY DEF GoodHeaps, Places
<1>2. Chain(h, k, {}, [m \in {} |-> Parent(m)], k)
  BY DEF Chain, Path
<1> QED BY <1>1, <1>2 DEF UpChain

\* ... and passes its parent otherwise.
LEMMA UpChainGoesOn ==
  ASSUME NEW h \in GoodHeaps, NEW act, NEW x, NEW k \in Places(h), k # 1,
         Above(act, x, h.heap[Parent(k)]), NEW P, UpChain(h, act, x, Parent(k), P)
  PROVE  UpChain(h, act, x, k, {k} \cup P)
<1> DEFINE j == Parent(k)
           Q == {k} \cup P
           up == [m \in P |-> Parent(m)]
           next == [m \in Q |-> Parent(m)]
<1>1. k \in Nat /\ k > 1 /\ j \in Nat /\ 1 <= j /\ j < k /\ j \in Places(h)
  BY Tree DEF GoodHeaps, Places
<1>2. PICK end \in 1 .. j : /\ Chain(h, j, P, up, end)
                            /\ end = 1 \/ ~Above(act, x, h.heap[Parent(end)])
  BY DEF UpChain
<1>3. P \subseteq 2 .. j /\ \A m \in P : Above(act, x, h.heap[Parent(m)])
  BY DEF UpChain
<1>4. \A m \in P : m \in Nat /\ m < k /\ Parent(m) \in Nat /\ Parent(m) < j
  BY <1>1, <1>3, Tree
<1> HIDE DEF j
<1>5. Path(k, Q, next) = {k} \cup Path(j, P, up)
  <2>1. next[k] = j /\ \A m \in P : next[m] = up[m]
    BY DEF j
  <2> HIDE DEF next, up
  <2> QED BY <2>1 DEF Path
<1>6. Chain(h, k, Q, next, end)
  <2>1. next \in [Q -> Places(h)]
    <3>1. \A m \in P : Parent(m) \in Places(h)
      BY <1>2 DEF Chain
    <3> QED BY <1>1, <3>1 DEF j
  <2>2. Q \subseteq Path(k, Q, next)
    BY <1>2, <1>5 DEF Chain
  <2>3. \A m \in Q : next[m] # k
    BY <1>1, <1>4 DEF j
  <2>4. \A m, n \in Q : next[m] = next[n] => m = n
    <3>1. \A m, n \in P : Parent(m) = Parent(n) => m = n
      BY <1>2 DEF Chain
    <3>2. \A m \in P : Parent(m) # Parent(k)
      BY <1>1, <1>4 DEF j
    <3> QED BY <3>1, <3>2
  <2>5. end \in Path(k, Q, next) \ Q
    BY <1>1, <1>2, <1>5 DEF Chain
  <2>6. \A m \in Path(k, Q, next) \ Q : m = end
    BY <1>2, <1>5 DEF Chain
  <2> HIDE DEF next, Q
  <2> QED BY <2>1, <2>2, <2>3, <2>4, <2>5, <2>6 DEF Chain
<1>7. Q \subseteq 2 .. k /\ \A m \in Q : Above(act, x, h.heap[Parent(m)])
  BY <1>1, <1>3
<1>8. end \in 1 .. k
  BY <1>1
<1> QED BY <1>2, <1>6, <1>7, <1>8 DEF UpChain

\* percolateUp moves a variable up past those it is above.
LEMMA UpMoves ==
  ASSUME NEW h \in GoodHeaps, NEW act, NEW i \in Places(h)
  PROVE  \E P : LET next == [k \in P |-> Parent(k)] IN
           /\ UpChain(h, act, h.heap[i], i, P)
           /\ PercolateUp(h, act, i) = Rewritten(h, Moved(h, i, P, next), Path(i, P, next))
<1> DEFINE x == h.heap[i]
           W == SUBSET Nat
           On(k, f) == IF k # 1 /\ Above(act, x, h.heap[Parent(k)])
                       THEN {k} \cup f[Parent(k)] ELSE {}
           step == [k \in 1 .. i |-> [f \in [1 .. i -> W] |-> On(k, f)]]
           Is(f) == f = [k \in 1 .. i |-> IF k # 1 /\ Above(act, x, h.heap[Parent(k)])
                                          THEN {k} \cup f[Parent(k)] ELSE {}]
           passed == CHOOSE f : Is(f)
<1>1. i \in Nat /\ i >= 1 /\ \A k \in 1 .. i : k \in Places(h) /\ (k # 1 => Parent(k) \in 1 .. k - 1)
  <2>1. i \in Nat /\ i >= 1 /\ \A k \in 1 .. i : k \in Places(h)
    BY DEF GoodHeaps, Places
  <2>2. ASSUME NEW k \in 1 .. i, k # 1 PROVE Parent(k) \in 1 .. k - 1
    <3>1. k \in Nat /\ k > 1
      BY <2>1, <2>2
    <3> QED BY <3>1, Tree
  <2> QED BY <2>1, <2>2
<1>2. \A k \in 1 .. i : \A f \in [1 .. i -> W] : On(k, f) \in W
  <2> SUFFICES ASSUME NEW k \in 1 .. i, NEW f \in [1 .. i -> W], k # 1
               PROVE  {k} \cup f[Parent(k)] \in W
    OBVIOUS
  <2>1. Parent(k) \in 1 .. i /\ k \in Nat
    BY <1>1
  <2> QED BY <2>1
<1>3. \E f \in [1 .. i -> W] : \A k \in 1 .. i : f[k] = On(k, f)
  <2>1. step \in [1 .. i -> [[1 .. i -> W] -> W]]
    BY <1>2
  <2>2. \A k \in 1 .. i : \A f, g \in [1 .. i -> W] :
          (\A m \in 1 .. k - 1 : f[m] = g[m]) => On(k, f) = On(k, g)
    BY <1>1
  <2>3. \A k \in 1 .. i : \A f \in [1 .. i -> W] : step[k][f] = On(k, f)
    OBVIOUS
  <2>4. {} \in W
    OBVIOUS
  <2> HIDE DEF step, On, W
  <2>5. \A k \in 1 .. i : \A f, g \in [1 .. i -> W] :
          (\A m \in 1 .. k - 1 : f[m] = g[m]) => step[k][f] = step[k][g]
    <3> SUFFICES ASSUME NEW k \in 1 .. i, NEW f \in [1 .. i -> W], NEW g \in [1 .. i -> W],
                        \A m \in 1 .. k - 1 : f[m] = g[m]
                 PROVE  step[k][f] = step[k][g]
      OBVIOUS
    <3>1. On(k, f) = On(k, g)
      BY <2>2
    <3> QED BY <2>3, <3>1
  <2>6. \E f \in [1 .. i -> W] : \A k \in 1 .. i : f[k] = step[k][f]
    <3>1. i \in Nat
      BY <1>1
    <3>2. LooksBack(i, W, step)
      BY <2>1, <2>5 DEF LooksBack
    <3> QED BY <2>4, <3>1, <3>2, EarlierRecursion
  <2> QED BY <2>3, <2>6
<1>4. Is(passed)
  <2>1. PICK f \in [1 .. i -> W] : \A k \in 1 .. i : f[k] = On(k, f)
    BY <1>3
  <2>2. Is(f)
    BY <2>1
  <2> HIDE DEF Is
  <2> QED BY <2>2
<1>5. \A k \in 1 .. i : passed[k] = IF k # 1 /\ Above(act, x, h.heap[Parent(k)])
                                    THEN {k} \cup passed[Parent(k)] ELSE {}
  <2> HIDE DEF passed
  <2> QED BY <1>4
<1>6. PercolateUp(h, act, i) =
        Rewritten(h, Moved(h, i, passed[i], [k \in passed[i] |-> Parent(k)]),
                  Path(i, passed[i], [k \in passed[i] |-> Parent(k)]))
  <2> DEFINE path == {i} \cup {Parent(k) : k \in passed[i]}
  <2>1. PercolateUp(h, act, i) =
          Rewritten(h, [k \in Places(h) |->
                         IF k \in passed[i] THEN h.heap[Parent(k)]
                         ELSE IF k \in path THEN x ELSE h.heap[k]], path)
    BY DEF PercolateUp
  <2> HIDE DEF passed
  <2>2. path = Path(i, passed[i], [k \in passed[i] |-> Parent(k)])
    BY DEF Path
  <2> HIDE DEF path
  <2> QED BY <2>1, <2>2 DEF Moved
<1> HIDE DEF passed
<1> DEFINE T == {k \in 0 .. i : \A m \in 1 .. k : UpChain(h, act, x, m, passed[m])}
<1>7. 0 \in T
  BY <1>1
<1>8. ASSUME NEW k \in 0 .. i - 1, k \in T PROVE k + 1 \in T
  <2>1. k + 1 \in 1 .. i /\ k + 1 \in Places(h)
    BY <1>1
  <2>2. CASE k + 1 # 1 /\ Above(act, x, h.heap[Parent(k + 1)])
    <3>1. Parent(k + 1) \in 1 .. k
      BY <1>1, <2>1, <2>2
    <3>2. UpChain(h, act, x, Parent(k + 1), passed[Parent(k + 1)])
      BY <1>8, <3>1
    <3>3. passed[k + 1] = {k + 1} \cup passed[Parent(k + 1)]
      BY <1>5, <2>1, <2>2
    <3>4. UpChain(h, act, x, k + 1, passed[k + 1])
      BY <2>1, <2>2, <3>2, <3>3, UpChainGoesOn
    <3> QED BY <1>1, <1>8, <2>1, <3>4
  <2>3. CASE ~(k + 1 # 1 /\ Above(act, x, h.heap[Parent(k + 1)]))
    <3>1. passed[k + 1] = {}
      BY <1>5, <2>1, <2>3
    <3>2. UpChain(h, act, x, k + 1, passed[k + 1])
      BY <2>1, <2>3, <3>1, UpChainStarts
    <3> QED BY <1>1, <1>8, <2>1, <3>2
  <2> QED BY <2>2, <2>3
<1>9. UpChain(h, act, x, i, passed[i])
  <2> HIDE DEF T
  <2>1. \A k \in 0 .. i : k \in T
    BY <1>1, <1>7, <1>8, UpInduction
  <2> QED BY <1>1, <2>1 DEF T
<1> QED BY <1>6, <1>9

-----------------------------------------------------------------------------
\* The larger child is a child, and no smaller than the other.
LEMMA ChildIs ==
  ASSUME NEW h \in GoodHeaps, NEW act, NEW k \in Places(h), Left(k) \in Places(h)
  PROVE  /\ LargerChild(h, act, k) \in Places(h)
         /\ LargerChild(h, act, k) > k
         /\ Parent(LargerChild(h, act, k)) = k
<1>1. k \in Nat /\ k > 0
  BY DEF GoodHeaps, Places
<1>2. CASE Right(k) \in Places(h) /\ Above(act, h.heap[Right(k)], h.heap[Left(k)])
  BY <1>1, <1>2, Tree DEF LargerChild
<1>3. CASE ~(Right(k) \in Places(h) /\ Above(act, h.heap[Right(k)], h.heap[Left(k)]))
  <2>1. LargerChild(h, act, k) = Left(k)
    BY <1>3 DEF LargerChild
  <2> QED BY <1>1, <2>1, Tree
<1> QED BY <1>2, <1>3

\* A larger child of k is above x.
Sinks(h, act, x, k) == /\ Left(k) \in Places(h)
                       /\ Above(act, h.heap[LargerChild(h, act, k)], x)

\* The places that the variable x passes on its way down from k.
DownChain(h, act, x, k, P) ==
  /\ P \subseteq k .. Len(h.heap)
  /\ \A m \in P : Sinks(h, act, x, m)
  /\ \E end \in k .. Len(h.heap) :
       /\ Chain(h, k, P, [m \in P |-> LargerChild(h, act, m)], end)
       /\ ~Sinks(h, act, x, end)

\* A variable stays where no child is larger, ...
LEMMA DownChainStarts ==
  ASSUME NEW h \in GoodHeaps, NEW act, NEW x, NEW k \in Places(h), ~Sinks(h, act, x, k)
  PROVE  DownChain(h, act, x, k, {})
<1>1. k \in Nat /\ k \in k .. Len(h.heap)
  BY DEF GoodHeaps, Places
<1>2. Chain(h, k, {}, [m \in {} |-> LargerChild(h, act, m)], k)
  BY DEF Chain, Path
<1> QED BY <1>1, <1>2 DEF DownChain

\* ... and passes the larger child otherwise.
LEMMA DownChainGoesOn ==
  ASSUME NEW h \in GoodHeaps, NEW act, NEW x, NEW k \in Places(h), Sinks(h, act, x, k),
         NEW P, DownChain(h, act, x, LargerChild(h, act, k), P)
  PROVE  DownChain(h, act, x, k, {k} \cup P)
<1> DEFINE j == LargerChild(h, act, k)
           Q == {k} \cup P
           down == [m \in P |-> LargerChild(h, act, m)]
           next == [m \in Q |-> LargerChild(h, act, m)]
<1>0. Len(h.heap) \in Nat /\ Places(h) = 1 .. Len(h.heap)
  BY DEF GoodHeaps, Places
<1>1. k \in Nat /\ k >= 1 /\ j \in Nat /\ k < j /\ j \in Places(h)
  BY <1>0, ChildIs DEF Sinks
<1>2. PICK end \in j .. Len(h.heap) : Chain(h, j, P, down, end) /\ ~Sinks(h, act, x, end)
  BY DEF DownChain
<1>3. P \subseteq j .. Len(h.heap) /\ \A m \in P : Sinks(h, act, x, m)
  BY DEF DownChain
<1>4. ASSUME NEW m \in P
      PROVE  m \in Nat /\ k < m /\ LargerChild(h, act, m) \in Nat /\ j < LargerChild(h, act, m)
  <2>1. m \in Places(h) /\ m \in Nat /\ j <= m
    BY <1>0, <1>1, <1>3
  <2>2. LargerChild(h, act, m) \in Places(h) /\ LargerChild(h, act, m) > m
    BY <1>3, <2>1, ChildIs DEF Sinks
  <2> QED BY <1>0, <1>1, <2>1, <2>2
<1> HIDE DEF j
<1>5. Path(k, Q, next) = {k} \cup Path(j, P, down)
  <2>1. next[k] = j /\ \A m \in P : next[m] = down[m]
    BY DEF j
  <2> HIDE DEF next, down
  <2> QED BY <2>1 DEF Path
<1>6. Chain(h, k, Q, next, end)
  <2>1. next \in [Q -> Places(h)]
    <3>1. \A m \in P : LargerChild(h, act, m) \in Places(h)
      BY <1>2 DEF Chain
    <3> QED BY <1>1, <3>1 DEF j
  <2>2. Q \subseteq Path(k, Q, next)
    BY <1>2, <1>5 DEF Chain
  <2>3. \A m \in Q : next[m] # k
    BY <1>1, <1>4 DEF j
  <2>4. \A m, n \in Q : next[m] = next[n] => m = n
    <3>1. \A m, n \in P : LargerChild(h, act, m) = LargerChild(h, act, n) => m = n
      BY <1>2 DEF Chain
    <3>2. \A m \in P : LargerChild(h, act, m) # LargerChild(h, act, k)
      BY <1>1, <1>4 DEF j
    <3> QED BY <3>1, <3>2
  <2>5. end \in Path(k, Q, next) \ Q
    BY <1>1, <1>2, <1>5 DEF Chain
  <2>6. \A m \in Path(k, Q, next) \ Q : m = end
    BY <1>2, <1>5 DEF Chain
  <2> HIDE DEF next, Q
  <2> QED BY <2>1, <2>2, <2>3, <2>4, <2>5, <2>6 DEF Chain
<1>7. Q \subseteq k .. Len(h.heap) /\ \A m \in Q : Sinks(h, act, x, m)
  BY <1>0, <1>1, <1>3, <1>4
<1>8. end \in k .. Len(h.heap)
  BY <1>0, <1>1
<1> QED BY <1>2, <1>6, <1>7, <1>8 DEF DownChain

\* percolateDown moves a variable down past those that are above it.
LEMMA DownMoves ==
  ASSUME NEW h \in GoodHeaps, NEW act, NEW i \in Places(h)
  PROVE  \E P : LET next == [k \in P |-> LargerChild(h, act, k)] IN
           /\ DownChain(h, act, h.heap[i], i, P)
           /\ PercolateDown(h, act, i) = Rewritten(h, Moved(h, i, P, next), Path(i, P, next))
<1> DEFINE x == h.heap[i]
           n == Len(h.heap)
           W == SUBSET Nat
           On(k, f) == IF Left(k) \in Places(h) /\ Above(act, h.heap[LargerChild(h, act, k)], x)
                       THEN {k} \cup f[LargerChild(h, act, k)] ELSE {}
           step == [k \in 1 .. n |-> [f \in [1 .. n -> W] |-> On(k, f)]]
           Is(f) == f = [k \in Places(h) |->
                           IF Left(k) \in Places(h) /\ Above(act, h.heap[LargerChild(h, act, k)], x)
                           THEN {k} \cup f[LargerChild(h, act, k)] ELSE {}]
           passed == CHOOSE f : Is(f)
<1>1. n \in Nat /\ Places(h) = 1 .. n /\ i \in 1 .. n
  BY DEF GoodHeaps, Places
<1>2. \A k \in 1 .. n : Left(k) \in Places(h) => LargerChild(h, act, k) \in k + 1 .. n
  <2> SUFFICES ASSUME NEW k \in 1 .. n, Left(k) \in Places(h)
               PROVE  LargerChild(h, act, k) \in k + 1 .. n
    OBVIOUS
  <2>1. LargerChild(h, act, k) \in Places(h) /\ LargerChild(h, act, k) > k
    BY <1>1, ChildIs
  <2> QED BY <1>1, <2>1
<1>3. \E f \in [1 .. n -> W] : \A k \in 1 .. n : f[k] = On(k, f)
  <2>1. step \in [1 .. n -> [[1 .. n -> W] -> W]]
    <3> SUFFICES ASSUME NEW k \in 1 .. n, NEW f \in [1 .. n -> W] PROVE On(k, f) \in W
      OBVIOUS
    <3>1. k \in Nat
      BY <1>1
    <3>2. CASE Left(k) \in Places(h)
      <4>1. LargerChild(h, act, k) \in 1 .. n
        BY <1>1, <1>2, <3>2
      <4>2. f[LargerChild(h, act, k)] \in W
        BY <4>1
      <4> QED BY <3>1, <4>2
    <3>3. CASE Left(k) \notin Places(h)
      BY <3>3
    <3> QED BY <3>2, <3>3
  <2>2. \A k \in 1 .. n : \A f, g \in [1 .. n -> W] :
          (\A m \in k + 1 .. n : f[m] = g[m]) => On(k, f) = On(k, g)
    BY <1>2
  <2>3. \A k \in 1 .. n : \A f \in [1 .. n -> W] : step[k][f] = On(k, f)
    OBVIOUS
  <2>4. {} \in W
    OBVIOUS
  <2> HIDE DEF step, On, W, n
  <2>5. ASSUME NEW k \in 1 .. n, NEW f \in [1 .. n -> W], NEW g \in [1 .. n -> W],
               \A m \in k + 1 .. n : f[m] = g[m]
        PROVE  step[k][f] = step[k][g]
    <3>1. On(k, f) = On(k, g)
      BY <2>2, <2>5
    <3> QED BY <2>3, <3>1
  <2>6. LooksAhead(n, W, step)
    BY <2>1, <2>5 DEF LooksAhead
  <2>7. \E f \in [1 .. n -> W] : \A k \in 1 .. n : f[k] = step[k][f]
    BY <1>1, <2>4, <2>6, LaterRecursion
  <2> QED BY <2>3, <2>7
<1>4. Is(passed)
  <2>1. PICK f \in [1 .. n -> W] : \A k \in 1 .. n : f[k] = On(k, f)
    BY <1>3
  <2>2. Is(f)
    BY <1>1, <2>1
  <2> HIDE DEF Is
  <2> QED BY <2>2
<1>5. \A k \in 1 .. n : passed[k] = IF Sinks(h, act, x, k)
                                    THEN {k} \cup passed[LargerChild(h, act, k)] ELSE {}
  <2> HIDE DEF passed
  <2> QED BY <1>1, <1>4 DEF Sinks
<1>6. PercolateDown(h, act, i) =
        Rewritten(h, Moved(h, i, passed[i], [k \in passed[i] |-> LargerChild(h, act, k)]),
                  Path(i, passed[i], [k \in passed[i] |-> LargerChild(h, act, k)]))
  <2> DEFINE path == {i} \cup {LargerChild(h, act, k) : k \in passed[i]}
  <2>1. PercolateDown(h, act, i) =
          Rewritten(h, [k \in Places(h) |->
                         IF k \in passed[i] THEN h.heap[LargerChild(h, act, k)]
                         ELSE IF k \in path THEN x ELSE h.heap[k]], path)
    BY DEF PercolateDown
  <2> HIDE DEF passed
  <2>2. path = Path(i, passed[i], [k \in passed[i] |-> LargerChild(h, act, k)])
    BY DEF Path
  <2> HIDE DEF path
  <2> QED BY <2>1, <2>2 DEF Moved
<1> HIDE DEF passed, n
<1> DEFINE T == {k \in 0 .. n : \A m \in k + 1 .. n : DownChain(h, act, x, m, passed[m])}
<1>7. n \in T
  BY <1>1
<1>8. ASSUME NEW k \in 0 .. n - 1, k + 1 \in T PROVE k \in T
  <2>0. k + 1 \in 1 .. n /\ \A m \in k + 1 .. n : m = k + 1 \/ m \in (k + 1) + 1 .. n
    BY <1>1
  <2>1. CASE Sinks(h, act, x, k + 1)
    <3>1. LargerChild(h, act, k + 1) \in (k + 1) + 1 .. n
      BY <1>2, <2>0, <2>1 DEF Sinks
    <3>2. DownChain(h, act, x, LargerChild(h, act, k + 1), passed[LargerChild(h, act, k + 1)])
      BY <1>8, <3>1
    <3>3. passed[k + 1] = {k + 1} \cup passed[LargerChild(h, act, k + 1)]
      BY <1>5, <2>0, <2>1
    <3>4. DownChain(h, act, x, k + 1, passed[k + 1])
      BY <1>1, <2>0, <2>1, <3>2, <3>3, DownChainGoesOn
    <3> QED BY <1>1, <1>8, <2>0, <3>4
  <2>2. CASE ~Sinks(h, act, x, k + 1)
    <3>1. passed[k + 1] = {}
      BY <1>5, <2>0, <2>2
    <3>2. DownChain(h, act, x, k + 1, passed[k + 1])
      BY <1>1, <2>0, <2>2, <3>1, DownChainStarts
    <3> QED BY <1>1, <1>8, <2>0, <3>2
  <2> QED BY <2>1, <2>2
<1>9. DownChain(h, act, x, i, passed[i])
  <2>1. 0 \in T
    <3> HIDE DEF T
    <3>1. \A k \in 0 .. n : k \in T
      BY <1>1, <1>7, <1>8, DownInduction
    <3> QED BY <1>1, <3>1
  <2> QED BY <1>1, <2>1
<1> QED BY <1>6, <1>9

-----------------------------------------------------------------------------
\* What has moved is at the same places.
LEMMA RewrittenIs ==
  ASSUME NEW h \in GoodHeaps, NEW i, NEW P, NEW next
  PROVE  LET g == Rewritten(h, Moved(h, i, P, next), Path(i, P, next)) IN
           Places(g) = Places(h) /\ g.heap = Moved(h, i, P, next)
<1>1. Len(h.heap) \in Nat /\ Places(h) = 1 .. Len(h.heap)
  BY DEF GoodHeaps, Places
<1>2. Len(Moved(h, i, P, next)) = Len(h.heap)
  BY <1>1 DEF Moved
<1> QED BY <1>1, <1>2 DEF Rewritten, Places

\* Percolation keeps the variables, their indices and their number.
LEMMA PercolateAgrees ==
  ASSUME NEW h \in GoodHeaps, NEW act, NEW i \in Places(h)
  PROVE  /\ PercolateUp(h, act, i) \in GoodHeaps
         /\ Elements(PercolateUp(h, act, i)) = Elements(h)
         /\ Places(PercolateUp(h, act, i)) = Places(h)
         /\ PercolateDown(h, act, i) \in GoodHeaps
         /\ Elements(PercolateDown(h, act, i)) = Elements(h)
         /\ Places(PercolateDown(h, act, i)) = Places(h)
<1>1. /\ PercolateUp(h, act, i) \in GoodHeaps
      /\ Elements(PercolateUp(h, act, i)) = Elements(h)
      /\ Places(PercolateUp(h, act, i)) = Places(h)
  <2>1. PICK P : LET next == [k \in P |-> Parent(k)] IN
           /\ UpChain(h, act, h.heap[i], i, P)
           /\ PercolateUp(h, act, i) = Rewritten(h, Moved(h, i, P, next), Path(i, P, next))
    BY UpMoves
  <2> DEFINE next == [k \in P |-> Parent(k)]
  <2>2. PICK end : Chain(h, i, P, next, end)
    BY <2>1 DEF UpChain
  <2> QED BY <2>1, <2>2, MovedAgrees, RewrittenIs
<1>2. /\ PercolateDown(h, act, i) \in GoodHeaps
      /\ Elements(PercolateDown(h, act, i)) = Elements(h)
      /\ Places(PercolateDown(h, act, i)) = Places(h)
  <2>1. PICK P : LET next == [k \in P |-> LargerChild(h, act, k)] IN
           /\ DownChain(h, act, h.heap[i], i, P)
           /\ PercolateDown(h, act, i) = Rewritten(h, Moved(h, i, P, next), Path(i, P, next))
    BY DownMoves
  <2> DEFINE next == [k \in P |-> LargerChild(h, act, k)]
  <2>2. PICK end : Chain(h, i, P, next, end)
    BY <2>1 DEF DownChain
  <2> QED BY <2>1, <2>2, MovedAgrees, RewrittenIs
<1> QED BY <1>1, <1>2

\* Activities at the places of a heap.
LEMMA ValuesAt ==
  ASSUME NEW h \in GoodHeaps, NEW act \in [Vars -> Nat], NEW k \in Places(h)
  PROVE  h.heap[k] \in Vars /\ act[h.heap[k]] \in Nat /\ k \in Nat /\ k >= 1
  BY DEF GoodHeaps, Places

\* A variable that is out of order with its parent only, and whose parent is in order
\* with its children, is put in order by percolateUp.
LEMMA UpOrders ==
  ASSUME NEW h \in GoodHeaps, NEW act \in [Vars -> Nat], NEW i \in Places(h),
         \A j \in Places(h) : j # 1 /\ j # i => ~Above(act, h.heap[j], h.heap[Parent(j)]),
         \A j \in Places(h) : j # 1 /\ Parent(j) = i /\ i # 1
                                => ~Above(act, h.heap[j], h.heap[Parent(i)])
  PROVE  Ordered(PercolateUp(h, act, i), act)
<1> DEFINE x == h.heap[i]
           val == [k \in Places(h) |-> act[h.heap[k]]]
<1>1. PICK P : LET next == [k \in P |-> Parent(k)] IN
                 /\ UpChain(h, act, x, i, P)
                 /\ PercolateUp(h, act, i)
                      = Rewritten(h, Moved(h, i, P, next), Path(i, P, next))
  BY UpMoves
<1> DEFINE next == [k \in P |-> Parent(k)]
           path == Path(i, P, next)
           q == Moved(h, i, P, next)
           g == PercolateUp(h, act, i)
<1>2. PICK end \in 1 .. i : Chain(h, i, P, next, end) /\ (end = 1 \/ ~Above(act, x, h.heap[Parent(end)]))
  BY <1>1 DEF UpChain
<1>3. Places(g) = Places(h) /\ g.heap = q
  BY <1>1, RewrittenIs
<1>4. \A j \in Places(h) : j \in Nat /\ j >= 1 /\ val[j] \in Nat
                           /\ (j # 1 => Parent(j) \in Places(h) /\ Parent(j) < j)
  <2> SUFFICES ASSUME NEW j \in Places(h)
               PROVE  j \in Nat /\ j >= 1 /\ val[j] \in Nat
                      /\ (j # 1 => Parent(j) \in Places(h) /\ Parent(j) < j)
    OBVIOUS
  <2>1. j \in Nat /\ j >= 1 /\ val[j] \in Nat
    BY ValuesAt
  <2>2. ASSUME j # 1 PROVE Parent(j) \in Places(h) /\ Parent(j) < j
    BY <2>1, <2>2, Tree DEF GoodHeaps, Places
  <2> QED BY <2>1, <2>2
<1>5. /\ \A k \in P : k \in Places(h) /\ k # 1 /\ val[Parent(k)] < val[i] /\ Parent(k) \in path /\ Parent(k) # i
      /\ i \in path /\ path \subseteq Places(h) /\ P \subseteq path
      /\ end \in path \ P
      /\ \A k \in path \ P : k = end
  <2>1. P \subseteq path /\ path \subseteq Places(h) /\ i \in path
    BY <1>2 DEF Chain, Path
  <2>2. \A k \in P : k # 1 /\ Above(act, x, h.heap[Parent(k)])
    BY <1>1 DEF UpChain
  <2>3. \A k \in P : Parent(k) \in path /\ Parent(k) # i
    BY <1>2 DEF Chain, Path
  <2>4. \A k \in P : val[Parent(k)] < val[i]
    BY <1>4, <2>1, <2>2, <2>3 DEF Above
  <2> QED BY <1>2, <2>1, <2>2, <2>3, <2>4 DEF Chain
<1>6. end = 1 \/ val[i] <= val[Parent(end)]
  <2>1. end \in Places(h) /\ (end # 1 => Parent(end) \in Places(h))
    BY <1>4, <1>5
  <2>2. act[x] = val[i] /\ val[i] \in Nat
    BY <1>4
  <2>3. ASSUME end # 1 PROVE act[h.heap[Parent(end)]] = val[Parent(end)] /\ val[Parent(end)] \in Nat
    BY <1>4, <2>1, <2>3
  <2> QED BY <1>2, <2>2, <2>3 DEF Above
<1>7. \A j \in Places(h) : j # 1 /\ j # i => val[j] <= val[Parent(j)]
  BY <1>4 DEF Above
<1>8. \A j \in Places(h) : j # 1 /\ Parent(j) = i /\ i # 1 => val[j] <= val[Parent(i)]
  BY <1>4 DEF Above
<1> DEFINE new == [k \in Places(h) |-> IF k \in P THEN val[Parent(k)]
                                       ELSE IF k \in path THEN val[i] ELSE val[k]]
<1>9. \A k \in Places(h) : act[q[k]] = new[k]
  BY <1>4, <1>5 DEF Moved
<1> HIDE DEF val, path, q, g
<1>10. ASSUME NEW j \in Places(h), j # 1 PROVE new[j] <= new[Parent(j)]
  <2>0. j \in Nat /\ Parent(j) \in Places(h) /\ Parent(j) < j /\ val[j] \in Nat
        /\ val[Parent(j)] \in Nat /\ val[i] \in Nat
    BY <1>4, <1>10
  <2>1. CASE j \in P
    <3>1. new[j] = val[Parent(j)] /\ Parent(j) \in path /\ Parent(j) # i /\ val[Parent(j)] < val[i]
      BY <1>5, <2>1
    <3>2. CASE Parent(j) \in P
      <4>1. new[Parent(j)] = val[Parent(Parent(j))] /\ Parent(j) # 1
        BY <1>5, <2>0, <3>2
      <4> QED BY <1>7, <2>0, <3>1, <4>1
    <3>3. CASE Parent(j) \notin P
      <4>1. new[Parent(j)] = val[i]
        BY <2>0, <3>1, <3>3
      <4> QED BY <2>0, <3>1, <4>1
    <3> QED BY <3>2, <3>3
  <2>2. CASE j \in path \ P
    <3>1. j = end /\ new[j] = val[i]
      BY <1>5, <2>2
    <3>2. val[i] <= val[Parent(j)]
      BY <1>6, <1>10, <3>1
    <3>3. CASE Parent(j) \in P
      <4>1. Parent(j) # i
        BY <1>4, <2>0, <3>1
      <4>2. PICK k \in P : Parent(k) = Parent(j)
        BY <1>5, <3>3, <4>1 DEF path, Path
      <4>3. val[Parent(k)] < val[i]
        BY <1>5
      <4> QED BY <2>0, <3>2, <4>2, <4>3
    <3>4. CASE Parent(j) \in path \ P
      <4>1. Parent(j) = end
        BY <1>5, <3>4
      <4> QED BY <2>0, <3>1, <4>1
    <3>5. CASE Parent(j) \notin path
      <4>1. new[Parent(j)] = val[Parent(j)]
        BY <1>5, <2>0, <3>5
      <4> QED BY <3>1, <3>2, <4>1
    <3> QED BY <3>3, <3>4, <3>5
  <2>3. CASE j \notin path
    <3>1. new[j] = val[j] /\ j # i
      BY <1>5, <2>3
    <3>2. CASE Parent(j) \in P
      <4>1. new[Parent(j)] = val[Parent(Parent(j))] /\ Parent(j) # 1
        BY <1>5, <2>0, <3>2
      <4>2. CASE Parent(j) = i
        BY <1>8, <1>10, <3>1, <4>1, <4>2
      <4>3. CASE Parent(j) # i
        <5>1. val[j] <= val[Parent(j)] /\ val[Parent(j)] <= val[Parent(Parent(j))]
          BY <1>7, <1>10, <2>0, <3>1, <4>1, <4>3
        <5>2. val[Parent(Parent(j))] \in Nat
          BY <1>4, <2>0, <4>1
        <5> QED BY <2>0, <3>1, <4>1, <5>1, <5>2
      <4> QED BY <4>2, <4>3
    <3>3. CASE Parent(j) \in path \ P
      <4>1. new[Parent(j)] = val[i] /\ Parent(j) = end /\ val[j] <= val[Parent(j)]
        BY <1>5, <1>7, <1>10, <2>0, <3>1, <3>3
      <4>2. CASE Parent(j) = i
        BY <3>1, <4>1, <4>2
      <4>3. CASE Parent(j) # i
        <5>1. PICK k \in P : Parent(k) = Parent(j)
          BY <3>3, <4>3 DEF path, Path
        <5>2. val[Parent(j)] < val[i]
          BY <1>5, <5>1
        <5> QED BY <2>0, <3>1, <4>1, <5>2
      <4> QED BY <4>2, <4>3
    <3>4. CASE Parent(j) \notin path
      <4>1. new[Parent(j)] = val[Parent(j)]
        BY <1>5, <2>0, <3>4
      <4> QED BY <1>7, <1>10, <3>1, <4>1
    <3> QED BY <3>2, <3>3, <3>4
  <2> QED BY <2>1, <2>2, <2>3
<1>11. ASSUME NEW j \in Places(h), j # 1 PROVE ~Above(act, q[j], q[Parent(j)])
  <2>1. Parent(j) \in Places(h) /\ new[j] \in Nat /\ new[Parent(j)] \in Nat
    BY <1>4, <1>5, <1>11
  <2>2. new[j] <= new[Parent(j)]
    BY <1>10, <1>11
  <2> HIDE DEF new
  <2> QED BY <1>9, <2>1, <2>2 DEF Above
<1> QED BY <1>3, <1>11 DEF Ordered, g

\* In order from place i downwards.
OrderedFrom(h, act, i) ==
  \A j \in Places(h) : j # 1 /\ Parent(j) >= i => ~Above(act, h.heap[j], h.heap[Parent(j)])

\* If everything below i is in order, percolateDown puts i in order as well.
LEMMA DownOrders ==
  ASSUME NEW h \in GoodHeaps, NEW act \in [Vars -> Nat], NEW i \in Places(h),
         OrderedFrom(h, act, i + 1)
  PROVE  OrderedFrom(PercolateDown(h, act, i), act, i)
<1> DEFINE x == h.heap[i]
           val == [k \in Places(h) |-> act[h.heap[k]]]
           larger == [k \in Places(h) |-> LargerChild(h, act, k)]
<1>1. PICK P : LET next == [k \in P |-> LargerChild(h, act, k)] IN
                 /\ DownChain(h, act, x, i, P)
                 /\ PercolateDown(h, act, i)
                      = Rewritten(h, Moved(h, i, P, next), Path(i, P, next))
  BY DownMoves
<1> DEFINE next == [k \in P |-> LargerChild(h, act, k)]
           path == Path(i, P, next)
           q == Moved(h, i, P, next)
           g == PercolateDown(h, act, i)
<1>2. PICK end \in i .. Len(h.heap) : Chain(h, i, P, next, end) /\ ~Sinks(h, act, x, end)
  BY <1>1 DEF DownChain
<1>3. Places(g) = Places(h) /\ g.heap = q
  BY <1>1, RewrittenIs
<1>4. \A j \in Places(h) : j \in Nat /\ j >= 1 /\ val[j] \in Nat
                           /\ (j # 1 => Parent(j) \in Places(h) /\ Parent(j) < j)
  <2> SUFFICES ASSUME NEW j \in Places(h)
               PROVE  j \in Nat /\ j >= 1 /\ val[j] \in Nat
                      /\ (j # 1 => Parent(j) \in Places(h) /\ Parent(j) < j)
    OBVIOUS
  <2>1. j \in Nat /\ j >= 1 /\ val[j] \in Nat
    BY ValuesAt
  <2>2. ASSUME j # 1 PROVE Parent(j) \in Places(h) /\ Parent(j) < j
    BY <2>1, <2>2, Tree DEF GoodHeaps, Places
  <2> QED BY <2>1, <2>2
<1>5. /\ \A k \in P : k \in Places(h) /\ k >= i /\ Left(k) \in Places(h)
                      /\ larger[k] \in path /\ larger[k] # i
      /\ i \in path /\ path \subseteq Places(h) /\ P \subseteq path
      /\ \A k \in path \ {i} : \E m \in P : k = larger[m]
      /\ end \in path \ P /\ end >= i
      /\ \A k \in path \ P : k = end
  <2>1. P \subseteq path /\ path \subseteq Places(h) /\ i \in path
    BY <1>2 DEF Chain, Path
  <2>2. \A k \in P : k \in Places(h) /\ larger[k] = next[k]
    BY <2>1
  <2>3. \A k \in P : larger[k] \in path /\ larger[k] # i
    BY <1>2, <2>2 DEF Chain, Path
  <2>4. \A k \in P : k >= i /\ Left(k) \in Places(h)
    BY <1>1, <1>4, <2>1 DEF DownChain, Sinks
  <2>5. \A k \in path \ {i} : \E m \in P : k = larger[m]
    BY <2>2 DEF Path
  <2>6. end >= i
    BY <1>2, <1>4
  <2> QED BY <1>2, <2>1, <2>2, <2>3, <2>4, <2>5, <2>6 DEF Chain
\* The larger child is a child, and no smaller than its sibling.
<1>6. ASSUME NEW k \in Places(h), Left(k) \in Places(h)
      PROVE  /\ larger[k] \in Places(h) /\ larger[k] # 1 /\ Parent(larger[k]) = k
             /\ \A j \in Places(h) : j # 1 /\ Parent(j) = k => val[j] <= val[larger[k]]
  <2>1. larger[k] \in Places(h) /\ larger[k] # 1 /\ Parent(larger[k]) = k
    <3>1. LargerChild(h, act, k) \in Places(h) /\ LargerChild(h, act, k) > k
          /\ Parent(LargerChild(h, act, k)) = k
      BY <1>6, ChildIs
    <3>2. larger[k] = LargerChild(h, act, k) /\ k \in Nat /\ k >= 1
      BY <1>4
    <3> HIDE DEF larger
    <3>3. larger[k] \in Nat
      BY <1>4, <3>1, <3>2
    <3> QED BY <3>1, <3>2, <3>3
  <2>2. ASSUME NEW j \in Places(h), j # 1, Parent(j) = k PROVE val[j] <= val[larger[k]]
    <3>1. j = Left(k) \/ j = Right(k)
      BY <1>4, <2>2, Tree
    <3>2. CASE Right(k) \in Places(h)
      <4>1. val[Right(k)] \in Nat /\ val[Left(k)] \in Nat
        BY <1>4, <1>6, <3>2
      <4>2. larger[k] = IF val[Right(k)] > val[Left(k)] THEN Right(k) ELSE Left(k)
        BY <1>6, <3>2 DEF LargerChild, Above
      <4> HIDE DEF larger, val
      <4> QED BY <3>1, <4>1, <4>2
    <3>3. CASE Right(k) \notin Places(h)
      <4>1. j = Left(k) /\ larger[k] = Left(k)
        BY <2>2, <3>1, <3>3 DEF LargerChild
      <4> QED BY <1>4, <1>6, <4>1
    <3> QED BY <3>2, <3>3
  <2> QED BY <2>1, <2>2
<1>7. \A k \in P : val[larger[k]] > val[i]
  BY <1>1, <1>5, <1>6 DEF DownChain, Sinks, Above
<1>8. ASSUME Left(end) \in Places(h) PROVE val[larger[end]] <= val[i]
  <2>1. ~Above(act, h.heap[larger[end]], x) /\ larger[end] \in Places(h)
    BY <1>2, <1>5, <1>6, <1>8 DEF Sinks
  <2>2. val[larger[end]] \in Nat /\ val[i] \in Nat
    BY <1>4, <2>1
  <2> QED BY <2>1, <2>2 DEF Above
<1>9. \A j \in Places(h) : j # 1 /\ Parent(j) >= i + 1 => val[j] <= val[Parent(j)]
  BY <1>4 DEF Above, OrderedFrom
<1> DEFINE new == [k \in Places(h) |-> IF k \in P THEN val[larger[k]]
                                       ELSE IF k \in path THEN val[i] ELSE val[k]]
<1>10. \A k \in Places(h) : act[q[k]] = new[k]
  BY <1>4, <1>5 DEF Moved
<1> HIDE DEF val, larger, path, q, g
<1>11. ASSUME NEW j \in Places(h), j # 1, Parent(j) >= i PROVE new[j] <= new[Parent(j)]
  <2> DEFINE p == Parent(j)
  <2>0. j \in Nat /\ p \in Places(h) /\ p < j /\ p \in Nat /\ val[j] \in Nat
        /\ val[p] \in Nat /\ val[i] \in Nat /\ i \in Nat /\ j # i
    BY <1>4, <1>11
  <2>1. CASE p \in P
    <3>1. /\ new[p] = val[larger[p]] /\ val[j] <= val[larger[p]] /\ val[larger[p]] > val[i]
          /\ val[larger[p]] \in Nat /\ larger[p] \in Places(h)
      BY <1>4, <1>5, <1>6, <1>7, <1>11, <2>0, <2>1
    <3>2. CASE j \in P
      <4>1. new[j] = val[larger[j]] /\ Parent(larger[j]) = j /\ larger[j] \in Places(h) /\ larger[j] # 1
        BY <1>5, <1>6, <3>2
      <4>2. val[larger[j]] <= val[j] /\ val[larger[j]] \in Nat
        <5>1. j >= i + 1
          BY <1>11, <2>0
        <5>2. val[larger[j]] <= val[Parent(larger[j])]
          BY <1>9, <4>1, <5>1
        <5> QED BY <1>4, <4>1, <5>2
      <4> QED BY <2>0, <3>1, <4>1, <4>2
    <3>3. CASE j \in path \ P
      BY <2>0, <3>1, <3>3
    <3>4. CASE j \notin path
      <4>1. new[j] = val[j]
        BY <1>5, <3>4
      <4> QED BY <3>1, <4>1
    <3> QED BY <3>2, <3>3, <3>4
  <2>2. CASE p \notin P
    <3>1. j \notin path
      <4>1. SUFFICES ASSUME j \in path PROVE FALSE
        OBVIOUS
      <4>2. PICK m \in P : j = larger[m]
        BY <1>5, <2>0, <4>1
      <4>3. p = m
        BY <1>5, <1>6, <4>2
      <4> QED BY <2>2, <4>3
    <3>2. new[j] = val[j]
      BY <1>5, <3>1
    <3>3. CASE p \in path
      <4>1. p = end /\ new[p] = val[i]
        BY <1>5, <2>0, <2>2, <3>3
      <4>2. Left(end) \in Places(h)
        <5>1. j = Left(p) \/ j = Right(p)
          BY <1>4, <1>11, Tree
        <5>2. Left(p) \in Nat /\ Left(p) >= 1 /\ Left(p) <= j
          BY <1>4, <2>0, <5>1 DEF Left, Right
        <5>3. Len(h.heap) \in Nat
          BY DEF GoodHeaps
        <5> QED BY <2>0, <4>1, <5>2, <5>3 DEF Places
      <4>3. val[j] <= val[larger[end]] /\ val[larger[end]] <= val[i] /\ val[larger[end]] \in Nat
        BY <1>4, <1>6, <1>8, <1>11, <2>0, <4>1, <4>2
      <4> QED BY <2>0, <3>2, <4>1, <4>3
    <3>4. CASE p \notin path
      <4>1. new[p] = val[p] /\ p # i
        BY <1>5, <2>0, <2>2, <3>4
      <4>2. val[j] <= val[p]
        BY <1>9, <1>11, <2>0, <4>1
      <4> QED BY <3>2, <4>1, <4>2
    <3> QED BY <3>3, <3>4
  <2> QED BY <2>1, <2>2
<1>12. ASSUME NEW j \in Places(h), j # 1, Parent(j) >= i PROVE ~Above(act, q[j], q[Parent(j)])
  <2>1. Parent(j) \in Places(h)
    BY <1>4, <1>12
  <2>2. \A k \in Places(h) : new[k] \in Nat
    BY <1>4, <1>5
  <2>3. new[j] <= new[Parent(j)]
    BY <1>11, <1>12
  <2> HIDE DEF new
  <2> QED BY <1>10, <2>1, <2>2, <2>3 DEF Above
<1> QED BY <1>3, <1>12 DEF OrderedFrom, g

-----------------------------------------------------------------------------
\* What the indices of a heap say.
LEMMA GoodIs ==
  ASSUME NEW h \in GoodHeaps
  PROVE  /\ h.heap \in Seq(Vars) /\ h.index \in [Vars -> Nat] /\ Len(h.heap) \in Nat
         /\ Places(h) = 1 .. Len(h.heap)
         /\ \A k \in Places(h) : h.heap[k] \in Vars /\ h.index[h.heap[k]] = k
         /\ \A v \in Vars : h.index[v] # 0 => h.index[v] \in Places(h) /\ h.heap[h.index[v]] = v
<1>1. h.heap \in Seq(Vars) /\ h.index \in [Vars -> Nat] /\ Len(h.heap) \in Nat
  BY DEF GoodHeaps
<1>2. \A k \in Places(h) : h.heap[k] \in Vars
  BY <1>1 DEF Places
<1> QED BY <1>1, <1>2 DEF GoodHeaps, IndexAgrees, InHeap, Places

\* Every place but the first has a parent.
LEMMA Parents ==
  ASSUME NEW h \in GoodHeaps, NEW j \in Places(h)
  PROVE  /\ j \in Nat /\ j >= 1
         /\ j # 1 => Parent(j) \in Places(h) /\ Parent(j) \in Nat /\ 1 <= Parent(j) /\ Parent(j) < j
<1>1. j \in Nat /\ j >= 1 /\ Len(h.heap) \in Nat /\ Places(h) = 1 .. Len(h.heap) /\ j <= Len(h.heap)
  BY GoodIs
<1>2. ASSUME j # 1 PROVE Parent(j) \in Nat /\ 1 <= Parent(j) /\ Parent(j) < j
  <2>1. j \in Nat /\ j > 1
    BY <1>1, <1>2
  <2> QED BY <2>1, Tree
<1>3. ASSUME j # 1 PROVE Parent(j) \in Places(h)
  BY <1>1, <1>2, <1>3
<1> QED BY <1>1, <1>2, <1>3

\* A variable has an index if it is in the heap.
LEMMA InHeapIs ==
  ASSUME NEW h \in GoodHeaps, NEW v \in Vars
  PROVE  InHeap(h, v) <=> v \in Elements(h)
<1>1. InHeap(h, v) => v \in Elements(h)
  BY GoodIs DEF InHeap, Elements
<1>2. ASSUME v \in Elements(h) PROVE InHeap(h, v)
  <2>1. PICK k \in Places(h) : h.heap[k] = v
    BY <1>2 DEF Elements, Places
  <2>2. h.index[v] = k /\ k # 0
    BY <2>1, GoodIs
  <2> QED BY <2>2 DEF InHeap
<1> QED BY <1>1, <1>2

\* All of a heap is in order if it is from place 1.
LEMMA OrderedIs ==
  ASSUME NEW h \in GoodHeaps, NEW act
  PROVE  Ordered(h, act) <=> OrderedFrom(h, act, 1)
<1>1. \A j \in Places(h) : j # 1 => Parent(j) >= 1
  BY Parents
<1> QED BY <1>1 DEF Ordered, OrderedFrom

\* decrease: a variable of the heap, and how it is put in order after a bump.
LEMMA DecreaseKeeps ==
  ASSUME NEW h \in GoodHeaps, NEW act, NEW v \in Elements(h), v \in Vars
  PROVE  Decrease(h, act, v) \in GoodHeaps /\ Elements(Decrease(h, act, v)) = Elements(h)
<1>1. h.index[v] \in Places(h)
  BY InHeapIs, GoodIs DEF InHeap
<1> QED BY <1>1, PercolateAgrees DEF Decrease

\* Raising one activity and moving its variable up keeps the order.
LEMMA DecreaseOrders ==
  ASSUME NEW h \in GoodHeaps, NEW act \in [Vars -> Nat], NEW v \in Elements(h), v \in Vars,
         NEW n \in Nat, Ordered(h, act)
  PROVE  Ordered(Decrease(h, [act EXCEPT ![v] = @ + n], v), [act EXCEPT ![v] = @ + n])
<1> DEFINE new == [act EXCEPT ![v] = @ + n]
           i == h.index[v]
<1>1. i \in Places(h) /\ h.heap[i] = v
  BY InHeapIs, GoodIs DEF InHeap
<1>2. new \in [Vars -> Nat]
  OBVIOUS
<1>3. \A k \in Places(h) : /\ h.heap[k] \in Vars
                           /\ k # i => new[h.heap[k]] = act[h.heap[k]]
                           /\ act[h.heap[k]] \in Nat /\ act[h.heap[k]] <= new[h.heap[k]]
  <2>1. \A k \in Places(h) : h.heap[k] \in Vars /\ (h.heap[k] = v => k = i)
    BY <1>1, GoodIs
  <2> QED BY <2>1
<1> HIDE DEF new, i
<1>4. \A j \in Places(h) : j # 1 => Parent(j) \in Places(h)
  BY Parents
<1>5. \A j \in Places(h) : j # 1 => act[h.heap[j]] <= act[h.heap[Parent(j)]]
  <2> SUFFICES ASSUME NEW j \in Places(h), j # 1 PROVE act[h.heap[j]] <= act[h.heap[Parent(j)]]
    OBVIOUS
  <2>1. ~Above(act, h.heap[j], h.heap[Parent(j)])
    BY DEF Ordered
  <2> QED BY <1>3, <1>4, <2>1 DEF Above
<1>6. ASSUME NEW j \in Places(h), j # 1, j # i
      PROVE  ~Above(new, h.heap[j], h.heap[Parent(j)])
  <2>1. Parent(j) \in Places(h) /\ act[h.heap[j]] <= act[h.heap[Parent(j)]]
    BY <1>4, <1>5, <1>6
  <2>2. new[h.heap[j]] = act[h.heap[j]] /\ act[h.heap[Parent(j)]] <= new[h.heap[Parent(j)]]
    BY <1>3, <1>6, <2>1
  <2>3. new[h.heap[Parent(j)]] \in Nat /\ act[h.heap[Parent(j)]] \in Nat /\ act[h.heap[j]] \in Nat
    BY <1>2, <1>3, <1>6, <2>1
  <2> QED BY <2>1, <2>2, <2>3 DEF Above
<1>7. ASSUME NEW j \in Places(h), j # 1, Parent(j) = i, i # 1
      PROVE  ~Above(new, h.heap[j], h.heap[Parent(i)])
  <2>1. Parent(i) \in Places(h) /\ j # i /\ Parent(i) # i
    BY <1>1, <1>7, Parents
  <2>2. act[h.heap[j]] <= act[h.heap[i]] /\ act[h.heap[i]] <= act[h.heap[Parent(i)]]
    BY <1>1, <1>5, <1>7
  <2>3. new[h.heap[j]] = act[h.heap[j]] /\ new[h.heap[Parent(i)]] = act[h.heap[Parent(i)]]
    BY <1>3, <2>1
  <2>4. act[h.heap[j]] \in Nat /\ act[h.heap[i]] \in Nat /\ act[h.heap[Parent(i)]] \in Nat
    BY <1>1, <1>3, <2>1
  <2> QED BY <2>2, <2>3, <2>4 DEF Above
<1>8. Ordered(PercolateUp(h, new, i), new)
  BY <1>1, <1>2, <1>6, <1>7, UpOrders
<1> QED BY <1>8 DEF Decrease, new, i

\* insert
LEMMA InsertKeeps ==
  ASSUME NEW h \in GoodHeaps, NEW act, NEW v \in Vars, v \notin Elements(h)
  PROVE  /\ Insert(h, act, v) \in GoodHeaps
         /\ Elements(Insert(h, act, v)) = Elements(h) \cup {v}
         /\ act \in [Vars -> Nat] /\ Ordered(h, act) => Ordered(Insert(h, act, v), act)
<1> DEFINE n == Len(h.heap) + 1
           g == [heap |-> Append(h.heap, v), index |-> [h.index EXCEPT ![v] = n]]
<1>1. /\ g.heap \in Seq(Vars) /\ Len(g.heap) = n /\ n \in Nat /\ n >= 1
      /\ g.heap[n] = v
      /\ \A k \in Places(h) : g.heap[k] = h.heap[k] /\ k # n
      /\ Places(g) = Places(h) \cup {n}
  BY GoodIs DEF Places
<1>2. g.index \in [Vars -> Nat]
  BY <1>1, GoodIs
<1>3. h.index[v] = 0 /\ \A k \in Places(h) : h.heap[k] # v
  BY InHeapIs, GoodIs DEF InHeap, Elements
<1>4. g \in GoodHeaps
  <2>1. \A k \in Places(g) : g.index[g.heap[k]] = k
    BY <1>1, <1>3, GoodIs
  <2>2. \A u \in Vars : g.index[u] # 0 => g.index[u] \in Places(g) /\ g.heap[g.index[u]] = u
    BY <1>1, GoodIs
  <2> QED BY <1>1, <1>2, <2>1, <2>2 DEF GoodHeaps, IndexAgrees, InHeap
<1>5. Elements(g) = Elements(h) \cup {v}
  <2>1. Elements(g) = {g.heap[k] : k \in Places(g)} /\ Elements(h) = {h.heap[k] : k \in Places(h)}
    BY DEF Elements, Places
  <2> HIDE DEF g, n
  <2> QED BY <1>1, <2>1
<1> HIDE DEF g, n
<1>6. n \in Places(g) /\ Insert(h, act, v) = PercolateUp(g, act, n)
  BY <1>1 DEF Insert, g, n
<1>7. ASSUME act \in [Vars -> Nat], Ordered(h, act)
      PROVE  Ordered(PercolateUp(g, act, n), act)
  <2>1. ASSUME NEW j \in Places(g), j # 1, j # n
        PROVE  ~Above(act, g.heap[j], g.heap[Parent(j)])
    <3>1. j \in Places(h) /\ Parent(j) \in Places(h)
      BY <1>1, <2>1, Parents
    <3> QED BY <1>1, <1>7, <2>1, <3>1 DEF Ordered
  <2>2. \A j \in Places(g) : j # 1 => Parent(j) # n
    <3> SUFFICES ASSUME NEW j \in Places(g), j # 1 PROVE Parent(j) # n
      OBVIOUS
    <3>1. j \in Nat /\ j <= n /\ j > 1
      BY <1>1, GoodIs DEF n
    <3>2. Parent(j) < j /\ Parent(j) \in Nat
      BY <3>1, Tree
    <3> QED BY <1>1, <3>1, <3>2
  <2> QED BY <1>4, <1>6, <1>7, <2>1, <2>2, UpOrders
<1> QED BY <1>4, <1>5, <1>6, <1>7, PercolateAgrees

\* removeMin
LEMMA RemoveMinKeeps ==
  ASSUME NEW h \in GoodHeaps, NEW act, Elements(h) # {}
  PROVE  /\ Top(h) \in Vars
         /\ RemoveMin(h, act) \in GoodHeaps
         /\ Elements(RemoveMin(h, act)) = Elements(h) \ {Top(h)}
         /\ act \in [Vars -> Nat] /\ Ordered(h, act) => Ordered(RemoveMin(h, act), act)
<1> DEFINE n == Len(h.heap)
           last == h.heap[n]
           g == [heap |-> SubSeq([h.heap EXCEPT ![1] = last], 1, n - 1),
                 index |-> IndexAfterMove(h, last)]
<1>1. n \in Nat /\ n >= 1 /\ Places(h) = 1 .. n
  <2>1. n \in Nat /\ Places(h) = 1 .. n
    BY GoodIs
  <2>2. n # 0
    BY <2>1 DEF Elements
  <2> QED BY <2>1, <2>2
<1>2. last \in Vars /\ Top(h) \in Vars /\ h.index[last] = n /\ h.index[Top(h)] = 1
      /\ h.heap[1] = Top(h) /\ h.heap[n] = last
  BY <1>1, GoodIs DEF Top
<1> HIDE DEF n
<1>3. /\ g.heap \in Seq(Vars) /\ Len(g.heap) = n - 1 /\ Places(g) = 1 .. n - 1
      /\ \A k \in 1 .. n - 1 : g.heap[k] = IF k = 1 THEN last ELSE h.heap[k]
  <2>1. h.heap \in [1 .. n -> Vars]
    BY <1>1, GoodIs DEF n
  <2>2. [h.heap EXCEPT ![1] = last] \in [1 .. n -> Vars]
    BY <1>1, <1>2, <2>1
  <2>3. g.heap = [k \in 1 .. n - 1 |-> [h.heap EXCEPT ![1] = last][k]]
    BY <1>1, <2>1, <2>2
  <2>4. \A k \in 1 .. n - 1 : [h.heap EXCEPT ![1] = last][k] = IF k = 1 THEN last ELSE h.heap[k]
    BY <1>1, <2>1
  <2>5. \A k \in 1 .. n - 1 : g.heap[k] = (IF k = 1 THEN last ELSE h.heap[k]) /\ g.heap[k] \in Vars
    BY <1>1, <2>2, <2>3, <2>4
  <2>6. g.heap \in [1 .. n - 1 -> Vars] /\ n - 1 \in Nat
    <3> DEFINE e == [h.heap EXCEPT ![1] = last]
    <3>1. g.heap = [k \in 1 .. n - 1 |-> e[k]] /\ \A k \in 1 .. n - 1 : e[k] \in Vars
      BY <2>3, <2>5
    <3> HIDE DEF e, g
    <3> QED BY <1>1, <3>1
  <2> HIDE DEF g
  <2> QED BY <2>5, <2>6 DEF Places
<1>4. g.index = [v \in Vars |-> IF v = Top(h) THEN 0 ELSE IF v = last THEN 1 ELSE h.index[v]]
  BY <1>2, GoodIs DEF IndexAfterMove
<1>5. \A k, m \in 1 .. n : h.heap[k] = h.heap[m] => k = m
  BY <1>1, GoodIs
<1>6. g \in GoodHeaps
  <2>1. \A k \in Places(g) : g.index[g.heap[k]] = k
    <3> SUFFICES ASSUME NEW k \in 1 .. n - 1 PROVE g.index[g.heap[k]] = k
      BY <1>3
    <3>0. k \in 1 .. n /\ 1 \in 1 .. n /\ n \in 1 .. n /\ n # 1 /\ n # k
      BY <1>1
    <3>1. CASE k = 1
      <4>1. g.heap[k] = last /\ last # Top(h)
        BY <1>2, <1>3, <1>5, <3>0, <3>1
      <4> QED BY <1>2, <1>4, <3>1, <4>1
    <3>2. CASE k # 1
      <4>1. g.heap[k] = h.heap[k] /\ h.heap[k] # Top(h) /\ h.heap[k] # last
        BY <1>2, <1>3, <1>5, <3>0, <3>2
      <4>2. h.heap[k] \in Vars /\ h.index[h.heap[k]] = k
        BY <1>1, <3>0, GoodIs
      <4> QED BY <1>4, <4>1, <4>2
    <3> QED BY <3>1, <3>2
  <2>2. ASSUME NEW v \in Vars, g.index[v] # 0
        PROVE  g.index[v] \in Places(g) /\ g.heap[g.index[v]] = v
    <3>1. v # Top(h)
      BY <1>4, <2>2
    <3>2. CASE v = last
      <4>1. g.index[v] = 1 /\ n # 1
        BY <1>2, <1>4, <3>1, <3>2
      <4>2. 1 \in 1 .. n - 1
        BY <1>1, <4>1
      <4> QED BY <1>3, <3>2, <4>1, <4>2
    <3>3. CASE v # last
      <4>1. g.index[v] = h.index[v] /\ h.index[v] \in 1 .. n /\ h.heap[h.index[v]] = v
        BY <1>1, <1>4, <2>2, <3>1, <3>3, GoodIs
      <4>2. h.index[v] # 1 /\ h.index[v] # n
        BY <1>2, <3>1, <3>3, <4>1
      <4> QED BY <1>1, <1>3, <4>1, <4>2
    <3> QED BY <3>2, <3>3
  <2>3. g.index \in [Vars -> Nat]
    BY <1>4, GoodIs
  <2> QED BY <1>3, <2>1, <2>2, <2>3 DEF GoodHeaps, IndexAgrees, InHeap
<1>7. Elements(g) = Elements(h) \ {Top(h)}
  <2>1. Elements(g) = {g.heap[k] : k \in 1 .. n - 1} /\ Elements(h) = {h.heap[k] : k \in 1 .. n}
    BY <1>3 DEF Elements, n
  <2>2. \A k \in 1 .. n - 1 : \E m \in 1 .. n : m # 1 /\ g.heap[k] = h.heap[m]
    <3> SUFFICES ASSUME NEW k \in 1 .. n - 1
                 PROVE  \E m \in 1 .. n : m # 1 /\ g.heap[k] = h.heap[m]
      OBVIOUS
    <3>1. CASE k = 1
      <4>1. n \in 1 .. n /\ n # 1
        BY <1>1, <3>1
      <4> QED BY <1>2, <1>3, <3>1, <4>1
    <3>2. CASE k # 1
      <4>1. k \in 1 .. n
        BY <1>1
      <4> QED BY <1>3, <3>2, <4>1
    <3> QED BY <3>1, <3>2
  <2>3. \A m \in 1 .. n : m # 1 => \E k \in 1 .. n - 1 : g.heap[k] = h.heap[m]
    <3> SUFFICES ASSUME NEW m \in 1 .. n, m # 1
                 PROVE  \E k \in 1 .. n - 1 : g.heap[k] = h.heap[m]
      OBVIOUS
    <3>1. CASE m = n
      <4>1. 1 \in 1 .. n - 1
        BY <1>1, <3>1
      <4> QED BY <1>2, <1>3, <3>1, <4>1
    <3>2. CASE m # n
      BY <1>1, <1>3, <3>2
    <3> QED BY <3>1, <3>2
  <2>4. \A m \in 1 .. n : h.heap[m] = Top(h) <=> m = 1
    BY <1>1, <1>2, <1>5
  <2> HIDE DEF g, n
  <2> QED BY <2>1, <2>2, <2>3, <2>4
<1> HIDE DEF g
<1>8. RemoveMin(h, act) = IF n > 2 THEN PercolateDown(g, act, 1) ELSE g
  BY DEF RemoveMin, g, n
<1>9. CASE n > 2
  <2>1. 1 \in Places(g)
    BY <1>1, <1>3, <1>9
  <2>2. ASSUME act \in [Vars -> Nat], Ordered(h, act)
        PROVE  Ordered(PercolateDown(g, act, 1), act)
    <3>1. ASSUME NEW j \in Places(g), j # 1, Parent(j) >= 2
          PROVE  ~Above(act, g.heap[j], g.heap[Parent(j)])
      <4>1. j \in 1 .. n - 1 /\ j \in 1 .. n /\ Parent(j) \in 1 .. n - 1 /\ Parent(j) # 1
        <5>1. Parent(j) \in Places(g) /\ Parent(j) \in Nat
          BY <1>6, <3>1, Parents
        <5> QED BY <1>1, <1>3, <3>1, <5>1
      <4>3. g.heap[j] = h.heap[j] /\ g.heap[Parent(j)] = h.heap[Parent(j)]
        BY <1>3, <3>1, <4>1
      <4> QED BY <1>1, <2>2, <3>1, <4>1, <4>3 DEF Ordered
    <3>2. OrderedFrom(g, act, 1 + 1)
      BY <3>1 DEF OrderedFrom
    <3>3. OrderedFrom(PercolateDown(g, act, 1), act, 1)
      BY <1>6, <2>1, <2>2, <3>2, DownOrders
    <3> QED BY <1>6, <2>1, <3>3, OrderedIs, PercolateAgrees
  <2> QED BY <1>2, <1>6, <1>7, <1>8, <1>9, <2>1, <2>2, PercolateAgrees
<1>10. CASE ~(n > 2)
  <2>1. RemoveMin(h, act) = g
    BY <1>8, <1>10
  <2>2. Ordered(g, act)
    BY <1>1, <1>3, <1>10 DEF Ordered
  <2> QED BY <1>2, <1>6, <1>7, <2>1, <2>2
<1> QED BY <1>9, <1>10

-----------------------------------------------------------------------------
\* build: the heap has the variables that it was given, in order.
LEMMA BuildKeeps ==
  ASSUME NEW h, NEW act, NEW ns \in Seq(Vars),
         \A i, j \in 1 .. Len(ns) : ns[i] = ns[j] => i = j
  PROVE  /\ Build(h, act, ns) \in GoodHeaps
         /\ Elements(Build(h, act, ns)) = {ns[i] : i \in 1 .. Len(ns)}
         /\ act \in [Vars -> Nat] => Ordered(Build(h, act, ns), act)
<1> DEFINE placed == [heap  |-> ns,
                      index |-> [v \in Vars |-> IF \E i \in 1 .. Len(ns) : ns[i] = v
                                                THEN CHOOSE i \in 1 .. Len(ns) : ns[i] = v
                                                ELSE 0]]
           last == Len(ns) \div 2 + 1
           n == last - 1
           Is(f) == f = [i \in 1 .. last |-> IF i = last THEN placed
                                             ELSE PercolateDown(f[i + 1], act, i)]
           down == CHOOSE f : Is(f)
           S == {g \in GoodHeaps : Places(g) = Places(placed) /\ Elements(g) = Elements(placed)}
           step == [j \in 0 .. n - 1 |-> [g \in S |-> PercolateDown(g, act, j + 1)]]
<1>1. /\ Len(ns) \in Nat /\ n \in Nat /\ last = n + 1 /\ 2 * n <= Len(ns) /\ Len(ns) < 2 * (n + 1)
      /\ Places(placed) = 1 .. Len(ns)
      /\ \A i \in 1 .. Len(ns) : ns[i] \in Vars
  BY DEF Places
<1>2. placed \in GoodHeaps
  <2>1. \A i \in 1 .. Len(ns) : placed.index[ns[i]] = i
    BY <1>1
  <2>2. \A v \in Vars : placed.index[v] # 0 =>
           placed.index[v] \in Places(placed) /\ ns[placed.index[v]] = v
    BY <1>1
  <2>3. placed.index \in [Vars -> Nat]
    BY <1>1
  <2> QED BY <1>1, <2>1, <2>2, <2>3 DEF GoodHeaps, IndexAgrees, InHeap
<1>3. Elements(placed) = {ns[i] : i \in 1 .. Len(ns)}
  BY DEF Elements
<1>4. Build(h, act, ns) = down[1]
  BY DEF Build
<1> HIDE DEF placed, last
<1>5. \A j \in 0 .. n - 1 : j + 1 \in Places(placed)
  BY <1>1
<1> HIDE DEF n
<1>6. step \in Steps(n, S)
  <2>1. \A j \in 0 .. n - 1 : \A g \in S : PercolateDown(g, act, j + 1) \in S
    BY <1>5, PercolateAgrees
  <2> QED BY <2>1 DEF Steps
<1>7. placed \in S
  BY <1>2
<1>8. PICK f : GoesDown(f, n, S, placed, step)
  <2> HIDE DEF S, step
  <2> QED BY <1>1, <1>6, <1>7, DownRecursion
<1>9. Is([i \in 1 .. last |-> f[i - 1]])
  <2>1. ASSUME NEW i \in 1 .. last, i # last
        PROVE  f[i - 1] = PercolateDown(f[i], act, i)
    <3>1. i - 1 \in 0 .. n - 1 /\ (i - 1) + 1 = i /\ i \in 0 .. n
      BY <1>1, <2>1
    <3>2. f[i] \in S /\ f[i - 1] = step[i - 1][f[i]]
      BY <1>8, <3>1 DEF GoesDown
    <3> QED BY <3>1, <3>2
  <2>2. f[last - 1] = placed
    BY <1>1, <1>8 DEF GoesDown
  <2>3. \A i \in 1 .. last : i # last => i + 1 \in 1 .. last /\ (i + 1) - 1 = i
    BY <1>1
  <2> HIDE DEF step, S
  <2> QED BY <2>1, <2>2, <2>3
<1>10. Is(down)
  <2> HIDE DEF Is
  <2> QED BY <1>9
<1>11. down[last] = placed /\ \A i \in 1 .. n : down[i] = PercolateDown(down[i + 1], act, i)
  <2> HIDE DEF down
  <2>1. last \in 1 .. last /\ \A i \in 1 .. n : i \in 1 .. last /\ i # last
    BY <1>1
  <2> QED BY <1>10, <2>1
<1> HIDE DEF down, step
<1> DEFINE T == {j \in 0 .. n : /\ down[j + 1] \in S
                                /\ act \in [Vars -> Nat] => OrderedFrom(down[j + 1], act, j + 1)}
<1>12. n \in T
  <2>1. OrderedFrom(placed, act, n + 1)
    <3> SUFFICES ASSUME NEW j \in 1 .. Len(ns), j # 1, Parent(j) >= n + 1 PROVE FALSE
      BY <1>1 DEF OrderedFrom
    <3>1. j \in Nat /\ j <= Len(ns) /\ 2 * Parent(j) <= j /\ Parent(j) \in Nat
      BY <1>1 DEF Parent
    <3> QED BY <1>1, <3>1
  <2> QED BY <1>1, <1>7, <1>11, <2>1
<1>13. ASSUME NEW j \in 0 .. n - 1, j + 1 \in T PROVE j \in T
  <2>1. /\ (j + 1) \in 1 .. n /\ j \in 0 .. n
        /\ down[j + 1] = PercolateDown(down[(j + 1) + 1], act, j + 1)
    BY <1>1, <1>11
  <2>2. /\ down[(j + 1) + 1] \in S /\ j + 1 \in Places(down[(j + 1) + 1])
        /\ act \in [Vars -> Nat] => OrderedFrom(down[(j + 1) + 1], act, (j + 1) + 1)
    BY <1>5, <1>13
  <2>3. down[j + 1] \in S
    BY <2>1, <2>2, PercolateAgrees
  <2>4. act \in [Vars -> Nat] => OrderedFrom(down[j + 1], act, j + 1)
    BY <2>1, <2>2, DownOrders
  <2> QED BY <2>1, <2>3, <2>4
<1>14. down[1] \in S /\ (act \in [Vars -> Nat] => OrderedFrom(down[1], act, 1))
  <2>1. 0 \in T
    <3> HIDE DEF T
    <3>1. \A j \in 0 .. n : j \in T
      BY <1>1, <1>12, <1>13, DownInduction
    <3> QED BY <1>1, <3>1
  <2> QED BY <2>1
<1> QED BY <1>3, <1>4, <1>14, OrderedIs

-----------------------------------------------------------------------------
\* A finite set of variables can be listed by number, ...
LEMMA ListExists ==
  ASSUME IsFiniteSet(Vars), NEW S \in SUBSET Vars
  PROVE  \E q \in [1 .. Cardinality(S) -> S] : \A i, j \in DOMAIN q : i < j => q[i] < q[j]
<1> DEFINE Listed(R) ==
      \E q \in [1 .. Cardinality(R) -> R] : \A i, j \in 1 .. Cardinality(R) : i < j => q[i] < q[j]
           n == Cardinality(Vars)
           P == {c \in 0 .. n : \A R \in SUBSET Vars : Cardinality(R) = c => Listed(R)}
<1>1. /\ n \in Nat
      /\ \A R \in SUBSET Vars : IsFiniteSet(R) /\ Cardinality(R) \in 0 .. n
  BY FS_Subset, FS_CardinalityType
<1>2. 0 \in P
  <2> SUFFICES ASSUME NEW R \in SUBSET Vars, Cardinality(R) = 0 PROVE Listed(R)
    BY <1>1
  <2> DEFINE q == [i \in 1 .. 0 |-> 0]
  <2>1. q \in [1 .. 0 -> R] /\ \A i, j \in 1 .. 0 : i < j => q[i] < q[j]
    OBVIOUS
  <2> HIDE DEF q
  <2> QED BY <2>1
<1>3. ASSUME NEW c \in 0 .. n - 1, c \in P PROVE c + 1 \in P
  <2> SUFFICES ASSUME NEW R \in SUBSET Vars, Cardinality(R) = c + 1 PROVE Listed(R)
    BY <1>1
  <2>1. R \subseteq Nat /\ R # {}
    BY <1>1, FS_EmptySet, VarsAssumption
  <2>2. PICK m \in R : \A k \in R : m <= k
    BY <2>1, LeastNumber
  <2> DEFINE Rest == R \ {m}
  <2>3. Rest \in SUBSET Vars /\ Cardinality(Rest) = c
    <3>1. IsFiniteSet(R)
      BY <1>1
    <3>2. Cardinality(Rest) = Cardinality(R) - 1
      BY <2>2, <3>1, FS_RemoveElement
    <3> QED BY <3>2
  <2>4. Listed(Rest)
    BY <1>3, <2>3
  <2>5. PICK p \in [1 .. c -> Rest] : \A i, j \in 1 .. c : i < j => p[i] < p[j]
    BY <2>3, <2>4
  <2> DEFINE q == [i \in 1 .. c + 1 |-> IF i = 1 THEN m ELSE p[i - 1]]
  <2>6. \A i \in 1 .. c + 1 : i # 1 => /\ i - 1 \in 1 .. c /\ p[i - 1] \in Rest
                                       /\ p[i - 1] \in R /\ m < p[i - 1]
    <3> SUFFICES ASSUME NEW i \in 1 .. c + 1, i # 1
                 PROVE  /\ i - 1 \in 1 .. c /\ p[i - 1] \in Rest
                        /\ p[i - 1] \in R /\ m < p[i - 1]
      OBVIOUS
    <3>1. i - 1 \in 1 .. c
      OBVIOUS
    <3>2. p[i - 1] \in Rest
      BY <2>5, <3>1
    <3>3. p[i - 1] \in R /\ p[i - 1] # m
      BY <3>2
    <3>4. p[i - 1] \in Nat /\ m \in Nat /\ m <= p[i - 1]
      BY <2>1, <2>2, <3>3
    <3> HIDE DEF Rest
    <3> QED BY <3>1, <3>2, <3>3, <3>4
  <2>7. q \in [1 .. c + 1 -> R]
    BY <2>2, <2>6
  <2>8. \A i, j \in 1 .. c + 1 : i < j => q[i] < q[j]
    <3> SUFFICES ASSUME NEW i \in 1 .. c + 1, NEW j \in 1 .. c + 1, i < j PROVE q[i] < q[j]
      OBVIOUS
    <3>1. CASE i = 1
      BY <2>6, <3>1
    <3>2. CASE i # 1
      <4>1. j # 1 /\ i - 1 < j - 1 /\ i - 1 \in 1 .. c /\ j - 1 \in 1 .. c
        BY <3>2
      <4>2. p[i - 1] < p[j - 1]
        BY <2>5, <4>1
      <4> QED BY <3>2, <4>1, <4>2
    <3> QED BY <3>1, <3>2
  <2> HIDE DEF q, Rest
  <2> QED BY <2>7, <2>8
<1>4. \A R \in SUBSET Vars : Listed(R)
  <2>1. \A c \in 0 .. n : c \in P
    <3> HIDE DEF P
    <3> QED BY <1>1, <1>2, <1>3, UpInduction
  <2> QED BY <1>1, <2>1
<1>5. PICK q \in [1 .. Cardinality(S) -> S] :
        \A i, j \in 1 .. Cardinality(S) : i < j => q[i] < q[j]
  BY <1>4
<1>6. DOMAIN q = 1 .. Cardinality(S)
  OBVIOUS
<1> QED BY <1>5, <1>6

\* ... and the list has each of them once.
LEMMA InOrderIs ==
  ASSUME IsFiniteSet(Vars), NEW S \in SUBSET Vars
  PROVE  /\ InOrder(S) \in Seq(Vars) /\ Len(InOrder(S)) \in Nat
         /\ \A i, j \in 1 .. Len(InOrder(S)) : InOrder(S)[i] = InOrder(S)[j] => i = j
         /\ {InOrder(S)[i] : i \in 1 .. Len(InOrder(S))} = S
<1> DEFINE n == Cardinality(S)
           q == InOrder(S)
<1>1. IsFiniteSet(S) /\ n \in Nat
  BY FS_Subset, FS_CardinalityType
<1>2. q \in [1 .. n -> S] /\ \A i, j \in DOMAIN q : i < j => q[i] < q[j]
  BY ListExists, Zenon DEF InOrder
<1> HIDE DEF q
<1>3. DOMAIN q = 1 .. n /\ \A i \in 1 .. n : q[i] \in S /\ q[i] \in Nat
  BY <1>2, VarsAssumption
<1>4. q \in Seq(Vars) /\ Len(q) = n
  BY <1>1, <1>2
<1>5. \A i, j \in 1 .. n : q[i] = q[j] => i = j
  BY <1>1, <1>2, <1>3
<1>6. q \in Injection(1 .. n, S)
  BY <1>2, <1>3, <1>5 DEF Injection, IsInjective
<1>7. Cardinality(1 .. n) = n
  BY <1>1, FS_Interval
<1>8. q \in Surjection(1 .. n, S)
  BY <1>1, <1>6, <1>7, FS_Injection
<1>9. {q[i] : i \in 1 .. n} = S
  BY <1>3, <1>8 DEF Surjection
<1> QED BY <1>1, <1>4, <1>5, <1>9 DEF q

\* Bumps keep the variables of the heap and its order; with an increment of zero they
\* change no activity.
LEMMA BumpedKeeps ==
  ASSUME NEW h \in GoodHeaps, NEW act \in [Vars -> Nat], NEW q \in Seq(Vars), varInc \in Nat
  PROVE  LET b == Bumped(h, act, q) IN
           /\ b.h \in GoodHeaps /\ Elements(b.h) = Elements(h)
           /\ b.act \in [Vars -> Nat]
           /\ varInc = 0 => b.act = act
           /\ Ordered(h, act) => Ordered(b.h, b.act)
<1> DEFINE n == Len(q)
           start == [h |-> h, act |-> act]
           Once(b, v) == LET a == [b.act EXCEPT ![v] = @ + varInc]
                         IN [h |-> IF InHeap(b.h, v) THEN Decrease(b.h, a, v) ELSE b.h,
                             act |-> a]
           Is(f) == f = [i \in 0 .. n |-> IF i = 0 THEN start ELSE Once(f[i - 1], q[i])]
           after == CHOOSE f : Is(f)
           S == {b \in [h : GoodHeaps, act : [Vars -> Nat]] :
                   /\ Elements(b.h) = Elements(h)
                   /\ varInc = 0 => b.act = act
                   /\ Ordered(h, act) => Ordered(b.h, b.act)}
           step == [j \in 0 .. n - 1 |-> [b \in S |-> Once(b, q[j + 1])]]
<1>1. n \in Nat /\ \A i \in 1 .. n : q[i] \in Vars
  OBVIOUS
<1>2. Bumped(h, act, q) = after[n]
  BY DEF Bumped
<1>3. start \in S
  OBVIOUS
<1>4. ASSUME NEW b \in S, NEW v \in Vars PROVE Once(b, v) \in S
  <2> DEFINE a == [b.act EXCEPT ![v] = @ + varInc]
  <2>1. /\ b.h \in GoodHeaps /\ b.act \in [Vars -> Nat] /\ Elements(b.h) = Elements(h)
        /\ varInc = 0 => b.act = act
        /\ Ordered(h, act) => Ordered(b.h, b.act)
    OBVIOUS
  <2>2. a \in [Vars -> Nat] /\ (varInc = 0 => a = b.act)
    BY <2>1
  <2>3. CASE InHeap(b.h, v)
    <3>1. v \in Elements(b.h)
      BY <2>1, <2>3, InHeapIs
    <3> DEFINE g == Decrease(b.h, a, v)
    <3>2. g \in GoodHeaps /\ Elements(g) = Elements(h)
      BY <2>1, <3>1, DecreaseKeeps
    <3>3. Ordered(h, act) => Ordered(g, a)
      BY <2>1, <3>1, DecreaseOrders
    <3>4. Once(b, v) = [h |-> g, act |-> a]
      BY <2>3
    <3> HIDE DEF g, a, Once
    <3> QED BY <2>1, <2>2, <3>2, <3>3, <3>4
  <2>4. CASE ~InHeap(b.h, v)
    <3>1. Ordered(b.h, b.act) => Ordered(b.h, a)
      <4> SUFFICES ASSUME Ordered(b.h, b.act), NEW j \in Places(b.h), j # 1
                   PROVE  ~Above(a, b.h.heap[j], b.h.heap[Parent(j)])
        BY DEF Ordered
      <4>1. Parent(j) \in Places(b.h)
        BY <2>1, Parents
      <4>2. /\ b.h.heap[j] \in Vars /\ b.h.heap[Parent(j)] \in Vars
            /\ b.h.heap[j] # v /\ b.h.heap[Parent(j)] # v
        <5>1. \A k \in Places(b.h) : /\ b.h.heap[k] \in Vars /\ k # 0
                                     /\ b.h.index[b.h.heap[k]] = k
          BY <2>1, GoodIs
        <5>2. b.h.index[v] = 0
          BY <2>4 DEF InHeap
        <5> QED BY <4>1, <5>1, <5>2
      <4>3. a[b.h.heap[j]] = b.act[b.h.heap[j]] /\ a[b.h.heap[Parent(j)]] = b.act[b.h.heap[Parent(j)]]
        BY <2>1, <4>2
      <4>4. ~Above(b.act, b.h.heap[j], b.h.heap[Parent(j)])
        BY DEF Ordered
      <4> HIDE DEF a
      <4> QED BY <4>3, <4>4 DEF Above
    <3>2. Once(b, v) = [h |-> b.h, act |-> a]
      BY <2>4
    <3> HIDE DEF a, Once
    <3> QED BY <2>1, <2>2, <3>1, <3>2
  <2> QED BY <2>3, <2>4
<1> HIDE DEF Once, S, start
<1>5. step \in Steps(n, S)
  BY <1>1, <1>4 DEF Steps
<1>6. PICK f : GoesUp(f, n, S, start, step)
  <2> HIDE DEF step
  <2> QED BY <1>1, <1>3, <1>5, UpRecursion
<1>7. Is(f)
  <2>1. ASSUME NEW i \in 0 .. n, i # 0
        PROVE  f[i] = Once(f[i - 1], q[i])
    <3>1. i - 1 \in 0 .. n - 1 /\ (i - 1) + 1 = i /\ i - 1 \in 0 .. n
      BY <1>1, <2>1
    <3>2. f[i - 1] \in S /\ f[i] = step[i - 1][f[i - 1]]
      BY <1>6, <3>1 DEF GoesUp
    <3> QED BY <3>1, <3>2
  <2>2. f \in [0 .. n -> S] /\ f[0] = start
    BY <1>6 DEF GoesUp
  <2> HIDE DEF step
  <2> QED BY <1>1, <2>1, <2>2
<1>8. Is(after)
  <2> HIDE DEF Is
  <2> QED BY <1>7
<1>9. after[0] = start /\ \A i \in 0 .. n - 1 : after[i + 1] = Once(after[i], q[i + 1])
  <2> HIDE DEF after
  <2>1. 0 \in 0 .. n /\ \A i \in 0 .. n - 1 : i + 1 \in 0 .. n /\ i + 1 # 0 /\ (i + 1) - 1 = i
    BY <1>1
  <2> QED BY <1>8, <2>1
<1> HIDE DEF after
<1> DEFINE P == {i \in 0 .. n : after[i] \in S}
<1>10. n \in P
  <2>1. 0 \in P
    BY <1>1, <1>3, <1>9
  <2>2. ASSUME NEW i \in 0 .. n - 1, i \in P PROVE i + 1 \in P
    <3>1. q[i + 1] \in Vars /\ i + 1 \in 0 .. n /\ after[i] \in S
      BY <1>1, <2>2
    <3> QED BY <1>4, <1>9, <3>1
  <2>3. \A i \in 0 .. n : i \in P
    <3> HIDE DEF P
    <3> QED BY <1>1, <2>1, <2>2, UpInduction
  <2> QED BY <1>1, <2>3
<1>11. after[n] \in S
  BY <1>10
<1> QED BY <1>2, <1>11 DEF S

\* How many variables stay assigned when search jumps back to level k.
Kept(k) == IF k < DecisionLevel THEN trailLim[k + 1] ELSE Len(trail)

\* Jumping back puts the variables that lose their value into the heap, and keeps its
\* order.
LEMMA ReleasedKeeps ==
  ASSUME NEW h \in GoodHeaps, NEW act, NEW k \in 0 .. DecisionLevel,
         trail \in Seq(Vars), trailLim \in Seq(0 .. Len(trail))
  PROVE  LET g == Released(h, act, k) IN
           /\ g \in GoodHeaps
           /\ \A i \in Kept(k) + 1 .. Len(trail) : trail[i] \in Elements(g)
           /\ Elements(h) \subseteq Elements(g)
           /\ act \in [Vars -> Nat] /\ Ordered(h, act) => Ordered(g, act)
<1> DEFINE m == Len(trail)
           from == Kept(k)
           n == m - from
           Once(g, v) == IF InHeap(g, v) THEN g ELSE Insert(g, act, v)
           Is(f) == f = [i \in from .. m |-> IF i = m THEN h
                                             ELSE LET g == f[i + 1] IN Once(g, trail[i + 1])]
           after == CHOOSE f : Is(f)
           S == {g \in GoodHeaps :
                   /\ Elements(h) \subseteq Elements(g)
                   /\ act \in [Vars -> Nat] /\ Ordered(h, act) => Ordered(g, act)}
           step == [j \in 0 .. n - 1 |-> [g \in S |-> Once(g, trail[from + j + 1])]]
<1>1. /\ m \in Nat /\ from \in 0 .. m /\ n \in Nat /\ m = from + n
      /\ \A i \in 1 .. m : trail[i] \in Vars
  <2>1. m \in Nat /\ DecisionLevel \in Nat /\ \A i \in 1 .. m : trail[i] \in Vars
    BY DEF DecisionLevel
  <2>2. from \in 0 .. m
    <3>1. CASE k < DecisionLevel
      <4>1. k + 1 \in 1 .. Len(trailLim)
        BY <2>1, <3>1 DEF DecisionLevel
      <4>2. trailLim[k + 1] \in 0 .. Len(trail)
        BY <4>1
      <4> QED BY <3>1, <4>2 DEF Kept
    <3>2. CASE ~(k < DecisionLevel)
      BY <2>1, <3>2 DEF Kept
    <3> QED BY <3>1, <3>2
  <2> HIDE DEF from, m
  <2> QED BY <2>1, <2>2
<1>2. Released(h, act, k) = after[from]
  BY DEF Released, Kept
<1>3. h \in S
  OBVIOUS
<1>4. ASSUME NEW g \in S, NEW v \in Vars
      PROVE  /\ Once(g, v) \in S
             /\ Elements(g) \subseteq Elements(Once(g, v)) /\ v \in Elements(Once(g, v))
  <2>1. /\ g \in GoodHeaps /\ Elements(h) \subseteq Elements(g)
        /\ act \in [Vars -> Nat] /\ Ordered(h, act) => Ordered(g, act)
        /\ (InHeap(g, v) <=> v \in Elements(g))
    BY InHeapIs
  <2>2. CASE InHeap(g, v)
    BY <2>1, <2>2
  <2>3. CASE ~InHeap(g, v)
    <3> DEFINE p == Insert(g, act, v)
    <3>1. /\ p \in GoodHeaps /\ Elements(p) = Elements(g) \cup {v}
          /\ act \in [Vars -> Nat] /\ Ordered(g, act) => Ordered(p, act)
      BY <2>1, <2>3, InsertKeeps
    <3>2. Once(g, v) = p
      BY <2>3
    <3> HIDE DEF p, Once
    <3> QED BY <2>1, <3>1, <3>2
  <2> QED BY <2>2, <2>3
<1> HIDE DEF Once, S, from, m, n
<1>5. step \in Steps(n, S)
  <2>1. \A j \in 0 .. n - 1 : from + j + 1 \in 1 .. m
    BY <1>1
  <2>2. \A j \in 0 .. n - 1 : \A g \in S : Once(g, trail[from + j + 1]) \in S
    BY <1>1, <1>4, <2>1
  <2> QED BY <2>2 DEF Steps
<1>6. PICK f : GoesDown(f, n, S, h, step)
  <2> HIDE DEF step
  <2> QED BY <1>1, <1>3, <1>5, DownRecursion
<1>7. Is([i \in from .. m |-> f[i - from]])
  <2>1. ASSUME NEW i \in from .. m, i # m
        PROVE  f[i - from] = Once(f[(i + 1) - from], trail[i + 1])
    <3>1. /\ i - from \in 0 .. n - 1 /\ (i - from) + 1 = (i + 1) - from
          /\ (i + 1) - from \in 0 .. n /\ from + (i - from) + 1 = i + 1
      BY <1>1, <2>1
    <3>2. f[(i + 1) - from] \in S /\ f[i - from] = step[i - from][f[(i + 1) - from]]
      BY <1>6, <3>1 DEF GoesDown
    <3> QED BY <3>1, <3>2
  <2>2. f[m - from] = h
    <3>1. m - from = n
      BY <1>1
    <3> QED BY <1>6, <3>1 DEF GoesDown
  <2>3. \A i \in from .. m : i # m => i + 1 \in from .. m
    BY <1>1
  <2> HIDE DEF step
  <2> QED BY <2>1, <2>2, <2>3
<1>8. Is(after)
  <2> HIDE DEF Is
  <2> QED BY <1>7
<1>9. after[m] = h /\ \A i \in from .. m - 1 : after[i] = Once(after[i + 1], trail[i + 1])
  <2> HIDE DEF after
  <2>1. m \in from .. m /\ \A i \in from .. m - 1 : i \in from .. m /\ i # m
    BY <1>1
  <2> QED BY <1>8, <2>1
<1> HIDE DEF after
<1> DEFINE P == {j \in 0 .. n : /\ after[from + j] \in S
                                /\ \A i \in from + j + 1 .. m : trail[i] \in Elements(after[from + j])}
<1>10. 0 \in P
  <2>1. n \in P
    BY <1>1, <1>3, <1>9
  <2>2. ASSUME NEW j \in 0 .. n - 1, j + 1 \in P PROVE j \in P
    <3> DEFINE i == from + j
    <3>1. /\ i \in from .. m - 1 /\ i + 1 \in 1 .. m /\ j \in 0 .. n
          /\ from + (j + 1) = i + 1 /\ i \in Int
      BY <1>1
    <3>2. after[i + 1] \in S /\ \A x \in (i + 1) + 1 .. m : trail[x] \in Elements(after[i + 1])
      BY <2>2, <3>1
    <3>3. after[i] = Once(after[i + 1], trail[i + 1]) /\ trail[i + 1] \in Vars
      BY <1>1, <1>9, <3>1
    <3>4. /\ after[i] \in S /\ Elements(after[i + 1]) \subseteq Elements(after[i])
          /\ trail[i + 1] \in Elements(after[i])
      BY <1>4, <3>2, <3>3
    <3>5. \A x \in i + 1 .. m : x = i + 1 \/ x \in (i + 1) + 1 .. m
      BY <1>1, <3>1
    <3>6. \A x \in i + 1 .. m : trail[x] \in Elements(after[i])
      BY <3>2, <3>4, <3>5
    <3> QED BY <3>1, <3>4, <3>6
  <2>3. \A j \in 0 .. n : j \in P
    <3> HIDE DEF P
    <3> QED BY <1>1, <2>1, <2>2, DownInduction
  <2> HIDE DEF P
  <2> QED BY <1>1, <2>3
<1>11. after[from] \in S /\ \A i \in from + 1 .. m : trail[i] \in Elements(after[from])
  <2>1. from + 0 = from
    BY <1>1
  <2> QED BY <1>10, <2>1
<1> QED BY <1>2, <1>11 DEF S, from, m

\* What is left when the first n variables are taken off, one after the other.
LEMMA PoppedIs ==
  ASSUME IsFiniteSet(Vars), order \in GoodHeaps
  PROVE  /\ Popped[0] = order
         /\ \A i \in 0 .. Cardinality(Vars) - 1 : Popped[i + 1] = RemoveMin(Popped[i], activity)
<1> DEFINE n == Cardinality(Vars)
           Is(f) == f = [i \in 0 .. n |-> IF i = 0 THEN order ELSE RemoveMin(f[i - 1], activity)]
           after == CHOOSE f : Is(f)
           Bare == [heap : {<<>>}, index : [Vars -> Nat]]
           S == GoodHeaps \cup Bare
           step == [j \in 0 .. n - 1 |-> [g \in S |-> RemoveMin(g, activity)]]
<1>1. n \in Nat
  BY FS_CardinalityType
<1>2. Popped = after
  BY DEF Popped
<1>3. order \in S
  OBVIOUS
<1>4. ASSUME NEW g \in S PROVE RemoveMin(g, activity) \in S
  <2>1. CASE g \in GoodHeaps /\ Elements(g) # {}
    <3> HIDE DEF Bare
    <3> QED BY <2>1, RemoveMinKeeps
  <2>2. CASE g.heap = <<>> /\ g \in [heap : Seq(Vars), index : [Vars -> Nat]]
    <3> DEFINE last == g.heap[0]
               ind == IndexAfterMove(g, last)
               q == SubSeq([g.heap EXCEPT ![1] = last], 1, 0 - 1)
    <3>1. ind \in [Vars -> Nat]
      BY <2>2 DEF IndexAfterMove
    <3>2. q = <<>>
      <4>1. [g.heap EXCEPT ![1] = last] = <<>>
        BY <2>2
      <4> QED BY <4>1
    <3>3. RemoveMin(g, activity) = [heap |-> q, index |-> ind]
      BY <2>2 DEF RemoveMin
    <3> HIDE DEF q, ind
    <3> QED BY <3>1, <3>2, <3>3
  <2>3. g \in GoodHeaps /\ Elements(g) = {} => g.heap = <<>> /\ g \in [heap : Seq(Vars), index : [Vars -> Nat]]
    <3> SUFFICES ASSUME g \in GoodHeaps, Elements(g) = {} PROVE g.heap = <<>>
      BY DEF GoodHeaps
    <3>1. g.heap \in Seq(Vars) /\ Len(g.heap) \in Nat
      BY GoodIs
    <3>2. \A i \in 1 .. Len(g.heap) : g.heap[i] \in Elements(g)
      BY DEF Elements
    <3>3. Len(g.heap) = 0
      BY <3>1, <3>2
    <3> QED BY <3>1, <3>3
  <2>4. g \in Bare => g.heap = <<>> /\ g \in [heap : Seq(Vars), index : [Vars -> Nat]]
    <3>1. <<>> \in Seq(Vars)
      OBVIOUS
    <3> QED BY <3>1
  <2> HIDE DEF Bare
  <2> QED BY <2>1, <2>2, <2>3, <2>4
<1> HIDE DEF S, n
<1>5. step \in Steps(n, S)
  BY <1>1, <1>4 DEF Steps
<1>6. PICK f : GoesUp(f, n, S, order, step)
  <2> HIDE DEF step
  <2> QED BY <1>1, <1>3, <1>5, UpRecursion
<1>7. Is(f)
  <2>1. ASSUME NEW i \in 0 .. n, i # 0
        PROVE  f[i] = RemoveMin(f[i - 1], activity)
    <3>1. i - 1 \in 0 .. n - 1 /\ (i - 1) + 1 = i /\ i - 1 \in 0 .. n
      BY <1>1, <2>1
    <3>2. f[i - 1] \in S /\ f[i] = step[i - 1][f[i - 1]]
      BY <1>6, <3>1 DEF GoesUp
    <3> QED BY <3>1, <3>2
  <2>2. f \in [0 .. n -> S] /\ f[0] = order
    BY <1>6 DEF GoesUp
  <2> HIDE DEF step
  <2> QED BY <1>1, <2>1, <2>2
<1>8. Is(after)
  <2> HIDE DEF Is
  <2> QED BY <1>7
<1>9. after[0] = order /\ \A i \in 0 .. n - 1 : after[i + 1] = RemoveMin(after[i], activity)
  <2> HIDE DEF after
  <2>1. 0 \in 0 .. n /\ \A i \in 0 .. n - 1 : i + 1 \in 0 .. n /\ i + 1 # 0 /\ (i + 1) - 1 = i
    BY <1>1
  <2> QED BY <1>8, <2>1
<1> HIDE DEF after
<1> QED BY <1>2, <1>9 DEF n

\* Taking assigned variables off leaves the others in, and in order.
LEMMA PoppedKeeps ==
  ASSUME IsFiniteSet(Vars), order \in GoodHeaps, Open \subseteq Elements(order), Open # {},
         NEW n \in 0 .. Cardinality(Vars),
         \A m \in 0 .. n - 1 : Top(Popped[m]) \in Assigned
  PROVE  /\ Popped[n] \in GoodHeaps
         /\ Open \subseteq Elements(Popped[n])
         /\ activity \in [Vars -> Nat] /\ Ordered(order, activity) => Ordered(Popped[n], activity)
<1> DEFINE Fine(g) == /\ g \in GoodHeaps /\ Open \subseteq Elements(g)
                      /\ activity \in [Vars -> Nat] /\ Ordered(order, activity) => Ordered(g, activity)
           P == {i \in 0 .. n : Fine(Popped[i])}
<1>1. Cardinality(Vars) \in Nat /\ n \in Nat
  BY FS_CardinalityType
<1>2. 0 \in P
  BY <1>1, PoppedIs
<1>3. ASSUME NEW i \in 0 .. n - 1, i \in P PROVE i + 1 \in P
  <2> DEFINE g == Popped[i]
  <2>1. Fine(g) /\ Elements(g) # {} /\ Top(g) \notin Open
    BY <1>3 DEF Open
  <2>2. Popped[i + 1] = RemoveMin(g, activity)
    <3>1. i \in 0 .. Cardinality(Vars) - 1
      BY <1>1
    <3> QED BY <3>1, PoppedIs
  <2> HIDE DEF g
  <2>3. Fine(RemoveMin(g, activity))
    BY <2>1, RemoveMinKeeps
  <2> HIDE DEF Fine
  <2> QED BY <1>1, <2>2, <2>3
<1>4. \A i \in 0 .. n : i \in P
  <2> HIDE DEF P
  <2> QED BY <1>1, <1>2, <1>3, UpInduction
<1> QED BY <1>1, <1>4

-----------------------------------------------------------------------------
\* A sequence without repetitions is no longer than there are variables.
LEMMA NoLonger ==
  ASSUME IsFiniteSet(Vars), NEW q \in Seq(Vars),
         \A i, j \in 1 .. Len(q) : q[i] = q[j] => i = j
  PROVE  Len(q) <= Cardinality(Vars)
<1>1. Len(q) \in Nat /\ q \in [1 .. Len(q) -> Vars]
  OBVIOUS
<1>2. q \in Injection(1 .. Len(q), Vars)
  BY <1>1 DEF Injection, IsInjective
<1>3. Cardinality(1 .. Len(q)) = Len(q)
  BY <1>1, FS_Interval
<1> QED BY <1>2, <1>3, FS_Injection

\* A heap is no larger than there are variables.
LEMMA HeapFits ==
  ASSUME IsFiniteSet(Vars), NEW h \in GoodHeaps
  PROVE  /\ Len(h.heap) \in 0 .. Cardinality(Vars)
         /\ h.index \in [Vars -> 0 .. Cardinality(Vars)]
<1>1. /\ h.heap \in Seq(Vars) /\ h.index \in [Vars -> Nat] /\ Len(h.heap) \in Nat
      /\ \A k \in 1 .. Len(h.heap) : h.index[h.heap[k]] = k
      /\ \A v \in Vars : h.index[v] # 0 => h.index[v] \in 1 .. Len(h.heap)
  BY GoodIs
<1>2. Len(h.heap) <= Cardinality(Vars)
  BY <1>1, NoLonger
<1>3. Cardinality(Vars) \in Nat
  BY FS_CardinalityType
<1>4. ASSUME NEW v \in Vars PROVE h.index[v] \in 0 .. Cardinality(Vars)
  BY <1>1, <1>2, <1>3
<1> QED BY <1>1, <1>2, <1>3, <1>4

\* The empty heap is a heap.
LEMMA EmptyIsGood ==
  /\ EmptyHeap \in GoodHeaps /\ Elements(EmptyHeap) = {}
  /\ \A act : Ordered(EmptyHeap, act)
<1>1. <<>> \in Seq(Vars) /\ Len(<<>>) = 0
  OBVIOUS
<1> QED BY <1>1 DEF EmptyHeap, GoodHeaps, IndexAgrees, InHeap, Places, Elements, Ordered

\* Rebuilding makes a heap of the variables without a value.
LEMMA RebuildKeeps ==
  ASSUME IsFiniteSet(Vars), NEW h, NEW act, NEW S \in SUBSET Vars
  PROVE  LET g == Build(h, act, InOrder(S)) IN
           /\ g \in GoodHeaps /\ Elements(g) = S
           /\ act \in [Vars -> Nat] => Ordered(g, act)
<1> DEFINE q == InOrder(S)
<1>1. /\ q \in Seq(Vars) /\ \A i, j \in 1 .. Len(q) : q[i] = q[j] => i = j
      /\ {q[i] : i \in 1 .. Len(q)} = S
  BY InOrderIs
<1> HIDE DEF q
<1>2. LET g == Build(h, act, q) IN
        /\ g \in GoodHeaps /\ Elements(g) = {q[i] : i \in 1 .. Len(q)}
        /\ act \in [Vars -> Nat] => Ordered(g, act)
  BY <1>1, BuildKeeps
<1> QED BY <1>1, <1>2 DEF q

-----------------------------------------------------------------------------
\* The types of all but trail and heap; only the last decision may exceed the bound.
ScoreTypes ==
  /\ activity \in [Vars -> Nat] /\ activityCopy \in [Vars -> Nat]
  /\ varInc \in Nat /\ varIncCopy \in Nat
  /\ useStatic \in BOOLEAN /\ staticDecisions \in Nat /\ forward \in Nat
  /\ decisions \in 0 .. MaxDecisions + 1 /\ lastDecisions \in 0 .. decisions
  /\ pc # "model" => decisions <= MaxDecisions
  /\ conflicts \in 0 .. MaxConflicts
  /\ pc \in {"propagate", "report", "decide", "model"}

\* A trail t assigns a variable once, and its levels l begin one after the other.
Levels(t, l) ==
  /\ t \in Seq(Vars)
  /\ \A i, j \in 1 .. Len(t) : t[i] = t[j] => i = j
  /\ l \in Seq(0 .. Len(t))
  /\ \A i, j \in 1 .. Len(l) : i <= j => l[i] <= l[j]

HeapRight == order \in GoodHeaps /\ OpenInHeap

HeapInv == ScoreTypes /\ Levels(trail, trailLim) /\ HeapRight

\* The invariant gives what the run checks.
LEMMA HeapInvSuffices == HeapInv => HeapIndexed /\ OpenInHeap
<1> SUFFICES ASSUME HeapInv PROVE HeapIndexed /\ OpenInHeap
  OBVIOUS
<1> USE BoundsAssumption
<1>1. order \in GoodHeaps /\ OpenInHeap /\ IndexAgrees(order) /\ order.heap \in Seq(Vars)
  BY DEF HeapInv, HeapRight, GoodHeaps
<1>2. order.index \in [Vars -> 0 .. Cardinality(Vars)]
  BY <1>1, HeapFits
<1>3. trail \in Seq(Vars) /\ Len(trail) <= Cardinality(Vars) /\ trailLim \in Seq(0 .. Len(trail))
  BY NoLonger DEF HeapInv, Levels
<1> QED BY <1>1, <1>2, <1>3 DEF HeapIndexed, TypeOK, HeapInv, ScoreTypes

\* The first heap is built of all variables.
LEMMA HeapInit == Init => HeapInv /\ HeapOrdered
<1> SUFFICES ASSUME Init PROVE HeapInv /\ HeapOrdered
  OBVIOUS
<1> USE BoundsAssumption
<1>1. /\ activity \in [Vars -> Nat] /\ activityCopy = activity /\ varInc = 1 /\ varIncCopy = 0
      /\ useStatic = FALSE /\ staticDecisions = 0 /\ forward = 0 /\ lastDecisions = 0
      /\ decisions = 0 /\ conflicts = 0 /\ trail = <<>> /\ trailLim = <<>> /\ pc = "propagate"
      /\ order = Build(EmptyHeap, activity, InOrder(Vars))
  BY DEF Init
<1>2. ScoreTypes
  <2>1. decisions \in 0 .. MaxDecisions + 1 /\ lastDecisions \in 0 .. decisions
        /\ decisions <= MaxDecisions /\ conflicts \in 0 .. MaxConflicts
    BY <1>1
  <2> QED BY <1>1, <2>1 DEF ScoreTypes
<1>3. Levels(trail, trailLim)
  <2>1. \A S : <<>> \in Seq(S)
    OBVIOUS
  <2> QED BY <1>1, <2>1 DEF Levels
<1>4. order \in GoodHeaps /\ Elements(order) = Vars /\ Ordered(order, activity)
  BY <1>1, RebuildKeeps
<1> QED BY <1>2, <1>3, <1>4 DEF HeapInv, HeapRight, OpenInHeap, Open, HeapOrdered

\* A jump back leaves the levels below.
LEMMA CutKeeps ==
  ASSUME Levels(trail, trailLim), NEW k \in 0 .. DecisionLevel, k < DecisionLevel
  PROVE  LET t == KeptTrail(k)
             l == SubSeq(trailLim, 1, k)
         IN  /\ Levels(t, l)
             /\ Len(t) = Kept(k) /\ Kept(k) = trailLim[k + 1] /\ Kept(k) \in 0 .. Len(trail)
             /\ \A i \in 1 .. Len(t) : t[i] = trail[i]
<1> DEFINE m == trailLim[k + 1]
           t == SubSeq(trail, 1, m)
           l == SubSeq(trailLim, 1, k)
<1>1. /\ trail \in Seq(Vars) /\ Len(trail) \in Nat
      /\ \A i, j \in 1 .. Len(trail) : trail[i] = trail[j] => i = j
      /\ trailLim \in Seq(0 .. Len(trail)) /\ DecisionLevel = Len(trailLim)
      /\ DecisionLevel \in Nat /\ k \in Nat /\ k + 1 \in 1 .. Len(trailLim)
      /\ \A i, j \in 1 .. Len(trailLim) : i <= j => trailLim[i] <= trailLim[j]
  BY DEF Levels, DecisionLevel
<1>2. m \in 0 .. Len(trail) /\ \A i \in 1 .. k : trailLim[i] \in 0 .. Len(trail) /\ trailLim[i] <= m
  BY <1>1
<1>3. t \in Seq(Vars) /\ Len(t) = m /\ \A i \in 1 .. m : t[i] = trail[i]
  <2> HIDE DEF m
  <2> QED BY <1>1, <1>2
<1>4. Len(l) = k /\ l = [i \in 1 .. k |-> trailLim[i]] /\ \A i \in 1 .. k : l[i] = trailLim[i]
  BY <1>1
<1> HIDE DEF m, t, l
<1>5. l \in Seq(0 .. m)
  <2>1. \A i \in 1 .. k : trailLim[i] \in 0 .. m
    BY <1>2
  <2> QED BY <1>1, <1>4, <2>1
<1>6. Levels(t, l)
  <2>1. \A i, j \in 1 .. m : t[i] = t[j] => i = j
    <3>1. \A i \in 1 .. m : i \in 1 .. Len(trail)
      BY <1>1, <1>2
    <3> QED BY <1>1, <1>3, <3>1
  <2>2. \A i, j \in 1 .. k : i <= j => l[i] <= l[j]
    BY <1>1, <1>4
  <2> QED BY <1>3, <1>4, <1>5, <2>1, <2>2 DEF Levels
<1>7. KeptTrail(k) = t /\ Kept(k) = m
  BY DEF KeptTrail, Kept, m, t
<1> QED BY <1>2, <1>3, <1>6, <1>7 DEF m, l

\* One more assignment, at the current level or as the first of a new one.
LEMMA AppendKeeps ==
  ASSUME NEW t, NEW l, Levels(t, l), NEW v \in Vars, \A i \in 1 .. Len(t) : t[i] # v
  PROVE  /\ Levels(Append(t, v), l)
         /\ Levels(Append(t, v), Append(l, Len(t)))
         /\ {Append(t, v)[i] : i \in 1 .. Len(Append(t, v))} = {t[i] : i \in 1 .. Len(t)} \cup {v}
<1> DEFINE u == Append(t, v)
           b == Append(l, Len(t))
<1>1. /\ t \in Seq(Vars) /\ Len(t) \in Nat /\ l \in Seq(0 .. Len(t)) /\ Len(l) \in Nat
      /\ \A i \in 1 .. Len(l) : l[i] \in 0 .. Len(t)
      /\ \A i, j \in 1 .. Len(t) : t[i] = t[j] => i = j
      /\ \A i, j \in 1 .. Len(l) : i <= j => l[i] <= l[j]
  BY DEF Levels
<1>2. /\ u \in Seq(Vars) /\ Len(u) = Len(t) + 1 /\ u[Len(t) + 1] = v
      /\ \A i \in 1 .. Len(t) : u[i] = t[i]
  BY <1>1
<1>3. /\ Len(b) = Len(l) + 1 /\ b[Len(l) + 1] = Len(t)
      /\ \A i \in 1 .. Len(l) : b[i] = l[i]
  BY <1>1
<1>4. b \in Seq(0 .. Len(t) + 1) /\ l \in Seq(0 .. Len(t) + 1)
  <2>1. l = [i \in 1 .. Len(l) |-> l[i]] /\ \A i \in 1 .. Len(l) : l[i] \in 0 .. Len(t) + 1
    BY <1>1
  <2>2. l \in Seq(0 .. Len(t) + 1)
    BY <1>1, <2>1
  <2> QED BY <1>1, <2>2
<1> HIDE DEF u, b
<1>5. \A i, j \in 1 .. Len(u) : u[i] = u[j] => i = j
  <2>1. \A i \in 1 .. Len(u) : i \in 1 .. Len(t) \/ i = Len(t) + 1
    BY <1>1, <1>2
  <2> QED BY <1>1, <1>2, <2>1
<1>6. \A i, j \in 1 .. Len(b) : i <= j => b[i] <= b[j]
  <2>1. \A i \in 1 .. Len(b) : i \in 1 .. Len(l) \/ i = Len(l) + 1
    BY <1>1, <1>3
  <2>2. ASSUME NEW i \in 1 .. Len(b), NEW j \in 1 .. Len(b), i <= j PROVE b[i] <= b[j]
    <3>1. CASE j = Len(l) + 1
      BY <1>1, <1>3, <2>1, <3>1
    <3>2. CASE j \in 1 .. Len(l)
      <4>1. i \in 1 .. Len(l)
        BY <1>1, <2>2, <3>2
      <4> QED BY <1>1, <1>3, <2>2, <3>2, <4>1
    <3> QED BY <2>1, <3>1, <3>2
  <2> QED BY <2>2
<1>7. {u[i] : i \in 1 .. Len(u)} = {t[i] : i \in 1 .. Len(t)} \cup {v}
  <2>1. \A i \in 1 .. Len(u) : i \in 1 .. Len(t) \/ i = Len(t) + 1
    BY <1>1, <1>2
  <2>2. \A i \in 1 .. Len(t) : i \in 1 .. Len(u)
    BY <1>1, <1>2
  <2>3. Len(t) + 1 \in 1 .. Len(u)
    BY <1>1, <1>2
  <2> QED BY <1>2, <2>1, <2>2, <2>3
<1>8. Levels(u, l) /\ Levels(u, b)
  BY <1>1, <1>2, <1>4, <1>5, <1>6 DEF Levels
<1> QED BY <1>7, <1>8 DEF u, b

-----------------------------------------------------------------------------
\* What a step is to keep; the end of a static phase may leave another order.
StepKeeps ==
  /\ Levels(trail', trailLim') /\ HeapRight'
  /\ activity' \in [Vars -> Nat]
  /\ HeapOrdered /\ ~(useStatic /\ ~useStatic') => HeapOrdered'

\* The heap is right if every variable is in it or assigned, ...
LEMMA RightIs ==
  ASSUME order' \in GoodHeaps,
         \A v \in Vars : v \in Elements(order') \/ \E i \in 1 .. Len(trail') : trail'[i] = v
  PROVE  HeapRight'
  BY DEF HeapRight, OpenInHeap, Open, Assigned

\* ... and only then.
LEMMA OpenOrAssigned ==
  ASSUME HeapRight, NEW v \in Vars
  PROVE  v \in Elements(order) \/ \E i \in 1 .. Len(trail) : trail[i] = v
  BY DEF HeapRight, OpenInHeap, Open, Assigned

\* propagate assigns a variable, which may stay in the heap.
LEMMA ImplyKeeps ==
  ASSUME HeapInv, NEW v \in Vars, Imply(v)
  PROVE  StepKeeps
<1>1. /\ trail' = Append(trail, v) /\ trailLim' = trailLim /\ order' = order
      /\ activity' = activity /\ \A i \in 1 .. Len(trail) : trail[i] # v
  BY DEF Imply, scoreVars, Open, Assigned
<1>2. /\ Levels(trail', trailLim')
      /\ {trail'[i] : i \in 1 .. Len(trail')} = {trail[i] : i \in 1 .. Len(trail)} \cup {v}
  BY <1>1, AppendKeeps DEF HeapInv
<1>3. HeapRight'
  <2>1. order' \in GoodHeaps
    BY <1>1 DEF HeapInv, HeapRight
  <2>2. ASSUME NEW w \in Vars
        PROVE  w \in Elements(order') \/ \E i \in 1 .. Len(trail') : trail'[i] = w
    <3>1. w \in Elements(order) \/ w \in {trail[i] : i \in 1 .. Len(trail)}
      BY OpenOrAssigned DEF HeapInv
    <3>2. w \in Elements(order') \/ w \in {trail'[i] : i \in 1 .. Len(trail')}
      BY <1>1, <1>2, <3>1
    <3> QED BY <3>2
  <2> QED BY <2>1, <2>2, RightIs
<1>4. activity' \in [Vars -> Nat] /\ (HeapOrdered => HeapOrdered')
  BY <1>1 DEF HeapInv, ScoreTypes, HeapOrdered
<1> QED BY <1>2, <1>3, <1>4 DEF StepKeeps

\* After a jump back to level k a variable is in the heap or still assigned.
LEMMA CutRight ==
  ASSUME HeapInv, NEW k \in 0 .. DecisionLevel, k < DecisionLevel, NEW h \in GoodHeaps,
         Elements(h) = Elements(order), NEW act
  PROVE  LET g == Released(h, act, k) IN
           /\ g \in GoodHeaps
           /\ act \in [Vars -> Nat] /\ Ordered(h, act) => Ordered(g, act)
           /\ \A v \in Vars : v \in Elements(g) \/ \E i \in 1 .. Len(KeptTrail(k)) : KeptTrail(k)[i] = v
<1> DEFINE g == Released(h, act, k)
           t == KeptTrail(k)
<1>1. trail \in Seq(Vars) /\ trailLim \in Seq(0 .. Len(trail)) /\ Len(trail) \in Nat
  BY DEF HeapInv, Levels
<1>2. /\ g \in GoodHeaps
      /\ \A i \in Kept(k) + 1 .. Len(trail) : trail[i] \in Elements(g)
      /\ Elements(h) \subseteq Elements(g)
      /\ act \in [Vars -> Nat] /\ Ordered(h, act) => Ordered(g, act)
  BY <1>1, ReleasedKeeps
<1>3. /\ Len(t) = Kept(k) /\ Kept(k) \in 0 .. Len(trail)
      /\ \A i \in 1 .. Len(t) : t[i] = trail[i]
  BY CutKeeps DEF HeapInv
<1> HIDE DEF g, t
<1>4. ASSUME NEW v \in Vars
      PROVE  v \in Elements(g) \/ \E i \in 1 .. Len(t) : t[i] = v
  <2>1. CASE v \in Elements(order)
    BY <1>2, <2>1
  <2>2. CASE \E i \in 1 .. Len(trail) : trail[i] = v
    <3>1. PICK i \in 1 .. Len(trail) : trail[i] = v
      BY <2>2
    <3>2. i \in 1 .. Len(t) \/ i \in Kept(k) + 1 .. Len(trail)
      BY <1>1, <1>3
    <3> QED BY <1>2, <1>3, <3>1, <3>2
  <2> QED BY <2>1, <2>2, OpenOrAssigned DEF HeapInv
<1> QED BY <1>2, <1>4 DEF g, t

\* The order in which analyze meets variables is a sequence of them.
LEMMA OrdersAre ==
  ASSUME IsFiniteSet(Vars), NEW S \in SUBSET Vars, NEW q \in Orders(S)
  PROVE  q \in Seq(Vars)
<1>1. Cardinality(S) \in Nat
  BY FS_Subset, FS_CardinalityType
<1>2. q \in [1 .. Cardinality(S) -> Vars]
  BY DEF Orders
<1> QED BY <1>1, <1>2

\* A conflict bumps, jumps back and asserts a literal.
LEMMA ConflictKeeps ==
  ASSUME HeapInv, NEW S \in SUBSET Vars, NEW T \in SUBSET Vars, NEW uip \in Vars,
         NEW k \in 0 .. DecisionLevel, Conflict(S, T, uip, k)
  PROVE  StepKeeps /\ (varInc = 0 => activity' = activity)
<1>1. /\ k < DecisionLevel /\ uip \in AboveLevel(DecisionLevel)
      /\ trail' = Append(KeptTrail(k), uip) /\ trailLim' = SubSeq(trailLim, 1, k)
  BY DEF Conflict
<1>2. PICK q \in Orders(S), r \in Orders(T) :
        /\ activity' = Bumped(order, activity, q \o r).act
        /\ order' = Released(Bumped(order, activity, q \o r).h, Bumped(order, activity, q \o r).act, k)
  BY DEF Conflict
<1> DEFINE b == Bumped(order, activity, q \o r)
<1>3. /\ b.h \in GoodHeaps /\ Elements(b.h) = Elements(order)
      /\ b.act \in [Vars -> Nat]
      /\ varInc = 0 => b.act = activity
      /\ Ordered(order, activity) => Ordered(b.h, b.act)
  <2>1. q \in Seq(Vars) /\ r \in Seq(Vars)
    BY BoundsAssumption, OrdersAre
  <2>2. q \o r \in Seq(Vars)
    BY <2>1
  <2>3. order \in GoodHeaps /\ activity \in [Vars -> Nat] /\ varInc \in Nat
    BY DEF HeapInv, HeapRight, ScoreTypes
  <2> QED BY <2>2, <2>3, BumpedKeeps
<1>4. activity' = b.act /\ order' = Released(b.h, b.act, k)
  BY <1>2
<1> HIDE DEF b
<1>5. /\ order' \in GoodHeaps
      /\ Ordered(b.h, b.act) => Ordered(order', activity')
      /\ \A v \in Vars : v \in Elements(order') \/ \E i \in 1 .. Len(KeptTrail(k)) : KeptTrail(k)[i] = v
  BY <1>1, <1>3, <1>4, CutRight
<1> DEFINE t == KeptTrail(k)
<1>6. /\ Levels(t, trailLim') /\ Len(t) = trailLim[k + 1] /\ Len(t) \in Nat
      /\ \A i \in 1 .. Len(t) : t[i] = trail[i]
  BY <1>1, CutKeeps DEF HeapInv
<1>7. \A i \in 1 .. Len(t) : t[i] # uip
  <2>1. PICK j \in trailLim[DecisionLevel] + 1 .. Len(trail) : trail[j] = uip
    BY <1>1 DEF AboveLevel
  <2>2. /\ trail \in Seq(Vars) /\ Len(trail) \in Nat
        /\ \A x, y \in 1 .. Len(trail) : trail[x] = trail[y] => x = y
        /\ trailLim \in Seq(0 .. Len(trail))
        /\ \A x, y \in 1 .. Len(trailLim) : x <= y => trailLim[x] <= trailLim[y]
    BY DEF HeapInv, Levels
  <2>3. /\ DecisionLevel \in 1 .. Len(trailLim) /\ k + 1 \in 1 .. Len(trailLim)
        /\ k + 1 <= DecisionLevel
    BY <1>1, <2>2 DEF DecisionLevel
  <2>4. Len(t) <= trailLim[DecisionLevel] /\ trailLim[DecisionLevel] \in 0 .. Len(trail)
    BY <1>6, <2>2, <2>3
  <2>5. j \in 1 .. Len(trail) /\ \A i \in 1 .. Len(t) : i # j /\ i \in 1 .. Len(trail)
    BY <1>6, <2>1, <2>2, <2>4
  <2> QED BY <1>6, <2>1, <2>2, <2>5
<1> HIDE DEF t
<1>8. /\ Levels(trail', trailLim')
      /\ {trail'[i] : i \in 1 .. Len(trail')} = {t[i] : i \in 1 .. Len(t)} \cup {uip}
  BY <1>1, <1>6, <1>7, AppendKeeps DEF t
<1>9. HeapRight'
  <2>1. ASSUME NEW v \in Vars
        PROVE  v \in Elements(order') \/ \E i \in 1 .. Len(trail') : trail'[i] = v
    <3>1. v \in Elements(order') \/ v \in {t[i] : i \in 1 .. Len(t)}
      BY <1>5 DEF t
    <3>2. v \in Elements(order') \/ v \in {trail'[i] : i \in 1 .. Len(trail')}
      BY <1>8, <3>1
    <3> QED BY <3>2
  <2> QED BY <1>5, <2>1, RightIs
<1> QED BY <1>3, <1>4, <1>5, <1>8, <1>9 DEF StepKeeps, HeapOrdered

\* A restart jumps back to level 0.
LEMMA RestartKeeps ==
  ASSUME HeapInv, Restart
  PROVE  StepKeeps
<1>1. /\ 0 \in 0 .. DecisionLevel /\ 0 < DecisionLevel /\ order' = Released(order, activity, 0)
      /\ trail' = KeptTrail(0) /\ trailLim' = <<>> /\ activity' = activity
  BY DEF Restart, DecisionLevel, HeapInv, Levels
<1>2. order \in GoodHeaps /\ activity \in [Vars -> Nat]
  BY DEF HeapInv, HeapRight, ScoreTypes
<1>3. /\ order' \in GoodHeaps
      /\ Ordered(order, activity) => Ordered(order', activity)
      /\ \A v \in Vars : v \in Elements(order') \/ \E i \in 1 .. Len(trail') : trail'[i] = v
  BY <1>1, <1>2, CutRight
<1>4. Levels(trail', trailLim')
  <2>1. Levels(trail', SubSeq(trailLim, 1, 0))
    BY <1>1, CutKeeps DEF HeapInv
  <2>2. SubSeq(trailLim, 1, 0) = <<>>
    BY DEF HeapInv, Levels
  <2> QED BY <1>1, <2>1, <2>2
<1>5. HeapRight'
  BY <1>3, RightIs
<1> QED BY <1>1, <1>2, <1>3, <1>4, <1>5 DEF StepKeeps, HeapOrdered

\* rebuildOrderHeap takes what is not assigned.
LEMMA RebuiltKeeps ==
  ASSUME HeapInv, NEW act \in [Vars -> Nat], activity' = act,
         order' = RebuildOrderHeap(act), UNCHANGED <<trail, trailLim>>
  PROVE  StepKeeps
<1>1. /\ order' \in GoodHeaps /\ Elements(order') = Open
      /\ Ordered(order', activity')
  BY BoundsAssumption, RebuildKeeps DEF RebuildOrderHeap, Open
<1>2. HeapRight'
  BY <1>1 DEF HeapRight, OpenInHeap, Open, Assigned
<1> QED BY <1>1, <1>2 DEF StepKeeps, HeapOrdered, HeapInv

\* A decision on a variable v without a value, when what else left the heap has one.
LEMMA DecidedKeeps ==
  ASSUME HeapInv, NEW v \in Open, trail' = Append(trail, v),
         trailLim' = Append(trailLim, Len(trail)), activity' = activity,
         order' \in GoodHeaps, Open \ {v} \subseteq Elements(order'),
         HeapOrdered => HeapOrdered'
  PROVE  StepKeeps
<1>1. v \in Vars /\ \A i \in 1 .. Len(trail) : trail[i] # v
  BY DEF Open, Assigned
<1>2. /\ Levels(trail', trailLim')
      /\ {trail'[i] : i \in 1 .. Len(trail')} = {trail[i] : i \in 1 .. Len(trail)} \cup {v}
  BY <1>1, AppendKeeps DEF HeapInv
<1>3. HeapRight'
  <2>1. ASSUME NEW w \in Vars
        PROVE  w \in Elements(order') \/ \E i \in 1 .. Len(trail') : trail'[i] = w
    <3>1. w \in Elements(order') \/ w = v \/ w \in {trail[i] : i \in 1 .. Len(trail)}
      BY DEF Open, Assigned
    <3>2. w \in Elements(order') \/ w \in {trail'[i] : i \in 1 .. Len(trail')}
      BY <1>2, <3>1
    <3> QED BY <3>2
  <2> QED BY <2>1, RightIs
<1> QED BY <1>2, <1>3 DEF StepKeeps, HeapInv, ScoreTypes

\* pickBranchLit drops assigned variables only.
LEMMA DecideKeeps ==
  ASSUME HeapInv, Decide
  PROVE  StepKeeps
<1>1. /\ trailLim' = Append(trailLim, Len(trail)) /\ activity' = activity
      /\ activity \in [Vars -> Nat] /\ order \in GoodHeaps /\ Open \subseteq Elements(order)
  BY DEF Decide, HeapInv, ScoreTypes, HeapRight, OpenInHeap
<1>2. CASE \E n \in 0 .. Len(order.heap) : TakeOff(n)
  <2>1. PICK n \in 0 .. Len(order.heap) : TakeOff(n)
    BY <1>2
  <2> DEFINE h == Popped[n]
             v == Top(h)
  <2>2. /\ n \in 0 .. Cardinality(Vars) - 1 /\ n \in 0 .. Cardinality(Vars)
        /\ \A m \in 0 .. n - 1 : Top(Popped[m]) \in Assigned
        /\ v \in Open /\ order' = Popped[n + 1] /\ trail' = Append(trail, v)
    <3>1. Len(order.heap) \in 0 .. Cardinality(Vars) /\ Cardinality(Vars) \in Nat
      BY <1>1, BoundsAssumption, HeapFits, FS_CardinalityType
    <3>2. n < Len(order.heap)
      BY <2>1 DEF TakeOff
    <3> QED BY <2>1, <3>1, <3>2 DEF TakeOff
  <2>3. /\ h \in GoodHeaps /\ Open \subseteq Elements(h)
        /\ Ordered(order, activity) => Ordered(h, activity)
    BY <1>1, <2>2, BoundsAssumption, PoppedKeeps
  <2>4. order' = RemoveMin(h, activity)
    BY <1>1, <2>2, BoundsAssumption, PoppedIs
  <2> HIDE DEF h
  <2>5. /\ order' \in GoodHeaps /\ Elements(order') = Elements(h) \ {v}
        /\ Ordered(h, activity) => Ordered(order', activity)
    BY <1>1, <2>2, <2>3, <2>4, RemoveMinKeeps
  <2>6. HeapOrdered => HeapOrdered'
    BY <1>1, <2>3, <2>5 DEF HeapOrdered
  <2> QED BY <1>1, <2>2, <2>3, <2>5, <2>6, DecidedKeeps
<1>3. CASE AtRandom
  <2>1. PICK v \in Open : trail' = Append(trail, v)
    BY <1>3 DEF AtRandom
  <2>2. order' = order
    BY <1>3 DEF AtRandom
  <2> QED BY <1>1, <2>1, <2>2, DecidedKeeps DEF HeapOrdered
<1> QED BY <1>2, <1>3 DEF Decide

\* Without a variable left everything is assigned.
LEMMA NoneLeftKeeps ==
  ASSUME HeapInv, NoneLeft
  PROVE  StepKeeps
<1>1. /\ order' = EmptyHeap /\ activity' = activity /\ trail' = trail /\ trailLim' = trailLim
      /\ Elements(order) \subseteq Assigned
  BY DEF NoneLeft
<1>2. HeapRight'
  <2>1. ASSUME NEW v \in Vars
        PROVE  v \in Elements(order') \/ \E i \in 1 .. Len(trail') : trail'[i] = v
    <3>1. v \in Assigned
      BY <1>1, OpenOrAssigned DEF HeapInv, Assigned
    <3> QED BY <1>1, <3>1 DEF Assigned
  <2>2. order' \in GoodHeaps
    BY <1>1, EmptyIsGood
  <2> QED BY <2>1, <2>2, RightIs
<1>3. HeapOrdered'
  BY <1>1, EmptyIsGood DEF HeapOrdered
<1> QED BY <1>1, <1>2, <1>3 DEF StepKeeps, HeapInv, ScoreTypes

\* Steps that touch neither trail nor heap.
LEMMA StillKeeps ==
  ASSUME HeapInv, UNCHANGED <<order, trail, trailLim>>, activity' \in [Vars -> Nat],
         activity' = activity \/ (useStatic /\ ~useStatic')
  PROVE  StepKeeps
  BY DEF StepKeeps, HeapInv, HeapRight, OpenInHeap, Open, Assigned, HeapOrdered

\* waitForActivityScores rebuilds the heap when it got scores.
LEMMA ReportKeeps ==
  ASSUME HeapInv, NEW r \in Requests, TakeScores(r), UNCHANGED <<trail, trailLim>>
  PROVE  StepKeeps
<1>1. /\ activity \in [Vars -> Nat] /\ DOMAIN r.scores \subseteq Vars
      /\ \A v \in DOMAIN r.scores : r.scores[v] \in Nat
  BY RequestsAssumption DEF HeapInv, ScoreTypes
<1>2. activity' = [v \in Vars |-> IF v \in DOMAIN r.scores THEN r.scores[v] ELSE activity[v]]
  BY DEF TakeScores
<1>3. activity' \in [Vars -> Nat]
  BY <1>1, <1>2
<1>4. CASE DOMAIN r.scores # {}
  <2>1. order' = RebuildOrderHeap(activity')
    BY <1>4 DEF TakeScores
  <2> QED BY <1>3, <2>1, RebuiltKeeps
<1>5. CASE DOMAIN r.scores = {}
  <2>1. activity' = activity
    BY <1>1, <1>2, <1>5
  <2>2. order' = order
    BY <1>5 DEF TakeScores
  <2> QED BY <1>3, <2>1, <2>2, StillKeeps
<1> QED BY <1>4, <1>5

\* Every step keeps the heap right, and its order but for the end of a static phase.
LEMMA HeapStep ==
  ASSUME HeapInv, [Next]_vars
  PROVE  StepKeeps
<1>1. ASSUME NEW v \in Vars, Imply(v) PROVE StepKeeps
  BY <1>1, ImplyKeeps
<1>2. ASSUME NEW S \in SUBSET Vars, NEW T \in SUBSET Vars, NEW uip \in Vars,
             NEW k \in 0 .. DecisionLevel, Conflict(S, T, uip, k)
      PROVE  StepKeeps
  BY <1>2, ConflictKeeps
<1>3. CASE NoConflict
  <2>1. /\ UNCHANGED <<order, trail, trailLim>>
        /\ activity \in [Vars -> Nat] /\ activityCopy \in [Vars -> Nat]
    BY <1>3 DEF NoConflict, HeapInv, ScoreTypes
  <2>2. \/ activity' = activityCopy /\ useStatic /\ ~useStatic'
        \/ activity' = activity
    BY <1>3 DEF NoConflict, StaticOver, TakeBack
  <2> QED BY <2>1, <2>2, StillKeeps
<1>4. CASE Report
  <2>1. PICK r \in Requests : TakeScores(r)
    BY <1>4 DEF Report
  <2> QED BY <1>4, <2>1, ReportKeeps DEF Report
<1>5. CASE NoReport
  BY <1>5, StillKeeps DEF NoReport, scoreVars, HeapInv, ScoreTypes
<1>6. CASE Restart
  BY <1>6, RestartKeeps
<1>7. CASE Simplify
  BY <1>7, RebuiltKeeps DEF Simplify, HeapInv, ScoreTypes
<1>8. CASE Decide
  BY <1>8, DecideKeeps
<1>9. CASE NoneLeft
  BY <1>9, NoneLeftKeeps
<1>10. CASE UNCHANGED vars
  BY <1>10, StillKeeps DEF vars, HeapInv, ScoreTypes
<1> QED
  BY <1>1, <1>2, <1>3, <1>4, <1>5, <1>6, <1>7, <1>8, <1>9, <1>10 DEF Next

\* The other types.
LEMMA ScoreTypesStep ==
  ASSUME HeapInv, [Next]_vars
  PROVE  ScoreTypes'
<1> USE BoundsAssumption DEF ScoreTypes
<1>0. ScoreTypes /\ activity' \in [Vars -> Nat]
  BY HeapStep DEF HeapInv, StepKeeps
<1>1. ASSUME NEW v \in Vars, Imply(v) PROVE ScoreTypes'
  BY <1>0, <1>1 DEF Imply, scoreVars
<1>2. ASSUME NEW S \in SUBSET Vars, NEW T \in SUBSET Vars, NEW uip \in Vars,
             NEW k \in 0 .. DecisionLevel, Conflict(S, T, uip, k)
      PROVE  ScoreTypes'
  <2>1. varInc' \in Nat
    BY <1>0, <1>2, DecayKeepsPositive DEF Conflict
  <2>2. conflicts' \in 0 .. MaxConflicts
    BY <1>0, <1>2 DEF Conflict
  <2> QED BY <1>0, <1>2, <2>1, <2>2 DEF Conflict
<1>3. CASE NoConflict
  <2>1. varInc' \in Nat /\ useStatic' \in BOOLEAN
    BY <1>0, <1>3 DEF NoConflict, TakeBack
  <2> QED BY <1>0, <1>3, <2>1 DEF NoConflict
<1>4. CASE Report
  <2>1. PICK r \in Requests : TakeScores(r)
    BY <1>4 DEF Report
  <2>2. r.static \in BOOLEAN /\ r.period \in Nat /\ r.forward \in Nat
    BY RequestsAssumption
  <2>3. /\ varInc' \in Nat /\ varIncCopy' \in Nat /\ useStatic' \in BOOLEAN
        /\ staticDecisions' \in Nat /\ forward' \in Nat
        /\ activityCopy' \in [Vars -> Nat]
    BY <1>0, <2>1, <2>2 DEF TakeScores, NextInc
  <2>4. lastDecisions' = decisions /\ UNCHANGED <<decisions, conflicts>>
        /\ pc = "report" /\ pc' = "decide"
    BY <1>4 DEF Report
  <2> QED BY <1>0, <2>3, <2>4
<1>5. CASE NoReport
  BY <1>0, <1>5 DEF NoReport, scoreVars
<1>6. CASE Restart
  BY <1>0, <1>6 DEF Restart
<1>7. CASE Simplify
  BY <1>0, <1>7 DEF Simplify
<1>8. CASE Decide
  <2>1. decisions' \in 0 .. MaxDecisions + 1 /\ decisions' <= MaxDecisions
        /\ lastDecisions' \in 0 .. decisions'
    BY <1>0, <1>8 DEF Decide
  <2> QED BY <1>0, <1>8, <2>1 DEF Decide
<1>9. CASE NoneLeft
  <2>1. decisions' \in 0 .. MaxDecisions + 1 /\ lastDecisions' \in 0 .. decisions'
    BY <1>0, <1>9 DEF NoneLeft
  <2> QED BY <1>0, <1>9, <2>1 DEF NoneLeft
<1>10. CASE UNCHANGED vars
  BY <1>0, <1>10 DEF vars
<1> QED
  BY <1>1, <1>2, <1>3, <1>4, <1>5, <1>6, <1>7, <1>8, <1>9, <1>10 DEF Next

\* Together: the invariant is inductive.
LEMMA HeapInvStep == HeapInv /\ [Next]_vars => HeapInv'
  BY HeapStep, ScoreTypesStep DEF HeapInv, StepKeeps, Levels

\* The index of the heap is right and no type is left, for every set of variables and
\* whatever is assigned, bumped, asked for and taken off (Heap.h).
THEOREM IndicesRight == Spec => []HeapIndexed
<1>1. Init => HeapInv
  BY HeapInit
<1>2. HeapInv /\ [Next]_vars => HeapInv'
  BY HeapInvStep
<1>3. HeapInv => HeapIndexed
  BY HeapInvSuffices
<1> QED
  BY <1>1, <1>2, <1>3, PTL DEF Spec

\* No variable without a value is ever missing from the heap: pickBranchLit finding
\* none means that the assignment is complete.
THEOREM NoneMissing == Spec => []OpenInHeap
<1>1. Init => HeapInv
  BY HeapInit
<1>2. HeapInv /\ [Next]_vars => HeapInv'
  BY HeapInvStep
<1>3. HeapInv => OpenInHeap
  BY HeapInvSuffices
<1> QED
  BY <1>1, <1>2, <1>3, PTL DEF Spec

\* The heap is ordered by activity and stays so, but for the end of a static phase.
THEOREM StaysOrdered == MCSpec => OrderKept
<1> DEFINE Stays == HeapOrdered /\ ~(useStatic /\ ~useStatic') => HeapOrdered'
<1>1. MCInit => HeapInv
  BY HeapInit DEF MCInit
<1>2. HeapInv /\ [MCNext]_<<vars, begun>> => HeapInv' /\ [Stays]_<<vars, begun>>
  <2> SUFFICES ASSUME HeapInv, [MCNext]_<<vars, begun>>
               PROVE  HeapInv' /\ Stays
    OBVIOUS
  <2>1. [Next]_vars
    BY DEF MCNext
  <2> QED BY <2>1, HeapStep, HeapInvStep DEF StepKeeps
<1> QED
  BY <1>1, <1>2, PTL DEF MCSpec, OrderKept

\* Nothing is added to an activity while static scores are in force.
Frozen == useStatic => varInc = 0

\* With an increment of zero bumps change nothing.
LEMMA FrozenStep ==
  ASSUME OnTime, HeapInv, Frozen, [Next]_vars
  PROVE  Frozen' /\ (useStatic /\ useStatic' /\ pc = "propagate" => activity' = activity)
<1> DEFINE Goal == Frozen' /\ (useStatic /\ useStatic' /\ pc = "propagate" => activity' = activity)
<1> SUFFICES Goal
  OBVIOUS
<1> USE DEF Frozen
<1>0. varInc \in Nat /\ useStatic \in BOOLEAN
  BY DEF HeapInv, ScoreTypes
<1>1. ASSUME NEW v \in Vars, Imply(v) PROVE Goal
  BY <1>1 DEF Imply, scoreVars
<1>2. ASSUME NEW S \in SUBSET Vars, NEW T \in SUBSET Vars, NEW uip \in Vars,
             NEW k \in 0 .. DecisionLevel, Conflict(S, T, uip, k)
      PROVE  Goal
  <2>1. varInc = 0 => activity' = activity
    BY <1>2, ConflictKeeps
  <2>2. useStatic' = useStatic /\ varInc' = varInc * Decay
    BY <1>2 DEF Conflict
  <2>3. varInc = 0 => varInc' = 0
    BY <2>2, BoundsAssumption
  <2> QED BY <2>1, <2>2, <2>3
<1>3. CASE NoConflict
  BY <1>3 DEF NoConflict, TakeBack
<1>4. CASE Report
  <2>1. PICK r \in Requests : TakeScores(r)
    BY <1>4 DEF Report
  <2>2. r.static \in BOOLEAN /\ (r.static => DOMAIN r.scores # {})
    BY RequestsAssumption DEF OnTime
  <2>3. Frozen'
    BY <1>0, <2>1, <2>2 DEF TakeScores, NextInc
  <2> QED BY <1>4, <2>3 DEF Report
<1>5. CASE NoReport
  BY <1>5 DEF NoReport, scoreVars
<1>6. CASE Restart
  BY <1>6 DEF Restart
<1>7. CASE Simplify
  BY <1>7 DEF Simplify
<1>8. CASE Decide
  BY <1>8 DEF Decide
<1>9. CASE NoneLeft
  BY <1>9 DEF NoneLeft
<1>10. CASE UNCHANGED vars
  BY <1>10 DEF vars
<1> QED
  BY <1>1, <1>2, <1>3, <1>4, <1>5, <1>6, <1>7, <1>8, <1>9, <1>10 DEF Next

\* Conflicts leave static scores alone, if every static request gives a score: "changed
\* with variable bump disabled" (Solver.cc, at waitForActivityScores).
THEOREM StaticScoresAreLeft ==
  ASSUME OnTime
  PROVE  Spec => StaticScoresStay
<1> DEFINE Unbumped == useStatic /\ useStatic' /\ pc = "propagate" => activity' = activity
<1>1. Init => HeapInv /\ Frozen
  BY HeapInit DEF Init, Frozen
<1>2. HeapInv /\ Frozen /\ [Next]_vars => HeapInv' /\ Frozen' /\ [Unbumped]_vars
  BY HeapInvStep, FrozenStep
<1> QED
  BY <1>1, <1>2, PTL DEF Spec, StaticScoresStay
================================================================================

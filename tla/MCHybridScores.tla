---------------------------- MODULE MCHybridScores ----------------------------
(***************************************************************************)
(* HybridScores with what there was when the static scores in force were   *)
(* asked for, and requests for TLC.                                        *)
(***************************************************************************)
EXTENDS HybridScores

VARIABLE begun   \* [scores, inc, at]: activity, varInc and decisions at that moment

Now(act, inc, at) == [scores |-> act, inc |-> inc, at |-> at]

MCInit == Init /\ begun = Now(activity, varInc, decisions)
MCNext == Next /\ begun' = IF ~useStatic /\ useStatic'
                           THEN Now(activity, varInc, decisions) ELSE begun
MCSpec == MCInit /\ [][MCNext]_<<vars, begun>>

\* Scores for the first two variables, the larger for the one or the other.
Up   == [v \in {1, 2} |-> v]
Down == [v \in {1, 2} |-> 4 - v]
None == [v \in {} |-> 0]
Ask(static, scores, period, fwd) ==
  [static |-> static, scores |-> scores, period |-> period, forward |-> fwd]

\* heuristic_type "refocus", and without scores as advance() sends it
Refocus == {Ask(FALSE, Down, 0, 2), Ask(FALSE, None, 0, 0)}
\* heuristic_type "hybrid", for at most as many decisions as a period has
Hybrid == {Ask(TRUE, Up, 1, 0), Ask(TRUE, Down, 3, 3)}
\* heuristic_type is an argument of step(): one session may send both
Mixed == Refocus \cup Hybrid

\* "the activity and increment are restored" (Solver.cc, at waitForActivityScores):
\* the end of a static phase brings back what its beginning replaced.
Restored ==
  [][useStatic /\ ~useStatic' => /\ activity' = begun.scores
                                 /\ varInc' = begun.inc]_<<vars, begun>>

\* The heap stays a priority queue of the activities through bumps, backjumps,
\* insertions, removals and rebuilds; only the end of a static phase, which restores
\* the activities and does not rebuild, leaves it in another order.
OrderKept ==
  [][HeapOrdered /\ ~(useStatic /\ ~useStatic') => HeapOrdered']_<<vars, begun>>

\* "... after n decisions": static scores decide no more often than was asked for.
HeldForPeriod == useStatic => decisions - begun.at <= staticDecisions
================================================================================

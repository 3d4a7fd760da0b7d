------------------------------- MODULE MCCdclLcm -------------------------------
(***************************************************************************)
(* Instances of CdclLcm for TLC.                                           *)
(***************************************************************************)
EXTENDS CdclLcmInvariant

P(v) == <<v, TRUE>>
N(v) == <<v, FALSE>>

Positive == Vars \X {TRUE}

\* A clause learnt with the help of a longer one that reduceDB then deletes: its
\* vivification finds neither a conflict nor a true literal.
Orphaned == << {P(1), P(2), P(3), P(4)}, {P(1), P(2), P(3), N(4)},
               {N(1), P(2), P(4)}, {N(1), P(3), N(4)} >>

\* Vivification alone refutes the formula: with the fact 3, learnt after {1, 2},
\* assuming 2 false fails, and so does 2.
Refuted == << {P(1), P(2), P(4)}, {P(1), P(2), N(4)}, {P(3), P(4)}, {P(3), N(4)},
              {P(2), N(3), P(4)}, {P(2), N(3), N(4)}, {N(2), P(4)}, {N(2), N(4)} >>

\* A conflict over three decision levels, whose learnt clause has a literal of
\* each, and one over two that jumps over a level.
Deep == << {N(1), N(2), N(3), P(4)}, {N(1), N(2), N(3), N(4)},
           {N(1), P(3), P(4)}, {N(1), P(3), N(4)}, {P(4), P(3)} >>

Files == {Orphaned, Refuted, Deep}

Decisions(F) == IF F = Deep THEN Vars \X {TRUE} ELSE {N(1), N(2), N(3), P(4)}
Reductions(F) == IF F = Deep THEN 0 ELSE 1

\* The last conflict of a search may be the one at which adaptSolver runs.
Adaptive(F) == TRUE

\* Bound: the last search is followed as far as its first decision.
LastSearch == starts = MaxStarts /\ mode = "search" => DecisionLevel <= 1
================================================================================

-------------------------------- MODULE MCCdcl --------------------------------
(***************************************************************************)
(* Instances of Cdcl for TLC.                                              *)
(***************************************************************************)
EXTENDS CdclInvariant, FiniteSetsExt

P(v) == <<v, TRUE>>
N(v) == <<v, FALSE>>

\* All clauses over three variables: every branch of the search ends in a
\* conflict, and a proof of unsatisfiability has to learn down to a fact.
Full == FoldSet(LAMBDA C, F : Append(F, C), <<>>,
                {{<<1, a>>, <<2, b>>, <<3, c>>} : a, b, c \in BOOLEAN})

\* Satisfiable, with clauses of three literals only: watches are moved, and learnt
\* clauses are forgotten and learnt again.
Ternary == << {P(1), P(2), P(3)}, {N(1), N(2), P(3)}, {P(1), N(2), N(3)},
              {N(1), P(2), N(3)}, {N(1), P(2), P(3)} >>

\* Binary and longer clauses: propagation over several levels, binary conflicts,
\* minimisation with binary clauses, clauses that are true when they are read,
\* facts, tautologies and contradictory facts.
Mixed == {
  << {P(1), P(2)}, {N(1), P(3)}, {N(2), P(3)}, {N(3), P(1), P(2)}, {N(3), N(1), N(2)},
     {N(1), P(2)}, {N(2), P(1)} >>,
  << {P(1), P(2)}, {N(1), N(2)}, {P(1), N(2), P(3)}, {N(1), P(2), N(3)} >>,
  << {P(1)}, {N(1), P(2)}, {N(2), P(3), N(1)} >>,
  << {N(1), P(2)}, {N(2), P(3)}, {P(1)} >>,
  << {P(1), N(1)}, {N(2), P(3)}, {P(2), P(3)}, {N(3)} >>,
  << {P(1)}, {N(1)} >> }

\* Learnt clauses with a literal that others imply, and with one they do not.
Minimise == { << {N(1), P(2)}, {N(2), N(3), P(4)}, {N(2), N(3), N(4)} >>,
              << {N(1), P(2)}, {N(1), N(2), N(3), P(4)}, {N(2), N(3), N(4)} >> }

\* Unsatisfiable over two variables.
Pairs == << {P(1), P(2)}, {P(1), N(2)}, {N(1), P(2)}, {N(1), N(2)} >>

Files == {Full, Ternary, Pairs} \cup Mixed \cup Minimise

\* Over four variables decisions make literals true and reduceDB does not run; over
\* fewer it runs once, and decisions make either literal true, but for Full, where
\* the two signs of a variable may be swapped.
Decisions(F)  == IF F \in Minimise \cup {Full} THEN Vars \X {TRUE} ELSE Lits
Reductions(F) == IF F \in Minimise THEN 0 ELSE 1

\* adaptSolver runs, once, but for the two formulas with the most conflicts.
Adaptive(F) == F \notin {Full, Ternary}
=============================================================================

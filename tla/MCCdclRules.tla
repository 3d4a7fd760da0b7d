------------------------------ MODULE MCCdclRules ------------------------------
(***************************************************************************)
(* CdclRules on its own, for formulas over two variables.                  *)
(***************************************************************************)
EXTENDS CdclRules

P(v) == <<v, TRUE>>
N(v) == <<v, FALSE>>

\* Two binary clauses short of a contradiction, the contradiction, an implication
\* chain, a contradiction of facts, and no clause at all.
Formulas2 == { {{P(1), P(2)}, {N(1), P(2)}, {P(1), N(2)}},
               {{P(1), P(2)}, {N(1), P(2)}, {P(1), N(2)}, {N(1), N(2)}},
               {{N(1), P(2)}, {P(1)}},
               {{P(1)}, {N(1)}},
               {} }
==============================================================================

------------------------------ MODULE MCSimpElim ------------------------------
(***************************************************************************)
(* Instances of SimpElim for TLC.                                          *)
(***************************************************************************)
EXTENDS SimpElimInvariant

P(v) == <<v, TRUE>>
N(v) == <<v, FALSE>>

\* Unsatisfiable by two chains of implications through different variables, with
\* nothing to subsume.
Chains == << {P(1), P(2)}, {N(2), P(3)}, {N(3), P(1)},
             {N(1), N(2)}, {P(2), P(4)}, {N(4), N(1)} >>

Files == { Chains,
  \* an equivalence and a clause that is strengthened, then subsumes
  << {P(1), N(2)}, {N(1), P(2)}, {P(1), P(2), P(3)}, {N(3), P(4), P(1)} >>,
  \* a fact that comes out of two binary clauses, and propagates
  << {P(1), P(2)}, {P(1), N(2)}, {N(1), P(3), P(4)}, {N(1), N(3), P(4)} >>,
  \* ternary clauses with several resolvents, false literals, tautologies
  << {P(1), P(2), P(3)}, {N(1), P(2), N(4)}, {N(2), P(3), P(4)}, {N(3), N(4), P(1)} >>,
  << {P(1), N(1)}, {P(4)}, {N(4), P(2), P(3)}, {N(2), N(3), P(1)}, {N(4)} >>,
  << {P(1), P(2)}, {P(1), P(3)}, {N(1), P(4)}, {N(1), N(2), N(3)}, {N(4), P(2)} >>,
  \* a clause that asymmetric branching shortens
  << {P(1), P(2), P(3)}, {P(2), P(4)}, {N(4), P(3)}, {N(3), P(1), N(4)} >>,
  << {N(1), P(2)}, {N(2), P(3)}, {P(1), P(3), P(4)}, {N(3), P(4)}, {N(4), N(3)} >>,
  \* no clause to eliminate a variable by; the same clause twice
  << {P(1), P(2)}, {P(1), P(2)}, {P(1), N(3)}, {P(3), P(4)} >>,
  << {P(1)}, {N(1)}, {P(2), P(3)} >>,
  \* a resolvent on 3 that an older clause strengthens
  << {N(3), P(1), P(4)}, {N(4), N(2)}, {N(4), N(3), N(1)}, {N(2), P(1), P(3)},
     {N(1), P(3), P(4)} >>,
  \* unsatisfiable, three literals each
  << {P(1), P(2), P(3)}, {P(1), P(2), N(3)}, {P(1), N(2), P(4)}, {P(1), N(2), N(4)},
     {N(1), P(3)}, {N(3), N(1)} >> }

\* Options, -rcheck left off; a small -cl-lim and a negative -grow, so that they matter.
Usual == [asymm : BOOLEAN, rcheck : {FALSE}, grow : {0}, clauseLim : {20}]
           \cup [asymm : {FALSE}, rcheck : {FALSE}, grow : {-3, 0}, clauseLim : {-1, 2}]
Rcheck == [asymm : {FALSE}, rcheck : {TRUE}, grow : {0}, clauseLim : {20}]
===============================================================================

---------------------------- MODULE MCMultiSolvers ----------------------------
(* Instances of MultiSolvers for TLC. *)
EXTENDS MultiSolvers

Pos(v) == <<v, TRUE>>
Minus(v) == <<v, FALSE>>

\* A fact to be learnt, and a model.
OneFact == {{Pos(1), Pos(2)}, {Minus(1), Pos(2)}}

\* No model: the threads may learn opposite facts.
Opposite == {{Pos(1), Pos(2)}, {Minus(1), Pos(2)}, {Pos(1), Minus(2)}, {Minus(1), Minus(2)}}

\* A longer clause to learn and exchange.
Chain == {{Pos(1), Pos(2)}, {Minus(2), Pos(3)}}

Small == {OneFact, Opposite, Chain}
Facts == {OneFact}
==============================================================================

---------------------------- MODULE Propositional ----------------------------
(***************************************************************************)
(* Literals, clauses and what they mean.  A literal is a variable with a   *)
(* sign (core/SolverTypes.h, struct Lit), a clause a set of literals, a    *)
(* formula a set of clauses; an assignment gives every variable a value.   *)
(***************************************************************************)
CONSTANT Vars

Lits == Vars \X BOOLEAN

Var(l) == l[1]
Neg(l) == <<l[1], ~l[2]>>

Assignments == [Vars -> BOOLEAN]

Holds(A, l)      == A[l[1]] = l[2]
Satisfies(A, C)  == \E l \in C : Holds(A, l)
Models(A, F)     == \A C \in F : Satisfies(A, C)
Entails(F, C)    == \A A \in Assignments : Models(A, F) => Satisfies(A, C)
Satisfiable(F)   == \E A \in Assignments : Models(A, F)
==============================================================================

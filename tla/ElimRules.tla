------------------------------ MODULE ElimRules ------------------------------
(***************************************************************************)
(* Preprocessing as two rules, what SimpSolver::eliminate promises: the    *)
(* clauses may be replaced by others with the same models, and a variable  *)
(* may be dropped with all its clauses when the resolvents on it follow    *)
(* from the clauses that stay.                                             *)
(***************************************************************************)
EXTENDS Propositional

VARIABLES
  formula,  \* the clauses of the input file
  clauses,  \* the clauses the solver is left with, known facts among them
  gone,     \* the variables eliminated
  answer

rulesVars == <<formula, clauses, gone, answer>>

Init ==
  /\ formula \in SUBSET SUBSET Lits
  /\ clauses = formula
  /\ gone = {}
  /\ answer = "none"

Free(V) == {l \in Lits : Var(l) \notin V}

Rewrite ==
  /\ answer = "none"
  /\ clauses' \in SUBSET SUBSET Free(gone)
  /\ \A A \in Assignments : Models(A, clauses) <=> Models(A, clauses')
  /\ UNCHANGED <<formula, gone, answer>>

Without(v)   == {C \in clauses : \A l \in C : Var(l) # v}
Resolve(C, D, v) == (C \ {<<v, TRUE>>}) \cup (D \ {<<v, FALSE>>})
ClausesOf(l) == {C \in clauses : l \in C}

Eliminate(v) ==
  /\ answer = "none"
  /\ v \notin gone
  /\ \A C \in ClausesOf(<<v, TRUE>>), D \in ClausesOf(<<v, FALSE>>) :
       Entails(Without(v), Resolve(C, D, v))
  /\ clauses' = Without(v)
  /\ gone' = gone \cup {v}
  /\ UNCHANGED <<formula, answer>>

AnswerUnsat ==
  /\ answer = "none"
  /\ ~Satisfiable(clauses)
  /\ answer' = "UNSAT"
  /\ clauses' = {{}}
  /\ UNCHANGED <<formula, gone>>

Next == Rewrite \/ (\E v \in Vars : Eliminate(v)) \/ AnswerUnsat

Spec == Init /\ [][Next]_rulesVars

-----------------------------------------------------------------------------
TypeOK ==
  /\ formula \in SUBSET SUBSET Lits
  /\ clauses \in SUBSET SUBSET Free(gone)
  /\ gone \in SUBSET Vars
  /\ answer \in {"none", "UNSAT"}

\* Every model of what is left is, but for the variables eliminated, a model of the
\* input: what extendModel relies on.
Extends ==
  \A A \in Assignments : Models(A, clauses) =>
    \E B \in Assignments : /\ Models(B, formula)
                           /\ \A v \in Vars \ gone : B[v] = A[v]

\* No model of the input is lost.
Keeps == \A A \in Assignments : Models(A, formula) => Models(A, clauses)

\* Preprocessing reports a contradiction only where there is one.
Sound == answer = "UNSAT" => ~Satisfiable(formula)

Inv == TypeOK /\ Extends /\ Keeps /\ Sound
==============================================================================

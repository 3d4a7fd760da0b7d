------------------------------ MODULE CdclRules ------------------------------
(***************************************************************************)
(* Conflict-driven clause learning as a set of rules: what Solver::search  *)
(* promises, without watches, queues or heuristics.  The state is the set  *)
(* of true literals with the decision level each was assigned at, the      *)
(* literals decided at each level, and the clauses kept.                   *)
(***************************************************************************)
EXTENDS Propositional, Naturals, Sequences

CONSTANT Formulas    \* the formulas the solver may be given

ASSUME FormulasAssumption == Formulas \subseteq SUBSET SUBSET Lits

VARIABLES
  formula,  \* the clauses of the input file
  kept,     \* the clauses in the solver's database, as sets of literals
  true,     \* the literals that are true
  lev,      \* lev[v]: the level v was assigned at; 0 if it is not assigned
  decided,  \* decided[k]: the literal decided at level k
  answer

rulesVars == <<formula, kept, true, lev, decided, answer>>

Init ==
  /\ formula \in Formulas
  /\ kept = {}
  /\ true = {}
  /\ lev = [v \in Vars |-> 0]
  /\ decided = <<>>
  /\ answer = "none"

Level == Len(decided)
Assigned(v) == \E l \in true : Var(l) = v
Falsified(C) == \A l \in C : Neg(l) \in true

Assign(l, k) == /\ true' = true \cup {l}
                /\ lev' = [lev EXCEPT ![Var(l)] = k]

\* The clause says nothing new but that l is true.
UnitIn(l, C) == /\ l \in C
                /\ ~Assigned(Var(l))
                /\ Falsified(C \ {l})

\* A clause of the input is stored, or a clause is replaced, without some of its
\* literals.
Keep ==
  /\ answer = "none"
  /\ decided = <<>>
  /\ \E D \in formula \cup kept : \E C \in SUBSET D :
       /\ kept' \in {kept \cup {C}, (kept \ {D}) \cup {C}}
       /\ Entails(formula \cup kept, C)
  /\ UNCHANGED <<formula, true, lev, decided, answer>>

\* A clause is replaced by one of its literals, which holds.
Fact ==
  /\ answer = "none"
  /\ decided = <<>>
  /\ \E D \in kept : \E l \in D :
       /\ ~Assigned(Var(l))
       /\ Assign(l, 0)
       /\ kept' \in {kept, kept \ {D}}
       /\ Entails(formula \cup kept, {l})
  /\ UNCHANGED <<formula, decided, answer>>

Propagate(l, C) ==
  /\ answer = "none"
  /\ Assign(l, Level)
  /\ C \in kept \cup formula
  /\ UnitIn(l, C)
  /\ UNCHANGED <<formula, kept, decided, answer>>

Decide(l) ==
  /\ answer = "none"
  /\ decided' = Append(decided, l)
  /\ ~Assigned(Var(l))
  /\ Assign(l, Level + 1)
  /\ UNCHANGED <<formula, kept, answer>>

\* What stays true when the levels above k are undone.
OneLevelMore(k) == {l \in true : lev[Var(l)] <= k + 1}                      \* mutant
Below(k) == {l \in true : lev[Var(l)] <= k}

FalseBelow(k) == {m \in Lits : Neg(m) \in Below(k)}

\* Backjumping to level k, where the learnt clause, l and the false literals F,
\* leaves only l open.
LearnClause(l, F, k) ==
  /\ kept' = IF F = {} THEN kept ELSE kept \cup {{l} \cup F}
  /\ ~\E m \in Below(k) : Var(m) = Var(l)
  /\ true' = Below(k) \cup {l}
  /\ lev' = [v \in Vars |-> IF v = Var(l) THEN k
                          ELSE IF lev[v] <= k THEN lev[v] ELSE 0]
  /\ Entails(formula \cup kept, {l} \cup F)

Learn(k) ==
  /\ answer = "none"
  /\ k < Level
  /\ decided' = SubSeq(decided, 1, k)
  /\ \E l \in Lits : \E F \in SUBSET FalseBelow(k) : LearnClause(l, F, k)
  /\ UNCHANGED <<formula, answer>>

\* Clauses may be forgotten along with the assignment (adaptSolver).
Restart ==
  /\ answer = "none"
  /\ decided' = <<>>
  /\ true' = Below(0)
  /\ lev' = [v \in Vars |-> 0]
  /\ kept' \in SUBSET kept
  /\ UNCHANGED <<formula, answer>>

Forget ==
  /\ answer = "none"
  /\ kept' \in SUBSET kept
  /\ UNCHANGED <<formula, true, lev, decided, answer>>

AnswerUnsatEarly ==                                                      \* mutant
  /\ answer = "none"
  /\ \E C \in kept \cup formula : Falsified(C)
  /\ answer' = "UNSAT"
  /\ UNCHANGED <<formula, kept, true, lev, decided>>

AnswerUnsat ==
  /\ answer = "none"
  /\ answer' = "UNSAT"
  /\ decided = <<>>
  /\ \E C \in kept \cup formula : Falsified(C)
  /\ UNCHANGED <<formula, kept, true, lev, decided>>

AnswerSat ==
  /\ answer = "none"
  /\ answer' = "SAT"
  /\ \A C \in formula : C \cap true # {}
  /\ UNCHANGED <<formula, kept, true, lev, decided>>

Next ==
  \/ Forget
  \/ \E k \in 0 .. Level : Learn(k)
  \/ \E l \in Lits : Decide(l)
  \/ \E C \in kept \cup formula : \E l \in C : Propagate(l, C)
  \/ Keep \/ Fact
  \/ Restart \/ AnswerUnsat \/ AnswerSat

Spec == Init /\ [][Next]_rulesVars

TypeOK ==
  /\ formula \in SUBSET SUBSET Lits
  /\ kept \in SUBSET SUBSET Lits
  /\ true \in SUBSET Lits
  /\ lev \in [Vars -> Nat]
  /\ decided \in Seq(Lits)
  /\ answer \in {"none", "SAT", "UNSAT"}

\* The solver never answers wrongly (solve_, whose result Main.cc prints).
Sound == /\ answer = "UNSAT" => ~Satisfiable(formula)
         /\ answer = "SAT" => Satisfiable(formula)

-----------------------------------------------------------------------------
\* Why: the clauses kept follow from the formula, ...
KeptEntailed == \A C \in kept : Entails(formula, C)

\* ... what is true up to level k follows from the formula and the first k
\* decisions, ...
Follows(A, k) == /\ Models(A, formula)
                 /\ \A i \in 1 .. k : Holds(A, decided[i])
Consequences ==
  \A k \in 0 .. Level : \A A \in Assignments :
    Follows(A, k) => \A l \in Below(k) : Holds(A, l)

\* ... and the assignment is one.
Consistent == /\ \A l \in true : Neg(l) \notin true
              /\ \A l \in true : lev[Var(l)] <= Level

Inv == TypeOK /\ KeptEntailed /\ Consequences /\ Consistent /\ Sound
==============================================================================

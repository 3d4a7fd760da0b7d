------------------------------ MODULE Rules_proofs ------------------------------
(***************************************************************************)
(* The rules of search and of preprocessing answer correctly, for every    *)
(* set of variables and every formula: their invariants are inductive.     *)
(* The heart of the first (CdclRules) is Consequences: what is true up to  *)
(* a level holds in every model of the formula in which the decisions up   *)
(* to that level hold; of the second (ElimRules), that a variable whose    *)
(* resolvents follow from the other clauses can be given a value.          *)
(***************************************************************************)
EXTENDS CdclRules, SequenceTheorems, TLAPS

VARIABLES clauses, gone   \* of ElimRules, whose other variables are those of CdclRules

\* A literal's negation is a literal of the same variable, and holds in an
\* assignment if and only if the literal does not.
LEMMA NegLit ==
  ASSUME NEW l \in Lits
  PROVE  /\ Neg(l) \in Lits
         /\ Var(l) \in Vars
         /\ Var(Neg(l)) = Var(l)
         /\ Neg(Neg(l)) = l
         /\ \A A \in Assignments : Holds(A, Neg(l)) <=> ~Holds(A, l)
<1>1. PICK v \in Vars, b \in BOOLEAN : l = <<v, b>>
  BY DEF Lits
<1>2. Neg(l) = <<v, ~b>> /\ Var(l) = v
  BY <1>1 DEF Neg, Var
<1>3. Neg(l) \in Lits /\ Var(Neg(l)) = v /\ Neg(Neg(l)) = <<v, ~(~b)>>
  BY <1>2 DEF Neg, Var, Lits
<1>4. ASSUME NEW A \in Assignments PROVE Holds(A, Neg(l)) <=> ~Holds(A, l)
  <2>1. A[v] \in BOOLEAN
    BY DEF Assignments
  <2>2. Holds(A, l) <=> A[v] = b
    BY <1>1 DEF Holds
  <2>3. Holds(A, Neg(l)) <=> A[v] = ~b
    BY <1>2 DEF Holds
  <2> QED BY <2>1, <2>2, <2>3
<1> QED BY <1>1, <1>2, <1>3, <1>4

\* Two literals of one variable are the same or negations of each other.
LEMMA SameVar ==
  ASSUME NEW l \in Lits, NEW m \in Lits, Var(l) = Var(m)
  PROVE  m = l \/ m = Neg(l)
  BY DEF Lits, Neg, Var

\* The clauses of the formula and those kept are clauses, and hold in its models.
LEMMA ClausesHold ==
  ASSUME TypeOK, KeptEntailed,
         NEW C \in kept \cup formula,
         NEW A \in Assignments, Models(A, formula)
  PROVE  C \subseteq Lits /\ Satisfies(A, C)
  BY DEF TypeOK, KeptEntailed, Entails, Models

\* A clause that holds, and of which every literal but l is false, makes l true.
LEMMA UnitHolds ==
  ASSUME NEW C, C \subseteq Lits, NEW l \in C,
         NEW A \in Assignments, Satisfies(A, C),
         \A m \in C \ {l} : Holds(A, Neg(m))
  PROVE  Holds(A, l)
  BY NegLit DEF Satisfies

-----------------------------------------------------------------------------
LEMMA InitInv == Init => Inv
<1> SUFFICES ASSUME Init PROVE Inv
  OBVIOUS
<1>1. TypeOK
  BY FormulasAssumption DEF Init, TypeOK
<1>2. KeptEntailed /\ Consequences /\ Consistent /\ Sound
  BY DEF Init, KeptEntailed, Consequences, Consistent, Sound, Below
<1> QED BY <1>1, <1>2 DEF Inv

\* What the formula and the clauses kept entail, the formula entails.
LEMMA Entailed ==
  ASSUME KeptEntailed, NEW C, Entails(formula \cup kept, C)
  PROVE  Entails(formula, C)
  BY DEF KeptEntailed, Entails, Models

\* Storing part of a clause.
LEMMA KeepInv ==
  ASSUME Inv, Keep
  PROVE  Inv'
<1> USE DEF Inv
<1>1. PICK D \in formula \cup kept : \E C \in SUBSET D :
        /\ kept' \in {kept \cup {C}, (kept \ {D}) \cup {C}}
        /\ Entails(formula \cup kept, C)
  BY DEF Keep
<1>a. PICK C \in SUBSET D :
        /\ kept' \in {kept \cup {C}, (kept \ {D}) \cup {C}}
        /\ Entails(formula \cup kept, C)
  BY <1>1
<1>2. C \in SUBSET Lits /\ Entails(formula, C)
  BY <1>a, Entailed DEF TypeOK
<1>3. TypeOK'
  BY <1>a, <1>2 DEF Keep, TypeOK
<1>4. KeptEntailed'
  BY <1>a, <1>2 DEF Keep, KeptEntailed
<1>5. Consequences' /\ Consistent' /\ Sound'
  BY DEF Keep, Consequences, Follows, Below, Level, Consistent, Sound
<1> QED BY <1>3, <1>4, <1>5

\* A literal that follows becomes true without a decision.
LEMMA FactInv ==
  ASSUME Inv, Fact
  PROVE  Inv'
<1> USE DEF Inv
<1>a. PICK D \in kept : \E l \in D :
        /\ ~Assigned(Var(l))
        /\ Assign(l, 0)
        /\ kept' \in {kept, kept \ {D}}
        /\ Entails(formula \cup kept, {l})
  BY DEF Fact
<1>1. PICK l \in D :
        /\ ~Assigned(Var(l))
        /\ Assign(l, 0)
        /\ kept' \in {kept, kept \ {D}}
        /\ Entails(formula \cup kept, {l})
  BY <1>a
<1>2. l \in Lits /\ Var(l) \in Vars
  BY <1>a, NegLit DEF TypeOK
<1>3. /\ true' = true \cup {l} /\ lev' = [lev EXCEPT ![Var(l)] = 0]
      /\ formula' = formula /\ decided' = decided /\ decided = << >>
      /\ answer = "none" /\ answer' = "none"
  BY <1>1 DEF Fact, Assign
<1>4. Level = 0 /\ Level' = 0
  BY <1>3 DEF Level
<1>5. TypeOK'
  BY <1>1, <1>2, <1>3 DEF TypeOK
<1>6. KeptEntailed' /\ Sound'
  BY <1>1, <1>3 DEF KeptEntailed, Sound
<1>7. \A m \in true : lev'[Var(m)] = lev[Var(m)]
  BY <1>1, <1>2, <1>3, NegLit DEF Assigned, TypeOK
<1>8. lev'[Var(l)] = 0
  BY <1>2, <1>3 DEF TypeOK
<1>9. Consistent'
  <2>1. \A m \in true : Neg(m) # l /\ Neg(l) # m
    BY <1>1, <1>2, NegLit DEF Assigned, TypeOK
  <2>2. Neg(l) # l
    BY <1>2 DEF Lits, Neg
  <2>3. \A m \in true' : Neg(m) \notin true'
    BY <1>3, <2>1, <2>2 DEF Consistent
  <2>4. ASSUME NEW m \in true' PROVE lev'[Var(m)] <= 0
    <3>1. CASE m \in true
      BY <3>1, <1>4, <1>7 DEF Consistent
    <3>2. CASE m = l
      BY <3>2, <1>8
    <3> QED BY <1>3, <3>1, <3>2
  <2> QED BY <1>4, <2>3, <2>4 DEF Consistent
<1>10. Consequences'
  <2> SUFFICES ASSUME NEW A \in Assignments, Models(A, formula), NEW m \in true'
               PROVE  Holds(A, m)
    BY <1>3, <1>4 DEF Consequences, Follows, Below
  <2>1. CASE m \in true
    <3>1. m \in Below(0) /\ Follows(A, 0) /\ 0 \in 0 .. Level
      BY <2>1, <1>4 DEF Consistent, Below, Follows
    <3> QED BY <3>1 DEF Consequences
  <2>2. CASE m = l
    <3>1. Entails(formula, {l})
      BY <1>1, Entailed
    <3>2. Satisfies(A, {l})
      BY <3>1 DEF Entails
    <3> QED BY <2>2, <3>2 DEF Satisfies
  <2> QED BY <1>3, <2>1, <2>2
<1> QED BY <1>5, <1>6, <1>9, <1>10

\* Propagation at the current level.
LEMMA PropagateInv ==
  ASSUME Inv, NEW C \in kept \cup formula, NEW l \in C, Propagate(l, C)
  PROVE  Inv'
<1> USE DEF Inv
<1>1. C \subseteq Lits /\ l \in Lits /\ Var(l) \in Vars
  BY NegLit DEF TypeOK
<1>2. Level \in Nat /\ Level' = Level
  BY DEF TypeOK, Level, Propagate
<1>3. true' = true \cup {l} /\ lev' = [lev EXCEPT ![Var(l)] = Level]
  BY DEF Propagate, Assign
<1>4. TypeOK'
  BY <1>1, <1>2, <1>3 DEF Propagate, TypeOK
<1>5. KeptEntailed' /\ Sound'
  BY DEF Propagate, KeptEntailed, Sound
<1>6. \A m \in true : lev'[Var(m)] = lev[Var(m)]
  BY <1>1, <1>3, NegLit DEF Propagate, UnitIn, Assigned, TypeOK
<1>7. lev'[Var(l)] = Level
  BY <1>1, <1>3 DEF TypeOK
<1>8. Consistent'
  <2>1. \A m \in true : Neg(m) # l /\ Neg(l) # m
    BY <1>1, NegLit DEF Propagate, UnitIn, Assigned, TypeOK
  <2>2. Neg(l) # l
    BY <1>1 DEF Lits, Neg
  <2>3. \A m \in true' : Neg(m) \notin true'
    BY <1>3, <2>1, <2>2 DEF Consistent
  <2>4. ASSUME NEW m \in true' PROVE lev'[Var(m)] <= Level
    <3>1. CASE m \in true
      BY <3>1, <1>6 DEF Consistent
    <3>2. CASE m = l
      BY <3>2, <1>2, <1>7
    <3> QED BY <1>3, <3>1, <3>2
  <2> QED BY <1>2, <2>3, <2>4 DEF Consistent
<1>9. Consequences'
  <2> SUFFICES ASSUME NEW k \in 0 .. Level, NEW A \in Assignments, Follows(A, k)',
                      NEW m \in Below(k)'
               PROVE  Holds(A, m)
    BY <1>2 DEF Consequences
  <2>1. Follows(A, k)
    BY DEF Follows, Propagate
  <2>2. CASE m \in true
    <3>1. m \in Below(k)
      BY <2>2, <1>6 DEF Below
    <3> QED BY <2>1, <3>1 DEF Consequences
  <2>3. CASE m = l
    <3>1. k = Level
      BY <2>3, <1>2, <1>7 DEF Below
    <3>2. true = Below(Level)
      BY <1>2 DEF Consistent, Below
    <3>3. \A n \in C \ {l} : Holds(A, Neg(n))
      BY <2>1, <3>1, <3>2, <1>2 DEF Propagate, UnitIn, Falsified, Consequences
    <3>4. Satisfies(A, C)
      BY <2>1, ClausesHold DEF Follows
    <3> QED BY <1>1, <3>3, <3>4, <2>3, UnitHolds
  <2> QED BY <2>2, <2>3, <1>3 DEF Below
<1> QED BY <1>4, <1>5, <1>8, <1>9

\* A decision opens the next level.
LEMMA DecideInv ==
  ASSUME Inv, NEW l \in Lits, Decide(l)
  PROVE  Inv'
<1> USE DEF Inv
<1>1. /\ Level \in Nat /\ Level' = Level + 1
      /\ decided' \in Seq(Lits) /\ decided'[Level + 1] = l
      /\ \A i \in 1 .. Level : decided'[i] = decided[i]
  <2>1. decided \in Seq(Lits) /\ decided' = Append(decided, l)
    BY DEF TypeOK, Decide
  <2> QED BY <2>1, AppendProperties DEF Level
<1>2. Var(l) \in Vars
  BY NegLit
<1>3. true' = true \cup {l} /\ lev' = [lev EXCEPT ![Var(l)] = Level + 1]
  BY DEF Decide, Assign
<1>4. TypeOK'
  BY <1>1, <1>2, <1>3 DEF Decide, TypeOK
<1>5. KeptEntailed' /\ Sound'
  BY DEF Decide, KeptEntailed, Sound
<1>6. \A m \in true : lev'[Var(m)] = lev[Var(m)]
  BY <1>2, <1>3, NegLit DEF Decide, Assigned, TypeOK
<1>7. lev'[Var(l)] = Level + 1
  BY <1>2, <1>3 DEF TypeOK
<1>8. \A m \in true : Var(m) \in Vars /\ lev[Var(m)] \in Nat
  BY NegLit DEF TypeOK
<1>9. Consistent'
  <2>1. \A m \in true : Neg(m) # l /\ Neg(l) # m
    BY <1>2, NegLit DEF Decide, Assigned, TypeOK
  <2>2. Neg(l) # l
    BY DEF Lits, Neg
  <2> QED BY <1>1, <1>3, <1>6, <1>7, <1>8, <2>1, <2>2 DEF Consistent
<1>10. Consequences'
  <2> SUFFICES ASSUME NEW k \in 0 .. Level + 1, NEW A \in Assignments, Follows(A, k)',
                      NEW m \in Below(k)'
               PROVE  Holds(A, m)
    BY <1>1 DEF Consequences
  <2>3. CASE k \in 0 .. Level
    <3>1. m \in Below(k)
      BY <2>3, <1>1, <1>3, <1>6, <1>7 DEF Below
    <3>2. Follows(A, k)
      <4>1. \A i \in 1 .. k : decided'[i] = decided[i]
        BY <2>3, <1>1
      <4>2. \A i \in 1 .. k : Holds(A, decided[i])
        BY <4>1 DEF Follows
      <4> QED BY <4>2 DEF Follows, Decide
    <3> QED BY <2>3, <3>1, <3>2 DEF Consequences
  <2>4. CASE k = Level + 1
    <3>1. Holds(A, l)
      BY <2>4, <1>1 DEF Follows
    <3>2. CASE m \in true
      <4>1. m \in Below(Level)
        BY <3>2 DEF Below, Consistent
      <4>2. Follows(A, Level)
        <5>1. \A i \in 1 .. Level : Holds(A, decided[i])
          BY <2>4, <1>1 DEF Follows
        <5> QED BY <5>1 DEF Follows, Decide
      <4> QED BY <4>1, <4>2, <1>1 DEF Consequences
    <3> QED BY <3>1, <3>2, <1>3 DEF Below
  <2> QED BY <2>3, <2>4, <1>1
<1> QED BY <1>4, <1>5, <1>9, <1>10

\* The decisions left after going back to level k.
LEMMA Prefix ==
  ASSUME TypeOK, NEW k \in 0 .. Level
  PROVE  /\ SubSeq(decided, 1, k) \in Seq(Lits)
         /\ Len(SubSeq(decided, 1, k)) = k
         /\ \A i \in 1 .. k : SubSeq(decided, 1, k)[i] = decided[i]
<1>1. decided \in Seq(Lits) /\ Level \in Nat /\ \A i \in 1 .. k : decided[i] \in Lits
  BY DEF TypeOK, Level
<1> QED BY <1>1, SubSeqProperties

\* Going back to level k leaves what was true there, and it still follows.
LEMMA BelowFollows ==
  ASSUME Inv, NEW k \in 0 .. Level, NEW j \in 0 .. k,
         NEW A \in Assignments, Models(A, formula),
         \A i \in 1 .. j : Holds(A, SubSeq(decided, 1, k)[i]),
         NEW m \in Below(j)
  PROVE  Holds(A, m)
<1>1. \A i \in 1 .. j : SubSeq(decided, 1, k)[i] = decided[i]
  BY Prefix DEF Inv, Level
<1>2. Follows(A, j)
  BY <1>1 DEF Follows
<1>3. j \in 0 .. Level
  BY DEF Inv, TypeOK, Level
<1> QED BY <1>2, <1>3 DEF Inv, Consequences

\* Backjumping and learning.
LEMMA LearnInv ==
  ASSUME Inv, NEW l \in Lits, NEW k \in 0 .. Level, NEW F \in SUBSET FalseBelow(k),
         Learn(k), LearnClause(l, F, k)
  PROVE  Inv'
<1> USE DEF Inv
<1> DEFINE C == {l} \cup F
<1>1. Level \in Nat /\ k \in 0 .. Level - 1
  BY DEF TypeOK, Level, Learn
<1>2. C \in SUBSET Lits /\ Var(l) \in Vars
  BY NegLit DEF FalseBelow
<1>3. /\ true' = Below(k) \cup {l}
      /\ decided' = SubSeq(decided, 1, k)
      /\ formula' = formula
      /\ answer = "none" /\ answer' = "none"
  BY DEF Learn, LearnClause
<1>4. Level' = k /\ decided' \in Seq(Lits)
  BY <1>1, <1>3, Prefix DEF Level
<1>5. lev' = [v \in Vars |-> IF v = Var(l) THEN k
                             ELSE IF lev[v] <= k THEN lev[v] ELSE 0]
  BY DEF LearnClause
<1>6. TypeOK'
  <2>1. lev' \in [Vars -> Nat]
    <3>1. lev \in [Vars -> Nat] /\ k \in Nat
      BY <1>1 DEF TypeOK
    <3> QED BY <3>1, <1>5
  <2>2. kept' \in SUBSET SUBSET Lits
    BY <1>2 DEF TypeOK, LearnClause
  <2> QED BY <2>1, <2>2, <1>3, <1>4 DEF TypeOK, Below
<1>7. Entails(formula, C)
  BY Entailed DEF LearnClause
<1>8. KeptEntailed'
  BY <1>7, <1>3 DEF LearnClause, KeptEntailed
<1>9. \A m \in Below(k) : /\ m \in Lits /\ Var(m) \in Vars /\ Var(m) # Var(l)
                          /\ lev'[Var(m)] = lev[Var(m)]
                          /\ lev[Var(m)] \in 0 .. k
  BY <1>5, <1>1, NegLit DEF TypeOK, Below, LearnClause
<1>10. lev'[Var(l)] = k
  BY <1>2, <1>5
<1>11. Consistent'
  <2>1. \A m \in Below(k) : Neg(m) # l /\ Neg(l) # m /\ Neg(m) \notin Below(k)
    BY <1>9, NegLit DEF Consistent, Below
  <2>2. Neg(l) # l
    BY DEF Lits, Neg
  <2>3. \A m \in true' : Neg(m) \notin true'
    BY <1>3, <2>1, <2>2
  <2>4. \A m \in true' : lev'[Var(m)] <= k
    BY <1>1, <1>3, <1>9, <1>10
  <2> QED BY <1>4, <2>3, <2>4 DEF Consistent
<1>12. Consequences'
  <2> SUFFICES ASSUME NEW j \in 0 .. k, NEW A \in Assignments, Follows(A, j)',
                      NEW m \in Below(j)'
               PROVE  Holds(A, m)
    BY <1>4 DEF Consequences
  <2>1. Models(A, formula) /\ \A i \in 1 .. j : Holds(A, SubSeq(decided, 1, k)[i])
    BY <1>3 DEF Follows
  <2>2. CASE m \in Below(k)
    <3>1. m \in Below(j)
      BY <2>2, <1>9 DEF Below
    <3> QED BY <2>1, <3>1, BelowFollows
  <2>3. CASE m = l
    <3>1. j = k
      BY <2>3, <1>1, <1>10 DEF Below
    <3>2. \A n \in Below(k) : Holds(A, n)
      BY <2>1, <3>1, <1>1, BelowFollows
    <3>3. \A n \in C \ {l} : Holds(A, Neg(n))
      BY <3>2 DEF FalseBelow
    <3>4. Satisfies(A, C)
      BY <1>7, <2>1 DEF Entails
    <3>5. C \subseteq Lits /\ l \in C
      BY <1>2
    <3> HIDE DEF C
    <3> QED BY <3>3, <3>4, <3>5, <2>3, UnitHolds
  <2> QED BY <2>2, <2>3, <1>3 DEF Below
<1>13. Sound'
  BY <1>3 DEF Sound
<1> QED BY <1>6, <1>8, <1>11, <1>12, <1>13

\* A restart keeps what follows from the formula alone.
LEMMA RestartInv ==
  ASSUME Inv, Restart
  PROVE  Inv'
<1> USE DEF Inv
<1>1. /\ true' = Below(0) /\ lev' = [v \in Vars |-> 0] /\ decided' = << >>
      /\ formula' = formula /\ kept' \subseteq kept /\ answer = "none" /\ answer' = "none"
  BY DEF Restart
<1>2. TypeOK'
  BY <1>1 DEF TypeOK, Below
<1>3. KeptEntailed' /\ Sound'
  BY <1>1 DEF KeptEntailed, Sound
<1>4. Consistent'
  <2>1. \A m \in true' : Neg(m) \notin true'
    BY <1>1 DEF Consistent, Below
  <2>2. \A m \in true' : Var(m) \in Vars
    BY <1>1, NegLit DEF Below, TypeOK
  <2>3. Level' = 0
    BY <1>1 DEF Level
  <2>4. \A m \in true' : lev'[Var(m)] = 0
    BY <1>1, <2>2
  <2> QED BY <2>1, <2>3, <2>4 DEF Consistent
<1>5. Consequences'
  <2> SUFFICES ASSUME NEW A \in Assignments, Models(A, formula), NEW m \in Below(0)
               PROVE  Holds(A, m)
    BY <1>1 DEF Consequences, Follows, Level, Below
  <2>1. 0 \in 0 .. Level /\ Follows(A, 0)
    BY DEF Level, TypeOK, Follows
  <2> QED BY <2>1 DEF Consequences
<1> QED BY <1>2, <1>3, <1>4, <1>5

\* Clauses may be forgotten: nothing rests on their being kept.
LEMMA ForgetInv ==
  ASSUME Inv, Forget
  PROVE  Inv'
<1> USE DEF Inv
<1>1. TypeOK' /\ KeptEntailed'
  BY DEF Forget, TypeOK, KeptEntailed
<1>2. Consequences' /\ Consistent' /\ Sound'
  BY DEF Forget, Consequences, Follows, Below, Level, Consistent, Sound
<1> QED BY <1>1, <1>2

\* A clause false without a decision refutes the formula.
LEMMA UnsatInv ==
  ASSUME Inv, AnswerUnsat
  PROVE  Inv'
<1> USE DEF Inv
<1>1. TypeOK' /\ KeptEntailed' /\ Consequences' /\ Consistent'
  BY DEF AnswerUnsat, TypeOK, KeptEntailed, Consequences, Follows, Below, Level,
         Consistent
<1>2. ~Satisfiable(formula)
  <2> SUFFICES ASSUME NEW A \in Assignments, Models(A, formula) PROVE FALSE
    BY DEF Satisfiable
  <2>1. PICK C \in kept \cup formula : Falsified(C)
    BY DEF AnswerUnsat
  <2>2. true = Below(0)
    BY DEF AnswerUnsat, Consistent, Below, Level
  <2>3. \A m \in true : Holds(A, m)
    BY <2>2 DEF AnswerUnsat, Consequences, Follows, Level
  <2>4. PICK m \in C : Holds(A, m) /\ m \in Lits
    BY ClausesHold DEF Satisfies
  <2> QED BY <2>1, <2>3, <2>4, NegLit DEF Falsified
<1>3. Sound'
  BY <1>2 DEF AnswerUnsat, Sound
<1> QED BY <1>1, <1>3

\* The assignment, read off the true literals, is a model.
LEMMA SatInv ==
  ASSUME Inv, AnswerSat
  PROVE  Inv'
<1> USE DEF Inv
<1>1. TypeOK' /\ KeptEntailed' /\ Consequences' /\ Consistent'
  BY DEF AnswerSat, TypeOK, KeptEntailed, Consequences, Follows, Below, Level,
         Consistent
<1>2. Satisfiable(formula)
  <2> DEFINE A == [v \in Vars |-> <<v, TRUE>> \in true]
  <2>1. A \in Assignments
    BY DEF Assignments
  <2>2. ASSUME NEW l \in true PROVE Holds(A, l)
    <3>1. PICK v \in Vars, b \in BOOLEAN : l = <<v, b>>
      BY DEF TypeOK, Lits
    <3>2. <<v, ~b>> \notin true
      BY <3>1 DEF Consistent, Neg
    <3>3. A[v] = b
      <4>1. CASE b = TRUE
        BY <3>1, <4>1
      <4>2. CASE b = FALSE
        <5>1. ~b = TRUE
          BY <4>2
        <5>2. <<v, TRUE>> \notin true
          BY <3>2, <5>1
        <5> QED BY <4>2, <5>2
      <4> QED BY <4>1, <4>2
    <3> QED BY <3>1, <3>3 DEF Holds
  <2>3. Models(A, formula)
    BY <2>2 DEF AnswerSat, Models, Satisfies
  <2> QED BY <2>1, <2>3 DEF Satisfiable
<1>3. Sound'
  BY <1>2 DEF AnswerSat, Sound
<1> QED BY <1>1, <1>3

-----------------------------------------------------------------------------
\* Every step of the rules preserves the invariant.
LEMMA NextInv == Inv /\ [Next]_rulesVars => Inv'
<1> SUFFICES ASSUME Inv, [Next]_rulesVars PROVE Inv'
  OBVIOUS
<1>1. CASE Keep \/ Fact
  BY <1>1, KeepInv, FactInv
<1>2. ASSUME NEW C \in kept \cup formula, NEW l \in C, Propagate(l, C) PROVE Inv'
  BY <1>2, PropagateInv
<1>3. ASSUME NEW l \in Lits, Decide(l) PROVE Inv'
  BY <1>3, DecideInv
<1>4. ASSUME NEW k \in 0 .. Level, Learn(k)
      PROVE  Inv'
  <2>1. PICK l \in Lits, F \in SUBSET FalseBelow(k) : LearnClause(l, F, k)
    BY <1>4 DEF Learn
  <2> QED BY <1>4, <2>1, LearnInv
<1>5. CASE Restart \/ Forget \/ AnswerUnsat \/ AnswerSat
  BY <1>5, RestartInv, ForgetInv, UnsatInv, SatInv
<1>6. CASE UNCHANGED rulesVars
  BY <1>6 DEF rulesVars, Inv, TypeOK, KeptEntailed, Consequences, Follows, Below,
              Level, Consistent, Sound
<1> QED BY <1>1, <1>2, <1>3, <1>4, <1>5, <1>6 DEF Next

\* The invariant holds throughout: types, entailment, consequences, consistency.
THEOREM Invariant == Spec => []Inv
<1> QED BY InitInv, NextInv, PTL DEF Spec

\* The solver answers UNSAT only for formulas that have no model and SAT only for
\* formulas that have one, whatever the heuristics of Solver::search choose.
THEOREM Soundness == Spec => []Sound
<1>1. Inv => Sound
  BY DEF Inv
<1> QED BY Invariant, <1>1, PTL

-----------------------------------------------------------------------------
\* Preprocessing: if the resolvents on v follow from the clauses without v, then in
\* each of their models v has a value that satisfies the clauses with v too.
Elim == INSTANCE ElimRules

\* Setting v changes the literals of v only, and makes the one asked for true.
LEMMA SetValue ==
  ASSUME NEW A \in Elim!Assignments, NEW v \in Vars, NEW b \in BOOLEAN
  PROVE  /\ [A EXCEPT ![v] = b] \in Elim!Assignments
         /\ Elim!Holds([A EXCEPT ![v] = b], <<v, b>>)
         /\ \A l \in Elim!Lits : Elim!Var(l) # v =>
              (Elim!Holds([A EXCEPT ![v] = b], l) <=> Elim!Holds(A, l))
<1>1. [A EXCEPT ![v] = b] \in Elim!Assignments
  BY DEF Elim!Assignments
<1>2. [A EXCEPT ![v] = b][v] = b
  BY DEF Elim!Assignments
<1>3. Elim!Holds([A EXCEPT ![v] = b], <<v, b>>)
  BY <1>2 DEF Elim!Holds
<1>4. ASSUME NEW l \in Elim!Lits, Elim!Var(l) # v
      PROVE  Elim!Holds([A EXCEPT ![v] = b], l) <=> Elim!Holds(A, l)
  <2>1. l[1] \in Vars /\ l[1] # v
    BY <1>4 DEF Elim!Lits, Elim!Var
  <2>2. [A EXCEPT ![v] = b][l[1]] = A[l[1]]
    BY <2>1 DEF Elim!Assignments
  <2> QED BY <2>2 DEF Elim!Holds
<1> QED BY <1>1, <1>3, <1>4

\* A clause the value b of v falsifies has the literal of v that is false, and not
\* the other, if the clauses without v hold.
LEMMA FalsifiedClause ==
  ASSUME NEW A \in Elim!Assignments, NEW v \in Vars, NEW b \in BOOLEAN, NEW C \in clauses,
         C \subseteq Elim!Lits,
         Elim!Models(A, Elim!Without(v)),
         ~Elim!Satisfies([A EXCEPT ![v] = b], C)
  PROVE  /\ <<v, ~b>> \in C
         /\ \A l \in C \ {<<v, ~b>>} : Elim!Var(l) # v /\ ~Elim!Holds(A, l)
<1> DEFINE B == [A EXCEPT ![v] = b]
<1>1. \A l \in C : ~Elim!Holds(B, l)
  BY DEF Elim!Satisfies
<1>2. <<v, b>> \notin C
  BY <1>1, SetValue
<1>3. \A l \in Elim!Lits : Elim!Var(l) = v => l = <<v, b>> \/ l = <<v, ~b>>
  BY DEF Elim!Lits, Elim!Var
<1>4. <<v, ~b>> \in C
  <2> SUFFICES ASSUME <<v, ~b>> \notin C PROVE FALSE
    OBVIOUS
  <2>1. \A l \in C : Elim!Var(l) # v
    BY <1>2, <1>3
  <2>2. C \in Elim!Without(v)
    BY <2>1 DEF Elim!Without
  <2>3. PICK l \in C : Elim!Holds(A, l)
    BY <2>2 DEF Elim!Models, Elim!Satisfies
  <2>4. Elim!Holds(B, l)
    BY <2>1, <2>3, SetValue
  <2> QED BY <2>4, <1>1
<1>5. ASSUME NEW l \in C \ {<<v, ~b>>}
      PROVE  Elim!Var(l) # v /\ ~Elim!Holds(A, l)
  <2>1. Elim!Var(l) # v
    BY <1>2, <1>3
  <2> QED BY <2>1, <1>1, SetValue
<1> QED BY <1>4, <1>5

\* The resolution lemma.
LEMMA ValueFor ==
  ASSUME Elim!TypeOK, NEW v \in Vars, NEW A \in Elim!Assignments,
         Elim!Models(A, Elim!Without(v)),
         \A C \in Elim!ClausesOf(<<v, TRUE>>), D \in Elim!ClausesOf(<<v, FALSE>>) :
           Elim!Entails(Elim!Without(v), Elim!Resolve(C, D, v))
  PROVE  \E b \in BOOLEAN : Elim!Models([A EXCEPT ![v] = b], clauses)
<1> SUFFICES ASSUME \A b \in BOOLEAN : ~Elim!Models([A EXCEPT ![v] = b], clauses)
             PROVE  FALSE
  OBVIOUS
<1>1. PICK C \in clauses : ~Elim!Satisfies([A EXCEPT ![v] = FALSE], C)
  BY DEF Elim!Models
<1>2. PICK D \in clauses : ~Elim!Satisfies([A EXCEPT ![v] = TRUE], D)
  BY DEF Elim!Models
<1>3. C \subseteq Elim!Lits /\ D \subseteq Elim!Lits
  BY DEF Elim!TypeOK, Elim!Free
<1>4. /\ <<v, TRUE>> \in C
      /\ \A l \in C \ {<<v, TRUE>>} : ~Elim!Holds(A, l)
  <2>1. ~FALSE = TRUE
    OBVIOUS
  <2> QED BY <2>1, <1>1, <1>3, FalsifiedClause
<1>5. /\ <<v, FALSE>> \in D
      /\ \A l \in D \ {<<v, FALSE>>} : ~Elim!Holds(A, l)
  <2>1. ~TRUE = FALSE
    OBVIOUS
  <2> QED BY <2>1, <1>2, <1>3, FalsifiedClause
<1>6. Elim!Satisfies(A, Elim!Resolve(C, D, v))
  BY <1>4, <1>5 DEF Elim!ClausesOf, Elim!Entails
<1> QED BY <1>4, <1>5, <1>6 DEF Elim!Satisfies, Elim!Resolve

-----------------------------------------------------------------------------
LEMMA ElimInit == Elim!Init => Elim!Inv
<1> SUFFICES ASSUME Elim!Init PROVE Elim!Inv
  OBVIOUS
<1>1. Elim!TypeOK
  BY DEF Elim!Init, Elim!TypeOK, Elim!Free
<1>2. Elim!Extends /\ Elim!Keeps /\ Elim!Sound
  BY DEF Elim!Init, Elim!Extends, Elim!Keeps, Elim!Sound
<1> QED BY <1>1, <1>2 DEF Elim!Inv

\* Clauses with the same models.
LEMMA RewriteInv ==
  ASSUME Elim!Inv, Elim!Rewrite
  PROVE  Elim!Inv'
<1> USE DEF Elim!Inv
<1>1. Elim!TypeOK'
  BY DEF Elim!TypeOK, Elim!Rewrite, Elim!Free
<1>2. Elim!Extends' /\ Elim!Keeps' /\ Elim!Sound'
  BY DEF Elim!Rewrite, Elim!Extends, Elim!Keeps, Elim!Sound
<1> QED BY <1>1, <1>2

\* Elimination: a model of the clauses that stay becomes one of all by the value
\* ValueFor gives v, and so, but for the variables that were gone, of the formula.
LEMMA EliminateInv ==
  ASSUME Elim!Inv, NEW v \in Vars, Elim!Eliminate(v)
  PROVE  Elim!Inv'
<1> USE DEF Elim!Inv
<1>1. clauses' = Elim!Without(v) /\ gone' = gone \cup {v}
      /\ formula' = formula /\ answer' = answer
  BY DEF Elim!Eliminate
<1>2. Elim!TypeOK'
  <2>1. \A C \in Elim!Without(v) : C \in SUBSET Elim!Free(gone \cup {v})
    BY DEF Elim!TypeOK, Elim!Without, Elim!Free
  <2> QED BY <1>1, <2>1 DEF Elim!TypeOK, Elim!Free
<1>3. Elim!Keeps'
  BY <1>1 DEF Elim!Keeps, Elim!Models, Elim!Without
<1>4. Elim!Extends'
  <2> SUFFICES ASSUME NEW A \in Elim!Assignments, Elim!Models(A, Elim!Without(v))
               PROVE  \E B \in Elim!Assignments :
                        /\ Elim!Models(B, formula)
                        /\ \A w \in Vars \ (gone \cup {v}) : B[w] = A[w]
    BY <1>1 DEF Elim!Extends
  <2>1. PICK b \in BOOLEAN : Elim!Models([A EXCEPT ![v] = b], clauses)
    BY ValueFor DEF Elim!Eliminate
  <2>2. [A EXCEPT ![v] = b] \in Elim!Assignments
    BY SetValue
  <2>3. PICK B \in Elim!Assignments :
          /\ Elim!Models(B, formula)
          /\ \A w \in Vars \ gone : B[w] = [A EXCEPT ![v] = b][w]
    BY <2>1, <2>2 DEF Elim!Extends
  <2>4. \A w \in Vars \ (gone \cup {v}) : [A EXCEPT ![v] = b][w] = A[w]
    BY DEF Elim!Assignments
  <2> QED BY <2>3, <2>4
<1>5. Elim!Sound'
  BY <1>1 DEF Elim!Sound
<1> QED BY <1>2, <1>3, <1>4, <1>5

\* A contradiction of what is left is one of the formula.
LEMMA ElimAnswer ==
  ASSUME Elim!Inv, Elim!AnswerUnsat
  PROVE  Elim!Inv'
<1> USE DEF Elim!Inv
<1>1. Elim!TypeOK'
  BY DEF Elim!TypeOK, Elim!AnswerUnsat, Elim!Free
<1>2. ~Elim!Satisfiable(formula)
  BY DEF Elim!AnswerUnsat, Elim!Keeps, Elim!Satisfiable
<1>3. Elim!Keeps' /\ Elim!Sound'
  BY <1>2 DEF Elim!AnswerUnsat, Elim!Keeps, Elim!Sound, Elim!Satisfiable
<1>4. \A A \in Elim!Assignments : ~Elim!Models(A, clauses')
  BY DEF Elim!AnswerUnsat, Elim!Models, Elim!Satisfies
<1>5. Elim!Extends'
  BY <1>4 DEF Elim!Extends
<1> QED BY <1>1, <1>3, <1>5

LEMMA ElimStep == Elim!Inv /\ [Elim!Next]_(Elim!rulesVars) => Elim!Inv'
<1> SUFFICES ASSUME Elim!Inv, [Elim!Next]_(Elim!rulesVars) PROVE Elim!Inv'
  OBVIOUS
<1>1. CASE Elim!Rewrite
  BY <1>1, RewriteInv
<1>2. ASSUME NEW v \in Vars, Elim!Eliminate(v) PROVE Elim!Inv'
  BY <1>2, EliminateInv
<1>3. CASE Elim!AnswerUnsat
  BY <1>3, ElimAnswer
<1>4. CASE UNCHANGED Elim!rulesVars
  BY <1>4 DEF Elim!rulesVars, Elim!Inv, Elim!TypeOK, Elim!Extends, Elim!Keeps, Elim!Sound
<1> QED BY <1>1, <1>2, <1>3, <1>4 DEF Elim!Next

\* Preprocessing by the rules of SimpSolver::eliminate loses no model of the input,
\* makes none up, and reports contradictions rightly, whatever the formula.
THEOREM Preserves == Elim!Spec => []Elim!Inv
<1>1. Elim!Init => Elim!Inv
  BY ElimInit
<1>2. Elim!Inv /\ [Elim!Next]_(Elim!rulesVars) => Elim!Inv'
  BY ElimStep
<1> QED BY <1>1, <1>2, PTL DEF Elim!Spec
==============================================================================

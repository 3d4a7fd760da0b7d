----------------------------- MODULE SimpElim_proofs -----------------------------
(***************************************************************************)
(* Whatever the variables, the files and the options: the occurrence lists *)
(* of the preprocessor are complete, what is eliminated stays away, and    *)
(* when it returns nothing is left to subsume.  Without -rcheck it         *)
(* implements the rules of ElimRules, and every model of the clauses that  *)
(* are left extends to one of the file.                                    *)
(***************************************************************************)
EXTENDS SimpElimInvariant, RecursionTheorems, SequenceTheorems, FiniteSetTheorems, TLAPS

\* A literal's negation is a literal of the same variable.
LEMMA NegLit ==
  ASSUME NEW l \in Lits
  PROVE  /\ Neg(l) \in Lits
         /\ Var(l) \in Vars
         /\ Var(Neg(l)) = Var(l)
         /\ Neg(Neg(l)) = l
         /\ Neg(l) # l
<1>1. PICK v \in Vars, b \in BOOLEAN : l = <<v, b>>
  BY DEF Lits
<1>2. Neg(l) = <<v, ~b>> /\ Var(l) = v
  BY <1>1 DEF Neg, Var
<1>3. Neg(l) \in Lits /\ Var(Neg(l)) = v /\ Neg(Neg(l)) = <<v, ~(~b)>>
  BY <1>2 DEF Neg, Var, Lits
<1> QED BY <1>1, <1>2, <1>3

\* Two literals of a variable.
LEMMA SameVar ==
  ASSUME NEW l \in Lits, NEW m \in Lits, Var(l) = Var(m)
  PROVE  m = l \/ m = Neg(l)
  BY DEF Lits, Neg, Var

LEMMA FiniteLits ==
  /\ IsFiniteSet(Lits)
  /\ \A S : S \subseteq Lits => IsFiniteSet(S) /\ Cardinality(S) \in Nat
<1>1. IsFiniteSet(BOOLEAN)
  <2>1. BOOLEAN = {TRUE} \cup {FALSE}
    OBVIOUS
  <2>2. IsFiniteSet({TRUE})
    BY FS_Singleton
  <2> QED BY <2>1, <2>2, FS_AddElement
<1>2. IsFiniteSet(Lits)
  BY <1>1, VarsAssumption, FS_Product DEF Lits
<1>3. \A S : S \subseteq Lits => IsFiniteSet(S)
  BY <1>2, FS_Subset
<1> QED BY <1>2, <1>3, FS_CardinalityType

\* Sets of literals by their size.
LEMMA Sizes ==
  ASSUME NEW S, S \subseteq Lits
  PROVE  /\ Cardinality(S) = 1 <=> \E l \in S : S = {l}
         /\ Cardinality(S) = 0 <=> S = {}
         /\ Cardinality(S) > 1 <=> S # {} /\ Cardinality(S) # 1
         /\ Cardinality(S) \in Nat
<1>1. IsFiniteSet(S) /\ Cardinality(S) \in Nat
  BY FiniteLits
<1>2. Cardinality(S) = 1 <=> \E l \in S : S = {l}
  BY <1>1, FS_Singleton
<1>3. Cardinality(S) = 0 <=> S = {}
  BY <1>1, FS_EmptySet
<1> QED BY <1>1, <1>2, <1>3

LEMMA SizeWithout ==
  ASSUME NEW S, S \subseteq Lits, NEW l \in S, Cardinality(S) > 1
  PROVE  /\ Cardinality(S \ {l}) # 1 => Cardinality(S \ {l}) > 1
         /\ S \ {l} # {}
<1>1. IsFiniteSet(S)
  BY FiniteLits
<1>2. S \ {l} # {}
  <2> SUFFICES ASSUME S \ {l} = {} PROVE FALSE
    OBVIOUS
  <2>1. S = {l}
    OBVIOUS
  <2>2. Cardinality(S) = 1
    BY <2>1, FS_Singleton
  <2> QED BY <2>2
<1>3. S \ {l} \subseteq Lits
  OBVIOUS
<1> QED BY <1>2, <1>3, Sizes

-----------------------------------------------------------------------------
\* Propagation.  The rounds of Propagated.
Round(D) == [T \in SUBSET Lits |-> T \cup Units(T, D)]
Rounds(f, S, D) ==
  /\ f \in [0 .. Cardinality(Lits) -> SUBSET Lits]
  /\ f[0] = S
  /\ \A n \in 0 .. Cardinality(Lits) - 1 : f[n + 1] = f[n] \cup Units(f[n], D)

LEMMA PropagatedIs ==
  ASSUME NEW S \in SUBSET Lits, NEW D \in SUBSET SUBSET Lits
  PROVE  \E f : Rounds(f, S, D) /\ Propagated(S, D) = f[Cardinality(Lits)]
<1> DEFINE N == Cardinality(Lits)
           Def(f) == f = [n \in 0 .. N |-> IF n = 0 THEN S ELSE Round(D)[f[n - 1]]]
           step == [i \in 0 .. N - 1 |-> Round(D)]
<1>1. N \in Nat
  BY FiniteLits
<1>2. Round(D) \in [SUBSET Lits -> SUBSET Lits]
  BY DEF Round, Units
<1>3. step \in Steps(N, SUBSET Lits)
  BY <1>2 DEF Steps
<1>4. PICK g : GoesUp(g, N, SUBSET Lits, S, step)
  <2> HIDE DEF step, N
  <2> QED BY <1>1, <1>3, UpRecursion
<1>5. /\ g \in [0 .. N -> SUBSET Lits] /\ g[0] = S
      /\ \A i \in 0 .. N - 1 : g[i + 1] = Round(D)[g[i]]
  <2> HIDE DEF N
  <2> QED BY <1>4 DEF GoesUp
<1>6. Def(g)
  <2> HIDE DEF N
  <2>1. \A n \in 0 .. N : n # 0 => n - 1 \in 0 .. N - 1 /\ (n - 1) + 1 = n
    BY <1>1
  <2>2. \A n \in 0 .. N : g[n] = IF n = 0 THEN S ELSE Round(D)[g[n - 1]]
    BY <1>5, <2>1
  <2> QED BY <1>5, <2>2
<1> DEFINE f == CHOOSE f : Def(f)
<1>7. Def(f)
  <2> HIDE DEF Def
  <2> QED BY <1>6
<1>8. \A n \in 0 .. N : f[n] = g[n]
  <2> DEFINE P == {n \in 0 .. N : f[n] = g[n]}
  <2>0. \A n \in 0 .. N : f[n] = IF n = 0 THEN S ELSE Round(D)[f[n - 1]]
    <3> HIDE DEF f, N
    <3> QED BY <1>7
  <2> HIDE DEF f, N
  <2>1. 0 \in P
    BY <2>0, <1>5, <1>1
  <2>2. ASSUME NEW i \in 0 .. N - 1, i \in P PROVE i + 1 \in P
    <3>1. i + 1 \in 0 .. N /\ i + 1 # 0 /\ (i + 1) - 1 = i
      BY <1>1
    <3>2. f[i + 1] = Round(D)[f[i]]
      BY <2>0, <3>1
    <3> QED BY <3>1, <3>2, <2>2, <1>5
  <2>3. \A n \in 0 .. N : n \in P
    <3> HIDE DEF P
    <3> QED BY <1>1, <2>1, <2>2, UpInduction
  <2> QED BY <2>3
<1>9. N \in 0 .. N
  <2> HIDE DEF N
  <2> QED BY <1>1
<1>10. Propagated(S, D) = f[N]
  BY DEF Propagated, Round
<1>11. \A i \in 0 .. N - 1 : g[i + 1] = g[i] \cup Units(g[i], D)
  <2> HIDE DEF N
  <2> SUFFICES ASSUME NEW i \in 0 .. N - 1 PROVE g[i + 1] = g[i] \cup Units(g[i], D)
    OBVIOUS
  <2>1. g[i] \in SUBSET Lits
    BY <1>1, <1>5
  <2> QED BY <1>5, <2>1 DEF Round
<1>12. Rounds(g, S, D)
  BY <1>5, <1>11 DEF Rounds
<1>13. Propagated(S, D) = g[N]
  <2> HIDE DEF f, N
  <2> QED BY <1>8, <1>9, <1>10
<1> QED
  BY <1>12, <1>13

\* It adds literals of the clauses, each of one whose other literals are false, and
\* none that an assignment falsifies which satisfies the rest.
LEMMA PropagatedFacts ==
  ASSUME NEW S \in SUBSET Lits, NEW D \in SUBSET SUBSET Lits
  PROVE  /\ S \subseteq Propagated(S, D) /\ Propagated(S, D) \subseteq Lits
         /\ \A l \in Propagated(S, D) \ S :
              \E C \in D : l \in C /\ \A m \in C \ {l} : Neg(m) \in Propagated(S, D)
         /\ \A A \in Assignments : Models(A, D) /\ (\A l \in S : Holds(A, l)) =>
              \A l \in Propagated(S, D) : Holds(A, l)
<1> DEFINE N == Cardinality(Lits)
<1>0. N \in Nat
  BY FiniteLits
<1>1. PICK f : Rounds(f, S, D) /\ Propagated(S, D) = f[N]
  BY PropagatedIs
<1> HIDE DEF N
<1>2. /\ f \in [0 .. N -> SUBSET Lits] /\ f[0] = S
      /\ \A n \in 0 .. N - 1 : f[n + 1] = f[n] \cup Units(f[n], D)
  BY <1>1 DEF Rounds, N
<1>3. N \in 0 .. N
  BY <1>0
<1>4. \A n \in 0 .. N : n \in {k \in 0 .. N : f[k] \subseteq f[N]}
  <2> DEFINE P == {k \in 0 .. N : f[k] \subseteq f[N]}
  <2>1. N \in P
    BY <1>3
  <2>2. ASSUME NEW i \in 0 .. N - 1, i + 1 \in P PROVE i \in P
    <3>1. f[i] \subseteq f[i + 1]
      BY <1>2
    <3> QED BY <2>2, <3>1, <1>0
  <2> HIDE DEF P
  <2>3. \A n \in 0 .. N : n \in P
    BY <1>0, <2>1, <2>2, DownInduction
  <2> QED BY <2>3 DEF P
<1>5. S \subseteq f[N] /\ f[N] \subseteq Lits
  BY <1>0, <1>2, <1>3, <1>4
<1>6. \A l \in f[N] \ S : \E C \in D : l \in C /\ \A m \in C \ {l} : Neg(m) \in f[N]
  <2> DEFINE Good == {l \in Lits : l \in S \/
                        \E C \in D : l \in C /\ \A m \in C \ {l} : Neg(m) \in f[N]}
             P == {k \in 0 .. N : f[k] \subseteq Good}
  <2>1. 0 \in P
    BY <1>0, <1>2
  <2>2. ASSUME NEW i \in 0 .. N - 1, i \in P PROVE i + 1 \in P
    <3>1. i \in 0 .. N /\ i + 1 \in 0 .. N
      BY <1>0
    <3>2. f[i] \subseteq f[N] /\ f[i] \subseteq Good /\ f[i + 1] \subseteq Lits
      BY <1>2, <1>4, <2>2, <3>1
    <3>3. Units(f[i], D) \subseteq Good
      BY <3>2, <1>2 DEF Units
    <3> QED BY <1>2, <3>1, <3>2, <3>3
  <2> HIDE DEF P
  <2>3. \A n \in 0 .. N : n \in P
    BY <1>0, <2>1, <2>2, UpInduction
  <2> QED BY <2>3, <1>3 DEF P
<1>7. ASSUME NEW A \in Assignments, Models(A, D), \A l \in S : Holds(A, l)
      PROVE  \A l \in f[N] : Holds(A, l)
  <2> DEFINE Good == {l \in Lits : Holds(A, l)}
             P == {k \in 0 .. N : f[k] \subseteq Good}
  <2>1. 0 \in P
    BY <1>0, <1>2, <1>7
  <2>2. ASSUME NEW i \in 0 .. N - 1, i \in P PROVE i + 1 \in P
    <3>1. i \in 0 .. N /\ i + 1 \in 0 .. N
      BY <1>0
    <3>2. ASSUME NEW l \in Units(f[i], D) PROVE l \in Good
      <4>1. PICK C \in D : l \in C /\ \A m \in C \ {l} : Neg(m) \in f[i]
        BY <3>2 DEF Units
      <4>2. PICK m \in C : Holds(A, m)
        BY <1>7 DEF Models, Satisfies
      <4>3. ASSUME m # l PROVE FALSE
        <5>1. Neg(m) \in Good
          BY <4>1, <4>3, <2>2
        <5>2. Holds(A, Neg(m)) /\ m \in Lits
          BY <5>1
        <5>3. A[m[1]] = m[2] /\ A[m[1]] = ~m[2] /\ m[2] \in BOOLEAN
          BY <5>2, <4>2 DEF Holds, Neg, Lits
        <5> QED BY <5>3
      <4> QED BY <4>1, <4>2, <4>3
    <3> QED BY <1>2, <2>2, <3>1, <3>2
  <2> HIDE DEF P
  <2>3. \A n \in 0 .. N : n \in P
    BY <1>0, <2>1, <2>2, UpInduction
  <2> QED BY <2>3, <1>3 DEF P
<1> QED BY <1>1, <1>5, <1>6, <1>7

-----------------------------------------------------------------------------
\* An assignment satisfies the clauses d and the facts f.
Fits(A, d, f) == (\A r \in DOMAIN d : Satisfies(A, d[r])) /\ \A l \in f : Holds(A, l)

LEMMA Opposite ==
  ASSUME NEW A \in Assignments, NEW l \in Lits
  PROVE  Holds(A, Neg(l)) <=> ~Holds(A, l)
<1>1. A[l[1]] \in BOOLEAN /\ l[2] \in BOOLEAN
  BY DEF Assignments, Lits
<1> QED BY <1>1 DEF Holds, Neg

\* enqueue: facts are added, as to be looked at, each implied.
LEMMA EnqueueFacts ==
  ASSUME facts \subseteq Lits, ~Conflicting(facts), pending \subseteq facts,
         NEW l \in Lits, NEW D \in SUBSET SUBSET Lits, Enqueue(l, D)
  PROVE  /\ facts \subseteq facts' /\ facts' \subseteq Lits /\ ~Conflicting(facts')
         /\ pending \subseteq pending' /\ pending' \subseteq facts'
         /\ facts' \ facts \subseteq pending'
         /\ ok' \in BOOLEAN
         /\ ok' => l \in facts'
         /\ \A m \in facts' \ facts :
              m = l \/ \E C \in D : m \in C /\ \A k \in C \ {m} : Neg(k) \in facts'
         /\ \A A \in Assignments :
              Models(A, D) /\ (\A m \in facts : Holds(A, m)) /\ Holds(A, l) =>
                ok' /\ \A m \in facts' : Holds(A, m)
<1> DEFINE S == Propagated(facts \cup {l}, D)
<1>1. /\ facts \cup {l} \subseteq S /\ S \subseteq Lits
      /\ \A m \in S \ (facts \cup {l}) :
           \E C \in D : m \in C /\ \A k \in C \ {m} : Neg(k) \in S
      /\ \A A \in Assignments :
           Models(A, D) /\ (\A m \in facts \cup {l} : Holds(A, m)) =>
             \A m \in S : Holds(A, m)
  BY PropagatedFacts
<1>2. /\ facts' = IF Conflicting(S) THEN facts ELSE S
      /\ pending' = IF Conflicting(S) THEN pending ELSE pending \cup (S \ facts)
      /\ ok' = ~Conflicting(S)
  BY DEF Enqueue
<1> HIDE DEF S
<1>3. ASSUME NEW A \in Assignments, Models(A, D), \A m \in facts : Holds(A, m), Holds(A, l)
      PROVE  ~Conflicting(S) /\ \A m \in S : Holds(A, m)
  <2>1. \A m \in S : Holds(A, m)
    BY <1>1, <1>3
  <2>2. ASSUME NEW m \in S, Neg(m) \in S PROVE FALSE
    BY <2>1, <2>2, <1>1, Opposite
  <2> QED BY <2>1, <2>2 DEF Conflicting
<1>4. CASE Conflicting(S)
  BY <1>2, <1>3, <1>4
<1>5. CASE ~Conflicting(S)
  BY <1>1, <1>2, <1>3, <1>5
<1> QED BY <1>4, <1>5

-----------------------------------------------------------------------------
\* Clauses may go or lose literals; what changes is queued, and facts may be added.
FactsGrow ==
  /\ facts \subseteq facts' /\ facts' \subseteq Lits /\ ~Conflicting(facts')
  /\ pending \subseteq pending' /\ pending' \subseteq facts'
  /\ facts' \ facts \subseteq pending'
Shrunk ==
  /\ DOMAIN db' \subseteq DOMAIN db
  /\ db' \in [DOMAIN db' -> SUBSET Lits]
  /\ \A q \in DOMAIN db' :
       /\ db'[q] \subseteq db[q] /\ Cardinality(db'[q]) > 1
       /\ db'[q] = db[q] \/ q \in queue'
  /\ occurs' = [v \in Vars |-> {q \in DOMAIN db' : v \in VarsOf(db'[q])}]
  /\ \A q \in queue : q \in DOMAIN db' => q \in queue'
  /\ queue' \subseteq DOMAIN db'
  /\ heap \subseteq Vars => heap' \subseteq Vars
  /\ FactsGrow

LEMMA ClausesAre ==
  ASSUME ClausesOK
  PROVE  /\ \A r \in DOMAIN db : db[r] \subseteq Lits /\ r \in Refs
         /\ Clauses \in SUBSET SUBSET Lits
         /\ \A r \in DOMAIN db : VarsOf(db[r]) \subseteq Vars /\ VarsOf(db[r]) # {}
<1>1. \A r \in DOMAIN db : db[r] \subseteq Lits /\ r \in Refs
  BY DEF ClausesOK
<1>2. Clauses \in SUBSET SUBSET Lits
  BY <1>1 DEF Clauses
<1>3. ASSUME NEW r \in DOMAIN db PROVE VarsOf(db[r]) \subseteq Vars /\ VarsOf(db[r]) # {}
  <2>1. db[r] # {}
    BY <1>1, <1>3, Sizes DEF ClausesOK
  <2> QED BY <2>1, <1>1, NegLit DEF VarsOf
<1> QED BY <1>1, <1>2, <1>3

LEMMA NothingShrinks ==
  ASSUME ClausesOK, UNCHANGED store
  PROVE  Shrunk
  BY DEF ClausesOK, store, Shrunk, FactsGrow, Occurring

\* removeClause, also of clauses that are not asked whether they are satisfied.
LEMMA RemovedAre ==
  ASSUME ClausesOK, NEW S, RemoveClauses(S)
  PROVE  /\ DOMAIN db' = DOMAIN db \ S
         /\ db' \in [DOMAIN db' -> SUBSET Lits]
         /\ \A q \in DOMAIN db' : db'[q] = db[q] /\ Cardinality(db'[q]) > 1
         /\ occurs' = [v \in Vars |-> {q \in DOMAIN db' : v \in VarsOf(db'[q])}]
         /\ queue' = queue \ S /\ queue' \subseteq DOMAIN db'
<1>1. db' = [q \in DOMAIN db \ S |-> db[q]]
  BY DEF RemoveClauses, Only
<1>2. DOMAIN db' = DOMAIN db \ S /\ \A q \in DOMAIN db' : db'[q] = db[q]
  BY <1>1
<1>3. db' \in [DOMAIN db' -> SUBSET Lits]
  BY <1>1, <1>2 DEF ClausesOK
<1>4. ASSUME NEW v \in Vars
      PROVE  occurs[v] \ S = {q \in DOMAIN db' : v \in VarsOf(db'[q])}
  BY <1>2 DEF ClausesOK, Occurring
<1>5. occurs' = [v \in Vars |-> {q \in DOMAIN db' : v \in VarsOf(db'[q])}]
  BY <1>4 DEF RemoveClauses
<1>6. queue' = queue \ S /\ queue' \subseteq DOMAIN db'
  BY <1>2 DEF ClausesOK, RemoveClauses
<1> QED BY <1>2, <1>3, <1>5, <1>6 DEF ClausesOK

LEMMA RemovedHeap ==
  ASSUME ClausesOK, NEW S, S \subseteq DOMAIN db, RemoveClauses(S), heap \subseteq Vars
  PROVE  heap' \subseteq Vars
<1>1. UNION {VarsOf(db[r]) : r \in S} \subseteq Vars
  BY ClausesAre
<1>2. heap' = heap \cup Candidates(UNION {VarsOf(db[r]) : r \in S})
  BY DEF RemoveClauses
<1> QED BY <1>1, <1>2 DEF Candidates

LEMMA RemoveShrinks ==
  ASSUME ClausesOK, NEW S, S \subseteq DOMAIN db, RemoveClauses(S),
         UNCHANGED <<facts, pending>>
  PROVE  Shrunk
<1>1. FactsGrow
  BY DEF ClausesOK, FactsGrow
<1>2. heap \subseteq Vars => heap' \subseteq Vars
  BY RemovedHeap
<1> QED BY <1>1, <1>2, RemovedAre DEF Shrunk

\* strengthenClause.
LEMMA StrengthenShrinks ==
  ASSUME ClausesOK, ok, NEW r \in DOMAIN db, NEW l \in db[r], StrengthenClause(r, l)
  PROVE  Shrunk /\ ok' \in BOOLEAN
<1> DEFINE C == db[r] \ {l}
<1>0. db[r] \subseteq Lits /\ Cardinality(db[r]) > 1 /\ l \in Lits
  BY DEF ClausesOK
<1>1. C \subseteq Lits /\ C # {} /\ (Cardinality(C) # 1 => Cardinality(C) > 1)
  BY <1>0, SizeWithout
<1>2. CASE Cardinality(C) = 1
  <2>1. RemoveClauses({r})
    BY <1>2 DEF StrengthenClause
  <2>2. PICK u \in C : Enqueue(u, {db[q] : q \in DOMAIN db \ {r}})
    BY <1>2 DEF StrengthenClause
  <2>3. {db[q] : q \in DOMAIN db \ {r}} \in SUBSET SUBSET Lits /\ u \in Lits
    BY <1>1, ClausesAre
  <2>4. FactsGrow /\ ok' \in BOOLEAN
    BY <2>2, <2>3, EnqueueFacts DEF ClausesOK, FactsGrow
  <2>5. heap \subseteq Vars => heap' \subseteq Vars
    BY <2>1, RemovedHeap
  <2> QED BY <2>1, <2>4, <2>5, RemovedAre DEF Shrunk
<1>3. CASE Cardinality(C) # 1
  <2>1. /\ db' = [db EXCEPT ![r] = C]
        /\ occurs' = [occurs EXCEPT ![Var(l)] = @ \ {r}]
        /\ queue' = queue \cup {r}
        /\ heap' = heap \cup Candidates({Var(l)})
        /\ UNCHANGED <<facts, pending, ok>>
    BY <1>3 DEF StrengthenClause
  <2>2. DOMAIN db' = DOMAIN db /\ db'[r] = C /\ \A q \in DOMAIN db \ {r} : db'[q] = db[q]
    BY <2>1
  <2>3. db' \in [DOMAIN db' -> SUBSET Lits]
    BY <2>1, <1>1 DEF ClausesOK
  <2>4. Var(l) \in Vars /\ Var(l) \notin VarsOf(C)
    <3>1. ASSUME NEW m \in C, Var(m) = Var(l) PROVE FALSE
      <4>1. m = Neg(l)
        BY <3>1, <1>0, SameVar
      <4> QED BY <4>1 DEF ClausesOK
    <3> QED BY <3>1, <1>0, NegLit DEF VarsOf
  <2>5. \A v \in Vars : v # Var(l) => (v \in VarsOf(C) <=> v \in VarsOf(db[r]))
    BY DEF VarsOf
  <2>6. ASSUME NEW v \in Vars
        PROVE  occurs'[v] = {q \in DOMAIN db' : v \in VarsOf(db'[q])}
    <3>1. occurs[v] = {q \in DOMAIN db : v \in VarsOf(db[q])} /\ v \in DOMAIN occurs
      BY DEF ClausesOK, Occurring
    <3>2. CASE v = Var(l)
      <4>1. occurs'[v] = occurs[v] \ {r}
        BY <2>1, <3>1, <3>2
      <4> QED BY <4>1, <3>1, <3>2, <2>2, <2>4
    <3>3. CASE v # Var(l)
      <4>1. occurs'[v] = occurs[v]
        BY <2>1, <3>1, <3>3
      <4> QED BY <4>1, <3>1, <3>3, <2>2, <2>5
    <3> QED BY <3>2, <3>3
  <2>7. occurs' = [v \in Vars |-> {q \in DOMAIN db' : v \in VarsOf(db'[q])}]
    <3>1. DOMAIN occurs' = Vars /\ occurs' = [v \in Vars |-> occurs'[v]]
      BY <2>1 DEF ClausesOK
    <3> QED BY <2>6, <3>1
  <2>8. heap \subseteq Vars => heap' \subseteq Vars
    BY <2>1, <2>4 DEF Candidates
  <2>9. FactsGrow /\ ok' \in BOOLEAN
    BY <2>1 DEF ClausesOK, FactsGrow
  <2>10. ASSUME NEW q \in DOMAIN db'
         PROVE /\ db'[q] \subseteq db[q] /\ Cardinality(db'[q]) > 1
               /\ db'[q] = db[q] \/ q \in queue'
    BY <2>1, <2>2, <1>1, <1>3 DEF ClausesOK
  <2>11. /\ \A q \in queue : q \in DOMAIN db' => q \in queue'
         /\ queue' \subseteq DOMAIN db'
    BY <2>1, <2>2 DEF ClausesOK
  <2> QED BY <2>2, <2>3, <2>7, <2>8, <2>9, <2>10, <2>11 DEF Shrunk
<1> QED BY <1>2, <1>3

LEMMA ShrunkIs ==
  ASSUME Shrunk, NEW r \in DOMAIN db'
  PROVE  /\ r \in DOMAIN db
         /\ db'[r] \subseteq db[r] /\ Cardinality(db'[r]) > 1
         /\ r \in queue' \/ (db'[r] = db[r] /\ r \notin queue)
<1>1. r \in DOMAIN db
  BY Zenon DEF Shrunk
<1>2. db'[r] \subseteq db[r] /\ Cardinality(db'[r]) > 1
  <2>1. \A q \in DOMAIN db' :
          /\ db'[q] \subseteq db[q] /\ Cardinality(db'[q]) > 1
          /\ db'[q] = db[q] \/ q \in queue'
    BY Zenon DEF Shrunk
  <2> QED BY <2>1, Zenon
<1>3. r \in queue' \/ (db'[r] = db[r] /\ r \notin queue)
  BY Zenon DEF Shrunk
<1> QED BY <1>1, <1>2, <1>3

\* What the occurrence lists hold is what they should.
LEMMA ShrunkKeeps ==
  ASSUME ClausesOK, Shrunk
  PROVE  ClausesOK'
<1>1. ASSUME NEW q \in DOMAIN db'
      PROVE  Cardinality(db'[q]) > 1 /\ \A l \in db'[q] : Neg(l) \notin db'[q]
  <2>1. q \in DOMAIN db /\ db'[q] \subseteq db[q] /\ Cardinality(db'[q]) > 1
    BY ShrunkIs
  <2>2. \A l \in db[q] : Neg(l) \notin db[q]
    BY <2>1 DEF ClausesOK
  <2> QED BY <2>1, <2>2
<1>2. DOMAIN db' \subseteq Refs
  BY DEF ClausesOK, Shrunk
<1>3. occurs' = [v \in Vars |-> Occurring(v)']
  BY DEF Shrunk, Occurring
<1> QED BY <1>1, <1>2, <1>3 DEF ClausesOK, Shrunk, FactsGrow

\* A clause that could shorten or remove another could do so when that was longer.
LEMMA ShrinksMore ==
  ASSUME NEW C, C \subseteq Lits, NEW D, D \subseteq Lits, NEW E, E \subseteq D,
         \A l \in D : Neg(l) \notin D, Shrinks(C, E)
  PROVE  Shrinks(C, D) /\ VarsOf(C) \subseteq VarsOf(E)
<1>1. CASE Subsumes(C, E)
  BY <1>1 DEF Subsumes, Shrinks, VarsOf
<1>2. CASE Strengthens(C, E)
  <2>1. Flipped(C, E) \subseteq Lits
    BY DEF Flipped
  <2>2. PICK x \in Flipped(C, E) : Flipped(C, E) = {x}
    BY <1>2, <2>1, Sizes DEF Strengthens
  <2>3. x \in C /\ x \notin E /\ Neg(x) \in E /\ C \ {x} \subseteq E
    BY <1>2, <2>2 DEF Flipped, Strengthens
  <2>4. x \notin D
    BY <2>3, NegLit
  <2>5. Flipped(C, D) = {x}
    <3>1. x \in Flipped(C, D)
      BY <2>3, <2>4 DEF Flipped
    <3>2. \A l \in Flipped(C, D) : l = x
      BY <2>3 DEF Flipped
    <3> QED BY <3>1, <3>2
  <2>6. Cardinality(Flipped(C, D)) = 1
    BY <2>5, FS_Singleton
  <2>7. C \ Flipped(C, D) \subseteq D
    BY <2>3, <2>5
  <2>8. Var(Neg(x)) = Var(x)
    BY <2>3, NegLit
  <2>9. VarsOf(C) \subseteq VarsOf(E)
    BY <2>3, <2>8 DEF VarsOf
  <2> QED BY <2>6, <2>7, <2>9 DEF Strengthens, Shrinks
<1> QED BY <1>1, <1>2 DEF Shrinks

\* Having shortened a clause by a literal, it has nothing more to do with it.
LEMMA ShrinksOnce ==
  ASSUME NEW C, C \subseteq Lits, NEW D, D \subseteq Lits,
         \A l \in D : Neg(l) \notin D, NEW l \in Flipped(C, D)
  PROVE  /\ ~Shrinks(C, D \ {Neg(l)})
         /\ Neg(l) \in D
<1>1. l \in C /\ l \notin D /\ Neg(l) \in D
  BY DEF Flipped
<1>2. ~Subsumes(C, D \ {Neg(l)})
  BY <1>1 DEF Subsumes
<1>3. l \notin Flipped(C, D \ {Neg(l)})
  BY <1>1 DEF Flipped
<1>4. ~Strengthens(C, D \ {Neg(l)})
  BY <1>1, <1>3 DEF Strengthens
<1> QED BY <1>1, <1>2, <1>4 DEF Shrinks

LEMMA ShrunkPairs ==
  ASSUME ClausesOK, Shrunk, PairsOK, touched' = touched,
         NEW r \in DOMAIN db', NEW s \in DOMAIN db', r # s, Shrinks(db'[r], db'[s])
  PROVE  \/ r \in queue'
         \/ VarsOf(db'[r]) \cap touched' # {}
         \/ /\ pc = "scan" /\ cur.ref = r /\ s \in todo
            /\ db'[r] = db[r] /\ Shrinks(db[r], db[s])
<1> SUFFICES ASSUME r \notin queue'
             PROVE  \/ VarsOf(db'[r]) \cap touched' # {}
                    \/ /\ pc = "scan" /\ cur.ref = r /\ s \in todo
                       /\ db'[r] = db[r] /\ Shrinks(db[r], db[s])
  OBVIOUS
<1>1. db'[r] = db[r] /\ r \in DOMAIN db /\ s \in DOMAIN db /\ db'[s] \subseteq db[s]
  BY ShrunkIs
<1>2. db[r] \subseteq Lits /\ db[s] \subseteq Lits
  BY <1>1, ClausesAre
<1>3. Shrinks(db[r], db[s])
  BY <1>1, <1>2, ShrinksMore DEF ClausesOK
<1>4. r \notin queue
  BY ShrunkIs
<1> QED BY <1>1, <1>3, <1>4 DEF PairsOK

LEMMA ShrunkFacts ==
  ASSUME ClausesOK, Shrunk, FactsOK,
         NEW r \in DOMAIN db', NEW l \in facts', Var(l) \in VarsOf(db'[r])
  PROVE  l \in pending' \/ (pc = "scan" /\ cur = [ref |-> 0, lits |-> {l}] /\ r \in todo)
<1>1. r \in DOMAIN db /\ Var(l) \in VarsOf(db[r])
  BY ShrunkIs DEF VarsOf
<1> QED BY <1>1 DEF Shrunk, FactsGrow, FactsOK

-----------------------------------------------------------------------------
\* addClause_: at most one clause comes, of the literals that are not false.
NotFalse(ps) == {l \in ps : ~IsFalse(l)}
Grown(ps, n) ==
  /\ n \in Refs \ DOMAIN db
  /\ ~\E l \in ps : IsTrue(l) \/ Neg(l) \in ps
  /\ Cardinality(NotFalse(ps)) > 1
  /\ db' = Extend(db, n, NotFalse(ps))
  /\ occurs' = [v \in Vars |-> IF v \in VarsOf(NotFalse(ps)) THEN occurs[v] \cup {n}
                               ELSE occurs[v]]
  /\ queue' = queue \cup {n}
  /\ touched' = touched \cup VarsOf(NotFalse(ps))
  /\ UNCHANGED <<facts, pending, heap, ok>>

LEMMA AddIs ==
  ASSUME ClausesOK, ok, NEW ps \in SUBSET Lits, AddClause_(ps)
  PROVE  /\ ok' \in BOOLEAN
         /\ \/ UNCHANGED <<db, occurs, queue, touched, heap>> /\ FactsGrow
            \/ \E n \in Refs : Grown(ps, n)
<1>1. NotFalse(ps) \in SUBSET Lits /\ Clauses \in SUBSET SUBSET Lits
  BY ClausesAre DEF NotFalse
<1>2. CASE UNCHANGED <<store, touched, ok>>
  BY <1>2 DEF store, ClausesOK, FactsGrow
<1>3. CASE UNCHANGED <<store, touched>> /\ ok' = FALSE
  BY <1>3 DEF store, ClausesOK, FactsGrow
<1>4. ASSUME NEW l \in NotFalse(ps), Enqueue(l, Clauses),
             UNCHANGED <<db, occurs, queue, touched, heap>>
      PROVE  FactsGrow /\ ok' \in BOOLEAN
  BY <1>1, <1>4, EnqueueFacts DEF ClausesOK, FactsGrow
<1>5. ASSUME ~\E l \in ps : IsTrue(l) \/ Neg(l) \in ps,
             Cardinality(NotFalse(ps)) > 1,
             DOMAIN db # Refs,
             db' = Extend(db, NewRef, NotFalse(ps)),
             occurs' = [v \in Vars |-> IF v \in VarsOf(NotFalse(ps))
                                       THEN occurs[v] \cup {NewRef} ELSE occurs[v]],
             queue' = queue \cup {NewRef},
             touched' = touched \cup VarsOf(NotFalse(ps)),
             UNCHANGED <<facts, pending, heap, ok>>
      PROVE  Grown(ps, NewRef) /\ NewRef \in Refs
  <2>0. DOMAIN db \subseteq Refs
    BY DEF ClausesOK
  <2>1. Refs \ DOMAIN db # {} /\ Refs \ DOMAIN db \subseteq Nat
    <3>1. Refs \subseteq Nat
      BY BoundAssumption DEF Refs
    <3> QED BY <1>5, <2>0, <3>1
  <2>2. \E r \in Refs \ DOMAIN db : \A q \in Refs \ DOMAIN db : r <= q
    BY <2>1, LeastNumber
  <2>3. NewRef \in Refs \ DOMAIN db
    BY <2>2 DEF NewRef
  <2> QED BY <1>5, <2>3 DEF Grown
<1> QED BY <1>2, <1>3, <1>4, <1>5 DEF AddClause_, NotFalse

LEMMA GrownIs ==
  ASSUME ClausesOK, NEW ps \in SUBSET Lits, NEW n \in Refs, Grown(ps, n)
  PROVE  /\ n \notin DOMAIN db /\ DOMAIN db' = DOMAIN db \cup {n}
         /\ db'[n] = NotFalse(ps) /\ db'[n] \subseteq Lits
         /\ \A q \in DOMAIN db : db'[q] = db[q]
         /\ db' \in [DOMAIN db' -> SUBSET Lits]
         /\ Clauses' = Clauses \cup {NotFalse(ps)}
         /\ \A l \in db'[n] : ~IsTrue(l) /\ ~IsFalse(l) /\ Neg(l) \notin db'[n]
         /\ VarsOf(db'[n]) \subseteq touched' /\ VarsOf(db'[n]) \subseteq Vars
<1>1. db' = [z \in DOMAIN db \cup {n} |-> IF z = n THEN NotFalse(ps) ELSE db[z]]
  BY DEF Grown, Extend
<1>2. n \notin DOMAIN db /\ NotFalse(ps) \subseteq ps
  BY DEF Grown, NotFalse
<1>3. /\ DOMAIN db' = DOMAIN db \cup {n} /\ db'[n] = NotFalse(ps)
      /\ \A q \in DOMAIN db : db'[q] = db[q]
  BY <1>1, <1>2
<1>4. db' \in [DOMAIN db' -> SUBSET Lits]
  BY <1>1, <1>2, <1>3 DEF ClausesOK
<1>5. Clauses' = Clauses \cup {NotFalse(ps)}
  BY <1>3 DEF Clauses
<1>6. \A l \in db'[n] : ~IsTrue(l) /\ ~IsFalse(l) /\ Neg(l) \notin db'[n]
  BY <1>3 DEF Grown, NotFalse
<1>7. VarsOf(db'[n]) \subseteq Vars
  BY <1>2, <1>3, NegLit DEF VarsOf
<1> QED BY <1>2, <1>3, <1>4, <1>5, <1>6, <1>7 DEF Grown

LEMMA GrownKeeps ==
  ASSUME ClausesOK, NEW ps \in SUBSET Lits, NEW n \in Refs, Grown(ps, n)
  PROVE  ClausesOK' /\ (touched \subseteq Vars => touched' \subseteq Vars)
<1>g. /\ n \notin DOMAIN db /\ DOMAIN db' = DOMAIN db \cup {n}
      /\ db'[n] = NotFalse(ps) /\ db'[n] \subseteq Lits
      /\ \A q \in DOMAIN db : db'[q] = db[q]
      /\ db' \in [DOMAIN db' -> SUBSET Lits]
      /\ \A l \in db'[n] : ~IsTrue(l) /\ ~IsFalse(l) /\ Neg(l) \notin db'[n]
      /\ VarsOf(db'[n]) \subseteq touched' /\ VarsOf(db'[n]) \subseteq Vars
  BY GrownIs
<1>0. DOMAIN db \subseteq Refs /\ queue \subseteq DOMAIN db
  BY DEF ClausesOK
<1>1. DOMAIN db' \subseteq Refs /\ db' \in [DOMAIN db' -> SUBSET Lits]
  BY <1>0, <1>g
<1>2. ASSUME NEW q \in DOMAIN db'
      PROVE  Cardinality(db'[q]) > 1 /\ \A l \in db'[q] : Neg(l) \notin db'[q]
  <2>1. CASE q = n
    BY <2>1, <1>g DEF Grown
  <2>2. CASE q # n
    BY <2>2, <1>g DEF ClausesOK
  <2> QED BY <2>1, <2>2
<1>3. ASSUME NEW v \in Vars PROVE occurs'[v] = Occurring(v)'
  <2>1. occurs[v] = {q \in DOMAIN db : v \in VarsOf(db[q])}
    BY DEF ClausesOK, Occurring
  <2>2. occurs'[v] = IF v \in VarsOf(NotFalse(ps)) THEN occurs[v] \cup {n} ELSE occurs[v]
    BY DEF Grown
  <2> QED BY <2>1, <2>2, <1>g DEF Occurring
<1>4. occurs' = [v \in Vars |-> Occurring(v)']
  <2>1. DOMAIN occurs' = Vars /\ occurs' = [v \in Vars |-> occurs'[v]]
    BY DEF Grown
  <2> QED BY <1>3, <2>1
<1>5. queue' \subseteq DOMAIN db' /\ UNCHANGED <<facts, pending>>
  BY <1>0, <1>g DEF Grown
<1>6. touched \subseteq Vars => touched' \subseteq Vars
  <2>1. touched' = touched \cup VarsOf(NotFalse(ps)) /\ VarsOf(NotFalse(ps)) \subseteq Vars
    BY <1>g DEF Grown
  <2> QED BY <2>1
<1> QED BY <1>1, <1>2, <1>4, <1>5, <1>6 DEF ClausesOK, Conflicting

\* The new clause is queued, and clauses that have to do with it are touched.
LEMMA GrownPairs ==
  ASSUME ClausesOK, ok, PairsOK, FactsOK, pc # "scan",
         NEW ps \in SUBSET Lits, NEW n \in Refs, Grown(ps, n)
  PROVE  PairsOK' /\ FactsOK'
<1>g. /\ n \notin DOMAIN db /\ DOMAIN db' = DOMAIN db \cup {n}
      /\ db'[n] = NotFalse(ps) /\ db'[n] \subseteq Lits
      /\ \A q \in DOMAIN db : db'[q] = db[q]
      /\ db' \in [DOMAIN db' -> SUBSET Lits]
      /\ \A l \in db'[n] : ~IsTrue(l) /\ ~IsFalse(l) /\ Neg(l) \notin db'[n]
      /\ VarsOf(db'[n]) \subseteq touched' /\ VarsOf(db'[n]) \subseteq Vars
  BY GrownIs
<1>1. ASSUME NEW r \in DOMAIN db', NEW s \in DOMAIN db', r # s, Shrinks(db'[r], db'[s])
      PROVE  r \in queue' \/ VarsOf(db'[r]) \cap touched' # {}
  <2>1. CASE r = n
    BY <2>1 DEF Grown
  <2>2. CASE r # n /\ s = n
    <3>1. r \in DOMAIN db /\ db'[r] = db[r] /\ db[r] \subseteq Lits /\ VarsOf(db[r]) # {}
      BY <2>2, <1>g, ClausesAre
    <3>2. VarsOf(db[r]) \subseteq VarsOf(db'[n])
      BY <1>1, <1>g, <2>2, <3>1, ShrinksMore
    <3> QED BY <1>g, <2>2, <3>1, <3>2
  <2>3. CASE r # n /\ s # n
    <3>1. r \in queue \/ VarsOf(db[r]) \cap touched # {}
      BY <1>1, <1>g, <2>3 DEF PairsOK
    <3>2. queue \subseteq queue' /\ touched \subseteq touched'
      BY DEF Grown
    <3> QED BY <1>g, <3>1, <3>2, <2>3
  <2> QED BY <2>1, <2>2, <2>3
<1>2. ASSUME NEW r \in DOMAIN db', NEW l \in facts', Var(l) \in VarsOf(db'[r])
      PROVE  l \in pending'
  <2>1. l \in facts /\ facts \subseteq Lits /\ pending' = pending
    BY DEF Grown, ClausesOK
  <2>2. CASE r = n
    <3>1. PICK m \in db'[n] : Var(m) = Var(l)
      BY <1>2, <2>2 DEF VarsOf
    <3>2. m = l \/ m = Neg(l)
      BY <1>g, <2>1, <3>1, SameVar
    <3>3. Neg(Neg(l)) = l
      BY <2>1, NegLit
    <3>4. ~IsTrue(m) /\ ~IsFalse(m)
      BY <1>g, <3>1
    <3> QED BY <2>1, <3>2, <3>3, <3>4 DEF IsTrue, IsFalse
  <2>3. CASE r # n
    <3>1. r \in DOMAIN db /\ Var(l) \in VarsOf(db[r])
      BY <1>g, <1>2, <2>3
    <3> QED BY <2>1, <3>1 DEF FactsOK
  <2> QED BY <2>2, <2>3
<1> QED BY <1>1, <1>2 DEF PairsOK, FactsOK

-----------------------------------------------------------------------------
\* The lists, step by step.
LEMMA SameClauses ==
  ASSUME ClausesOK, UNCHANGED <<db, occurs, facts>>, pending' \subseteq pending,
         queue' \subseteq DOMAIN db
  PROVE  ClausesOK'
  BY DEF ClausesOK, Occurring, Conflicting

LEMMA InputIs ==
  ASSUME TypesOK
  PROVE  /\ Len(input) \in Nat /\ nextClause \in Nat
         /\ \A i \in 1 .. Len(input) : input[i] \in SUBSET Lits
<1>1. input \in Seq(SUBSET Lits)
  BY FormulasAssumption DEF TypesOK
<1> QED BY <1>1 DEF TypesOK

LEMMA InitLists ==
  ASSUME Init
  PROVE  InLists
<1>1. db = <<>> /\ DOMAIN db = {}
  BY DEF Init
<1>2. db \in [DOMAIN db -> SUBSET Lits]
  BY <1>1
<1>3. occurs = [v \in Vars |-> Occurring(v)]
  BY <1>1 DEF Init, Occurring
<1>4. ClausesOK
  BY <1>1, <1>2, <1>3 DEF Init, ClausesOK, Conflicting
<1>5. input \in Seq(SUBSET Lits)
  BY FormulasAssumption DEF Init
<1>6. TypesOK
  <2>1. 1 \in 1 .. Len(input) + 1
    BY <1>5
  <2>2. <<>> \in Seq(Entries) /\ Len(<<>>) = 0 /\ Cardinality({}) = 0
    BY FS_EmptySet
  <2> QED BY <2>1, <2>2 DEF Init, TypesOK
<1>7. LoopOK /\ GoneOK /\ LoadOK
  BY <1>1 DEF Init, LoopOK, GoneOK, LoadOK
<1>8. QueueOK
  BY <1>1 DEF Init, QueueOK, PairsOK, FactsOK
<1> QED BY <1>4, <1>6, <1>7, <1>8 DEF InLists

LEMMA LoadLists ==
  ASSUME InLists, Load
  PROVE  InLists'
<1> DEFINE ps == input[nextClause]
<1>0. ClausesOK /\ TypesOK /\ LoopOK /\ GoneOK /\ LoadOK /\ QueueOK
  BY DEF InLists
<1>1. /\ pc = "load" /\ ok /\ caller = "none" /\ eliminated = {}
      /\ nextClause <= Len(input) /\ nextClause' = nextClause + 1
      /\ AddClause_(ps)
      /\ pc' = IF ok' THEN "load" ELSE "done"
      /\ UNCHANGED <<option, input, eliminated, elimclauses, interrupt, cur, elim, todo, caller>>
  BY <1>0 DEF Load, LoopOK, gone, loops
<1>2. ps \in SUBSET Lits /\ nextClause \in 1 .. Len(input) /\ Len(input) \in Nat
  BY <1>0, <1>1, InputIs DEF TypesOK
<1> HIDE DEF ps
<1>3. /\ ok' \in BOOLEAN
      /\ \/ UNCHANGED <<db, occurs, queue, touched, heap>> /\ FactsGrow
         \/ \E n \in Refs : Grown(ps, n)
  BY <1>0, <1>1, <1>2, AddIs
<1>4. ASSUME ClausesOK', touched' \subseteq Vars, heap' \subseteq Vars
      PROVE  ClausesOK' /\ TypesOK' /\ LoopOK' /\ GoneOK'
  <2>1. TypesOK'
    BY <1>0, <1>1, <1>2, <1>3, <1>4 DEF TypesOK
  <2>2. LoopOK'
    BY <1>0, <1>1, <1>2, <1>3 DEF LoopOK
  <2>3. GoneOK'
    BY <1>1 DEF GoneOK
  <2> QED BY <1>4, <2>1, <2>2, <2>3
<1>5. CASE UNCHANGED <<db, occurs, queue, touched, heap>> /\ FactsGrow
  <2>1. ClausesOK'
    BY <1>0, <1>5 DEF ClausesOK, FactsGrow, Occurring
  <2>2. touched' \subseteq Vars /\ heap' \subseteq Vars
    BY <1>0, <1>5 DEF TypesOK
  <2>3. LoadOK'
    BY <1>0, <1>1, <1>5 DEF LoadOK
  <2>4. QueueOK'
    <3>1. ASSUME PairsOK PROVE PairsOK'
      BY <1>1, <1>5, <3>1 DEF PairsOK
    <3>2. ASSUME FactsOK PROVE FactsOK'
      BY <1>1, <1>5, <3>2 DEF FactsOK, FactsGrow
    <3> QED BY <1>0, <1>1, <3>1, <3>2 DEF QueueOK
  <2> QED BY <1>4, <2>1, <2>2, <2>3, <2>4 DEF InLists
<1>6. ASSUME NEW n \in Refs, Grown(ps, n) PROVE InLists'
  <2>1. ClausesOK' /\ touched' \subseteq Vars
    BY <1>0, <1>2, <1>6, GrownKeeps DEF TypesOK
  <2>2. heap' \subseteq Vars
    BY <1>0, <1>6 DEF TypesOK, Grown
  <2>3. LoadOK'
    <3>1. /\ DOMAIN db' = DOMAIN db \cup {n}
          /\ \A q \in DOMAIN db : db'[q] = db[q]
          /\ VarsOf(db'[n]) \subseteq touched'
      BY <1>0, <1>2, <1>6, GrownIs
    <3>2. touched \subseteq touched'
      BY <1>6 DEF Grown
    <3> QED BY <1>0, <1>1, <3>1, <3>2 DEF LoadOK
  <2>4. QueueOK'
    <3>1. ASSUME PairsOK, FactsOK PROVE PairsOK' /\ FactsOK'
      <4>1. pc # "scan"
        BY <1>1
      <4> QED BY <1>0, <1>1, <1>2, <1>6, <3>1, <4>1, GrownPairs
    <3> QED BY <1>0, <1>1, <3>1 DEF QueueOK
  <2> QED BY <1>4, <2>1, <2>2, <2>3, <2>4 DEF InLists
<1> QED BY <1>3, <1>5, <1>6

LEMMA EliminateLists ==
  ASSUME InLists, Eliminate
  PROVE  InLists'
<1>0. ClausesOK /\ TypesOK /\ LoopOK /\ GoneOK /\ LoadOK /\ QueueOK
  BY DEF InLists
<1>1. /\ pc = "load" /\ pc' = "main" /\ nextClause > Len(input)
      /\ UNCHANGED <<option, input, nextClause, db, occurs, facts, pending, queue, heap,
                     touched, eliminated, elimclauses, interrupt, cur, elim, todo, caller, ok>>
  BY DEF Eliminate, file, store, gone, loops
<1>2. ClausesOK' /\ TypesOK'
  BY <1>0, <1>1, SameClauses DEF ClausesOK, TypesOK
<1>3. nextClause = Len(input) + 1
  BY <1>0, <1>1, InputIs DEF TypesOK
<1>4. queue = {} \/ touched # {}
  <2>1. ASSUME NEW r \in queue PROVE touched # {}
    <3>1. r \in DOMAIN db
      BY <1>0 DEF ClausesOK
    <3>2. VarsOf(db[r]) \subseteq touched
      BY <1>0, <1>1, <3>1 DEF LoadOK
    <3> QED BY <1>0, <3>1, <3>2, ClausesAre
  <2> QED BY <2>1
<1>5. LoopOK'
  BY <1>0, <1>1, <1>3, <1>4 DEF LoopOK
<1>6. GoneOK' /\ LoadOK'
  BY <1>0, <1>1 DEF GoneOK, LoadOK
<1>7. QueueOK'
  BY <1>0, <1>1 DEF QueueOK, PairsOK, FactsOK
<1> QED BY <1>2, <1>5, <1>6, <1>7 DEF InLists

LEMMA InterruptLists ==
  ASSUME InLists, Interrupt
  PROVE  InLists'
<1>0. ClausesOK /\ TypesOK /\ LoopOK /\ GoneOK /\ LoadOK /\ QueueOK
  BY DEF InLists
<1>1. /\ pc # "load" /\ pc # "done" /\ interrupt' = TRUE
      /\ UNCHANGED <<option, input, nextClause, db, occurs, facts, pending, queue, heap,
                     touched, eliminated, elimclauses, cur, elim, todo, caller, pc, ok>>
  BY DEF Interrupt, file, store, gone, loops
<1>2. ClausesOK' /\ TypesOK'
  BY <1>0, <1>1, SameClauses DEF ClausesOK, TypesOK
<1>3. Merging(elim)' = Merging(elim)
  BY <1>1 DEF Merging, OccurrencesOf, Merge
<1>4. LoopOK'
  BY <1>0, <1>1, <1>3 DEF LoopOK, CurOK
<1>5. GoneOK' /\ LoadOK' /\ QueueOK'
  BY <1>0, <1>1 DEF GoneOK, LoadOK, QueueOK
<1> QED BY <1>2, <1>4, <1>5 DEF InLists

LEMMA StutterLists ==
  ASSUME InLists, UNCHANGED vars
  PROVE  InLists'
<1>0. ClausesOK /\ TypesOK /\ LoopOK /\ GoneOK /\ LoadOK /\ QueueOK
  BY DEF InLists
<1>1. UNCHANGED <<option, input, nextClause, db, occurs, facts, pending, queue, heap,
                  touched, eliminated, elimclauses, interrupt, cur, elim, todo, caller, pc, ok>>
  BY DEF vars
<1>2. ClausesOK' /\ TypesOK'
  BY <1>0, <1>1, SameClauses DEF ClausesOK, TypesOK
<1>3. Merging(elim)' = Merging(elim)
  BY <1>1 DEF Merging, OccurrencesOf, Merge
<1>4. LoopOK'
  BY <1>0, <1>1, <1>3 DEF LoopOK, CurOK
<1>5. GoneOK' /\ LoadOK' /\ QueueOK'
  BY <1>0, <1>1 DEF GoneOK, LoadOK, QueueOK, PairsOK, FactsOK
<1> QED BY <1>2, <1>4, <1>5 DEF InLists

\* The steps that change no clause and no fact.
LEMMA GatherLists ==
  ASSUME InLists, GatherTouchedClauses
  PROVE  InLists'
<1>0. ClausesOK /\ TypesOK /\ LoopOK /\ GoneOK /\ LoadOK /\ QueueOK
  BY DEF InLists
<1>1. /\ pc = "main" /\ pc' = "check" /\ caller' = "main" /\ touched' = {}
      /\ queue' = queue \cup UNION {occurs[v] : v \in touched}
      /\ UNCHANGED <<option, input, nextClause, db, occurs, facts, pending, heap,
                     eliminated, elimclauses, interrupt, cur, elim, todo, ok>>
  BY DEF GatherTouchedClauses, file, gone
<1>2. \A v \in touched : occurs[v] = {r \in DOMAIN db : v \in VarsOf(db[r])}
  BY <1>0 DEF ClausesOK, TypesOK, Occurring
<1>3. queue' \subseteq DOMAIN db
  BY <1>0, <1>1, <1>2 DEF ClausesOK
<1>4. ClausesOK' /\ TypesOK'
  BY <1>0, <1>1, <1>3, SameClauses DEF TypesOK
<1>5. LoopOK' /\ GoneOK' /\ LoadOK'
  BY <1>0, <1>1 DEF LoopOK, GoneOK, LoadOK
<1>6. QueueOK'
  <2>1. ASSUME PairsOK PROVE PairsOK'
    <3>1. ASSUME NEW r \in DOMAIN db, VarsOf(db[r]) \cap touched # {} PROVE r \in queue'
      <4>1. PICK v \in touched : v \in VarsOf(db[r])
        BY <3>1
      <4> QED BY <4>1, <1>1, <1>2
    <3> QED BY <1>1, <2>1, <3>1 DEF PairsOK
  <2> QED BY <1>0, <1>1, <2>1 DEF QueueOK, FactsOK
<1> QED BY <1>4, <1>5, <1>6 DEF InLists

LEMMA CleanupLists ==
  ASSUME InLists, Cleanup
  PROVE  InLists'
<1>0. ClausesOK /\ TypesOK /\ LoopOK /\ GoneOK /\ LoadOK /\ QueueOK
  BY DEF InLists
<1>1. /\ pc = "main" /\ pc' = "done" /\ touched = {} /\ pending = {}
      /\ UNCHANGED <<option, input, nextClause, db, occurs, facts, pending, queue, heap,
                     touched, eliminated, elimclauses, interrupt, cur, elim, todo, caller, ok>>
  BY DEF Cleanup, file, store, gone, loops
<1>2. ClausesOK' /\ TypesOK'
  BY <1>0, <1>1, SameClauses DEF ClausesOK, TypesOK
<1>3. LoopOK' /\ GoneOK' /\ LoadOK'
  BY <1>0, <1>1 DEF LoopOK, GoneOK, LoadOK
<1>4. QueueOK'
  BY <1>0, <1>1 DEF QueueOK, PairsOK, FactsOK
<1> QED BY <1>2, <1>3, <1>4 DEF InLists

LEMMA NextInQueueLists ==
  ASSUME InLists, NextInQueue
  PROVE  InLists'
<1>0. ClausesOK /\ TypesOK /\ LoopOK /\ GoneOK /\ LoadOK /\ QueueOK
  BY DEF InLists
<1>1. /\ pc = "check" /\ pc' = "scan" /\ ~interrupt
      /\ UNCHANGED <<option, input, nextClause, db, occurs, facts, heap, touched,
                     eliminated, elimclauses, interrupt, elim, caller, ok>>
  BY DEF NextInQueue, file, gone
<1>2. PICK best \in VarsOf(cur'.lits) : todo' = occurs[best] \ {cur'.ref}
  BY DEF NextInQueue
<1>3. ok /\ PairsOK /\ FactsOK
  BY <1>0, <1>1 DEF QueueOK, LoopOK
<1>4. /\ queue' \subseteq queue /\ pending' \subseteq pending
      /\ cur'.lits \subseteq Lits /\ CurOK'
  <2>1. ASSUME NEW r \in queue, cur' = [ref |-> r, lits |-> db[r]], queue' = queue \ {r},
               UNCHANGED pending
        PROVE  cur'.lits \subseteq Lits /\ CurOK'
    <3>1. r \in DOMAIN db /\ db[r] \subseteq Lits /\ best \in Vars
      BY <1>0, <1>2, <2>1, ClausesAre DEF ClausesOK
    <3>2. occurs[best] \subseteq DOMAIN db
      BY <1>0, <3>1 DEF ClausesOK, Occurring
    <3> QED BY <1>1, <1>2, <2>1, <3>1, <3>2 DEF CurOK
  <2>2. ASSUME NEW l \in pending, cur' = [ref |-> 0, lits |-> {l}], UNCHANGED queue
        PROVE  cur'.lits \subseteq Lits /\ CurOK'
    <3>1. l \in facts /\ l \in Lits /\ best \in Vars
      BY <1>0, <1>2, <2>2, NegLit DEF ClausesOK, VarsOf
    <3>2. occurs[best] \subseteq DOMAIN db
      BY <1>0, <3>1 DEF ClausesOK, Occurring
    <3> QED BY <1>1, <1>2, <2>2, <3>1, <3>2 DEF CurOK
  <2> QED BY <2>1, <2>2 DEF NextInQueue
<1>5. ClausesOK' /\ TypesOK'
  <2>1. queue' \subseteq DOMAIN db
    BY <1>0, <1>4 DEF ClausesOK
  <2> QED BY <1>0, <1>1, <1>4, <2>1, SameClauses DEF TypesOK
<1>6. LoopOK' /\ GoneOK' /\ LoadOK'
  BY <1>0, <1>1, <1>4 DEF LoopOK, GoneOK, LoadOK
<1>7. QueueOK'
  <2>1. ASSUME NEW r \in queue, cur' = [ref |-> r, lits |-> db[r]], queue' = queue \ {r},
               UNCHANGED pending
        PROVE  PairsOK' /\ FactsOK'
    <3>1. ASSUME NEW s \in DOMAIN db, r # s, Shrinks(db[r], db[s]) PROVE s \in todo'
      <4>1. r \in DOMAIN db /\ db[r] \subseteq Lits /\ db[s] \subseteq Lits
        BY <1>0, <2>1, ClausesAre DEF ClausesOK
      <4>2. VarsOf(db[r]) \subseteq VarsOf(db[s])
        BY <1>0, <3>1, <4>1, ShrinksMore DEF ClausesOK
      <4>3. best \in VarsOf(db[s]) /\ best \in Vars
        BY <1>0, <1>2, <2>1, <4>1, <4>2, ClausesAre
      <4>4. s \in occurs[best]
        BY <1>0, <4>3 DEF ClausesOK, Occurring
      <4> QED BY <1>2, <2>1, <3>1, <4>4
    <3>2. PairsOK'
      BY <1>1, <1>3, <2>1, <3>1 DEF PairsOK
    <3>3. FactsOK'
      BY <1>1, <1>3, <2>1 DEF FactsOK
    <3> QED BY <3>2, <3>3
  <2>2. ASSUME NEW l \in pending, queue = {}, cur' = [ref |-> 0, lits |-> {l}],
               pending' = pending \ {l}, UNCHANGED queue
        PROVE  PairsOK' /\ FactsOK'
    <3>1. best = Var(l) /\ l \in Lits
      BY <1>0, <1>2, <2>2 DEF VarsOf, ClausesOK
    <3>2. ASSUME NEW r \in DOMAIN db, Var(l) \in VarsOf(db[r]) PROVE r \in todo'
      <4>1. r \in occurs[best]
        BY <1>0, <3>1, <3>2, NegLit DEF ClausesOK, Occurring
      <4>2. r # 0
        BY <1>0, BoundAssumption DEF ClausesOK, Refs
      <4> QED BY <1>2, <2>2, <4>1, <4>2
    <3>3. FactsOK'
      BY <1>1, <1>3, <2>2, <3>2 DEF FactsOK
    <3>4. PairsOK'
      BY <1>1, <1>3, <2>2 DEF PairsOK
    <3> QED BY <3>3, <3>4
  <2> QED BY <2>1, <2>2 DEF NextInQueue, QueueOK
<1> QED BY <1>5, <1>6, <1>7 DEF InLists

LEMMA NoCandidatesLists ==
  ASSUME InLists, NoCandidates
  PROVE  InLists'
<1>0. ClausesOK /\ TypesOK /\ LoopOK /\ GoneOK /\ LoadOK /\ QueueOK
  BY DEF InLists
<1>1. /\ pc = "scan" /\ pc' = "check" /\ todo = {}
      /\ UNCHANGED <<option, input, nextClause, db, occurs, facts, pending, queue, heap,
                     touched, eliminated, elimclauses, interrupt, cur, elim, todo, caller, ok>>
  BY DEF NoCandidates, file, store, gone, loops
<1>2. ClausesOK' /\ TypesOK'
  BY <1>0, <1>1, SameClauses DEF ClausesOK, TypesOK
<1>3. LoopOK' /\ GoneOK' /\ LoadOK'
  BY <1>0, <1>1 DEF LoopOK, GoneOK, LoadOK
<1>4. QueueOK'
  BY <1>0, <1>1 DEF QueueOK, PairsOK, FactsOK
<1> QED BY <1>2, <1>3, <1>4 DEF InLists

LEMMA CheckDoneLists ==
  ASSUME InLists, CheckDone
  PROVE  InLists'
<1>0. ClausesOK /\ TypesOK /\ LoopOK /\ GoneOK /\ LoadOK /\ QueueOK
  BY DEF InLists
<1>1. /\ pc = "check" /\ queue' = {} /\ pending' = {} /\ caller' = "none"
      /\ interrupt \/ (queue = {} /\ pending = {})
      /\ \/ caller = "main" /\ interrupt /\ pc' = "done"
         \/ caller = "asymm" /\ pc' = "elim"
         \/ caller # "asymm" /\ pc' = "pick"
      /\ heap' = {} \/ heap' = heap
      /\ UNCHANGED <<option, input, nextClause, db, occurs, facts, touched,
                     eliminated, elimclauses, interrupt, cur, elim, todo, ok>>
  BY DEF CheckDone, file, gone
<1>2. ClausesOK' /\ TypesOK'
  BY <1>0, <1>1, SameClauses DEF ClausesOK, TypesOK
<1>3. LoopOK' /\ GoneOK' /\ LoadOK'
  BY <1>0, <1>1 DEF LoopOK, GoneOK, LoadOK
<1>4. QueueOK'
  BY <1>0, <1>1 DEF QueueOK, PairsOK, FactsOK
<1> QED BY <1>2, <1>3, <1>4 DEF InLists

LEMMA PickLists ==
  ASSUME InLists, Pick
  PROVE  InLists'
<1>0. ClausesOK /\ TypesOK /\ LoopOK /\ GoneOK /\ LoadOK /\ QueueOK
  BY DEF InLists
<1>1. /\ pc = "pick"
      /\ UNCHANGED <<option, input, nextClause, db, occurs, facts, pending, queue,
                     touched, eliminated, elimclauses, interrupt, cur, caller, ok>>
  BY DEF Pick, file, gone
<1>2. PICK v \in heap :
        /\ heap' = heap \ {v}
        /\ IF interrupt \/ v \in eliminated \/ Assigned(v)
           THEN /\ pc' = IF interrupt THEN "main" ELSE "pick"
                /\ UNCHANGED <<elim, todo>>
           ELSE /\ elim' = v
                /\ IF option.asymm /\ occurs[v] # {}
                   THEN pc' = "asymm" /\ todo' = occurs[v]
                   ELSE pc' = "elim" /\ UNCHANGED todo
  BY DEF Pick
<1>3. v \in Vars /\ occurs[v] \subseteq DOMAIN db /\ DOMAIN db \subseteq Refs
  BY <1>0 DEF TypesOK, ClausesOK, Occurring
<1>4. /\ elim' \in Vars \cup {0}
      /\ pc' \in {"main", "pick", "asymm", "elim"}
      /\ pc' \in {"asymm", "elim"} => elim' \in Vars \ eliminated
      /\ pc' = "asymm" => todo' \subseteq Refs
  <2>1. CASE interrupt \/ v \in eliminated \/ Assigned(v)
    BY <1>0, <1>2, <2>1 DEF TypesOK
  <2>2. CASE ~(interrupt \/ v \in eliminated \/ Assigned(v))
    BY <1>2, <1>3, <2>2
  <2> QED BY <2>1, <2>2
<1>5. ClausesOK' /\ TypesOK'
  <2>1. heap' \subseteq Vars
    BY <1>0, <1>2 DEF TypesOK
  <2> QED BY <1>0, <1>1, <1>4, <2>1, SameClauses DEF ClausesOK, TypesOK
<1>6. LoopOK' /\ GoneOK' /\ LoadOK'
  BY <1>0, <1>1, <1>4 DEF LoopOK, GoneOK, LoadOK
<1>7. QueueOK'
  BY <1>0, <1>1, <1>4 DEF QueueOK, PairsOK, FactsOK
<1> QED BY <1>5, <1>6, <1>7 DEF InLists

LEMMA HeapEmptyLists ==
  ASSUME InLists, HeapEmpty
  PROVE  InLists'
<1>0. ClausesOK /\ TypesOK /\ LoopOK /\ GoneOK /\ LoadOK /\ QueueOK
  BY DEF InLists
<1>1. /\ pc = "pick" /\ pc' = "main"
      /\ UNCHANGED <<option, input, nextClause, db, occurs, facts, pending, queue, heap,
                     touched, eliminated, elimclauses, interrupt, cur, elim, todo, caller, ok>>
  BY DEF HeapEmpty, file, store, gone, loops
<1>2. ClausesOK' /\ TypesOK'
  BY <1>0, <1>1, SameClauses DEF ClausesOK, TypesOK
<1>3. LoopOK' /\ GoneOK' /\ LoadOK'
  BY <1>0, <1>1 DEF LoopOK, GoneOK, LoadOK
<1>4. QueueOK'
  BY <1>0, <1>1 DEF QueueOK, PairsOK, FactsOK
<1> QED BY <1>2, <1>3, <1>4 DEF InLists

LEMMA AsymmDoneLists ==
  ASSUME InLists, AsymmDone
  PROVE  InLists'
<1>0. ClausesOK /\ TypesOK /\ LoopOK /\ GoneOK /\ LoadOK /\ QueueOK
  BY DEF InLists
<1>1. /\ pc = "asymm" /\ pc' = "check" /\ caller' = "asymm"
      /\ UNCHANGED <<option, input, nextClause, db, occurs, facts, pending, queue, heap,
                     touched, eliminated, elimclauses, interrupt, cur, elim, todo, ok>>
  BY DEF AsymmDone, file, store, gone
<1>2. ClausesOK' /\ TypesOK'
  BY <1>0, <1>1, SameClauses DEF ClausesOK, TypesOK
<1>3. LoopOK' /\ GoneOK' /\ LoadOK'
  BY <1>0, <1>1 DEF LoopOK, GoneOK, LoadOK
<1>4. QueueOK'
  BY <1>0, <1>1 DEF QueueOK, PairsOK, FactsOK
<1> QED BY <1>2, <1>3, <1>4 DEF InLists

-----------------------------------------------------------------------------
\* strengthenClause touches no other clause.
LEMMA StrengthenOthers ==
  ASSUME ClausesOK, NEW r \in DOMAIN db, NEW l \in db[r], StrengthenClause(r, l)
  PROVE  /\ DOMAIN db \ {r} \subseteq DOMAIN db' /\ DOMAIN db' \subseteq DOMAIN db
         /\ \A q \in DOMAIN db \ {r} : db'[q] = db[q]
         /\ r \in DOMAIN db' => db'[r] = db[r] \ {l}
<1> DEFINE C == db[r] \ {l}
<1>1. CASE Cardinality(C) = 1
  <2>1. RemoveClauses({r})
    BY <1>1 DEF StrengthenClause
  <2>2. DOMAIN db' = DOMAIN db \ {r} /\ \A q \in DOMAIN db' : db'[q] = db[q]
    BY <2>1, RemovedAre
  <2> QED BY <2>2
<1>2. CASE Cardinality(C) # 1
  <2>1. db' = [db EXCEPT ![r] = C]
    BY <1>2 DEF StrengthenClause
  <2> QED BY <2>1
<1> QED BY <1>1, <1>2

LEMMA ShrunkOccurs ==
  ASSUME ClausesOK, Shrunk, NEW v \in Vars
  PROVE  occurs'[v] \subseteq occurs[v]
<1>1. occurs[v] = {q \in DOMAIN db : v \in VarsOf(db[q])}
  BY DEF ClausesOK, Occurring
<1>2. occurs'[v] = {q \in DOMAIN db' : v \in VarsOf(db'[q])}
  BY DEF Shrunk
<1>3. \A q \in DOMAIN db' : q \in DOMAIN db /\ db'[q] \subseteq db[q]
  BY ShrunkIs
<1> QED BY <1>1, <1>2, <1>3 DEF VarsOf

\* A fact shrinks every clause with a literal of its variable.
LEMMA FactShrinks ==
  ASSUME NEW l \in Lits, NEW D, D \subseteq Lits, \A m \in D : Neg(m) \notin D,
         Var(l) \in VarsOf(D)
  PROVE  Shrinks({l}, D)
<1>1. PICK m \in D : Var(m) = Var(l)
  BY DEF VarsOf
<1>2. m = l \/ m = Neg(l)
  BY <1>1, SameVar
<1>3. CASE l \in D
  BY <1>3 DEF Shrinks, Subsumes
<1>4. CASE l \notin D
  <2>1. Flipped({l}, D) = {l}
    BY <1>1, <1>2, <1>4 DEF Flipped
  <2>2. Cardinality(Flipped({l}, D)) = 1
    BY <2>1, FS_Singleton
  <2> QED BY <2>1, <2>2 DEF Shrinks, Strengthens
<1> QED BY <1>3, <1>4

\* What a step that shrinks clauses leaves of the invariant of the lists.
LEMMA ShrunkLists ==
  ASSUME ClausesOK, TypesOK, GoneOK, Shrunk, ok' \in BOOLEAN, pc # "resolve",
         UNCHANGED <<option, input, nextClause, touched, eliminated, elimclauses, interrupt>>,
         cur'.lits \subseteq Lits, elim' = elim, ok
  PROVE  ClausesOK' /\ TypesOK' /\ GoneOK'
<1>1. ClausesOK'
  BY ShrunkKeeps
<1>2. heap' \subseteq Vars
  BY DEF Shrunk, TypesOK
<1>3. TypesOK'
  BY <1>2 DEF TypesOK
<1>4. GoneOK'
  <2>1. \A v \in eliminated : v \in Vars /\ occurs[v] = {}
    BY DEF GoneOK, TypesOK
  <2>2. \A v \in eliminated : occurs'[v] = {}
    BY <2>1, ShrunkOccurs
  <2> QED BY <2>2 DEF GoneOK
<1> QED BY <1>1, <1>3, <1>4

LEMMA CompareLists ==
  ASSUME InLists, Compare
  PROVE  InLists'
<1>0. ClausesOK /\ TypesOK /\ LoopOK /\ GoneOK /\ LoadOK /\ QueueOK
  BY DEF InLists
<1>1. /\ pc = "scan" /\ ok /\ CurOK /\ caller \in {"main", "asymm", "elim"}
      /\ pc' = IF ~ok' THEN "done" ELSE IF todo' = {} THEN "check" ELSE "scan"
      /\ UNCHANGED <<option, input, nextClause, touched, eliminated, elimclauses, interrupt,
                     cur, elim, caller>>
  BY <1>0 DEF Compare, file, gone, LoopOK
<1>2. PICK r \in todo :
        /\ todo' = todo \ {r}
        /\ \/ /\ Subsumes(cur.lits, db[r])
              /\ RemoveClauses({r})
              /\ UNCHANGED <<facts, pending, ok>>
           \/ /\ Strengthens(cur.lits, db[r])
              /\ \E l \in Flipped(cur.lits, db[r]) : StrengthenClause(r, Neg(l))
           \/ /\ ~Subsumes(cur.lits, db[r]) /\ ~Strengthens(cur.lits, db[r])
              /\ UNCHANGED <<store, ok>>
  BY DEF Compare
<1>3. /\ r \in DOMAIN db /\ r # cur.ref /\ todo \subseteq DOMAIN db
      /\ cur.lits \subseteq Lits /\ db[r] \subseteq Lits
      /\ \A m \in db[r] : Neg(m) \notin db[r]
  <2>1. r \in DOMAIN db /\ todo \subseteq DOMAIN db /\ r # cur.ref
    BY <1>0, <1>1, BoundAssumption DEF CurOK, ClausesOK, Refs
  <2> QED BY <1>0, <2>1 DEF ClausesOK, TypesOK
<1>4. /\ Shrunk /\ ok' \in BOOLEAN
      /\ DOMAIN db \ {r} \subseteq DOMAIN db' /\ DOMAIN db' \subseteq DOMAIN db
      /\ \A q \in DOMAIN db \ {r} : db'[q] = db[q]
      /\ r \in DOMAIN db' => ~Shrinks(cur.lits, db'[r])
  <2>1. CASE RemoveClauses({r}) /\ UNCHANGED <<facts, pending, ok>>
    <3>1. Shrunk
      BY <1>0, <1>3, <2>1, RemoveShrinks
    <3>2. DOMAIN db' = DOMAIN db \ {r} /\ \A q \in DOMAIN db' : db'[q] = db[q]
      BY <1>0, <2>1, RemovedAre
    <3> QED BY <1>1, <2>1, <3>1, <3>2
  <2>2. ASSUME NEW l \in Flipped(cur.lits, db[r]), StrengthenClause(r, Neg(l))
        PROVE  /\ Shrunk /\ ok' \in BOOLEAN
               /\ DOMAIN db \ {r} \subseteq DOMAIN db' /\ DOMAIN db' \subseteq DOMAIN db
               /\ \A q \in DOMAIN db \ {r} : db'[q] = db[q]
               /\ r \in DOMAIN db' => ~Shrinks(cur.lits, db'[r])
    <3>1. Neg(l) \in db[r] /\ ~Shrinks(cur.lits, db[r] \ {Neg(l)})
      BY <1>3, ShrinksOnce
    <3>2. Shrunk /\ ok' \in BOOLEAN
      BY <1>0, <1>1, <1>3, <2>2, <3>1, StrengthenShrinks
    <3>3. /\ DOMAIN db \ {r} \subseteq DOMAIN db' /\ DOMAIN db' \subseteq DOMAIN db
          /\ \A q \in DOMAIN db \ {r} : db'[q] = db[q]
          /\ r \in DOMAIN db' => db'[r] = db[r] \ {Neg(l)}
      BY <1>0, <1>3, <2>2, <3>1, StrengthenOthers
    <3> QED BY <3>1, <3>2, <3>3
  <2>3. CASE ~Subsumes(cur.lits, db[r]) /\ ~Strengthens(cur.lits, db[r]) /\ UNCHANGED <<store, ok>>
    <3>1. Shrunk
      BY <1>0, <2>3, NothingShrinks
    <3>2. db' = db
      BY <2>3 DEF store
    <3> QED BY <1>1, <2>3, <3>1, <3>2 DEF Shrinks
  <2> QED BY <1>2, <2>1, <2>2, <2>3
<1>5. ClausesOK' /\ TypesOK' /\ GoneOK'
  BY <1>0, <1>1, <1>3, <1>4, ShrunkLists
<1>6. CurOK'
  <2>1. facts \subseteq facts'
    BY <1>4 DEF Shrunk, FactsGrow
  <2>2. todo' \subseteq DOMAIN db'
    BY <1>2, <1>3, <1>4
  <2>3. cur.ref \in DOMAIN db => cur.ref \in DOMAIN db' /\ db'[cur.ref] = db[cur.ref]
    BY <1>3, <1>4
  <2> QED BY <1>1, <1>2, <2>1, <2>2, <2>3 DEF CurOK
<1>7. LoopOK'
  BY <1>0, <1>1, <1>4, <1>6 DEF LoopOK
<1>8. LoadOK'
  BY <1>1 DEF LoadOK
<1>9. QueueOK'
  <2>1. SUFFICES ASSUME ~interrupt, ok' PROVE PairsOK' /\ FactsOK'
    BY <1>1 DEF QueueOK
  <2>2. PairsOK /\ FactsOK /\ (todo' # {} => pc' = "scan")
    BY <1>0, <1>1, <2>1 DEF QueueOK
  <2>3. ASSUME NEW q \in DOMAIN db', NEW s \in DOMAIN db', q # s, Shrinks(db'[q], db'[s])
        PROVE  \/ q \in queue' \/ VarsOf(db'[q]) \cap touched' # {}
               \/ pc' = "scan" /\ cur'.ref = q /\ s \in todo'
    <3>1. \/ q \in queue' \/ VarsOf(db'[q]) \cap touched' # {}
          \/ cur.ref = q /\ s \in todo
      BY <1>0, <1>1, <1>4, <2>2, <2>3, ShrunkPairs
    <3>2. ASSUME cur.ref = q, s \in todo PROVE s \in todo'
      <4>1. s # r
        <5>1. cur.lits = db'[q]
          BY <1>0, <1>1, <1>3, <1>4, <2>3, <3>2, BoundAssumption DEF CurOK, ClausesOK, Refs
        <5> QED BY <1>4, <2>3, <5>1
      <4> QED BY <1>2, <3>2, <4>1
    <3> QED BY <1>1, <2>2, <3>1, <3>2
  <2>4. ASSUME NEW q \in DOMAIN db', NEW l \in facts', Var(l) \in VarsOf(db'[q])
        PROVE  \/ l \in pending'
               \/ pc' = "scan" /\ cur' = [ref |-> 0, lits |-> {l}] /\ q \in todo'
    <3>1. l \in pending' \/ (cur = [ref |-> 0, lits |-> {l}] /\ q \in todo)
      BY <1>0, <1>4, <2>2, <2>4, ShrunkFacts
    <3>2. ASSUME cur = [ref |-> 0, lits |-> {l}], q \in todo PROVE q \in todo'
      <4>1. q # r
        <5>1. db'[q] \subseteq Lits /\ (\A m \in db'[q] : Neg(m) \notin db'[q]) /\ l \in Lits
          BY <1>5, <2>4 DEF ClausesOK
        <5>2. Shrinks(cur.lits, db'[q])
          BY <2>4, <3>2, <5>1, FactShrinks
        <5> QED BY <1>4, <2>4, <5>2
      <4> QED BY <1>2, <3>2, <4>1
    <3> QED BY <1>1, <2>2, <3>1, <3>2
  <2> QED BY <2>3, <2>4 DEF PairsOK, FactsOK
<1> QED BY <1>5, <1>7, <1>8, <1>9 DEF InLists

\* asymm, for one clause: nothing but the clause taken from the list, or a literal
\* dropped because the others of the clause cannot all be false.
Others(r) == {l \in db[r] : Var(l) # elim /\ ~IsFalse(l)}
Propagates(r) == Conflicting(Propagated(facts \cup {Neg(l) : l \in Others(r)}, Clauses))

LEMMA AsymmIs ==
  ASSUME AsymmVar
  PROVE  /\ todo' \subseteq todo
         /\ \/ UNCHANGED <<store, ok>>
            \/ \E r \in DOMAIN db :
                 Propagates(r) /\ \E l \in db[r] \ Others(r) : StrengthenClause(r, l)
<1>1. PICK r \in todo :
       LET c == db[r]
           others == {l \in c : Var(l) # elim /\ ~IsFalse(l)}
       IN \/ /\ \/ r \notin DOMAIN db
                \/ \E l \in c : IsTrue(l)
                \/ ~Conflicting(Propagated(facts \cup {Neg(l) : l \in others}, Clauses))
             /\ todo' = todo \ {r}
             /\ UNCHANGED <<store, ok>>
          \/ /\ r \in DOMAIN db /\ ~\E l \in c : IsTrue(l)
             /\ Conflicting(Propagated(facts \cup {Neg(l) : l \in others}, Clauses))
             /\ \E l \in c \ others :
                  /\ StrengthenClause(r, l)
                  /\ IF Var(l) = elim /\ Cardinality(c) > 2
                     THEN \E S \in SUBSET (todo \ {r}) :
                            /\ Cardinality(S) = (IF todo = {r} THEN 0 ELSE 1)
                            /\ todo' = (todo \ {r}) \ S
                     ELSE todo' = todo \ {r}
  BY DEF AsymmVar
<1>2. \/ todo' = todo \ {r} /\ UNCHANGED <<store, ok>>
      \/ /\ r \in DOMAIN db /\ Propagates(r)
         /\ \E l \in db[r] \ Others(r) :
              /\ StrengthenClause(r, l)
              /\ IF Var(l) = elim /\ Cardinality(db[r]) > 2
                 THEN \E S \in SUBSET (todo \ {r}) :
                        /\ Cardinality(S) = (IF todo = {r} THEN 0 ELSE 1)
                        /\ todo' = (todo \ {r}) \ S
                 ELSE todo' = todo \ {r}
  BY <1>1, Zenon DEF Others, Propagates
<1>3. CASE todo' = todo \ {r} /\ UNCHANGED <<store, ok>>
  BY <1>3
<1>4. CASE /\ r \in DOMAIN db /\ Propagates(r)
           /\ \E l \in db[r] \ Others(r) :
                /\ StrengthenClause(r, l)
                /\ IF Var(l) = elim /\ Cardinality(db[r]) > 2
                   THEN \E S \in SUBSET (todo \ {r}) :
                          /\ Cardinality(S) = (IF todo = {r} THEN 0 ELSE 1)
                          /\ todo' = (todo \ {r}) \ S
                   ELSE todo' = todo \ {r}
  <2>1. PICK l \in db[r] \ Others(r) :
                /\ StrengthenClause(r, l)
                /\ IF Var(l) = elim /\ Cardinality(db[r]) > 2
                   THEN \E S \in SUBSET (todo \ {r}) :
                          /\ Cardinality(S) = (IF todo = {r} THEN 0 ELSE 1)
                          /\ todo' = (todo \ {r}) \ S
                   ELSE todo' = todo \ {r}
    BY <1>4, Zenon
  <2>2. todo' \subseteq todo
    BY <2>1
  <2>3. r \in DOMAIN db /\ Propagates(r)
    BY <1>4, Zenon
  <2>4. StrengthenClause(r, l)
    BY <2>1, Zenon
  <2> QED BY <2>2, <2>3, <2>4, Zenon
<1> QED BY <1>2, <1>3, <1>4, Zenon

LEMMA AsymmVarLists ==
  ASSUME InLists, AsymmVar
  PROVE  InLists'
<1>0. ClausesOK /\ TypesOK /\ LoopOK /\ GoneOK /\ LoadOK /\ QueueOK
  BY DEF InLists
<1>1. /\ pc = "asymm" /\ ok /\ caller = "none"
      /\ elim \in Vars \ eliminated /\ todo \subseteq Refs
      /\ pc' = IF ok' THEN "asymm" ELSE "done"
      /\ UNCHANGED <<option, input, nextClause, touched, eliminated, elimclauses, interrupt,
                     cur, elim, caller>>
  BY <1>0 DEF AsymmVar, file, gone, LoopOK
<1>2. /\ todo' \subseteq todo
      /\ \/ UNCHANGED <<store, ok>>
         \/ \E r \in DOMAIN db :
              Propagates(r) /\ \E l \in db[r] \ Others(r) : StrengthenClause(r, l)
  BY AsymmIs
<1>3. Shrunk /\ ok' \in BOOLEAN /\ todo' \subseteq todo
  <2>1. CASE UNCHANGED <<store, ok>>
    <3>1. Shrunk
      BY <1>0, <2>1, NothingShrinks
    <3> QED BY <1>1, <1>2, <2>1, <3>1
  <2>2. ASSUME NEW r \in DOMAIN db, NEW l \in db[r], StrengthenClause(r, l)
        PROVE  Shrunk /\ ok' \in BOOLEAN
    BY <1>0, <1>1, <2>2, StrengthenShrinks
  <2> QED BY <1>2, <2>1, <2>2
<1>4. ClausesOK' /\ TypesOK' /\ GoneOK'
  <2>1. cur'.lits \subseteq Lits
    BY <1>0, <1>1 DEF TypesOK
  <2> QED BY <1>0, <1>1, <1>3, <2>1, ShrunkLists
<1>5. LoopOK'
  BY <1>0, <1>1, <1>3 DEF LoopOK
<1>6. LoadOK'
  BY <1>1 DEF LoadOK
<1>7. QueueOK'
  <2>1. SUFFICES ASSUME ~interrupt, ok' PROVE PairsOK' /\ FactsOK'
    BY <1>1 DEF QueueOK
  <2>2. PairsOK /\ FactsOK /\ pc # "scan"
    BY <1>0, <1>1, <2>1 DEF QueueOK
  <2>3. ASSUME NEW q \in DOMAIN db', NEW s \in DOMAIN db', q # s, Shrinks(db'[q], db'[s])
        PROVE  q \in queue' \/ VarsOf(db'[q]) \cap touched' # {}
    BY <1>0, <1>1, <1>3, <2>2, <2>3, ShrunkPairs
  <2>4. ASSUME NEW q \in DOMAIN db', NEW l \in facts', Var(l) \in VarsOf(db'[q])
        PROVE  l \in pending'
    BY <1>0, <1>3, <2>2, <2>4, ShrunkFacts
  <2> QED BY <2>3, <2>4 DEF PairsOK, FactsOK
<1> QED BY <1>4, <1>5, <1>6, <1>7 DEF InLists

\* Two clauses that eliminateVar resolves, and what is kept of a variable's clauses.
LEMMA MergeIs ==
  ASSUME ClausesOK, NEW v \in Vars,
         NEW r \in OccurrencesOf(<<v, TRUE>>), NEW s \in OccurrencesOf(<<v, FALSE>>)
  PROVE  /\ r \in DOMAIN db /\ <<v, TRUE>> \in db[r]
         /\ s \in DOMAIN db /\ <<v, FALSE>> \in db[s]
         /\ Merge(r, s, v) \in SUBSET Lits
         /\ \A l \in Merge(r, s, v) : Var(l) # v /\ (l \in db[r] \/ l \in db[s])
<1>1. occurs[v] = {q \in DOMAIN db : v \in VarsOf(db[q])} /\ Var(<<v, TRUE>>) = v
      /\ Var(<<v, FALSE>>) = v
  BY DEF ClausesOK, Occurring, Var
<1>2. /\ r \in DOMAIN db /\ <<v, TRUE>> \in db[r]
      /\ s \in DOMAIN db /\ <<v, FALSE>> \in db[s]
  BY <1>1 DEF OccurrencesOf
<1>3. db[r] \subseteq Lits /\ db[s] \subseteq Lits
  BY <1>2, ClausesAre
<1>4. <<v, FALSE>> \notin db[r] /\ <<v, TRUE>> \notin db[s]
  <2>1. Neg(<<v, TRUE>>) = <<v, FALSE>> /\ Neg(<<v, FALSE>>) = <<v, TRUE>>
    BY DEF Neg
  <2> QED BY <1>2, <2>1 DEF ClausesOK
<1>5. \A l \in Lits : Var(l) = v => l = <<v, TRUE>> \/ l = <<v, FALSE>>
  <2> SUFFICES ASSUME NEW l \in Lits, Var(l) = v PROVE l = <<v, TRUE>> \/ l = <<v, FALSE>>
    OBVIOUS
  <2>1. <<v, TRUE>> \in Lits
    BY DEF Lits
  <2>2. Neg(<<v, TRUE>>) = <<v, FALSE>>
    BY DEF Neg
  <2>3. Var(l) = Var(<<v, TRUE>>)
    BY <1>1
  <2> QED BY <2>1, <2>2, <2>3, SameVar
<1> QED BY <1>2, <1>3, <1>4, <1>5 DEF Merge

LEMMA StoredIs ==
  ASSUME ClausesOK, NEW v \in Vars
  PROVE  Stored(v) \in Entries
<1> DEFINE pos == OccurrencesOf(<<v, TRUE>>)
           neg == OccurrencesOf(<<v, FALSE>>)
           positive == Cardinality(pos) > Cardinality(neg)
           l == <<v, ~positive>>
           kept == IF positive THEN neg ELSE pos
<1>1. Var(<<v, TRUE>>) = v /\ Var(<<v, FALSE>>) = v
  BY DEF Var
<1>2. kept \subseteq DOMAIN db
  BY <1>1 DEF ClausesOK, Occurring, OccurrencesOf
<1>3. l \in Lits
  BY DEF Lits
<1>4. \A r \in kept : MkElimClause(l, r) \in [lit : Lits, rest : SUBSET Lits]
  BY <1>2, <1>3, ClausesAre DEF MkElimClause
<1>5. Stored(v) = [lit |-> l, clauses |-> {MkElimClause(l, r) : r \in kept}]
  BY DEF Stored
<1> HIDE DEF kept, l
<1> QED BY <1>3, <1>4, <1>5 DEF Entries

LEMMA EliminateVarLists ==
  ASSUME InLists, EliminateVar
  PROVE  InLists'
<1>0. ClausesOK /\ TypesOK /\ LoopOK /\ GoneOK /\ LoadOK /\ QueueOK
  BY DEF InLists
<1>1. /\ pc = "elim" /\ ok /\ caller = "none" /\ elim \in Vars \ eliminated
      /\ UNCHANGED <<option, input, nextClause, db, occurs, facts, pending, queue, heap,
                     touched, interrupt, cur, elim, caller, ok>>
  BY <1>0 DEF EliminateVar, file, store, LoopOK
<1>2. \/ /\ pc' = "pick"
         /\ UNCHANGED <<eliminated, elimclauses, todo>>
      \/ /\ eliminated' = eliminated \cup {elim}
         /\ elimclauses' = Append(elimclauses, Stored(elim))
         /\ todo' = Merging(elim)
         /\ pc' = "resolve"
  BY Zenon DEF EliminateVar, gone
<1>3. ClausesOK'
  BY <1>0, <1>1, SameClauses DEF ClausesOK
<1>4. CASE pc' = "pick" /\ UNCHANGED <<eliminated, elimclauses, todo>>
  <2>1. TypesOK'
    BY <1>0, <1>1, <1>4 DEF TypesOK
  <2>2. LoopOK' /\ GoneOK' /\ LoadOK'
    BY <1>0, <1>1, <1>4 DEF LoopOK, GoneOK, LoadOK
  <2>3. QueueOK'
    BY <1>0, <1>1, <1>4 DEF QueueOK, PairsOK, FactsOK
  <2> QED BY <1>3, <2>1, <2>2, <2>3 DEF InLists
<1>5. CASE /\ eliminated' = eliminated \cup {elim}
           /\ elimclauses' = Append(elimclauses, Stored(elim))
           /\ todo' = Merging(elim)
           /\ pc' = "resolve"
  <2>1. elimclauses' \in Seq(Entries) /\ Len(elimclauses') = Len(elimclauses) + 1
    BY <1>0, <1>1, <1>5, StoredIs DEF TypesOK
  <2>2. Cardinality(eliminated') = Cardinality(eliminated) + 1
    <3>1. IsFiniteSet(eliminated)
      BY <1>0, VarsAssumption, FS_Subset DEF TypesOK
    <3> QED BY <1>1, <1>5, <3>1, FS_AddElement
  <2>3. TypesOK'
    BY <1>0, <1>1, <1>5, <2>1, <2>2 DEF TypesOK
  <2>4. Merging(elim)' = Merging(elim)
    BY <1>1 DEF Merging, OccurrencesOf, Merge
  <2>5. LoopOK' /\ LoadOK'
    BY <1>0, <1>1, <1>5, <2>4 DEF LoopOK, LoadOK
  <2>6. GoneOK'
    BY <1>0, <1>1, <1>5 DEF GoneOK
  <2>7. QueueOK'
    BY <1>0, <1>1, <1>5 DEF QueueOK, PairsOK, FactsOK
  <2> QED BY <1>3, <2>3, <2>5, <2>6, <2>7 DEF InLists
<1> QED BY <1>2, <1>4, <1>5

\* No clause has a variable that is gone.
LEMMA NoneGone ==
  ASSUME ClausesOK, TypesOK, GoneOK, ok, NEW r \in DOMAIN db, NEW l \in db[r]
  PROVE  Var(l) \notin eliminated \/ (pc = "resolve" /\ Var(l) = elim)
<1> SUFFICES ASSUME Var(l) \in eliminated PROVE pc = "resolve" /\ Var(l) = elim
  OBVIOUS
<1>1. r \in occurs[Var(l)]
  BY DEF ClausesOK, TypesOK, Occurring, VarsOf
<1> QED BY <1>1 DEF GoneOK

LEMMA AddResolventLists ==
  ASSUME InLists, AddResolvent
  PROVE  InLists'
<1>0. ClausesOK /\ TypesOK /\ LoopOK /\ GoneOK /\ LoadOK /\ QueueOK
  BY DEF InLists
<1>1. /\ pc = "resolve" /\ ok /\ caller = "none" /\ elim \in eliminated /\ elim \in Vars
      /\ todo \subseteq Merging(elim)
      /\ pc' = IF ok' THEN "resolve" ELSE "done"
      /\ UNCHANGED <<option, input, nextClause, eliminated, elimclauses, interrupt,
                     cur, elim, caller>>
  BY <1>0 DEF AddResolvent, file, gone, LoopOK, TypesOK
<1>2. PICK p \in todo : AddClause_(Merge(p[1], p[2], elim)) /\ todo' = todo \ {p}
  BY DEF AddResolvent
<1> DEFINE ps == Merge(p[1], p[2], elim)
<1>3. p[1] \in OccurrencesOf(<<elim, TRUE>>) /\ p[2] \in OccurrencesOf(<<elim, FALSE>>)
  BY <1>1, <1>2 DEF Merging
<1>4. ps \in SUBSET Lits /\ \A l \in ps : Var(l) \notin eliminated
  <2>1. /\ p[1] \in DOMAIN db /\ p[2] \in DOMAIN db /\ ps \in SUBSET Lits
        /\ \A l \in ps : Var(l) # elim /\ (l \in db[p[1]] \/ l \in db[p[2]])
    BY <1>0, <1>1, <1>3, MergeIs
  <2> HIDE DEF ps
  <2> QED BY <1>0, <1>1, <2>1, NoneGone
<1> HIDE DEF ps
<1>5. /\ ok' \in BOOLEAN
      /\ \/ UNCHANGED <<db, occurs, queue, touched, heap>> /\ FactsGrow
         \/ \E n \in Refs : Grown(ps, n)
  <2>1. AddClause_(ps)
    BY <1>2 DEF ps
  <2> QED BY <1>0, <1>1, <1>4, <2>1, AddIs
<1>6. ASSUME ClausesOK', touched' \subseteq Vars, heap' \subseteq Vars,
             Merging(elim)' = Merging(elim),
             \A v \in eliminated : occurs'[v] = occurs[v]
      PROVE  ClausesOK' /\ TypesOK' /\ LoopOK' /\ GoneOK' /\ LoadOK'
  <2>1. TypesOK'
    BY <1>0, <1>1, <1>5, <1>6 DEF TypesOK
  <2>2. LoopOK'
    BY <1>0, <1>1, <1>2, <1>5, <1>6 DEF LoopOK
  <2>3. GoneOK' /\ LoadOK'
    BY <1>0, <1>1, <1>6 DEF GoneOK, LoadOK
  <2> QED BY <1>6, <2>1, <2>2, <2>3
<1>7. CASE UNCHANGED <<db, occurs, queue, touched, heap>> /\ FactsGrow
  <2>1. ClausesOK'
    BY <1>0, <1>7 DEF ClausesOK, FactsGrow, Occurring
  <2>2. touched' \subseteq Vars /\ heap' \subseteq Vars
    BY <1>0, <1>7 DEF TypesOK
  <2>3. Merging(elim)' = Merging(elim)
    BY <1>1, <1>7 DEF Merging, OccurrencesOf, Merge
  <2>4. QueueOK'
    <3>1. ASSUME PairsOK PROVE PairsOK'
      BY <1>1, <1>7, <3>1 DEF PairsOK
    <3>2. ASSUME FactsOK PROVE FactsOK'
      BY <1>1, <1>7, <3>2 DEF FactsOK, FactsGrow
    <3> QED BY <1>0, <1>1, <3>1, <3>2 DEF QueueOK
  <2> QED BY <1>6, <1>7, <2>1, <2>2, <2>3, <2>4 DEF InLists
<1>8. ASSUME NEW n \in Refs, Grown(ps, n) PROVE InLists'
  <2>1. ClausesOK' /\ touched' \subseteq Vars
    BY <1>0, <1>4, <1>8, GrownKeeps DEF TypesOK
  <2>2. heap' \subseteq Vars
    BY <1>0, <1>8 DEF TypesOK, Grown
  <2>3. \A v \in eliminated : v \in Vars /\ occurs'[v] = occurs[v]
    <3>1. \A v \in eliminated : v \notin VarsOf(NotFalse(ps))
      BY <1>4 DEF VarsOf, NotFalse
    <3> QED BY <1>0, <1>8, <3>1 DEF Grown, TypesOK
  <2>4. Merging(elim)' = Merging(elim)
    <3>1. DOMAIN db' = DOMAIN db \cup {n} /\ \A q \in DOMAIN db : db'[q] = db[q]
      BY <1>0, <1>4, <1>8, GrownIs
    <3>2. occurs[elim] \subseteq DOMAIN db
      BY <1>0, <1>1 DEF ClausesOK, Occurring
    <3>3. \A r \in occurs[elim] : db'[r] = db[r]
      BY <3>1, <3>2
    <3>4. occurs'[elim] = occurs[elim] /\ elim' = elim
      BY <1>1, <2>3
    <3>5. Var(<<elim, TRUE>>) = elim /\ Var(<<elim, FALSE>>) = elim
      BY DEF Var
    <3>6. /\ OccurrencesOf(<<elim, TRUE>>)' = OccurrencesOf(<<elim, TRUE>>)
          /\ OccurrencesOf(<<elim, FALSE>>)' = OccurrencesOf(<<elim, FALSE>>)
      BY <3>3, <3>4, <3>5 DEF OccurrencesOf
    <3>7. \A r, s \in occurs[elim] : Merge(r, s, elim)' = Merge(r, s, elim)
      BY <3>3, <3>4 DEF Merge
    <3>8. /\ OccurrencesOf(<<elim, TRUE>>) \subseteq occurs[elim]
          /\ OccurrencesOf(<<elim, FALSE>>) \subseteq occurs[elim]
      BY <3>5 DEF OccurrencesOf
    <3> QED BY <3>6, <3>7, <3>8, <3>4 DEF Merging
  <2>5. QueueOK'
    <3>1. ASSUME PairsOK, FactsOK PROVE PairsOK' /\ FactsOK'
      <4>1. pc # "scan"
        BY <1>1
      <4> QED BY <1>0, <1>1, <1>4, <1>8, <3>1, <4>1, GrownPairs
    <3> QED BY <1>0, <1>1, <3>1 DEF QueueOK
  <2> QED BY <1>6, <2>1, <2>2, <2>3, <2>4, <2>5 DEF InLists
<1> QED BY <1>5, <1>7, <1>8

LEMMA RemoveOccurrencesLists ==
  ASSUME InLists, RemoveOccurrences
  PROVE  InLists'
<1>0. ClausesOK /\ TypesOK /\ LoopOK /\ GoneOK /\ LoadOK /\ QueueOK
  BY DEF InLists
<1>1. /\ pc = "resolve" /\ ok /\ caller = "none" /\ elim \in eliminated /\ elim \in Vars
      /\ RemoveClauses(occurs[elim])
      /\ pc' = "check" /\ caller' = "elim"
      /\ UNCHANGED <<option, input, nextClause, facts, pending, touched, eliminated,
                     elimclauses, interrupt, cur, elim, todo, ok>>
  BY <1>0 DEF RemoveOccurrences, file, gone, LoopOK, TypesOK
<1>2. occurs[elim] = {q \in DOMAIN db : elim \in VarsOf(db[q])}
  BY <1>0, <1>1 DEF ClausesOK, Occurring
<1>3. Shrunk
  BY <1>0, <1>1, <1>2, RemoveShrinks
<1>4. ClausesOK'
  BY <1>0, <1>3, ShrunkKeeps
<1>5. TypesOK'
  BY <1>0, <1>1, <1>3 DEF TypesOK, Shrunk
<1>6. LoopOK' /\ LoadOK'
  BY <1>0, <1>1 DEF LoopOK, LoadOK
<1>7. GoneOK'
  <2>1. \A v \in eliminated : v \in Vars /\ (v # elim => occurs[v] = {})
    BY <1>0, <1>1 DEF GoneOK, TypesOK
  <2>2. \A v \in eliminated : occurs'[v] = occurs[v] \ occurs[elim]
    BY <1>1, <2>1 DEF RemoveClauses
  <2> QED BY <1>1, <2>1, <2>2 DEF GoneOK
<1>8. QueueOK'
  <2>1. SUFFICES ASSUME ~interrupt PROVE PairsOK' /\ FactsOK'
    BY <1>1 DEF QueueOK
  <2>2. PairsOK /\ FactsOK /\ pc # "scan"
    BY <1>0, <1>1, <2>1 DEF QueueOK
  <2>3. ASSUME NEW q \in DOMAIN db', NEW s \in DOMAIN db', q # s, Shrinks(db'[q], db'[s])
        PROVE  q \in queue' \/ VarsOf(db'[q]) \cap touched' # {}
    BY <1>0, <1>1, <1>3, <2>2, <2>3, ShrunkPairs
  <2>4. ASSUME NEW q \in DOMAIN db', NEW l \in facts', Var(l) \in VarsOf(db'[q])
        PROVE  l \in pending'
    BY <1>0, <1>3, <2>2, <2>4, ShrunkFacts
  <2> QED BY <2>3, <2>4 DEF PairsOK, FactsOK
<1> QED BY <1>4, <1>5, <1>6, <1>7, <1>8 DEF InLists

-----------------------------------------------------------------------------
LEMMA StepLists == InLists /\ [Next]_vars => InLists'
<1> SUFFICES ASSUME InLists, [Next]_vars PROVE InLists'
  OBVIOUS
<1>1. CASE Load
  BY <1>1, LoadLists
<1>2. CASE Eliminate
  BY <1>2, EliminateLists
<1>3. CASE GatherTouchedClauses
  BY <1>3, GatherLists
<1>4. CASE Cleanup
  BY <1>4, CleanupLists
<1>5. CASE NextInQueue
  BY <1>5, NextInQueueLists
<1>6. CASE Compare
  BY <1>6, CompareLists
<1>7. CASE NoCandidates
  BY <1>7, NoCandidatesLists
<1>8. CASE CheckDone
  BY <1>8, CheckDoneLists
<1>9. CASE Pick
  BY <1>9, PickLists
<1>10. CASE HeapEmpty
  BY <1>10, HeapEmptyLists
<1>11. CASE AsymmVar
  BY <1>11, AsymmVarLists
<1>12. CASE AsymmDone
  BY <1>12, AsymmDoneLists
<1>13. CASE EliminateVar
  BY <1>13, EliminateVarLists
<1>14. CASE AddResolvent
  BY <1>14, AddResolventLists
<1>15. CASE RemoveOccurrences
  BY <1>15, RemoveOccurrencesLists
<1>16. CASE Interrupt
  BY <1>16, InterruptLists
<1>17. CASE UNCHANGED vars
  BY <1>17, StutterLists
<1> QED
  BY <1>1, <1>2, <1>3, <1>4, <1>5, <1>6, <1>7, <1>8, <1>9, <1>10, <1>11, <1>12, <1>13,
     <1>14, <1>15, <1>16, <1>17 DEF Next, Step

\* The lists, the queue and what has still to be compared, at each point of the loops,
\* whatever the file, the options and the moment of an interrupt.
THEOREM ListsHold == Spec => []InLists
<1>1. Init => InLists
  BY InitLists
<1> QED BY <1>1, StepLists, PTL DEF Spec

\* The lists of occurrences that eliminateVar, gatherTouchedClauses and backward
\* subsumption go by name all the clauses of a variable, and no other.
THEOREM ListsComplete == Spec => []OccursComplete
<1>1. InLists => OccursComplete
  <2> SUFFICES ASSUME InLists PROVE OccursComplete
    OBVIOUS
  <2>1. ClausesOK /\ TypesOK /\ LoopOK
    BY DEF InLists
  <2>2. \A v \in Vars : occurs[v] = {r \in DOMAIN db : v \in VarsOf(db[r])}
    BY <2>1 DEF ClausesOK, Occurring
  <2>3. occurs \in [Vars -> SUBSET Refs]
    BY <2>1, <2>2 DEF ClausesOK
  <2>4. TypeOK
    BY <2>1, <2>3 DEF TypeOK, ClausesOK, TypesOK, LoopOK
  <2> QED BY <2>2, <2>4 DEF OccursComplete
<1> QED BY <1>1, ListsHold, PTL

\* No clause with an eliminated variable comes back.
THEOREM GoneForGood == Spec => []EliminatedGone
<1>1. InLists => EliminatedGone
  BY DEF InLists, GoneOK, EliminatedGone
<1> QED BY <1>1, ListsHold, PTL

\* When eliminate returns uninterrupted, no clause subsumes or strengthens another and
\* none has a literal whose value is known.
THEOREM NothingToSubsume == Spec => []Reduced
<1>1. InLists => Reduced
  <2> SUFFICES ASSUME InLists, pc = "done", ok, ~interrupt
               PROVE  /\ \A r, s \in DOMAIN db :
                           r # s => ~Subsumes(db[r], db[s]) /\ ~Strengthens(db[r], db[s])
                      /\ \A r \in DOMAIN db : \A v \in VarsOf(db[r]) : ~Assigned(v)
    BY DEF Reduced
  <2>1. /\ PairsOK /\ FactsOK /\ ClausesOK
        /\ queue = {} /\ touched = {} /\ pending = {}
    BY DEF InLists, QueueOK, LoopOK
  <2>2. ASSUME NEW r \in DOMAIN db, NEW s \in DOMAIN db, r # s
        PROVE  ~Subsumes(db[r], db[s]) /\ ~Strengthens(db[r], db[s])
    BY <2>1, <2>2 DEF PairsOK, Shrinks
  <2>3. ASSUME NEW r \in DOMAIN db, NEW v \in VarsOf(db[r]), Assigned(v) PROVE FALSE
    <3>1. PICK l \in facts : Var(l) = v
      BY <2>3 DEF Assigned, Var
    <3> QED BY <2>1, <2>3, <3>1 DEF FactsOK
  <2> QED BY <2>2, <2>3
<1> QED BY <1>1, ListsHold, PTL

-----------------------------------------------------------------------------
\* What clauses and facts mean.  addClause_ only adds; the clause given to it follows from
\* what is there then, and what is there then from it.
AddKeeps ==
  /\ facts \subseteq facts' /\ DOMAIN db \subseteq DOMAIN db'
  /\ \A q \in DOMAIN db : db'[q] = db[q]
AddSays(ps) ==
  /\ ok' => \/ \E l \in ps : Neg(l) \in ps \/ l \in facts'
            \/ \E C \in Clauses' : C \subseteq ps
  /\ \A A \in Assignments :
       Fits(A, db, facts) /\ Satisfies(A, ps) => ok' /\ Fits(A, db', facts')
  /\ \A m \in facts' \ facts :
       m \in ps \/ \E C \in Clauses : m \in C /\ \A k \in C \ {m} : Neg(k) \in facts'

LEMMA FitsModels ==
  ASSUME NEW A
  PROVE  Fits(A, db, facts) <=> Models(A, Clauses) /\ \A l \in facts : Holds(A, l)
  BY DEF Fits, Models, Clauses

LEMMA AddFits ==
  ASSUME ClausesOK, ok, ~option.rcheck, NEW ps \in SUBSET Lits, AddClause_(ps)
  PROVE  AddKeeps /\ AddSays(ps)
<1>0. facts \subseteq Lits /\ Clauses \in SUBSET SUBSET Lits
  BY ClausesAre DEF ClausesOK
<1>1. ASSUME NEW A \in Assignments, Fits(A, db, facts), Satisfies(A, ps)
      PROVE  Satisfies(A, NotFalse(ps))
  <2>1. PICK l \in ps : Holds(A, l)
    BY <1>1 DEF Satisfies
  <2>2. ~IsFalse(l)
    <3>1. Neg(l) \in facts => Holds(A, Neg(l))
      BY <1>1 DEF Fits
    <3> QED BY <2>1, <3>1, Opposite DEF IsFalse
  <2> QED BY <2>1, <2>2 DEF NotFalse, Satisfies
<1>2. CASE /\ UNCHANGED <<store, touched, ok>>
           /\ \E l \in ps : IsTrue(l) \/ Neg(l) \in ps
  BY <1>2 DEF AddKeeps, AddSays, store, IsTrue
<1>3. CASE NotFalse(ps) = {} /\ UNCHANGED <<store, touched>> /\ ok' = FALSE
  <2>1. \A A \in Assignments : ~(Fits(A, db, facts) /\ Satisfies(A, ps))
    BY <1>1, <1>3 DEF Satisfies
  <2> QED BY <1>3, <2>1 DEF AddKeeps, AddSays, store
<1>4. ASSUME NEW l \in NotFalse(ps), NotFalse(ps) = {l}, Enqueue(l, Clauses), db' = db
      PROVE  AddKeeps /\ AddSays(ps)
  <2>0. l \in ps /\ l \in Lits
    BY DEF NotFalse
  <2>1. /\ facts \subseteq facts'
        /\ ok' => l \in facts'
        /\ \A m \in facts' \ facts :
             m = l \/ \E C \in Clauses : m \in C /\ \A k \in C \ {m} : Neg(k) \in facts'
        /\ \A A \in Assignments :
             Models(A, Clauses) /\ (\A m \in facts : Holds(A, m)) /\ Holds(A, l) =>
               ok' /\ \A m \in facts' : Holds(A, m)
    <3>1. facts \subseteq Lits /\ ~Conflicting(facts) /\ pending \subseteq facts
      BY DEF ClausesOK
    <3> QED BY <1>0, <1>4, <2>0, <3>1, EnqueueFacts
  <2>2. ASSUME NEW A \in Assignments, Fits(A, db, facts), Satisfies(A, ps)
        PROVE  ok' /\ Fits(A, db', facts')
    <3>1. Holds(A, l)
      BY <1>1, <1>4, <2>2 DEF Satisfies
    <3>2. Models(A, Clauses) /\ \A m \in facts : Holds(A, m)
      BY <2>2, FitsModels
    <3>3. ok' /\ \A m \in facts' : Holds(A, m)
      BY <2>1, <3>1, <3>2
    <3> QED BY <1>4, <2>2, <3>3 DEF Fits
  <2> QED BY <1>4, <2>0, <2>1, <2>2 DEF AddKeeps, AddSays
<1>5. ASSUME NEW n \in Refs, Grown(ps, n)
      PROVE  AddKeeps /\ AddSays(ps)
  <2>1. /\ DOMAIN db' = DOMAIN db \cup {n} /\ db'[n] = NotFalse(ps)
        /\ \A q \in DOMAIN db : db'[q] = db[q]
        /\ Clauses' = Clauses \cup {NotFalse(ps)}
    BY <1>5, GrownIs
  <2>2. facts' = facts /\ ok' = ok /\ NotFalse(ps) \subseteq ps
    BY <1>5 DEF Grown, NotFalse
  <2>3. ASSUME NEW A \in Assignments, Fits(A, db, facts), Satisfies(A, ps)
        PROVE  Fits(A, db', facts')
    BY <1>1, <2>1, <2>2, <2>3 DEF Fits
  <2> QED BY <2>1, <2>2, <2>3 DEF AddKeeps, AddSays
<1>6. \/ UNCHANGED <<store, touched, ok>> /\ \E l \in ps : IsTrue(l) \/ Neg(l) \in ps
      \/ NotFalse(ps) = {} /\ UNCHANGED <<store, touched>> /\ ok' = FALSE
      \/ /\ Cardinality(NotFalse(ps)) = 1 /\ db' = db
         /\ \E l \in NotFalse(ps) : Enqueue(l, Clauses)
      \/ Cardinality(NotFalse(ps)) > 1
  BY DEF AddClause_, NotFalse
<1>7. CASE /\ Cardinality(NotFalse(ps)) = 1 /\ db' = db
           /\ \E l \in NotFalse(ps) : Enqueue(l, Clauses)
  <2>1. NotFalse(ps) \subseteq Lits
    BY DEF NotFalse
  <2>2. PICK l \in NotFalse(ps) : NotFalse(ps) = {l}
    BY <1>7, <2>1, Sizes
  <2> QED BY <1>4, <1>7, <2>2
<1>8. CASE Cardinality(NotFalse(ps)) > 1
  <2>1. \/ \E n \in Refs : Grown(ps, n)
        \/ UNCHANGED <<db, occurs, queue, touched, heap>> /\ FactsGrow
    BY AddIs
  <2>2. CASE ~\E n \in Refs : Grown(ps, n)
    <3>1. Cardinality(NotFalse(ps)) # 1 /\ NotFalse(ps) # {}
      <4>1. NotFalse(ps) \subseteq Lits
        BY DEF NotFalse
      <4> QED BY <1>8, <4>1, Sizes
    <3>2. CASE UNCHANGED <<store, touched, ok>> /\ \E l \in ps : IsTrue(l) \/ Neg(l) \in ps
      BY <1>2, <3>2
    <3>3. CASE DOMAIN db # Refs /\ db' = Extend(db, NewRef, NotFalse(ps))
      <4>1. DOMAIN db \subseteq Refs /\ Refs \subseteq Nat
        BY BoundAssumption DEF ClausesOK, Refs
      <4>2. Refs \ DOMAIN db # {} /\ Refs \ DOMAIN db \subseteq Nat
        BY <3>3, <4>1
      <4>3. \E r \in Refs \ DOMAIN db : \A q \in Refs \ DOMAIN db : r <= q
        BY <4>2, LeastNumber
      <4>4. NewRef \notin DOMAIN db
        BY <4>3 DEF NewRef
      <4>5. NewRef \in DOMAIN db'
        BY <3>3 DEF Extend
      <4> QED BY <2>1, <2>2, <4>4, <4>5
    <3>4. \/ UNCHANGED <<store, touched, ok>> /\ \E l \in ps : IsTrue(l) \/ Neg(l) \in ps
          \/ DOMAIN db # Refs /\ db' = Extend(db, NewRef, NotFalse(ps))
      BY <3>1 DEF AddClause_, NotFalse
    <3> QED BY <3>2, <3>3, <3>4
  <2> QED BY <1>5, <2>2
<1> QED BY <1>2, <1>3, <1>6, <1>7, <1>8

\* strengthenClause: the shorter clause is there in place of the longer.
LEMMA StrengthenFits ==
  ASSUME ClausesOK, ok, NEW r \in DOMAIN db, NEW l \in db[r], StrengthenClause(r, l),
         NEW A \in Assignments
  PROVE  /\ Fits(A, db, facts) /\ Satisfies(A, db[r] \ {l}) => ok' /\ Fits(A, db', facts')
         /\ ok' /\ Fits(A, db', facts') => Fits(A, db, facts)
<1> DEFINE C == db[r] \ {l}
<1>0. /\ db[r] \subseteq Lits /\ C \subseteq Lits
      /\ facts \subseteq Lits /\ ~Conflicting(facts) /\ pending \subseteq facts
  BY DEF ClausesOK
<1>1. /\ DOMAIN db \ {r} \subseteq DOMAIN db' /\ DOMAIN db' \subseteq DOMAIN db
      /\ \A q \in DOMAIN db \ {r} : db'[q] = db[q]
      /\ r \in DOMAIN db' => db'[r] = C
  BY StrengthenOthers
<1>2. CASE Cardinality(C) = 1
  <2>1. PICK u \in C : Enqueue(u, {db[q] : q \in DOMAIN db \ {r}})
    BY <1>2 DEF StrengthenClause
  <2>2. RemoveClauses({r})
    BY <1>2 DEF StrengthenClause
  <2>3. C = {u} /\ u \in Lits /\ r \notin DOMAIN db'
    <3>1. PICK x \in C : C = {x}
      BY <1>0, <1>2, Sizes
    <3>2. DOMAIN db' = DOMAIN db \ {r}
      BY <2>2, RemovedAre
    <3> QED BY <1>0, <3>1, <3>2
  <2> DEFINE D == {db[q] : q \in DOMAIN db \ {r}}
  <2>4. D \in SUBSET SUBSET Lits
    BY ClausesAre
  <2>5. /\ facts \subseteq facts'
        /\ ok' => u \in facts'
        /\ Models(A, D) /\ (\A m \in facts : Holds(A, m)) /\ Holds(A, u) =>
             ok' /\ \A m \in facts' : Holds(A, m)
    <3>1. Enqueue(u, D)
      BY <2>1
    <3> HIDE DEF D
    <3> QED BY <1>0, <2>3, <2>4, <3>1, EnqueueFacts
  <2>6. ASSUME Fits(A, db, facts), Satisfies(A, C) PROVE ok' /\ Fits(A, db', facts')
    <3>1. Models(A, D) /\ (\A m \in facts : Holds(A, m)) /\ Holds(A, u)
      BY <2>3, <2>6 DEF Fits, Models, Satisfies
    <3>2. ok' /\ \A m \in facts' : Holds(A, m)
      BY <2>5, <3>1
    <3>3. \A q \in DOMAIN db' : q \in DOMAIN db /\ db'[q] = db[q]
      BY <1>1, <2>3
    <3> QED BY <2>6, <3>2, <3>3 DEF Fits
  <2>7. ASSUME ok', Fits(A, db', facts') PROVE Fits(A, db, facts)
    <3>1. Holds(A, u) /\ u \in db[r]
      BY <2>3, <2>5, <2>7 DEF Fits
    <3>2. \A q \in DOMAIN db : Satisfies(A, db[q])
      BY <1>1, <2>7, <3>1 DEF Fits, Satisfies
    <3> QED BY <2>5, <2>7, <3>2 DEF Fits
  <2> QED BY <2>6, <2>7
<1>3. CASE Cardinality(C) # 1
  <2>1. UNCHANGED <<facts, ok>> /\ db' = [db EXCEPT ![r] = C]
    BY <1>3 DEF StrengthenClause
  <2>2. DOMAIN db' = DOMAIN db /\ db'[r] = C
    BY <2>1
  <2>3. ASSUME Fits(A, db, facts), Satisfies(A, C) PROVE Fits(A, db', facts')
    BY <1>1, <2>1, <2>2, <2>3 DEF Fits
  <2>4. ASSUME Fits(A, db', facts') PROVE Fits(A, db, facts)
    <3>1. Satisfies(A, db[r])
      BY <2>2, <2>4 DEF Fits, Satisfies
    <3> QED BY <1>1, <2>1, <2>2, <2>4, <3>1 DEF Fits
  <2> QED BY <2>1, <2>3, <2>4
<1> QED BY <1>2, <1>3

\* Steps after which the same assignments satisfy the clauses and facts.
SameFits == \A A \in Assignments : Fits(A, db, facts) <=> ok' /\ Fits(A, db', facts')

\* Of a clause the others subsume nothing is lost, and none of the assignments that satisfy
\* both clauses makes the literal true that subsumption resolution drops.
LEMMA CompareFits ==
  ASSUME InLists, Compare
  PROVE  SameFits
<1>0. ClausesOK /\ TypesOK /\ LoopOK
  BY DEF InLists
<1>1. pc = "scan" /\ ok /\ CurOK
  BY <1>0 DEF Compare, LoopOK
<1>2. PICK r \in todo :
        \/ /\ Subsumes(cur.lits, db[r])
           /\ RemoveClauses({r})
           /\ UNCHANGED <<facts, pending, ok>>
        \/ /\ Strengthens(cur.lits, db[r])
           /\ \E l \in Flipped(cur.lits, db[r]) : StrengthenClause(r, Neg(l))
        \/ /\ ~Subsumes(cur.lits, db[r]) /\ ~Strengthens(cur.lits, db[r])
           /\ UNCHANGED <<store, ok>>
  BY DEF Compare
<1>3. /\ r \in DOMAIN db /\ r # cur.ref
      /\ cur.lits \subseteq Lits /\ db[r] \subseteq Lits
      /\ \A m \in db[r] : Neg(m) \notin db[r]
  <2>1. r \in DOMAIN db /\ r # cur.ref
    BY <1>0, <1>1, BoundAssumption DEF CurOK, ClausesOK, Refs
  <2> QED BY <1>0, <2>1 DEF ClausesOK, TypesOK
<1>4. \A A \in Assignments : \A d, f :
        /\ Fits(A, d, f) /\ facts \subseteq f
        /\ cur.ref \in DOMAIN db => cur.ref \in DOMAIN d /\ d[cur.ref] = db[cur.ref]
        => Satisfies(A, cur.lits)
  BY <1>1 DEF CurOK, Fits, Satisfies
<1>5. CASE Subsumes(cur.lits, db[r]) /\ RemoveClauses({r}) /\ UNCHANGED <<facts, pending, ok>>
  <2>1. DOMAIN db' = DOMAIN db \ {r} /\ \A q \in DOMAIN db' : db'[q] = db[q]
    BY <1>0, <1>5, RemovedAre
  <2>2. ASSUME NEW A \in Assignments, Fits(A, db', facts') PROVE Fits(A, db, facts)
    <3>1. Satisfies(A, cur.lits)
      BY <1>3, <1>4, <1>5, <2>1, <2>2
    <3>2. Satisfies(A, db[r])
      BY <1>5, <3>1 DEF Subsumes, Satisfies
    <3> QED BY <1>5, <2>1, <2>2, <3>2 DEF Fits
  <2>3. ASSUME NEW A \in Assignments, Fits(A, db, facts) PROVE Fits(A, db', facts')
    BY <1>5, <2>1, <2>3 DEF Fits
  <2> QED BY <1>1, <1>5, <2>2, <2>3 DEF SameFits
<1>6. ASSUME Strengthens(cur.lits, db[r]),
             NEW l \in Flipped(cur.lits, db[r]), StrengthenClause(r, Neg(l))
      PROVE  SameFits
  <2>1. l \in cur.lits /\ l \notin db[r] /\ Neg(l) \in db[r] /\ l \in Lits
    BY <1>3 DEF Flipped
  <2>2. cur.lits \ {l} \subseteq db[r] /\ Neg(l) \notin cur.lits \ {l}
    <3>1. Flipped(cur.lits, db[r]) \subseteq Lits
      BY <1>3 DEF Flipped
    <3>2. PICK x \in Flipped(cur.lits, db[r]) : Flipped(cur.lits, db[r]) = {x}
      BY <1>6, <3>1, Sizes DEF Strengthens
    <3>3. Flipped(cur.lits, db[r]) = {l}
      BY <3>2
    <3>4. Neg(l) \notin cur.lits \ {l}
      BY <1>0, <1>1, <2>1 DEF CurOK, ClausesOK
    <3> QED BY <1>6, <3>3, <3>4 DEF Strengthens
  <2>3. ASSUME NEW A \in Assignments, Fits(A, db, facts)
        PROVE  Satisfies(A, db[r] \ {Neg(l)})
    <3>1. Satisfies(A, cur.lits)
      BY <1>4, <2>3
    <3>2. PICK k \in cur.lits : Holds(A, k)
      BY <3>1 DEF Satisfies
    <3>3. CASE k = l
      <4>1. ~Holds(A, Neg(l))
        BY <2>1, <3>2, <3>3, Opposite
      <4>2. Satisfies(A, db[r])
        BY <1>3, <2>3 DEF Fits
      <4> QED BY <4>1, <4>2 DEF Satisfies
    <3>4. CASE k # l
      BY <2>2, <3>2, <3>4 DEF Satisfies
    <3> QED BY <3>3, <3>4
  <2> QED BY <1>0, <1>1, <1>3, <1>6, <2>1, <2>3, StrengthenFits DEF SameFits
<1>7. CASE UNCHANGED <<store, ok>>
  BY <1>1, <1>7 DEF SameFits, store
<1> QED BY <1>2, <1>5, <1>6, <1>7

\* A literal is dropped because the others, were they all false, would make propagation
\* run into a conflict.
LEMMA AsymmFits ==
  ASSUME InLists, AsymmVar
  PROVE  SameFits
<1>0. ClausesOK /\ ok
  BY DEF InLists, LoopOK, AsymmVar
<1>1. \/ UNCHANGED <<store, ok>>
      \/ \E r \in DOMAIN db :
           Propagates(r) /\ \E l \in db[r] \ Others(r) : StrengthenClause(r, l)
  BY AsymmIs
<1>2. CASE UNCHANGED <<store, ok>>
  BY <1>0, <1>2 DEF SameFits, store
<1>3. ASSUME NEW r \in DOMAIN db, Propagates(r), NEW l \in db[r] \ Others(r),
             StrengthenClause(r, l)
      PROVE  SameFits
  <2> DEFINE S == facts \cup {Neg(m) : m \in Others(r)}
  <2>1. db[r] \subseteq Lits /\ Others(r) \subseteq db[r] \ {l}
    BY <1>0, ClausesAre DEF Others
  <2>2. S \in SUBSET Lits /\ Clauses \in SUBSET SUBSET Lits
    BY <1>0, <2>1, NegLit, ClausesAre DEF ClausesOK
  <2>3. ASSUME NEW A \in Assignments, Fits(A, db, facts), ~Satisfies(A, db[r] \ {l})
        PROVE  FALSE
    <3>1. \A m \in S : Holds(A, m)
      <4>1. ASSUME NEW m \in Others(r) PROVE Holds(A, Neg(m))
        BY <2>1, <2>3, <4>1, Opposite DEF Satisfies
      <4> QED BY <2>3, <4>1 DEF Fits
    <3>2. Models(A, Clauses)
      BY <2>3, FitsModels
    <3> HIDE DEF S
    <3>3. /\ \A m \in Propagated(S, Clauses) : Holds(A, m)
          /\ Propagated(S, Clauses) \subseteq Lits
      BY <2>2, <3>1, <3>2, PropagatedFacts
    <3>4. Conflicting(Propagated(S, Clauses))
      BY <1>3 DEF Propagates, S
    <3> QED BY <3>3, <3>4, Opposite DEF Conflicting
  <2>4. l \in db[r]
    OBVIOUS
  <2> QED BY <1>0, <1>3, <2>3, <2>4, StrengthenFits DEF SameFits
<1> QED BY <1>1, <1>2, <1>3

\* An assignment that satisfies clauses without the variables of G, and the facts that are
\* not about them, becomes one that satisfies all the facts by a change of G only.
LEMMA Lift ==
  ASSUME NEW d, NEW f, NEW G, f \subseteq Lits, ~Conflicting(f),
         \A r \in DOMAIN d : \A l \in d[r] : l \in Lits /\ Var(l) \notin G,
         NEW A \in Assignments, \A r \in DOMAIN d : Satisfies(A, d[r]),
         \A l \in f : Var(l) \notin G => Holds(A, l)
  PROVE  \E B \in Assignments :
           /\ Fits(B, d, f)
           /\ \A l \in Lits : Var(l) \notin G => (Holds(B, l) <=> Holds(A, l))
<1> DEFINE B == [v \in Vars |-> IF v \in G /\ <<v, TRUE>> \in f THEN TRUE
                                ELSE IF v \in G /\ <<v, FALSE>> \in f THEN FALSE ELSE A[v]]
<1>1. B \in Assignments
  <2>1. \A v \in Vars : A[v] \in BOOLEAN
    BY DEF Assignments
  <2> QED BY <2>1 DEF Assignments
<1>2. \A v \in Vars, b \in BOOLEAN : v \notin G => (Holds(B, <<v, b>>) <=> Holds(A, <<v, b>>))
  BY DEF Holds
<1>3. \A l \in Lits : Var(l) \notin G => (Holds(B, l) <=> Holds(A, l))
  BY <1>2 DEF Lits, Var, Holds
<1>4. ASSUME NEW l \in f PROVE Holds(B, l)
  <2>1. CASE Var(l) \notin G
    BY <1>3, <2>1
  <2>2. CASE Var(l) \in G
    <3>1. PICK v \in Vars, b \in BOOLEAN : l = <<v, b>>
      BY DEF Lits
    <3>2. v \in G
      BY <2>2, <3>1 DEF Var
    <3>3. CASE b = TRUE
      <4>1. B[v] = TRUE
        BY <3>1, <3>2, <3>3, <1>4
      <4> QED BY <3>1, <3>3, <4>1 DEF Holds
    <3>4. CASE b = FALSE
      <4>1. <<v, FALSE>> \in f /\ <<v, TRUE>> \notin f
        <5>1. <<v, FALSE>> \in f
          BY <3>1, <3>4, <1>4
        <5>2. Neg(<<v, FALSE>>) = <<v, TRUE>>
          BY DEF Neg
        <5> QED BY <5>1, <5>2 DEF Conflicting
      <4>2. B[v] = FALSE
        BY <3>2, <4>1
      <4> QED BY <3>1, <3>4, <4>2 DEF Holds
    <3> QED BY <3>3, <3>4
  <2> QED BY <2>1, <2>2
<1> HIDE DEF B
<1>5. Fits(B, d, f)
  BY <1>3, <1>4 DEF Fits, Satisfies
<1> QED BY <1>1, <1>3, <1>5

-----------------------------------------------------------------------------
\* What is left of the file.  No clause has a variable that is gone.
LEMMA NoGone ==
  InLists /\ ok =>
    /\ facts \subseteq Lits /\ ~Conflicting(facts)
    /\ \A r \in DOMAIN db : \A l \in db[r] : l \in Lits /\ Var(l) \notin ReallyGone
    /\ \A C \in Unread : C \subseteq Lits
    /\ Unread = {} \/ ReallyGone = {}
    /\ pc # "load" => Unread = {}
    /\ ReallyGone = IF pc = "resolve" THEN eliminated \ {elim} ELSE eliminated
<1> SUFFICES ASSUME InLists, ok
    PROVE  /\ facts \subseteq Lits /\ ~Conflicting(facts)
           /\ \A r \in DOMAIN db : \A l \in db[r] : l \in Lits /\ Var(l) \notin ReallyGone
           /\ \A C \in Unread : C \subseteq Lits
           /\ Unread = {} \/ ReallyGone = {}
           /\ pc # "load" => Unread = {}
           /\ ReallyGone = IF pc = "resolve" THEN eliminated \ {elim} ELSE eliminated
  OBVIOUS
<1>0. ClausesOK /\ TypesOK /\ LoopOK /\ GoneOK
  BY DEF InLists
<1>1. ReallyGone = IF pc = "resolve" THEN eliminated \ {elim} ELSE eliminated
  BY DEF ReallyGone
<1>2. ASSUME NEW r \in DOMAIN db, NEW l \in db[r] PROVE l \in Lits /\ Var(l) \notin ReallyGone
  <2>1. l \in Lits
    BY <1>0, <1>2, ClausesAre
  <2>2. Var(l) \notin eliminated \/ (pc = "resolve" /\ Var(l) = elim)
    BY <1>0, <1>2, NoneGone
  <2> QED BY <1>1, <2>1, <2>2
<1>3. Len(input) \in Nat /\ nextClause \in Nat /\ \A i \in 1 .. Len(input) : input[i] \in SUBSET Lits
  BY <1>0, InputIs
<1>4. \A C \in Unread : C \subseteq Lits
  <2> SUFFICES ASSUME NEW i \in nextClause .. Len(input) PROVE input[i] \subseteq Lits
    BY DEF Unread
  <2>1. i \in 1 .. Len(input)
    BY <1>0, <1>3 DEF TypesOK
  <2> QED BY <1>3, <2>1
<1>5. (Unread = {} \/ ReallyGone = {}) /\ (pc # "load" => Unread = {})
  <2>1. CASE pc = "load"
    BY <1>0, <1>1, <2>1 DEF LoopOK
  <2>2. CASE pc # "load"
    <3>1. nextClause = Len(input) + 1
      BY <1>0, <2>2 DEF LoopOK
    <3>2. nextClause .. Len(input) = {}
      BY <1>3, <3>1
    <3> QED BY <3>2 DEF Unread
  <2> QED BY <2>1, <2>2
<1> QED BY <1>0, <1>1, <1>2, <1>4, <1>5 DEF ClausesOK

LEMMA NoGoneNext ==
  InLists' /\ ok' =>
    /\ facts' \subseteq Lits /\ ~Conflicting(facts')
    /\ \A r \in DOMAIN db' : \A l \in db'[r] : l \in Lits /\ Var(l) \notin ReallyGone'
    /\ \A C \in Unread' : C \subseteq Lits
    /\ Unread' = {} \/ ReallyGone' = {}
    /\ ReallyGone' = IF pc' = "resolve" THEN eliminated' \ {elim'} ELSE eliminated'
<1>1. (InLists /\ ok =>
         /\ facts \subseteq Lits /\ ~Conflicting(facts)
         /\ \A r \in DOMAIN db : \A l \in db[r] : l \in Lits /\ Var(l) \notin ReallyGone
         /\ \A C \in Unread : C \subseteq Lits
         /\ Unread = {} \/ ReallyGone = {}
         /\ ReallyGone = IF pc = "resolve" THEN eliminated \ {elim} ELSE eliminated)'
  BY NoGone, PTL
<1> QED BY <1>1 DEF Conflicting

\* Its models, clause by clause.
MeansLeft(A, d, f, G, U) ==
  /\ \A r \in DOMAIN d : Satisfies(A, d[r])
  /\ \A l \in f : Var(l) \notin G => Holds(A, l)
  /\ Models(A, U)

LEMMA LeftIs ==
  ASSUME NEW A
  PROVE  /\ Models(A, Left) <=> MeansLeft(A, db, facts, ReallyGone, Unread)
         /\ Models(A, Left') <=> MeansLeft(A, db', facts', ReallyGone', Unread')
<1>1. \A l : Satisfies(A, {l}) <=> Holds(A, l)
  BY DEF Satisfies
<1>2. Models(A, Clauses) <=> \A r \in DOMAIN db : Satisfies(A, db[r])
  BY DEF Models, Clauses
<1>3. Models(A, Clauses') <=> \A r \in DOMAIN db' : Satisfies(A, db'[r])
  BY DEF Models, Clauses
<1>4. Models(A, FactsBut(ReallyGone)) <=> \A l \in facts : Var(l) \notin ReallyGone => Holds(A, l)
  BY <1>1 DEF Models, FactsBut
<1>5. Models(A, FactsBut(ReallyGone)')
        <=> \A l \in facts' : Var(l) \notin ReallyGone' => Holds(A, l)
  BY <1>1 DEF Models, FactsBut
<1>6. \A S, T, U : Models(A, S \cup T \cup U) <=> Models(A, S) /\ Models(A, U) /\ Models(A, T)
  BY DEF Models
<1> QED BY <1>2, <1>3, <1>4, <1>5, <1>6 DEF Left, MeansLeft

\* ... are what the assignments that satisfy all the facts are, but for what is gone.
LEMMA LiftLeft ==
  ASSUME NEW d, NEW f, NEW G, NEW U, f \subseteq Lits, ~Conflicting(f),
         \A r \in DOMAIN d : \A l \in d[r] : l \in Lits /\ Var(l) \notin G,
         \A C \in U : C \subseteq Lits, U = {} \/ G = {},
         NEW A \in Assignments, MeansLeft(A, d, f, G, U)
  PROVE  \E B \in Assignments :
           /\ Fits(B, d, f) /\ Models(B, U)
           /\ \A l \in Lits : Var(l) \notin G => (Holds(B, l) <=> Holds(A, l))
<1>1. PICK B \in Assignments :
        /\ Fits(B, d, f)
        /\ \A l \in Lits : Var(l) \notin G => (Holds(B, l) <=> Holds(A, l))
  BY Lift DEF MeansLeft
<1>2. Models(B, U)
  BY <1>1 DEF MeansLeft, Models, Satisfies
<1> QED BY <1>1, <1>2

LEMMA FitsLeft ==
  ASSUME NEW d, NEW f, NEW G, NEW U, f \subseteq Lits,
         \A r \in DOMAIN d : \A l \in d[r] : l \in Lits /\ Var(l) \notin G,
         \A C \in U : C \subseteq Lits, U = {} \/ G = {},
         NEW A \in Assignments, NEW B \in Assignments, Fits(B, d, f), Models(B, U),
         \A l \in Lits : Var(l) \notin G => (Holds(B, l) <=> Holds(A, l))
  PROVE  MeansLeft(A, d, f, G, U)
<1>1. \A r \in DOMAIN d : Satisfies(A, d[r])
  BY DEF Fits, Satisfies
<1>2. \A l \in f : Var(l) \notin G => Holds(A, l)
  BY DEF Fits
<1>3. Models(A, U)
  BY DEF Models, Satisfies
<1> QED BY <1>1, <1>2, <1>3 DEF MeansLeft

\* If all assignments still satisfy the clauses and facts that did, the models of what is
\* left are the same; if it was all over, there were none.
LEMMA SameLeft ==
  ASSUME InLists, InLists', ok,
         \A A \in Assignments :
           Fits(A, db, facts) /\ Models(A, Unread)
             <=> ok' /\ Fits(A, db', facts') /\ Models(A, Unread'),
         ok' => ReallyGone' = ReallyGone
  PROVE  /\ ok' => \A A \in Assignments : Models(A, Left) <=> Models(A, Left')
         /\ ~ok' => ~Satisfiable(Left)
<1>1. /\ facts \subseteq Lits /\ ~Conflicting(facts)
      /\ \A r \in DOMAIN db : \A l \in db[r] : l \in Lits /\ Var(l) \notin ReallyGone
      /\ \A C \in Unread : C \subseteq Lits
      /\ Unread = {} \/ ReallyGone = {}
  BY NoGone
<1>2. ASSUME NEW A \in Assignments, Models(A, Left)
      PROVE  ok' /\ \E B \in Assignments :
               /\ Fits(B, db', facts') /\ Models(B, Unread')
               /\ \A l \in Lits : Var(l) \notin ReallyGone => (Holds(B, l) <=> Holds(A, l))
  <2>1. MeansLeft(A, db, facts, ReallyGone, Unread)
    BY <1>2, LeftIs
  <2>2. PICK B \in Assignments :
          /\ Fits(B, db, facts) /\ Models(B, Unread)
          /\ \A l \in Lits : Var(l) \notin ReallyGone => (Holds(B, l) <=> Holds(A, l))
    BY <1>1, <2>1, LiftLeft
  <2> QED BY <2>2
<1>3. CASE ~ok'
  BY <1>2, <1>3 DEF Satisfiable
<1>4. CASE ok'
  <2>0. ReallyGone' = ReallyGone
    BY <1>4
  <2>1. /\ facts' \subseteq Lits /\ ~Conflicting(facts')
        /\ \A r \in DOMAIN db' : \A l \in db'[r] : l \in Lits /\ Var(l) \notin ReallyGone
        /\ \A C \in Unread' : C \subseteq Lits
        /\ Unread' = {} \/ ReallyGone = {}
    BY <1>4, <2>0, NoGoneNext
  <2>2. ASSUME NEW A \in Assignments, Models(A, Left) PROVE Models(A, Left')
    <3>1. PICK B \in Assignments :
            /\ Fits(B, db', facts') /\ Models(B, Unread')
            /\ \A l \in Lits : Var(l) \notin ReallyGone => (Holds(B, l) <=> Holds(A, l))
      BY <1>2, <2>2
    <3>2. MeansLeft(A, db', facts', ReallyGone, Unread')
      BY <2>1, <3>1, FitsLeft
    <3> QED BY <2>0, <3>2, LeftIs
  <2>3. ASSUME NEW A \in Assignments, Models(A, Left') PROVE Models(A, Left)
    <3>1. MeansLeft(A, db', facts', ReallyGone, Unread')
      BY <2>0, <2>3, LeftIs
    <3>2. PICK B \in Assignments :
            /\ Fits(B, db', facts') /\ Models(B, Unread')
            /\ \A l \in Lits : Var(l) \notin ReallyGone => (Holds(B, l) <=> Holds(A, l))
      BY <2>1, <3>1, LiftLeft
    <3>3. Fits(B, db, facts) /\ Models(B, Unread)
      BY <1>4, <3>2
    <3>4. MeansLeft(A, db, facts, ReallyGone, Unread)
      BY <1>1, <3>2, <3>3, FitsLeft
    <3> QED BY <3>4, LeftIs
  <2> QED BY <1>4, <2>2, <2>3
<1> QED BY <1>3, <1>4

-----------------------------------------------------------------------------
\* extendModel, entry by entry.
LEMMA SetByOneIs ==
  ASSUME NEW e \in Entries, NEW A \in Assignments
  PROVE  /\ SetByOne(e, A) \in Assignments
         /\ Forced(e, A) => Holds(SetByOne(e, A), e.lit)
         /\ ~Forced(e, A) => Holds(SetByOne(e, A), Neg(e.lit))
         /\ \A l \in Lits : Var(l) # Var(e.lit) => (Holds(SetByOne(e, A), l) <=> Holds(A, l))
<1>1. PICK v \in Vars, b \in BOOLEAN : e.lit = <<v, b>>
  BY DEF Entries, Lits
<1>2. SetByOne(e, A) = [A EXCEPT ![v] = IF Forced(e, A) THEN b ELSE ~b]
  BY <1>1 DEF SetByOne, Var
<1>3. SetByOne(e, A) \in Assignments
  <2>1. CASE Forced(e, A)
    BY <1>2, <2>1 DEF Assignments
  <2>2. CASE ~Forced(e, A)
    BY <1>2, <2>2 DEF Assignments
  <2> QED BY <2>1, <2>2
<1>4. Forced(e, A) => SetByOne(e, A)[v] = b
  BY <1>2 DEF Assignments
<1>5. ~Forced(e, A) => SetByOne(e, A)[v] = ~b
  BY <1>2 DEF Assignments
<1>6. \A w \in Vars : w # v => SetByOne(e, A)[w] = A[w]
  BY <1>2 DEF Assignments
<1>7. Var(e.lit) = v /\ Neg(e.lit) = <<v, ~b>>
  BY <1>1 DEF Var, Neg
<1>8. ASSUME NEW l \in Lits, Var(l) # v PROVE Holds(SetByOne(e, A), l) <=> Holds(A, l)
  <2>1. l[1] \in Vars /\ l[1] # v
    BY <1>8 DEF Lits, Var
  <2> QED BY <1>6, <2>1 DEF Holds
<1> QED BY <1>1, <1>3, <1>4, <1>5, <1>7, <1>8 DEF Holds

LEMMA ExtendedIs ==
  ASSUME NEW s \in Seq(Entries), NEW A \in Assignments
  PROVE  \E f \in [0 .. Len(s) -> Assignments] :
           /\ f[Len(s)] = A
           /\ \A i \in 0 .. Len(s) - 1 : f[i] = SetByOne(s[i + 1], f[i + 1])
           /\ ExtendedBy(s, A) = f[0]
<1> DEFINE N == Len(s)
           Def(f) == f = [n \in 0 .. N |-> IF n = N THEN A ELSE SetByOne(s[n + 1], f[n + 1])]
           step == [i \in 0 .. N - 1 |-> [B \in Assignments |-> SetByOne(s[i + 1], B)]]
<1>1. N \in Nat /\ \A i \in 0 .. N - 1 : s[i + 1] \in Entries
  OBVIOUS
<1>2. step \in Steps(N, Assignments)
  <2>1. \A i \in 0 .. N - 1 : \A B \in Assignments : SetByOne(s[i + 1], B) \in Assignments
    BY <1>1, SetByOneIs
  <2> HIDE DEF N
  <2> QED BY <2>1 DEF Steps
<1>3. PICK g : GoesDown(g, N, Assignments, A, step)
  <2> HIDE DEF step, N
  <2> QED BY <1>1, <1>2, DownRecursion
<1>4. /\ g \in [0 .. N -> Assignments] /\ g[N] = A
      /\ \A i \in 0 .. N - 1 : g[i] = SetByOne(s[i + 1], g[i + 1])
  <2> HIDE DEF N
  <2>1. /\ g \in [0 .. N -> Assignments] /\ g[N] = A
        /\ \A i \in 0 .. N - 1 : g[i] = step[i][g[i + 1]]
    <3> HIDE DEF step
    <3> QED BY <1>3 DEF GoesDown
  <2>2. \A i \in 0 .. N - 1 : g[i + 1] \in Assignments
    BY <1>1, <2>1
  <2> QED BY <2>1, <2>2
<1>5. Def(g)
  <2> HIDE DEF N
  <2>1. \A n \in 0 .. N : n # N => n \in 0 .. N - 1
    BY <1>1
  <2>2. \A n \in 0 .. N : g[n] = IF n = N THEN A ELSE SetByOne(s[n + 1], g[n + 1])
    BY <1>4, <2>1
  <2> QED BY <1>4, <2>2
<1> DEFINE f == CHOOSE f : Def(f)
<1>6. Def(f)
  <2> HIDE DEF Def
  <2> QED BY <1>5
<1>7. \A n \in 0 .. N : f[n] = g[n]
  <2> DEFINE P == {n \in 0 .. N : f[n] = g[n]}
  <2>0. \A n \in 0 .. N : f[n] = IF n = N THEN A ELSE SetByOne(s[n + 1], f[n + 1])
    <3> HIDE DEF f, N
    <3> QED BY <1>6
  <2> HIDE DEF f, N
  <2>1. N \in P
    BY <2>0, <1>4, <1>1
  <2>2. ASSUME NEW i \in 0 .. N - 1, i + 1 \in P PROVE i \in P
    <3>1. i \in 0 .. N /\ i # N
      BY <1>1
    <3> QED BY <2>0, <3>1, <2>2, <1>4
  <2>3. \A n \in 0 .. N : n \in P
    <3> HIDE DEF P
    <3> QED BY <1>1, <2>1, <2>2, DownInduction
  <2> QED BY <2>3
<1>8. 0 \in 0 .. N
  BY <1>1
<1>9. ExtendedBy(s, A) = f[0]
  BY DEF ExtendedBy
<1>10. ExtendedBy(s, A) = g[0]
  <2> HIDE DEF f, N
  <2> QED BY <1>7, <1>8, <1>9
<1> QED BY <1>4, <1>10

\* The last entry comes first.
LEMMA LastFirst ==
  ASSUME NEW s \in Seq(Entries), s # <<>>, NEW A \in Assignments
  PROVE  ExtendedBy(s, A) = ExtendedBy(SubSeq(s, 1, Len(s) - 1), SetByOne(s[Len(s)], A))
<1> DEFINE n == Len(s) - 1
           t == SubSeq(s, 1, n)
           B == SetByOne(s[Len(s)], A)
<1>1. n \in Nat /\ Len(s) = n + 1 /\ s[Len(s)] \in Entries
  OBVIOUS
<1>2. t \in Seq(Entries) /\ Len(t) = n /\ \A i \in 1 .. n : t[i] = s[i]
  BY <1>1
<1>3. B \in Assignments
  BY <1>1, SetByOneIs
<1>4. PICK f \in [0 .. n + 1 -> Assignments] :
        /\ f[n + 1] = A
        /\ \A i \in 0 .. n : f[i] = SetByOne(s[i + 1], f[i + 1])
        /\ ExtendedBy(s, A) = f[0]
  <2>1. PICK f \in [0 .. Len(s) -> Assignments] :
          /\ f[Len(s)] = A
          /\ \A i \in 0 .. Len(s) - 1 : f[i] = SetByOne(s[i + 1], f[i + 1])
          /\ ExtendedBy(s, A) = f[0]
    BY ExtendedIs
  <2> QED BY <1>1, <2>1
<1> HIDE DEF t, B
<1>5. PICK g \in [0 .. n -> Assignments] :
        /\ g[n] = B
        /\ \A i \in 0 .. n - 1 : g[i] = SetByOne(t[i + 1], g[i + 1])
        /\ ExtendedBy(t, B) = g[0]
  <2>1. PICK g \in [0 .. Len(t) -> Assignments] :
          /\ g[Len(t)] = B
          /\ \A i \in 0 .. Len(t) - 1 : g[i] = SetByOne(t[i + 1], g[i + 1])
          /\ ExtendedBy(t, B) = g[0]
    BY <1>2, <1>3, ExtendedIs
  <2> QED BY <1>2, <2>1
<1> HIDE DEF n
<1>6. \A i \in 0 .. n : i \in {k \in 0 .. n : f[k] = g[k]}
  <2> DEFINE P == {k \in 0 .. n : f[k] = g[k]}
  <2>1. n \in P
    BY <1>1, <1>4, <1>5 DEF B
  <2>2. ASSUME NEW i \in 0 .. n - 1, i + 1 \in P PROVE i \in P
    <3>1. i \in 0 .. n /\ i + 1 \in 1 .. n
      BY <1>1
    <3> QED BY <1>2, <1>4, <1>5, <2>2, <3>1
  <2> HIDE DEF P
  <2>3. \A i \in 0 .. n : i \in P
    BY <1>1, <2>1, <2>2, DownInduction
  <2> QED BY <2>3 DEF P
<1>7. 0 \in 0 .. n
  BY <1>1
<1> QED BY <1>4, <1>5, <1>6, <1>7 DEF t, B, n

LEMMA NothingToExtend ==
  ASSUME NEW A \in Assignments
  PROVE  ExtendedBy(<<>>, A) = A
<1> DEFINE s == <<>>
<1>1. s \in Seq(Entries) /\ Len(s) = 0
  OBVIOUS
<1> HIDE DEF s
<1>2. PICK f \in [0 .. Len(s) -> Assignments] : f[Len(s)] = A /\ ExtendedBy(s, A) = f[0]
  BY <1>1, ExtendedIs
<1> QED BY <1>1, <1>2 DEF s

\* The resolution lemma: with the clauses without a variable and all the resolvents on it
\* satisfied, setting it by the clauses kept satisfies them and those on the other side.
LEMMA SetSatisfies ==
  ASSUME ClausesOK, NEW l \in Lits, NEW A \in Assignments, NEW e \in Entries,
         e.lit = l, e.clauses = {MkElimClause(l, q) : q \in OccurrencesOf(l)},
         \A r \in DOMAIN db : Var(l) \notin VarsOf(db[r]) => Satisfies(A, db[r]),
         \A q \in OccurrencesOf(l), r \in OccurrencesOf(Neg(l)) :
           Satisfies(A, (db[q] \ {l}) \cup (db[r] \ {Neg(l)}))
  PROVE  \A r \in DOMAIN db : Satisfies(SetByOne(e, A), db[r])
<1> DEFINE B == SetByOne(e, A)
<1> SUFFICES ASSUME NEW r \in DOMAIN db PROVE Satisfies(B, db[r])
  OBVIOUS
<1>1. /\ B \in Assignments
      /\ Forced(e, A) => Holds(B, l)
      /\ ~Forced(e, A) => Holds(B, Neg(l))
      /\ \A k \in Lits : Var(k) # Var(l) => (Holds(B, k) <=> Holds(A, k))
  BY SetByOneIs
<1>2. /\ Neg(l) \in Lits /\ Var(l) \in Vars /\ Var(Neg(l)) = Var(l) /\ Neg(Neg(l)) = l
      /\ Neg(l) # l
  BY NegLit
<1>3. \A q \in DOMAIN db : db[q] \subseteq Lits /\ \A k \in db[q] : Neg(k) \notin db[q]
  BY DEF ClausesOK
<1>4. /\ OccurrencesOf(l) = {q \in DOMAIN db : l \in db[q]}
      /\ OccurrencesOf(Neg(l)) = {q \in DOMAIN db : Neg(l) \in db[q]}
  <2>1. occurs[Var(l)] = {q \in DOMAIN db : Var(l) \in VarsOf(db[q])}
    BY <1>2 DEF ClausesOK, Occurring
  <2> QED BY <1>2, <2>1 DEF OccurrencesOf, VarsOf
<1>5. Forced(e, A) <=> \E q \in OccurrencesOf(l) : \A k \in db[q] \ {l} : ~Holds(A, k)
  <2>1. Forced(e, A) <=> \E q \in OccurrencesOf(l) : \A k \in MkElimClause(l, q).rest : ~Holds(A, k)
    BY DEF Forced
  <2>2. \A q : MkElimClause(l, q).rest = db[q] \ {l}
    BY DEF MkElimClause
  <2> QED BY <2>1, <2>2
<1> HIDE DEF B
<1>6. CASE Var(l) \notin VarsOf(db[r])
  <2>1. PICK k \in db[r] : Holds(A, k)
    BY <1>6 DEF Satisfies
  <2>2. Var(k) # Var(l) /\ k \in Lits
    BY <1>3, <1>6 DEF VarsOf
  <2> QED BY <1>1, <2>1, <2>2 DEF Satisfies
<1>7. CASE l \in db[r]
  <2>1. CASE Forced(e, A)
    BY <1>1, <1>7, <2>1 DEF Satisfies
  <2>2. CASE ~Forced(e, A)
    <3>1. PICK k \in db[r] \ {l} : Holds(A, k)
      BY <1>4, <1>5, <1>7, <2>2
    <3>2. k \in Lits /\ k # Neg(l)
      BY <1>3, <1>7
    <3>3. Var(k) # Var(l)
      BY <3>1, <3>2, SameVar
    <3> QED BY <1>1, <3>1, <3>2, <3>3 DEF Satisfies
  <2> QED BY <2>1, <2>2
<1>8. CASE Neg(l) \in db[r]
  <2>1. CASE ~Forced(e, A)
    BY <1>1, <1>8, <2>1 DEF Satisfies
  <2>2. CASE Forced(e, A)
    <3>1. PICK q \in OccurrencesOf(l) : \A k \in db[q] \ {l} : ~Holds(A, k)
      BY <1>5, <2>2
    <3>2. Satisfies(A, (db[q] \ {l}) \cup (db[r] \ {Neg(l)}))
      BY <1>4, <1>8
    <3>3. PICK k \in db[r] \ {Neg(l)} : Holds(A, k)
      BY <3>1, <3>2 DEF Satisfies
    <3>4. k \in Lits /\ k # l
      BY <1>2, <1>3, <1>8
    <3>5. Var(k) # Var(l)
      BY <3>3, <3>4, SameVar
    <3> QED BY <1>1, <3>3, <3>4, <3>5 DEF Satisfies
  <2> QED BY <2>1, <2>2
<1>9. Var(l) \in VarsOf(db[r]) => l \in db[r] \/ Neg(l) \in db[r]
  BY <1>3, SameVar DEF VarsOf
<1> QED BY <1>6, <1>7, <1>8, <1>9

LEMMA StoredSatisfies ==
  ASSUME ClausesOK, NEW v \in Vars, NEW A \in Assignments,
         \A r \in DOMAIN db : v \notin VarsOf(db[r]) => Satisfies(A, db[r]),
         \A r \in OccurrencesOf(<<v, TRUE>>), s \in OccurrencesOf(<<v, FALSE>>) :
           Satisfies(A, Merge(r, s, v))
  PROVE  \A r \in DOMAIN db : Satisfies(SetByOne(Stored(v), A), db[r])
<1> DEFINE T == <<v, TRUE>>
           F == <<v, FALSE>>
<1>1. /\ T \in Lits /\ F \in Lits /\ Neg(T) = F /\ Neg(F) = T /\ Var(T) = v /\ Var(F) = v
  BY DEF Lits, Neg, Var
<1>2. Stored(v) \in Entries
  BY StoredIs
<1>3. \A r \in OccurrencesOf(T), s \in OccurrencesOf(F) :
        Satisfies(A, (db[r] \ {T}) \cup (db[s] \ {F}))
  BY DEF Merge
<1>4. \/ /\ Stored(v).lit = T
         /\ Stored(v).clauses = {MkElimClause(T, q) : q \in OccurrencesOf(T)}
      \/ /\ Stored(v).lit = F
         /\ Stored(v).clauses = {MkElimClause(F, q) : q \in OccurrencesOf(F)}
  <2>1. CASE Cardinality(OccurrencesOf(T)) > Cardinality(OccurrencesOf(F))
    BY <2>1 DEF Stored
  <2>2. CASE ~(Cardinality(OccurrencesOf(T)) > Cardinality(OccurrencesOf(F)))
    BY <2>2 DEF Stored
  <2> QED BY <2>1, <2>2
<1> HIDE DEF T, F
<1>5. CASE /\ Stored(v).lit = T
           /\ Stored(v).clauses = {MkElimClause(T, q) : q \in OccurrencesOf(T)}
  BY <1>1, <1>2, <1>3, <1>5, SetSatisfies
<1>6. CASE /\ Stored(v).lit = F
           /\ Stored(v).clauses = {MkElimClause(F, q) : q \in OccurrencesOf(F)}
  <2>1. \A q \in OccurrencesOf(F), r \in OccurrencesOf(T) :
          Satisfies(A, (db[q] \ {F}) \cup (db[r] \ {T}))
    BY <1>3 DEF Satisfies
  <2> QED BY <1>1, <1>2, <1>6, <2>1, SetSatisfies
<1> QED BY <1>4, <1>5, <1>6

-----------------------------------------------------------------------------
\* A step that leaves the models of what is left as they are, or finds that there are none.
Rewrites ==
  /\ ok /\ File' = File /\ ReallyGone' = ReallyGone
  /\ ok' => /\ Before' = Before
            /\ \A A \in Assignments : Models(A, Left) <=> Models(A, Left')
  /\ ~ok' => ~Satisfiable(Left)

\* ... as do those that change neither clauses nor facts, ...
Quiet ==
  /\ UNCHANGED <<option, input, nextClause, db, facts, eliminated, elimclauses, ok>>
  /\ pc # "resolve" /\ pc' # "resolve" /\ ok

LEMMA QuietSteps ==
  ASSUME InLists,
         \/ Eliminate \/ GatherTouchedClauses \/ Cleanup \/ NextInQueue \/ NoCandidates
         \/ CheckDone \/ Pick \/ HeapEmpty \/ AsymmDone
  PROVE  Quiet
<1>0. ok \/ pc = "done"
  BY DEF InLists, LoopOK
<1>1. CASE Eliminate
  BY <1>0, <1>1 DEF Eliminate, Quiet, file, store, gone
<1>2. CASE GatherTouchedClauses
  BY <1>0, <1>2 DEF GatherTouchedClauses, Quiet, file, gone
<1>3. CASE Cleanup
  BY <1>0, <1>3 DEF Cleanup, Quiet, file, store, gone
<1>4. CASE NextInQueue
  BY <1>0, <1>4 DEF NextInQueue, Quiet, file, gone
<1>5. CASE NoCandidates
  BY <1>0, <1>5 DEF NoCandidates, Quiet, file, store, gone
<1>6. CASE CheckDone
  BY <1>0, <1>6 DEF CheckDone, Quiet, file, gone
<1>7. CASE Pick
  <2>1. /\ pc = "pick" /\ pc' \in {"main", "pick", "asymm", "elim"}
        /\ UNCHANGED <<option, input, nextClause, db, facts, eliminated, elimclauses, ok>>
    <3>1. PICK v \in heap :
            IF interrupt \/ v \in eliminated \/ Assigned(v)
            THEN pc' = IF interrupt THEN "main" ELSE "pick"
            ELSE IF option.asymm /\ occurs[v] # {} THEN pc' = "asymm" ELSE pc' = "elim"
      BY <1>7, Zenon DEF Pick
    <3>2. pc' \in {"main", "pick", "asymm", "elim"}
      BY <3>1
    <3> QED BY <1>7, <3>2 DEF Pick, file, gone
  <2> QED BY <1>0, <2>1 DEF Quiet
<1>8. CASE HeapEmpty
  BY <1>0, <1>8 DEF HeapEmpty, Quiet, file, store, gone
<1>9. CASE AsymmDone
  BY <1>0, <1>9 DEF AsymmDone, Quiet, file, store, gone
<1> QED BY <1>1, <1>2, <1>3, <1>4, <1>5, <1>6, <1>7, <1>8, <1>9

LEMMA QuietRewrites ==
  ASSUME Quiet
  PROVE  Rewrites
<1>1. ReallyGone' = ReallyGone /\ Before' = Before /\ File' = File
  BY DEF Quiet, ReallyGone, Before, File
<1>2. Left' = Left
  BY <1>1 DEF Quiet, Left, Clauses, Unread, FactsBut
<1> QED BY <1>1, <1>2 DEF Quiet, Rewrites

LEMMA InterruptRewrites ==
  ASSUME InLists, Interrupt
  PROVE  Rewrites
<1>0. ok
  BY DEF InLists, LoopOK, Interrupt
<1>1. /\ UNCHANGED <<input, nextClause, db, facts, eliminated, elimclauses, elim, caller, pc, ok>>
  BY DEF Interrupt, file, store, gone, loops
<1>2. ReallyGone' = ReallyGone /\ Before' = Before /\ File' = File
  BY <1>1 DEF ReallyGone, Before, File
<1>3. Left' = Left
  BY <1>1, <1>2 DEF Left, Clauses, Unread, FactsBut
<1> QED BY <1>0, <1>1, <1>2, <1>3 DEF Rewrites

\* ... the steps of backward subsumption and asymmetric branching, ...
LEMMA ShrinkRewrites ==
  ASSUME InLists, InLists', Compare \/ AsymmVar
  PROVE  Rewrites
<1>0. LoopOK
  BY DEF InLists
<1>1. /\ pc \in {"scan", "asymm"} /\ pc' # "resolve" /\ ok
      /\ UNCHANGED <<input, nextClause, eliminated, elimclauses, elim, caller>>
      /\ pc = "scan" => caller # "none"
      /\ pc = "asymm" => elim \notin eliminated
  BY <1>0 DEF Compare, AsymmVar, LoopOK, file, gone
<1>2. SameFits
  BY CompareFits, AsymmFits
<1>3. ReallyGone = eliminated /\ ReallyGone' = eliminated
  BY <1>0, <1>1 DEF ReallyGone, LoopOK
<1>4. UNCHANGED <<File, Before, Unread>>
  BY <1>1 DEF File, Before, Unread
<1>5. /\ ok' => \A A \in Assignments : Models(A, Left) <=> Models(A, Left')
      /\ ~ok' => ~Satisfiable(Left)
  BY <1>1, <1>2, <1>3, <1>4, SameLeft DEF SameFits
<1> QED BY <1>1, <1>3, <1>4, <1>5 DEF Rewrites

\* ... addClause_, for the clauses of the file ...
LEMMA AddBack ==
  ASSUME AddKeeps, NEW ps \in SUBSET Lits, AddSays(ps), ok',
         NEW A \in Assignments, Fits(A, db', facts')
  PROVE  Fits(A, db, facts) /\ Satisfies(A, ps)
<1>1. Fits(A, db, facts)
  BY DEF AddKeeps, Fits
<1>2. CASE \E l \in ps : Neg(l) \in ps \/ l \in facts'
  <2>1. PICK l \in ps : Neg(l) \in ps \/ l \in facts'
    BY <1>2
  <2>2. Holds(A, l) \/ (Neg(l) \in ps /\ Holds(A, Neg(l)))
    BY <2>1, Opposite DEF Fits
  <2> QED BY <1>1, <2>2 DEF Satisfies
<1>3. CASE \E C \in Clauses' : C \subseteq ps
  <2>1. PICK r \in DOMAIN db' : db'[r] \subseteq ps
    BY <1>3 DEF Clauses
  <2> QED BY <1>1, <2>1 DEF Fits, Satisfies
<1> QED BY <1>1, <1>2, <1>3 DEF AddSays

LEMMA LoadRewrites ==
  ASSUME InLists, InLists', ~option.rcheck, Load
  PROVE  Rewrites
<1> DEFINE ps == input[nextClause]
<1>0. ClausesOK /\ TypesOK /\ LoopOK
  BY DEF InLists
<1>1. /\ pc = "load" /\ ok /\ caller = "none" /\ eliminated = {} /\ pc' # "resolve"
      /\ nextClause <= Len(input) /\ nextClause' = nextClause + 1
      /\ AddClause_(ps)
      /\ UNCHANGED <<input, eliminated, elimclauses, elim, caller>>
  BY <1>0 DEF Load, LoopOK, gone, loops
<1>2. ps \in SUBSET Lits /\ nextClause \in 1 .. Len(input) /\ Len(input) \in Nat
  BY <1>0, <1>1, InputIs DEF TypesOK
<1>3. Unread = {ps} \cup Unread'
  <2>1. nextClause .. Len(input) = {nextClause} \cup (nextClause' .. Len(input))
    BY <1>1, <1>2
  <2> QED BY <1>1, <2>1 DEF Unread
<1>4. ReallyGone = {} /\ ReallyGone' = {} /\ UNCHANGED <<File, Before>>
  BY <1>1 DEF ReallyGone, File, Before
<1> HIDE DEF ps
<1>5. AddKeeps /\ AddSays(ps)
  BY <1>0, <1>1, <1>2, AddFits
<1>6. ASSUME NEW A \in Assignments
      PROVE  Fits(A, db, facts) /\ Models(A, Unread)
               <=> ok' /\ Fits(A, db', facts') /\ Models(A, Unread')
  <2>1. Models(A, Unread) <=> Satisfies(A, ps) /\ Models(A, Unread')
    BY <1>3 DEF Models
  <2>2. Fits(A, db, facts) /\ Satisfies(A, ps) => ok' /\ Fits(A, db', facts')
    BY <1>5 DEF AddSays
  <2>3. ok' /\ Fits(A, db', facts') => Fits(A, db, facts) /\ Satisfies(A, ps)
    BY <1>2, <1>5, AddBack
  <2> QED BY <2>1, <2>2, <2>3
<1>7. /\ ok' => \A A \in Assignments : Models(A, Left) <=> Models(A, Left')
      /\ ~ok' => ~Satisfiable(Left)
  BY <1>1, <1>4, <1>6, SameLeft
<1> QED BY <1>1, <1>4, <1>7 DEF Rewrites

\* ... and for resolvents, which follow from the clauses resolved.
LEMMA ResolventIs ==
  ASSUME InLists, AddResolvent
  PROVE  \E r \in OccurrencesOf(<<elim, TRUE>>), s \in OccurrencesOf(<<elim, FALSE>>) :
           /\ todo' = todo \ {<<r, s>>}
           /\ AddClause_(Merge(r, s, elim))
           /\ Merge(r, s, elim) \in SUBSET Lits
           /\ \A l \in Merge(r, s, elim) : Var(l) \notin eliminated /\ Var(l) # elim
           /\ \A A \in Assignments : Fits(A, db, facts) => Satisfies(A, Merge(r, s, elim))
<1>0. ClausesOK /\ TypesOK /\ LoopOK /\ GoneOK
  BY DEF InLists
<1>1. /\ pc = "resolve" /\ ok /\ elim \in eliminated /\ elim \in Vars
      /\ todo \subseteq Merging(elim)
  BY <1>0 DEF AddResolvent, LoopOK, TypesOK
<1>2. PICK p \in todo : AddClause_(Merge(p[1], p[2], elim)) /\ todo' = todo \ {p}
  BY DEF AddResolvent
<1>3. PICK r \in OccurrencesOf(<<elim, TRUE>>), s \in OccurrencesOf(<<elim, FALSE>>) :
        p = <<r, s>>
  <2>1. p \in OccurrencesOf(<<elim, TRUE>>) \X OccurrencesOf(<<elim, FALSE>>)
    BY <1>1, <1>2 DEF Merging
  <2> QED BY <2>1
<1>4. /\ r \in DOMAIN db /\ s \in DOMAIN db /\ Merge(r, s, elim) \in SUBSET Lits
      /\ \A l \in Merge(r, s, elim) : Var(l) # elim /\ (l \in db[r] \/ l \in db[s])
  BY <1>0, <1>1, MergeIs
<1>5. \A l \in Merge(r, s, elim) : Var(l) \notin eliminated
  BY <1>0, <1>1, <1>4, NoneGone
<1>6. ASSUME NEW A \in Assignments, Fits(A, db, facts)
      PROVE  Satisfies(A, Merge(r, s, elim))
  <2>1. Satisfies(A, db[r]) /\ Satisfies(A, db[s])
    BY <1>4, <1>6 DEF Fits
  <2>2. ~(Holds(A, <<elim, TRUE>>) /\ Holds(A, <<elim, FALSE>>))
    BY DEF Holds
  <2> QED BY <2>1, <2>2 DEF Satisfies, Merge
<1>7. AddClause_(Merge(r, s, elim)) /\ todo' = todo \ {<<r, s>>}
  BY <1>2, <1>3
<1> QED BY <1>3, <1>4, <1>5, <1>6, <1>7

LEMMA AddResolventRewrites ==
  ASSUME InLists, InLists', ~option.rcheck, AddResolvent
  PROVE  Rewrites
<1>0. ClausesOK /\ LoopOK
  BY DEF InLists
<1>1. /\ pc = "resolve" /\ ok /\ caller = "none" /\ elim \in eliminated
      /\ pc' = IF ok' THEN "resolve" ELSE "done"
      /\ UNCHANGED <<input, nextClause, eliminated, elimclauses, elim, caller>>
  BY <1>0 DEF AddResolvent, LoopOK, file, gone
<1>2. UNCHANGED <<File, ReallyGone, Unread>> /\ (ok' => Before' = Before)
  BY <1>1 DEF File, ReallyGone, Unread, Before
<1>3. PICK r \in OccurrencesOf(<<elim, TRUE>>), s \in OccurrencesOf(<<elim, FALSE>>) :
        /\ AddClause_(Merge(r, s, elim))
        /\ Merge(r, s, elim) \in SUBSET Lits
        /\ \A A \in Assignments : Fits(A, db, facts) => Satisfies(A, Merge(r, s, elim))
  BY ResolventIs
<1>4. AddKeeps /\ AddSays(Merge(r, s, elim))
  BY <1>0, <1>1, <1>3, AddFits
<1>5. ASSUME NEW A \in Assignments
      PROVE  Fits(A, db, facts) <=> ok' /\ Fits(A, db', facts')
  <2>1. Fits(A, db, facts) => ok' /\ Fits(A, db', facts')
    BY <1>3, <1>4 DEF AddSays
  <2>2. ok' /\ Fits(A, db', facts') => Fits(A, db, facts)
    BY <1>3, <1>4, AddBack
  <2> QED BY <2>1, <2>2
<1>6. /\ ok' => \A A \in Assignments : Models(A, Left) <=> Models(A, Left')
      /\ ~ok' => ~Satisfiable(Left)
  BY <1>1, <1>2, <1>5, SameLeft
<1> QED BY <1>1, <1>2, <1>6 DEF Rewrites

\* When eliminateVar begins nothing has gone yet.
LEMMA EliminateVarRewrites ==
  ASSUME InLists, EliminateVar
  PROVE  Rewrites
<1>0. LoopOK /\ TypesOK
  BY DEF InLists
<1>1. /\ pc = "elim" /\ ok /\ elim \notin eliminated
      /\ UNCHANGED <<input, nextClause, db, facts, elim, caller, ok>>
  BY <1>0 DEF EliminateVar, LoopOK, file, store
<1>2. \/ pc' = "pick" /\ UNCHANGED <<eliminated, elimclauses>>
      \/ /\ eliminated' = eliminated \cup {elim}
         /\ elimclauses' = Append(elimclauses, Stored(elim))
         /\ pc' = "resolve"
  BY Zenon DEF EliminateVar, gone
<1>3. ReallyGone' = ReallyGone
  BY <1>1, <1>2 DEF ReallyGone
<1>4. Before' = Before
  <2>1. CASE pc' = "pick" /\ UNCHANGED <<eliminated, elimclauses>>
    BY <1>1, <2>1 DEF Before
  <2>2. CASE pc' = "resolve" /\ elimclauses' = Append(elimclauses, Stored(elim))
    <3>1. SubSeq(elimclauses', 1, Len(elimclauses') - 1) = elimclauses
      <4>1. elimclauses \in Seq(Entries)
        BY <1>0 DEF TypesOK
      <4> DEFINE x == Stored(elim)
      <4> HIDE DEF x
      <4>2. SubSeq(Append(elimclauses, x), 1, Len(Append(elimclauses, x)) - 1) = elimclauses
        BY <4>1
      <4> QED BY <2>2, <4>2 DEF x
    <3> QED BY <1>1, <2>2, <3>1 DEF Before
  <2> QED BY <1>2, <2>1, <2>2
<1>5. Left' = Left /\ File' = File
  BY <1>1, <1>3 DEF Left, File, Clauses, Unread, FactsBut
<1> QED BY <1>1, <1>3, <1>4, <1>5 DEF Rewrites

\* Whatever rewrites what is left keeps its models extensible.
LEMMA RewritesExtensible ==
  ASSUME Extensible, Rewrites
  PROVE  Extensible'
<1> SUFFICES ASSUME ok', NEW A \in Assignments, Models(A, Left')
             PROVE  Models(ExtendedBy(Before', A), File')
  BY DEF Extensible, Models, Satisfies, Holds, ExtendedBy, SetByOne, Forced
<1>1. Models(A, Left) /\ Before' = Before /\ File' = File /\ ok
  BY DEF Rewrites
<1> QED BY <1>1 DEF Extensible

-----------------------------------------------------------------------------
\* While the resolvents are added, the clauses with elim stay as they are.
LEMMA ElimStays ==
  ASSUME ClausesOK, elim \in Vars, AddKeeps, UNCHANGED elim, occurs'[elim] = occurs[elim]
  PROVE  /\ OccurrencesOf(<<elim, TRUE>>)' = OccurrencesOf(<<elim, TRUE>>)
         /\ OccurrencesOf(<<elim, FALSE>>)' = OccurrencesOf(<<elim, FALSE>>)
         /\ OccurrencesOf(<<elim, TRUE>>) \subseteq occurs[elim]
         /\ OccurrencesOf(<<elim, FALSE>>) \subseteq occurs[elim]
         /\ occurs[elim] \subseteq DOMAIN db
         /\ Stored(elim)' = Stored(elim)
<1>1. Var(<<elim, TRUE>>) = elim /\ Var(<<elim, FALSE>>) = elim
  BY DEF Var
<1>2. occurs[elim] \subseteq DOMAIN db
  BY DEF ClausesOK, Occurring
<1>3. \A r \in occurs[elim] : db'[r] = db[r]
  BY <1>2 DEF AddKeeps
<1>4. /\ OccurrencesOf(<<elim, TRUE>>)' = OccurrencesOf(<<elim, TRUE>>)
      /\ OccurrencesOf(<<elim, FALSE>>)' = OccurrencesOf(<<elim, FALSE>>)
  BY <1>1, <1>3 DEF OccurrencesOf
<1>5. /\ OccurrencesOf(<<elim, TRUE>>) \subseteq occurs[elim]
      /\ OccurrencesOf(<<elim, FALSE>>) \subseteq occurs[elim]
  BY <1>1 DEF OccurrencesOf
<1> DEFINE pos == OccurrencesOf(<<elim, TRUE>>)
           neg == OccurrencesOf(<<elim, FALSE>>)
           positive == Cardinality(pos) > Cardinality(neg)
           l == <<elim, ~positive>>
           kept == IF positive THEN neg ELSE pos
<1>6. kept' = kept /\ l' = l /\ kept \subseteq occurs[elim]
  BY <1>4, <1>5
<1>7. \A r \in kept : MkElimClause(l, r)' = MkElimClause(l, r)
  <2> HIDE DEF kept, l
  <2> QED BY <1>3, <1>6 DEF MkElimClause
<1>8. Stored(elim) = [lit |-> l, clauses |-> {MkElimClause(l, r) : r \in kept}]
  BY DEF Stored
<1>9. Stored(elim)' = [lit |-> l', clauses |-> {MkElimClause(l, r)' : r \in kept'}]
  BY DEF Stored
<1>10. Stored(elim)' = Stored(elim)
  <2> HIDE DEF kept, l
  <2> QED BY <1>6, <1>7, <1>8, <1>9
<1> QED BY <1>2, <1>4, <1>5, <1>10

LEMMA AddResolventResolving ==
  ASSUME InLists, InLists', ~option.rcheck, Resolving, AddResolvent
  PROVE  Resolving'
<1> SUFFICES ASSUME pc' = "resolve"
             PROVE  /\ elimclauses' # <<>> /\ elimclauses'[Len(elimclauses')] = Stored(elim)'
                    /\ \A r \in OccurrencesOf(<<elim, TRUE>>)', s \in OccurrencesOf(<<elim, FALSE>>)' :
                         <<r, s>> \notin todo' => Entails(WithoutElim', Merge(r, s, elim)')
                    /\ \A l \in facts' : Var(l) = elim' =>
                         \E r \in DOMAIN db' : l \in db'[r] /\ \A m \in db'[r] \ {l} : IsFalse(m)'
  BY DEF Resolving
<1>0. ClausesOK /\ TypesOK /\ LoopOK
  BY DEF InLists
<1>1. /\ pc = "resolve" /\ ok /\ ok' /\ elim \in eliminated /\ elim \in Vars
      /\ UNCHANGED <<eliminated, elimclauses, elim>>
  BY <1>0 DEF AddResolvent, LoopOK, TypesOK, gone
<1>2. PICK r \in OccurrencesOf(<<elim, TRUE>>), s \in OccurrencesOf(<<elim, FALSE>>) :
        /\ todo' = todo \ {<<r, s>>}
        /\ AddClause_(Merge(r, s, elim))
        /\ Merge(r, s, elim) \in SUBSET Lits
        /\ \A l \in Merge(r, s, elim) : Var(l) \notin eliminated /\ Var(l) # elim
  BY ResolventIs
<1> DEFINE ps == Merge(r, s, elim)
<1>3. ps \in SUBSET Lits /\ \A l \in ps : Var(l) \notin eliminated /\ Var(l) # elim
  BY <1>2
<1>4. AddKeeps /\ AddSays(ps)
  BY <1>0, <1>1, <1>2, AddFits
<1>5. occurs'[elim] = occurs[elim]
  <2>1. \/ UNCHANGED <<db, occurs, queue, touched, heap>>
        \/ \E n \in Refs : Grown(ps, n)
    BY <1>0, <1>1, <1>2, AddIs
  <2>2. ASSUME NEW n \in Refs, Grown(ps, n) PROVE occurs'[elim] = occurs[elim]
    <3>1. elim \notin VarsOf(NotFalse(ps))
      BY <1>3 DEF VarsOf, NotFalse
    <3> QED BY <1>1, <2>2, <3>1 DEF Grown
  <2> QED BY <2>1, <2>2
<1>6. /\ OccurrencesOf(<<elim, TRUE>>)' = OccurrencesOf(<<elim, TRUE>>)
      /\ OccurrencesOf(<<elim, FALSE>>)' = OccurrencesOf(<<elim, FALSE>>)
      /\ OccurrencesOf(<<elim, TRUE>>) \subseteq DOMAIN db
      /\ OccurrencesOf(<<elim, FALSE>>) \subseteq DOMAIN db
      /\ Stored(elim)' = Stored(elim)
  BY <1>0, <1>1, <1>4, <1>5, ElimStays
<1>7. elimclauses' # <<>> /\ elimclauses'[Len(elimclauses')] = Stored(elim)'
  BY <1>1, <1>6 DEF Resolving
<1> HIDE DEF ps
<1>8. ASSUME NEW A \in Assignments, Models(A, WithoutElim')
      PROVE  Models(A, WithoutElim) /\ Satisfies(A, ps)
  <2>1. /\ \A q \in DOMAIN db' : elim \notin VarsOf(db'[q]) => Satisfies(A, db'[q])
        /\ \A l \in facts' : Var(l) \notin eliminated => Holds(A, l)
    <3>1. \A l : Satisfies(A, {l}) <=> Holds(A, l)
      BY DEF Satisfies
    <3>2. Models(A, {C \in Clauses' : elim \notin VarsOf(C)}) /\ Models(A, FactsBut(eliminated)')
      BY <1>1, <1>8 DEF WithoutElim, Models, VarsOf
    <3> QED BY <1>1, <3>1, <3>2 DEF Models, Clauses, FactsBut
  <2>2. Models(A, {C \in Clauses : elim \notin VarsOf(C)})
    BY <1>4, <2>1 DEF AddKeeps, Models, Clauses
  <2>3. Models(A, FactsBut(eliminated))
    BY <1>4, <2>1 DEF AddKeeps, Models, FactsBut, Satisfies
  <2>4. Satisfies(A, ps)
    <3>1. CASE \E l \in ps : Neg(l) \in ps \/ l \in facts'
      <4>1. PICK l \in ps : Neg(l) \in ps \/ l \in facts'
        BY <3>1
      <4>2. Holds(A, l) \/ (Neg(l) \in ps /\ Holds(A, Neg(l)))
        BY <1>3, <2>1, <4>1, Opposite
      <4> QED BY <4>2 DEF Satisfies
    <3>2. CASE \E C \in Clauses' : C \subseteq ps
      <4>1. PICK q \in DOMAIN db' : db'[q] \subseteq ps
        BY <3>2 DEF Clauses
      <4>2. elim \notin VarsOf(db'[q])
        BY <1>3, <4>1 DEF VarsOf
      <4>3. Satisfies(A, db'[q])
        BY <2>1, <4>1, <4>2
      <4> QED BY <4>1, <4>3 DEF Satisfies
    <3> QED BY <1>1, <1>4, <3>1, <3>2 DEF AddSays
  <2> QED BY <2>2, <2>3, <2>4 DEF WithoutElim, Models
<1>9. ASSUME NEW q \in OccurrencesOf(<<elim, TRUE>>), NEW t \in OccurrencesOf(<<elim, FALSE>>),
             <<q, t>> \notin todo'
      PROVE  Entails(WithoutElim', Merge(q, t, elim)')
  <2>1. Merge(q, t, elim)' = Merge(q, t, elim)
    <3>1. db'[q] = db[q] /\ db'[t] = db[t]
      BY <1>4, <1>6 DEF AddKeeps
    <3> QED BY <1>1, <3>1 DEF Merge
  <2>2. CASE <<q, t>> = <<r, s>>
    BY <1>8, <2>1, <2>2 DEF Entails, ps
  <2>3. CASE <<q, t>> # <<r, s>>
    <3>1. <<q, t>> \notin todo
      BY <1>2, <1>9, <2>3
    <3>2. Entails(WithoutElim, Merge(q, t, elim))
      BY <1>1, <3>1 DEF Resolving
    <3> QED BY <1>8, <2>1, <3>2 DEF Entails
  <2> QED BY <2>2, <2>3
<1>10. ASSUME NEW l \in facts', Var(l) = elim
       PROVE  \E q \in DOMAIN db' : l \in db'[q] /\ \A m \in db'[q] \ {l} : Neg(m) \in facts'
  <2>1. CASE l \in facts
    <3>1. PICK q \in DOMAIN db : l \in db[q] /\ \A m \in db[q] \ {l} : Neg(m) \in facts
      BY <1>1, <1>10, <2>1 DEF Resolving, IsFalse
    <3> QED BY <1>4, <3>1 DEF AddKeeps
  <2>2. CASE l \notin facts
    <3>1. l \notin ps
      BY <1>3, <1>10
    <3>2. \E C \in Clauses : l \in C /\ \A m \in C \ {l} : Neg(m) \in facts'
      BY <1>4, <2>2, <3>1 DEF AddSays
    <3>3. PICK q \in DOMAIN db : l \in db[q] /\ \A m \in db[q] \ {l} : Neg(m) \in facts'
      BY <3>2 DEF Clauses
    <3> QED BY <1>4, <3>3 DEF AddKeeps
  <2> QED BY <2>1, <2>2
<1> QED BY <1>1, <1>6, <1>7, <1>9, <1>10 DEF IsFalse

\* To begin with the resolvents that are not to be added are those always true.
LEMMA EliminateVarResolving ==
  ASSUME InLists, EliminateVar
  PROVE  Resolving'
<1> SUFFICES ASSUME pc' = "resolve" PROVE Resolving'
  BY DEF Resolving
<1>0. ClausesOK /\ TypesOK /\ LoopOK
  BY DEF InLists
<1>1. /\ elim \in Vars
      /\ UNCHANGED <<db, occurs, facts, elim>>
  BY <1>0 DEF EliminateVar, LoopOK, store
<1>2. /\ elimclauses' = Append(elimclauses, Stored(elim))
      /\ todo' = Merging(elim)
      /\ ~Assigned(elim)
  BY Zenon DEF EliminateVar
<1>3. elimclauses' # <<>> /\ elimclauses'[Len(elimclauses')] = Stored(elim)'
  <2>1. Stored(elim)' = Stored(elim)
    BY <1>1 DEF Stored, OccurrencesOf, MkElimClause
  <2> DEFINE x == Stored(elim)
  <2> HIDE DEF x
  <2>2. elimclauses \in Seq(Entries)
    BY <1>0 DEF TypesOK
  <2>3. Append(elimclauses, x) # <<>> /\ Append(elimclauses, x)[Len(Append(elimclauses, x))] = x
    BY <2>2
  <2> QED BY <1>2, <2>1, <2>3 DEF x
<1>4. ASSUME NEW r \in OccurrencesOf(<<elim, TRUE>>), NEW s \in OccurrencesOf(<<elim, FALSE>>),
             <<r, s>> \notin todo'
      PROVE  \A A \in Assignments : Satisfies(A, Merge(r, s, elim))
  <2>1. PICK l \in Merge(r, s, elim) : Neg(l) \in Merge(r, s, elim)
    BY <1>2, <1>4 DEF Merging
  <2>2. l \in Lits
    BY <1>0, <1>1, <2>1, MergeIs
  <2> QED BY <2>1, <2>2, Opposite DEF Satisfies
<1>5. \A l \in facts : Var(l) # elim
  <2>1. \A l \in Lits : Var(l) = elim => l = <<elim, TRUE>> \/ l = <<elim, FALSE>>
    <3>1. <<elim, TRUE>> \in Lits /\ Neg(<<elim, TRUE>>) = <<elim, FALSE>> /\ Var(<<elim, TRUE>>) = elim
      BY <1>1 DEF Lits, Neg, Var
    <3> QED BY <3>1, SameVar
  <2> QED BY <1>0, <1>2, <2>1 DEF Assigned, ClausesOK
<1>6. \A r \in OccurrencesOf(<<elim, TRUE>>)', s \in OccurrencesOf(<<elim, FALSE>>)' :
        <<r, s>> \notin todo' => Entails(WithoutElim', Merge(r, s, elim)')
  BY <1>1, <1>4 DEF Entails, OccurrencesOf, Merge
<1> QED BY <1>1, <1>3, <1>5, <1>6 DEF Resolving

\* Elimination: what is left is what has nothing to do with elim.
LEMMA EliminationIs ==
  ASSUME InLists, RemoveOccurrences
  PROVE  /\ pc = "resolve" /\ todo = {} /\ ok /\ ok' /\ elim \in eliminated /\ elim \in Vars
         /\ pc' = "check" /\ Unread = {} /\ Unread' = {}
         /\ ReallyGone = eliminated \ {elim} /\ ReallyGone' = eliminated
         /\ UNCHANGED <<input, eliminated, elimclauses, facts, elim>>
         /\ Clauses' = {C \in Clauses : elim \notin VarsOf(C)}
         /\ Left' = WithoutElim
<1>0. ClausesOK /\ TypesOK /\ LoopOK
  BY DEF InLists
<1>1. /\ pc = "resolve" /\ todo = {} /\ ok /\ ok' /\ elim \in eliminated /\ elim \in Vars
      /\ pc' = "check" /\ RemoveClauses(occurs[elim])
      /\ UNCHANGED <<input, nextClause, eliminated, elimclauses, facts, elim>>
  BY <1>0 DEF RemoveOccurrences, LoopOK, TypesOK, file, gone
<1>2. Unread = {} /\ Unread' = {}
  BY <1>1, NoGone DEF Unread
<1>3. ReallyGone = eliminated \ {elim} /\ ReallyGone' = eliminated
  BY <1>1 DEF ReallyGone
<1>4. occurs[elim] = {q \in DOMAIN db : elim \in VarsOf(db[q])}
  BY <1>0, <1>1 DEF ClausesOK, Occurring
<1>5. DOMAIN db' = DOMAIN db \ occurs[elim] /\ \A q \in DOMAIN db' : db'[q] = db[q]
  BY <1>0, <1>1, RemovedAre
<1>6. Clauses' = {C \in Clauses : elim \notin VarsOf(C)}
  BY <1>4, <1>5 DEF Clauses
<1>7. FactsBut(ReallyGone)' = FactsBut(eliminated)
  BY <1>1, <1>3 DEF FactsBut
<1>8. Left' = WithoutElim
  BY <1>2, <1>6, <1>7 DEF Left, WithoutElim
<1> QED BY <1>1, <1>2, <1>3, <1>6, <1>8

\* A model of it satisfies, by the value that the clauses kept give elim, what was left.
LEMMA EliminationSets ==
  ASSUME InLists, Resolving, RemoveOccurrences,
         NEW A \in Assignments, Models(A, WithoutElim)
  PROVE  Models(SetByOne(Stored(elim), A), Left)
<1> DEFINE e == Stored(elim)
           B == SetByOne(e, A)
<1>0. ClausesOK /\ TypesOK /\ GoneOK
  BY DEF InLists
<1>1. /\ pc = "resolve" /\ todo = {} /\ ok /\ elim \in eliminated /\ elim \in Vars
      /\ Unread = {} /\ ReallyGone = eliminated \ {elim} /\ facts \subseteq Lits
  BY <1>0, EliminationIs DEF ClausesOK
<1>2. /\ \A r \in DOMAIN db : elim \notin VarsOf(db[r]) => Satisfies(A, db[r])
      /\ \A l \in facts : Var(l) \notin eliminated => Holds(A, l)
  <2>1. \A l : Satisfies(A, {l}) <=> Holds(A, l)
    BY DEF Satisfies
  <2>2. Models(A, {C \in Clauses : elim \notin VarsOf(C)}) /\ Models(A, FactsBut(eliminated))
    BY DEF WithoutElim, Models
  <2> QED BY <2>1, <2>2 DEF Models, Clauses, FactsBut
<1>3. \A r \in OccurrencesOf(<<elim, TRUE>>), s \in OccurrencesOf(<<elim, FALSE>>) :
        Satisfies(A, Merge(r, s, elim))
  BY <1>1 DEF Resolving, Entails
<1>4. \A r \in DOMAIN db : Satisfies(B, db[r])
  BY <1>0, <1>1, <1>2, <1>3, StoredSatisfies
<1>5. \A l \in Lits : Var(l) # elim => (Holds(B, l) <=> Holds(A, l))
  <2>1. e \in Entries
    BY <1>0, <1>1, StoredIs
  <2>2. Var(e.lit) = elim
    BY DEF Stored, Var
  <2> HIDE DEF e
  <2> QED BY <2>1, <2>2, SetByOneIs
<1>6. B \in Assignments
  <2>1. e \in Entries
    BY <1>0, <1>1, StoredIs
  <2> HIDE DEF e
  <2> QED BY <2>1, SetByOneIs
<1> HIDE DEF e, B
<1>7. ASSUME NEW l \in facts, Var(l) \notin ReallyGone PROVE Holds(B, l)
  <2>1. CASE Var(l) # elim
    BY <1>1, <1>2, <1>5, <1>7, <2>1
  <2>2. CASE Var(l) = elim
    <3>1. PICK r \in DOMAIN db : l \in db[r] /\ \A m \in db[r] \ {l} : Neg(m) \in facts
      BY <1>1, <2>2 DEF Resolving, IsFalse
    <3>2. PICK k \in db[r] : Holds(B, k)
      BY <1>4 DEF Satisfies
    <3>3. ASSUME k # l PROVE FALSE
      <4>1. k \in Lits /\ l \in Lits /\ Neg(k) \in facts /\ k # Neg(l)
        BY <1>0, <3>1, <3>2, <3>3, ClausesAre DEF ClausesOK
      <4>2. Var(k) # elim
        BY <2>2, <3>3, <4>1, SameVar
      <4>3. Var(k) \notin eliminated
        BY <1>0, <1>1, <3>1, <3>2, <4>2, NoneGone
      <4>4. Neg(k) \in Lits /\ Var(Neg(k)) = Var(k)
        BY <4>1, NegLit
      <4>5. Holds(B, Neg(k))
        BY <1>2, <1>5, <4>1, <4>2, <4>3, <4>4
      <4> QED BY <1>6, <3>2, <4>1, <4>5, Opposite
    <3> QED BY <3>2, <3>3
  <2> QED BY <2>1, <2>2
<1>8. MeansLeft(B, db, facts, ReallyGone, Unread)
  BY <1>1, <1>4, <1>7 DEF MeansLeft, Models
<1>9. Models(B, Left)
  BY <1>8, LeftIs
<1> QED BY <1>9 DEF B, e

LEMMA EliminationExtensible ==
  ASSUME InLists, Extensible, Resolving, RemoveOccurrences
  PROVE  Extensible'
<1>1. /\ pc = "resolve" /\ ok /\ pc' = "check" /\ elim \in Vars
      /\ UNCHANGED <<input, elimclauses>> /\ Left' = WithoutElim
  BY EliminationIs
<1>2. elimclauses \in Seq(Entries) /\ ClausesOK /\ Stored(elim) \in Entries
  BY <1>1, StoredIs DEF InLists, TypesOK
<1>3. /\ elimclauses # <<>> /\ elimclauses[Len(elimclauses)] = Stored(elim)
      /\ Before = SubSeq(elimclauses, 1, Len(elimclauses) - 1) /\ Before' = elimclauses
  BY <1>1 DEF Resolving, Before
<1> SUFFICES ASSUME NEW A \in Assignments, Models(A, Left')
             PROVE  Models(ExtendedBy(Before', A), File')
  BY DEF Extensible, Models, Satisfies, Holds, ExtendedBy, SetByOne, Forced
<1>4. ExtendedBy(elimclauses, A) = ExtendedBy(Before, SetByOne(Stored(elim), A))
  BY <1>2, <1>3, LastFirst
<1>5. SetByOne(Stored(elim), A) \in Assignments
  BY <1>2, SetByOneIs
<1>6. Models(SetByOne(Stored(elim), A), Left)
  BY <1>1, EliminationSets
<1>7. File' = File
  BY <1>1 DEF File
<1> QED BY <1>1, <1>3, <1>4, <1>5, <1>6, <1>7 DEF Extensible

-----------------------------------------------------------------------------
\* The steps but for the elimination rewrite.
LEMMA StepRewrites ==
  ASSUME InLists, InLists', ~option.rcheck, Next, ~RemoveOccurrences
  PROVE  Rewrites
<1>1. CASE Load
  BY <1>1, LoadRewrites
<1>2. CASE Compare \/ AsymmVar
  BY <1>2, ShrinkRewrites
<1>3. CASE EliminateVar
  BY <1>3, EliminateVarRewrites
<1>4. CASE AddResolvent
  BY <1>4, AddResolventRewrites
<1>5. CASE Interrupt
  BY <1>5, InterruptRewrites
<1>6. CASE \/ Eliminate \/ GatherTouchedClauses \/ Cleanup \/ NextInQueue \/ NoCandidates
           \/ CheckDone \/ Pick \/ HeapEmpty \/ AsymmDone
  BY <1>6, QuietSteps, QuietRewrites
<1> QED BY <1>1, <1>2, <1>3, <1>4, <1>5, <1>6 DEF Next, Step

LEMMA ResolvingStays ==
  ASSUME Resolving, UNCHANGED <<db, occurs, facts, eliminated, elimclauses, elim, todo, pc>>
  PROVE  Resolving'
<1>1. Stored(elim)' = Stored(elim)
  BY DEF Stored, OccurrencesOf, MkElimClause
<1>2. /\ OccurrencesOf(<<elim, TRUE>>)' = OccurrencesOf(<<elim, TRUE>>)
      /\ OccurrencesOf(<<elim, FALSE>>)' = OccurrencesOf(<<elim, FALSE>>)
  BY DEF OccurrencesOf
<1>3. \A r, s : Merge(r, s, elim)' = Merge(r, s, elim)
  BY DEF Merge
<1>4. WithoutElim' = WithoutElim
  BY DEF WithoutElim, Clauses, FactsBut, VarsOf
<1> QED BY <1>1, <1>2, <1>3, <1>4 DEF Resolving, Entails, IsFalse

LEMMA StepResolving ==
  ASSUME InLists, InLists', ~option.rcheck, Resolving, Next
  PROVE  Resolving'
<1>1. CASE AddResolvent
  BY <1>1, AddResolventResolving
<1>2. CASE EliminateVar
  BY <1>2, EliminateVarResolving
<1>3. CASE Interrupt
  <2>1. UNCHANGED <<db, occurs, facts, eliminated, elimclauses, elim, todo, pc>>
    BY <1>3 DEF Interrupt, store, gone, loops
  <2> QED BY <2>1, ResolvingStays
<1>4. CASE \/ Eliminate \/ GatherTouchedClauses \/ Cleanup \/ NextInQueue \/ NoCandidates
           \/ CheckDone \/ Pick \/ HeapEmpty \/ AsymmDone
  <2>1. pc' # "resolve"
    BY <1>4, QuietSteps DEF Quiet
  <2> QED BY <2>1 DEF Resolving
<1>5. CASE Load \/ Compare \/ AsymmVar \/ RemoveOccurrences
  <2>1. pc' # "resolve"
    BY <1>5 DEF Load, Compare, AsymmVar, RemoveOccurrences
  <2> QED BY <2>1 DEF Resolving
<1> QED BY <1>1, <1>2, <1>3, <1>4, <1>5 DEF Next, Step

LEMMA InitMeaning ==
  ASSUME Init
  PROVE  Extensible /\ Resolving
<1>1. /\ nextClause = 1 /\ db = <<>> /\ facts = {} /\ elimclauses = <<>> /\ pc = "load"
  BY DEF Init
<1>2. Before = <<>> /\ Unread = File
  BY <1>1 DEF Before, Unread, File
<1>3. \A A \in Assignments : Models(A, Left) => Models(A, File)
  BY <1>2 DEF Left, Models
<1>4. \A A \in Assignments : ExtendedBy(Before, A) = A
  BY <1>2, NothingToExtend
<1> QED BY <1>1, <1>3, <1>4 DEF Extensible, Resolving

LEMMA StepMeaning == InLists /\ InPreprocessing /\ [Next]_vars => InPreprocessing'
<1> SUFFICES ASSUME InLists, InPreprocessing, [Next]_vars PROVE InPreprocessing'
  OBVIOUS
<1>1. InLists'
  BY StepLists
<1>2. option' = option
  BY DEF vars, Next, Step, Load, Eliminate, GatherTouchedClauses, Cleanup, NextInQueue, Compare,
         NoCandidates, CheckDone, Pick, HeapEmpty, AsymmVar, AsymmDone, EliminateVar,
         AddResolvent, RemoveOccurrences, Interrupt, file
<1>3. CASE option.rcheck
  BY <1>1, <1>2, <1>3 DEF InPreprocessing
<1>4. CASE ~option.rcheck /\ Next
  <2>1. Extensible /\ Resolving
    BY <1>4 DEF InPreprocessing
  <2>2. Extensible'
    BY <1>1, <1>4, <2>1, StepRewrites, RewritesExtensible, EliminationExtensible
  <2>3. Resolving'
    BY <1>1, <1>4, <2>1, StepResolving
  <2> QED BY <1>1, <2>2, <2>3 DEF InPreprocessing
<1>5. CASE ~option.rcheck /\ UNCHANGED vars
  <2>1. Extensible /\ Resolving
    BY <1>5 DEF InPreprocessing
  <2>2. UNCHANGED <<input, nextClause, db, occurs, facts, eliminated, elimclauses, elim, todo,
                    caller, pc, ok>>
    BY <1>5 DEF vars
  <2>3. Resolving'
    BY <2>1, <2>2, ResolvingStays
  <2>4. UNCHANGED <<Left, Before, File>>
    BY <2>2 DEF Left, Before, File, Clauses, Unread, FactsBut, ReallyGone
  <2>5. Extensible'
    <3>1. CASE ok
      <4>1. Rewrites
        BY <2>2, <2>4, <3>1 DEF Rewrites, ReallyGone
      <4> QED BY <2>1, <4>1, RewritesExtensible
    <3>2. CASE ~ok
      BY <2>2, <3>2 DEF Extensible
    <3> QED BY <3>1, <3>2
  <2> QED BY <1>1, <2>3, <2>5 DEF InPreprocessing
<1> QED BY <1>3, <1>4, <1>5

\* What the lists hold and what the models of what is left have to do with the file.
THEOREM PreprocessingHolds == Spec => []InPreprocessing
<1>1. Init => InPreprocessing
  BY InitLists, InitMeaning DEF InPreprocessing
<1>2. InPreprocessing => InLists
  BY DEF InPreprocessing
<1>3. InPreprocessing /\ [Next]_vars => InPreprocessing'
  BY <1>2, StepMeaning
<1> QED BY <1>1, <1>3, PTL DEF Spec

\* Without -rcheck, extendModel makes every model of the clauses that eliminate leaves a
\* model of the file, interrupted or not.
THEOREM ModelsExtend == Spec => [](~option.rcheck => ModelExtends)
<1>1. InPreprocessing => (~option.rcheck => ModelExtends)
  <2> SUFFICES ASSUME InPreprocessing, ~option.rcheck, pc = "done", ok,
                      NEW A \in Assignments, Models(A, Remaining)
               PROVE  \A i \in 1 .. Len(input) : Satisfies(ExtendModel(A), input[i])
    BY DEF ModelExtends
  <2>1. InLists /\ Extensible
    BY DEF InPreprocessing
  <2>2. Unread = {} /\ ReallyGone = eliminated /\ Before = elimclauses
    BY <2>1, NoGone DEF Before
  <2>3. Models(A, Left)
    BY <2>2 DEF Remaining, Left, FactsBut
  <2>4. Models(ExtendedBy(elimclauses, A), File)
    BY <2>1, <2>2, <2>3 DEF Extensible
  <2> QED BY <2>4 DEF Models, File, ExtendModel
<1> QED BY <1>1, PreprocessingHolds, PTL


-----------------------------------------------------------------------------
\* The refinement: each step of the preprocessor is a step of the rules, or none.
RulesStep == Rules!Next \/ UNCHANGED Rules!rulesVars

\* The rules mean the same by literals and clauses.
LEMMA SameMeaning ==
  /\ Rules!Lits = Lits
  /\ \A x : Rules!Var(x) = Var(x)
  /\ \A F, C : Rules!Entails(F, C) <=> Entails(F, C)
  /\ \A F : Rules!Satisfiable(F) <=> Satisfiable(F)
  /\ \A A, F : Rules!Models(A, F) <=> Models(A, F)
  /\ Rules!Assignments = Assignments
  BY DEF Rules!Lits, Lits, Rules!Var, Var, Rules!Entails, Entails,
         Rules!Satisfiable, Satisfiable, Rules!Models, Models, Rules!Satisfies, Satisfies,
         Rules!Holds, Holds, Rules!Assignments, Assignments

\* What the rules see of a state, left out what is no part of them.
SeenClauses == IF ok THEN Left ELSE {{}}
SeenAnswer  == IF ok THEN "none" ELSE "UNSAT"

\* The refinement mapping, written out.
LEMMA SeenAs ==
  /\ Rules!Rewrite <=>
       /\ SeenAnswer = "none"
       /\ SeenClauses' \in SUBSET SUBSET Rules!Free(ReallyGone)
       /\ \A A \in Assignments : Models(A, SeenClauses) <=> Models(A, SeenClauses')
       /\ UNCHANGED <<File, ReallyGone, SeenAnswer>>
  /\ Rules!AnswerUnsat <=>
       /\ SeenAnswer = "none"
       /\ ~Satisfiable(SeenClauses)
       /\ SeenAnswer' = "UNSAT"
       /\ SeenClauses' = {{}}
       /\ UNCHANGED <<File, ReallyGone>>
  /\ UNCHANGED <<File, SeenClauses, ReallyGone, SeenAnswer>> => RulesStep
<1>1. Rules!Rewrite <=>
       /\ SeenAnswer = "none"
       /\ SeenClauses' \in SUBSET SUBSET Rules!Free(ReallyGone)
       /\ \A A \in Assignments : Models(A, SeenClauses) <=> Models(A, SeenClauses')
       /\ UNCHANGED <<File, ReallyGone, SeenAnswer>>
  BY SameMeaning DEF Rules!Rewrite, SeenAnswer, SeenClauses, Left, FactsBut, File
<1>2. Rules!AnswerUnsat <=>
       /\ SeenAnswer = "none"
       /\ ~Satisfiable(SeenClauses)
       /\ SeenAnswer' = "UNSAT"
       /\ SeenClauses' = {{}}
       /\ UNCHANGED <<File, ReallyGone>>
  BY SameMeaning DEF Rules!AnswerUnsat, SeenAnswer, SeenClauses, Left, FactsBut, File
<1>3. UNCHANGED <<File, SeenClauses, ReallyGone, SeenAnswer>> => RulesStep
  BY DEF RulesStep, Rules!rulesVars, SeenAnswer, SeenClauses, Left, FactsBut, File
<1> QED BY <1>1, <1>2, <1>3

\* Elimination: the clauses with the variable, the others, and what resolution makes.
LEMMA EliminationSeen ==
  ASSUME NEW v
  PROVE  Rules!Eliminate(v) <=>
         /\ SeenAnswer = "none"
         /\ v \notin ReallyGone
         /\ \A C \in {E \in SeenClauses : <<v, TRUE>> \in E},
               D \in {E \in SeenClauses : <<v, FALSE>> \in E} :
              Entails({E \in SeenClauses : \A l \in E : Var(l) # v},
                      (C \ {<<v, TRUE>>}) \cup (D \ {<<v, FALSE>>}))
         /\ SeenClauses' = {E \in SeenClauses : \A l \in E : Var(l) # v}
         /\ ReallyGone' = ReallyGone \cup {v}
         /\ UNCHANGED <<File, SeenAnswer>>
  BY SameMeaning DEF Rules!Eliminate, Rules!Without, Rules!ClausesOf, Rules!Resolve,
     Rules!Var, Var, SeenAnswer, SeenClauses, Left, FactsBut, File

\* What is left has no literal of a variable that is gone.
LEMMA LeftFreeNext ==
  ASSUME InLists', ok'
  PROVE  Left' \in SUBSET SUBSET Rules!Free(ReallyGone')
<1> SUFFICES ASSUME NEW C \in Left', NEW l \in C
             PROVE  l \in Lits /\ Var(l) \notin ReallyGone'
  BY SameMeaning DEF Rules!Free
<1>1. CASE C \in Clauses'
  BY <1>1, NoGoneNext DEF Clauses
<1>2. CASE C \in Unread'
  BY <1>2, NoGoneNext
<1>3. CASE C \in FactsBut(ReallyGone)'
  BY <1>3, NoGoneNext DEF FactsBut
<1> QED BY <1>1, <1>2, <1>3 DEF Left

\* A step that keeps the models of what is left, or finds that there are none.
LEMMA RewritesSeen ==
  ASSUME InLists', Rewrites
  PROVE  RulesStep
<1>1. CASE ok'
  <2>1. SeenClauses' \in SUBSET SUBSET Rules!Free(ReallyGone)
    BY <1>1, LeftFreeNext DEF SeenClauses, Rewrites
  <2>2. Rules!Rewrite
    BY <1>1, <2>1, SeenAs DEF Rewrites, SeenClauses, SeenAnswer
  <2> QED BY <2>2 DEF RulesStep, Rules!Next
<1>2. CASE ~ok'
  <2>1. Rules!AnswerUnsat
    BY <1>2, SeenAs DEF Rewrites, SeenClauses, SeenAnswer
  <2> QED BY <2>1 DEF RulesStep, Rules!Next
<1> QED BY <1>1, <1>2


\* Where nothing of elim is left the other literals of its facts' clauses are false.
LEMMA OthersFalse ==
  ASSUME InLists, RemoveOccurrences, NEW A \in Assignments, Models(A, WithoutElim),
         NEW p \in Lits, Var(p) = elim, NEW r \in DOMAIN db, p \in db[r],
         NEW m \in db[r] \ {p}, IsFalse(m)
  PROVE  ~Holds(A, m)
<1>1. ClausesOK
  BY DEF InLists
<1>2. m \in Lits /\ Var(m) \notin ReallyGone
  BY EliminationIs, NoGone
<1>3. Var(m) # elim
  <2>1. SUFFICES ASSUME Var(m) = elim PROVE FALSE
    OBVIOUS
  <2>2. m = Neg(p)
    BY <1>2, <2>1, SameVar
  <2> QED BY <1>1, <2>2 DEF ClausesOK
<1>4. Neg(m) \in facts /\ Var(Neg(m)) \notin eliminated
  BY <1>2, <1>3, NegLit, EliminationIs DEF IsFalse
<1>5. {Neg(m)} \in WithoutElim
  BY <1>4 DEF WithoutElim, FactsBut
<1>6. Holds(A, Neg(m))
  BY <1>5 DEF Models, Satisfies
<1> QED BY <1>2, <1>6, Opposite

\* The clauses left without the variable, and those with it.
LEMMA LeftAround ==
  ASSUME InLists, RemoveOccurrences
  PROVE  /\ Left' = {E \in Left : \A l \in E : Var(l) # elim}
         /\ \A E \in Left : \A p \in E :
              (\E r \in DOMAIN db : E = db[r]) \/ (E = {p} /\ p \in facts)
<1>1. Left = Clauses \cup FactsBut(ReallyGone) /\ Left' = WithoutElim
  BY EliminationIs DEF Left
<1>2. ReallyGone = eliminated \ {elim} /\ elim \in eliminated
  BY EliminationIs
<1>3. {E \in Clauses : \A l \in E : Var(l) # elim} = {C \in Clauses : elim \notin VarsOf(C)}
  BY DEF VarsOf
<1>4. {E \in FactsBut(ReallyGone) : \A l \in E : Var(l) # elim} = FactsBut(eliminated)
  BY <1>2 DEF FactsBut
<1>5. Left' = {E \in Left : \A l \in E : Var(l) # elim}
  BY <1>1, <1>3, <1>4 DEF WithoutElim
<1>6. ASSUME NEW E \in Left, NEW p, p \in E
      PROVE  (\E r \in DOMAIN db : E = db[r]) \/ (E = {p} /\ p \in facts)
  BY <1>1, <1>6 DEF Clauses, FactsBut
<1> QED BY <1>5, <1>6

\* The clauses of a variable that goes: every resolvent on it follows.
LEMMA ResolventsFollow ==
  ASSUME InLists, Resolving, RemoveOccurrences,
         NEW C \in Left, <<elim, TRUE>> \in C, NEW D \in Left, <<elim, FALSE>> \in D
  PROVE  Entails(WithoutElim, (C \ {<<elim, TRUE>>}) \cup (D \ {<<elim, FALSE>>}))
<1> DEFINE P == <<elim, TRUE>>
           N == <<elim, FALSE>>
<1>1. P \in Lits /\ N \in Lits /\ Var(P) = elim /\ Var(N) = elim /\ Neg(P) = N
  BY EliminationIs DEF Lits, Var, Neg
<1>2. ASSUME NEW r \in DOMAIN db, P \in db[r], NEW s \in DOMAIN db, N \in db[s]
      PROVE  Entails(WithoutElim, (db[r] \ {P}) \cup (db[s] \ {N}))
  <2>1. ClausesOK
    BY DEF InLists
  <2>2. r \in OccurrencesOf(P) /\ s \in OccurrencesOf(N)
    BY <1>1, <1>2, <2>1, EliminationIs DEF ClausesOK, OccurrencesOf, Occurring, VarsOf
  <2>3. <<r, s>> \notin todo
    BY EliminationIs
  <2>4. Entails(WithoutElim, Merge(r, s, elim))
    BY <2>2, <2>3, EliminationIs DEF Resolving
  <2> QED BY <2>4 DEF Merge
<1>3. \A l \in facts : Var(l) = elim =>
        \E r \in DOMAIN db : l \in db[r] /\ \A m \in db[r] \ {l} : IsFalse(m)
  BY EliminationIs DEF Resolving
<1>4. (\E r \in DOMAIN db : C = db[r]) \/ (C = {P} /\ P \in facts)
  BY <1>1, LeftAround
<1>5. (\E s \in DOMAIN db : D = db[s]) \/ (D = {N} /\ N \in facts)
  BY <1>1, LeftAround
<1>6. ~(P \in facts /\ N \in facts)
  BY <1>1 DEF InLists, ClausesOK, Conflicting
<1>7. CASE (\E r \in DOMAIN db : C = db[r]) /\ (\E s \in DOMAIN db : D = db[s])
  BY <1>2, <1>7
<1>8. CASE (\E r \in DOMAIN db : C = db[r]) /\ D = {N} /\ N \in facts
  <2>1. PICK r \in DOMAIN db : C = db[r]
    BY <1>8
  <2>2. PICK s \in DOMAIN db : N \in db[s] /\ \A m \in db[s] \ {N} : IsFalse(m)
    BY <1>1, <1>3, <1>8
  <2>3. ASSUME NEW A \in Assignments, Models(A, WithoutElim)
        PROVE  Satisfies(A, (C \ {P}) \cup (D \ {N}))
    <3>1. PICK m \in (db[r] \ {P}) \cup (db[s] \ {N}) : Holds(A, m)
      BY <1>2, <2>1, <2>2, <2>3 DEF Entails, Satisfies
    <3>2. m \in db[r] \ {P}
      BY <1>1, <2>2, <2>3, <3>1, OthersFalse
    <3> QED BY <2>1, <3>1, <3>2 DEF Satisfies
  <2> QED BY <2>3 DEF Entails
<1>9. CASE C = {P} /\ P \in facts /\ \E s \in DOMAIN db : D = db[s]
  <2>1. PICK s \in DOMAIN db : D = db[s]
    BY <1>9
  <2>2. PICK r \in DOMAIN db : P \in db[r] /\ \A m \in db[r] \ {P} : IsFalse(m)
    BY <1>1, <1>3, <1>9
  <2>3. ASSUME NEW A \in Assignments, Models(A, WithoutElim)
        PROVE  Satisfies(A, (C \ {P}) \cup (D \ {N}))
    <3>1. PICK m \in (db[r] \ {P}) \cup (db[s] \ {N}) : Holds(A, m)
      BY <1>2, <2>1, <2>2, <2>3 DEF Entails, Satisfies
    <3>2. m \in db[s] \ {N}
      BY <1>1, <2>2, <2>3, <3>1, OthersFalse
    <3> QED BY <2>1, <3>1, <3>2 DEF Satisfies
  <2> QED BY <2>3 DEF Entails
<1> QED BY <1>4, <1>5, <1>6, <1>7, <1>8, <1>9

\* The variable goes.
LEMMA EliminationIsSeen ==
  ASSUME InLists, Resolving, RemoveOccurrences
  PROVE  RulesStep
<1>1. /\ ok /\ ok' /\ elim \in Vars
      /\ elim \notin ReallyGone /\ ReallyGone' = ReallyGone \cup {elim}
      /\ Left' = WithoutElim /\ File' = File
  BY EliminationIs DEF File
<1>2. Left' = {E \in Left : \A l \in E : Var(l) # elim}
  BY LeftAround
<1>3. SeenClauses = Left /\ SeenClauses' = Left' /\ SeenAnswer = "none" /\ SeenAnswer' = SeenAnswer
  BY <1>1 DEF SeenClauses, SeenAnswer
<1>4. PICK v \in Vars : v = elim
  BY <1>1
<1>5. /\ SeenClauses' = {E \in SeenClauses : \A l \in E : Var(l) # v}
      /\ WithoutElim = {E \in SeenClauses : \A l \in E : Var(l) # v}
  BY <1>1, <1>2, <1>3, <1>4
<1>6. ASSUME NEW C \in SeenClauses, <<v, TRUE>> \in C, NEW D \in SeenClauses, <<v, FALSE>> \in D
      PROVE  Entails({E \in SeenClauses : \A l \in E : Var(l) # v},
                     (C \ {<<v, TRUE>>}) \cup (D \ {<<v, FALSE>>}))
  <2>1. Entails(WithoutElim, (C \ {<<v, TRUE>>}) \cup (D \ {<<v, FALSE>>}))
    BY <1>3, <1>4, <1>6, ResolventsFollow
  <2> QED BY <1>5, <2>1
<1>7. Rules!Eliminate(v)
  BY <1>1, <1>3, <1>4, <1>5, <1>6, EliminationSeen
<1> QED BY <1>7 DEF RulesStep, Rules!Next

\* At the start nothing is read and nothing is gone.
LEMMA InitSeen == Init => Rules!Init
<1> SUFFICES ASSUME Init PROVE Rules!Init
  OBVIOUS
<1>1. /\ InLists /\ input \in Seq(SUBSET Lits)
      /\ nextClause = 1 /\ db = <<>> /\ DOMAIN db = {} /\ facts = {} /\ ok
  <2>1. InLists
    BY InitLists
  <2>2. input \in Seq(SUBSET Lits)
    BY FormulasAssumption DEF Init
  <2> QED BY <2>1, <2>2 DEF Init
<1>2. ReallyGone = {}
  BY DEF Init, ReallyGone
<1>3. Left = File
  <2>1. Clauses = {} /\ FactsBut(ReallyGone) = {}
    BY <1>1 DEF Clauses, FactsBut
  <2>2. Unread = File
    BY <1>1 DEF Unread, File
  <2> QED BY <2>1, <2>2 DEF Left
<1>4. File \in SUBSET SUBSET Lits
  BY <1>1 DEF File
<1> QED
  BY <1>1, <1>2, <1>3, <1>4, SameMeaning DEF Rules!Init, Left, FactsBut, File

\* The options stay as they are given.
LEMMA OptionStays == [Next]_vars => option' = option
  BY DEF Next, Step, vars, Load, Eliminate, GatherTouchedClauses, Cleanup, NextInQueue,
     Compare, NoCandidates, CheckDone, Pick, HeapEmpty, AsymmVar, AsymmDone, EliminateVar,
     AddResolvent, RemoveOccurrences, Interrupt, file

\* Without -rcheck the preprocessor implements the rules of ElimRules: every step keeps
\* the models of what is left, eliminates a variable whose resolvents all follow from
\* the clauses that stay, or reports a contradiction that is there.
THEOREM RulesImplemented == Spec /\ ~option.rcheck => ImplementsRules
<1>1. InPreprocessing /\ InPreprocessing' /\ ~option.rcheck /\ [Next]_vars => RulesStep
  <2> SUFFICES ASSUME InPreprocessing, InPreprocessing', ~option.rcheck, [Next]_vars
               PROVE  RulesStep
    OBVIOUS
  <2>1. InLists /\ InLists' /\ Resolving
    BY DEF InPreprocessing
  <2>2. CASE RemoveOccurrences
    BY <2>1, <2>2, EliminationIsSeen
  <2>3. CASE Next /\ ~RemoveOccurrences
    BY <2>1, <2>3, StepRewrites, RewritesSeen
  <2>4. CASE UNCHANGED vars
    <3>1. UNCHANGED <<File, SeenClauses, ReallyGone, SeenAnswer>>
      BY <2>4 DEF vars, File, SeenClauses, SeenAnswer, Left, Clauses, Unread, FactsBut, ReallyGone
    <3> QED BY <3>1, SeenAs
  <2> QED BY <2>2, <2>3, <2>4
<1>2. RulesStep <=> [Rules!Next]_(Rules!rulesVars)
  BY DEF RulesStep
<1>3. ~option.rcheck /\ [Next]_vars => ~(option.rcheck)'
  BY OptionStays
<1> QED
  BY <1>1, <1>2, <1>3, InitSeen, PreprocessingHolds, PTL DEF Spec, ImplementsRules, Rules!Spec


-----------------------------------------------------------------------------
\* No model of the file is lost.
Lossless ==
  IF ok THEN \A A \in Assignments : Models(A, File) => Models(A, Left)
        ELSE ~Satisfiable(File)

\* A step loses none.
LEMMA StepLossless ==
  ASSUME InLists, InLists', ~option.rcheck, Lossless, [Next]_vars
  PROVE  Lossless'
<1>1. CASE Next /\ ~RemoveOccurrences
  <2>1. Rewrites
    BY <1>1, StepRewrites
  <2>2. CASE ok'
    <3>1. \A A \in Assignments : Models(A, File') => Models(A, Left')
      BY <2>1, <2>2 DEF Rewrites, Lossless
    <3> QED BY <2>2, <3>1 DEF Lossless, Models, Satisfies, Holds
  <2>3. CASE ~ok'
    <3>1. ~Satisfiable(File')
      BY <2>1, <2>3 DEF Rewrites, Lossless, Satisfiable
    <3> QED BY <2>3, <3>1 DEF Lossless, Satisfiable, Models, Satisfies, Holds
  <2> QED BY <2>2, <2>3
<1>2. CASE RemoveOccurrences
  <2>1. ok /\ ok' /\ File' = File /\ Left' \subseteq Left
    BY <1>2, EliminationIs, LeftAround DEF File
  <2>2. \A A \in Assignments : Models(A, File') => Models(A, Left')
    BY <2>1 DEF Lossless, Models
  <2> QED BY <2>1, <2>2 DEF Lossless, Models, Satisfies, Holds
<1>3. CASE UNCHANGED vars
  <2>1. File' = File /\ Left' = Left /\ ok' = ok
    BY <1>3 DEF vars, File, Left, Clauses, Unread, FactsBut, ReallyGone
  <2> QED BY <2>1 DEF Lossless, Satisfiable, Models, Satisfies, Holds
<1> QED BY <1>1, <1>2, <1>3

\* Without -rcheck eliminate reports a contradiction only of files that have no model.
THEOREM ContradictionsReal == Spec => [](~option.rcheck => (~ok => ~Satisfiable(File)))
<1>1. Init => Lossless
  <2> SUFFICES ASSUME Init PROVE Lossless
    OBVIOUS
  <2>1. DOMAIN db = {} /\ facts = {} /\ ok /\ nextClause = 1
    BY DEF Init
  <2>2. Left = File
    BY <2>1 DEF Left, File, Clauses, Unread, FactsBut
  <2> QED BY <2>1, <2>2 DEF Lossless
<1>2. InLists /\ InLists' /\ (option.rcheck \/ Lossless) /\ [Next]_vars
        => (option.rcheck \/ Lossless)'
  BY OptionStays, StepLossless
<1>3. (option.rcheck \/ Lossless) => (~option.rcheck => (~ok => ~Satisfiable(File)))
  BY DEF Lossless
<1> QED BY <1>1, <1>2, <1>3, ListsHold, PTL DEF Spec
================================================================================

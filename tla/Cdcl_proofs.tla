------------------------------ MODULE Cdcl_proofs ------------------------------
(***************************************************************************)
(* Whatever the variables, the files, the decisions and the clauses that   *)
(* are deleted: propagation misses nothing, every conflict has a first     *)
(* unique implication point, what is learnt is new, and above level 0      *)
(* reasons stay.  The search implements the rules of CDCL, step by step,   *)
(* and so answers no file wrongly.                                         *)
(*                                                                         *)
(* The second half, from the line "The search with vivification" on, is    *)
(* about CdclLcm: vivifying learnt clauses leaves trail, watches and queue *)
(* as the search expects them, and it implements the same rules.           *)
(***************************************************************************)
EXTENDS CdclLcmInvariant, RecursionTheorems, SequenceTheorems, FiniteSetTheorems, TLAPS

\* A literal's negation is a literal of the same variable.
LEMMA NegLit ==
  ASSUME NEW l \in Lits
  PROVE  /\ Neg(l) \in Lits
         /\ Var(l) \in Vars
         /\ Var(Neg(l)) = Var(l)
         /\ Neg(Neg(l)) = l
         /\ Neg(l) # l
<1>1. PICK v \in Vars, b \in BOOLEAN : l = <<v, b>>
  BY DEF Lits
<1>2. Neg(l) = <<v, ~b>> /\ Var(l) = v
  BY <1>1 DEF Neg, Var
<1>3. Neg(l) \in Lits /\ Var(Neg(l)) = v /\ Neg(Neg(l)) = <<v, ~(~b)>>
  BY <1>2 DEF Neg, Var, Lits
<1> QED BY <1>1, <1>2, <1>3

\* Two literals of a variable.
LEMMA SameVar ==
  ASSUME NEW l \in Lits, NEW m \in Lits, Var(l) = Var(m)
  PROVE  m = l \/ m = Neg(l)
  BY DEF Lits, Neg, Var

\* Finite sets with one element, and with more.
LEMMA Single ==
  ASSUME NEW S, Cardinality(S) = 1, IsFiniteSet(S)
  PROVE  \E x : S = {x}
  BY FS_Singleton

LEMMA SingleCard ==
  ASSUME NEW x
  PROVE  Cardinality({x}) = 1
  BY FS_Singleton

LEMMA FiniteLits ==
  /\ IsFiniteSet(Lits)
  /\ \A S : S \subseteq Lits => IsFiniteSet(S)
<1>1. IsFiniteSet(BOOLEAN)
  <2>1. BOOLEAN = {TRUE} \cup {FALSE}
    OBVIOUS
  <2>2. IsFiniteSet({TRUE})
    BY FS_Singleton
  <2> QED BY <2>1, <2>2, FS_AddElement
<1>2. IsFiniteSet(Lits)
  BY <1>1, VarsAssumption, FS_Product DEF Lits
<1> QED BY <1>2, FS_Subset

\* CRefs are numbers, so that of those that are free one is the least.
LEMMA NewRefFree ==
  ASSUME FreeRefs # {}
  PROVE  /\ NewRef \in Refs
         /\ NewRef \notin DOMAIN db
         /\ \A v \in DOMAIN reason : reason[v] # NewRef
<1>1. FreeRefs \subseteq Nat
  BY BoundsAssumption DEF FreeRefs, Refs
<1>2. \E r \in FreeRefs : \A q \in FreeRefs : r <= q
  BY <1>1, LeastNumber
<1>3. NewRef \in FreeRefs
  BY <1>2 DEF NewRef
<1> QED BY <1>3 DEF FreeRefs

-----------------------------------------------------------------------------
\* The trail t with its levels: tl says where they begin, lv at which each variable
\* was assigned.
TrueIn(t) == {t[i] : i \in 1 .. Len(t)}

Cut(t, tl, lv) ==
  /\ t \in Seq(Lits) /\ tl \in Seq(Nat)
  /\ \A i, j \in 1 .. Len(t) : Var(t[i]) = Var(t[j]) => i = j
  /\ \A k \in 1 .. Len(tl) : tl[k] \in 0 .. Len(t) - 1
  /\ \A k, m \in 1 .. Len(tl) : k < m => tl[k] < tl[m]
  /\ DOMAIN lv = {Var(t[i]) : i \in 1 .. Len(t)}
  /\ \A i \in 1 .. Len(t) :
       /\ lv[Var(t[i])] \in 0 .. Len(tl)
       /\ \A k \in 1 .. Len(tl) : k <= lv[Var(t[i])] <=> tl[k] < i

OpenIn(t, l) == l \in Lits /\ \A i \in 1 .. Len(t) : Var(t[i]) # Var(l)

\* The trail of the search, with trail_lim and the levels in vardata, is such a trail.
LEMMA CutIs ==
  ASSUME TypeOK, TrailOK
  PROVE  Cut(trail, trailLim, level)
<1>1. trail \in Seq(Lits) /\ trailLim \in Seq(0 .. Len(trail))
  BY DEF TypeOK
<1>2. trailLim \in Seq(Nat)
  BY <1>1, SeqDef
<1>3. DOMAIN level = {Var(trail[i]) : i \in 1 .. Len(trail)}
  BY DEF TypeOK, TrueLits
<1>4. \A i \in 1 .. Len(trail) : level[Var(trail[i])] \in 0 .. Len(trailLim)
  BY <1>3 DEF TypeOK, DecisionLevel
<1> QED BY <1>1, <1>2, <1>3, <1>4 DEF Cut, TrailOK, Places, DecisionLevel, LevelOf

\* A literal enqueued at the current level.
LEMMA EnqueueCut ==
  ASSUME NEW t, NEW tl, NEW lv, Cut(t, tl, lv), NEW l, OpenIn(t, l)
  PROVE  Cut(Append(t, l), tl, Extend(lv, Var(l), Len(tl)))
<1> DEFINE t2 == Append(t, l)
           lv2 == Extend(lv, Var(l), Len(tl))
<1>1. /\ t \in Seq(Lits) /\ l \in Lits /\ Len(t) \in Nat /\ Len(tl) \in Nat
      /\ t2 \in Seq(Lits) /\ Len(t2) = Len(t) + 1
      /\ \A i \in 1 .. Len(t) : t2[i] = t[i]
      /\ t2[Len(t) + 1] = l
  BY DEF Cut, OpenIn
<1>2. /\ \A i \in 1 .. Len(t) : lv2[Var(t[i])] = lv[Var(t[i])]
      /\ lv2[Var(l)] = Len(tl)
      /\ DOMAIN lv2 = DOMAIN lv \cup {Var(l)}
  BY DEF Extend, Cut, OpenIn
<1> HIDE DEF t2, lv2
<1>0. \A i \in 1 .. Len(t2) : i \in 1 .. Len(t) \/ i = Len(t) + 1
  BY <1>1
<1>3. ASSUME NEW i \in 1 .. Len(t2), NEW j \in 1 .. Len(t2), Var(t2[i]) = Var(t2[j])
      PROVE  i = j
  <2>1. CASE i \in 1 .. Len(t) /\ j \in 1 .. Len(t)
    BY <1>1, <1>3, <2>1 DEF Cut
  <2>2. CASE i = Len(t) + 1 /\ j \in 1 .. Len(t)
    BY <1>1, <1>3, <2>2 DEF OpenIn
  <2>3. CASE i \in 1 .. Len(t) /\ j = Len(t) + 1
    BY <1>1, <1>3, <2>3 DEF OpenIn
  <2> QED BY <1>0, <2>1, <2>2, <2>3
<1>4. \A k \in 1 .. Len(tl) : tl[k] \in 0 .. Len(t2) - 1
  BY <1>1 DEF Cut
<1>5. DOMAIN lv2 = {Var(t2[i]) : i \in 1 .. Len(t2)}
  <2>1. \A i \in 1 .. Len(t) : i \in 1 .. Len(t2)
    BY <1>1
  <2>2. Len(t) + 1 \in 1 .. Len(t2)
    BY <1>1
  <2>3. DOMAIN lv = {Var(t[i]) : i \in 1 .. Len(t)}
    BY DEF Cut
  <2> QED BY <1>0, <1>1, <1>2, <2>1, <2>2, <2>3
<1>6. ASSUME NEW i \in 1 .. Len(t2)
      PROVE  /\ lv2[Var(t2[i])] \in 0 .. Len(tl)
             /\ \A k \in 1 .. Len(tl) : k <= lv2[Var(t2[i])] <=> tl[k] < i
  <2>1. CASE i \in 1 .. Len(t)
    BY <1>1, <1>2, <2>1 DEF Cut
  <2>2. CASE i = Len(t) + 1
    BY <1>1, <1>2, <2>2 DEF Cut
  <2> QED BY <1>1, <2>1, <2>2
<1>7. Cut(t2, tl, lv2)
  BY <1>1, <1>3, <1>4, <1>5, <1>6 DEF Cut
<1> QED BY <1>7 DEF t2, lv2

\* A decision begins a level.
LEMMA DecideCut ==
  ASSUME NEW t, NEW tl, NEW lv, Cut(t, tl, lv), NEW l, OpenIn(t, l)
  PROVE  Cut(Append(t, l), Append(tl, Len(t)), Extend(lv, Var(l), Len(tl) + 1))
<1> DEFINE t2 == Append(t, l)
           tl2 == Append(tl, Len(t))
           lv2 == Extend(lv, Var(l), Len(tl) + 1)
<1>1. /\ t \in Seq(Lits) /\ l \in Lits /\ Len(t) \in Nat /\ Len(tl) \in Nat
      /\ t2 \in Seq(Lits) /\ Len(t2) = Len(t) + 1
      /\ \A i \in 1 .. Len(t) : t2[i] = t[i]
      /\ t2[Len(t) + 1] = l
      /\ tl2 \in Seq(Nat) /\ Len(tl2) = Len(tl) + 1
      /\ \A k \in 1 .. Len(tl) : tl2[k] = tl[k]
      /\ tl2[Len(tl) + 1] = Len(t)
  BY DEF Cut, OpenIn
<1>2. /\ \A i \in 1 .. Len(t) : lv2[Var(t[i])] = lv[Var(t[i])]
      /\ lv2[Var(l)] = Len(tl) + 1
      /\ DOMAIN lv2 = DOMAIN lv \cup {Var(l)}
  BY DEF Extend, Cut, OpenIn
<1> HIDE DEF t2, lv2, tl2
<1>0. \A i \in 1 .. Len(t2) : i \in 1 .. Len(t) \/ i = Len(t) + 1
  BY <1>1
<1>9. \A k \in 1 .. Len(tl2) : k \in 1 .. Len(tl) \/ k = Len(tl) + 1
  BY <1>1
<1>3. ASSUME NEW i \in 1 .. Len(t2), NEW j \in 1 .. Len(t2), Var(t2[i]) = Var(t2[j])
      PROVE  i = j
  <2>1. CASE i \in 1 .. Len(t) /\ j \in 1 .. Len(t)
    BY <1>1, <1>3, <2>1 DEF Cut
  <2>2. CASE i = Len(t) + 1 /\ j \in 1 .. Len(t)
    BY <1>1, <1>3, <2>2 DEF OpenIn
  <2>3. CASE i \in 1 .. Len(t) /\ j = Len(t) + 1
    BY <1>1, <1>3, <2>3 DEF OpenIn
  <2> QED BY <1>0, <2>1, <2>2, <2>3
<1>4. ASSUME NEW k \in 1 .. Len(tl2)
      PROVE  /\ tl2[k] \in 0 .. Len(t2) - 1
             /\ \A m \in 1 .. Len(tl2) : k < m => tl2[k] < tl2[m]
  <2>1. CASE k = Len(tl) + 1
    <3>1. tl2[k] = Len(t)
      BY <1>1, <2>1
    <3>2. \A m \in 1 .. Len(tl2) : ~(k < m)
      BY <1>1, <2>1
    <3> QED BY <1>1, <3>1, <3>2
  <2>2. CASE k \in 1 .. Len(tl)
    <3>1. tl2[k] = tl[k] /\ tl[k] \in 0 .. Len(t) - 1
      BY <1>1, <2>2 DEF Cut
    <3>2. ASSUME NEW m \in 1 .. Len(tl2), k < m PROVE tl2[k] < tl2[m]
      <4>1. CASE m \in 1 .. Len(tl)
        <5>1. tl2[m] = tl[m] /\ tl[k] < tl[m]
          BY <1>1, <2>2, <3>2, <4>1 DEF Cut
        <5> QED BY <3>1, <5>1
      <4>2. CASE m = Len(tl) + 1
        <5>1. tl2[m] = Len(t)
          BY <1>1, <4>2
        <5> QED BY <1>1, <3>1, <5>1
      <4> QED BY <1>9, <4>1, <4>2
    <3> QED BY <1>1, <3>1, <3>2
  <2> QED BY <1>9, <2>1, <2>2
<1>6. DOMAIN lv2 = {Var(t2[i]) : i \in 1 .. Len(t2)}
  <2>1. \A i \in 1 .. Len(t) : i \in 1 .. Len(t2)
    BY <1>1
  <2>2. Len(t) + 1 \in 1 .. Len(t2)
    BY <1>1
  <2>3. DOMAIN lv = {Var(t[i]) : i \in 1 .. Len(t)}
    BY DEF Cut
  <2>4. {Var(t2[i]) : i \in 1 .. Len(t2)} = {Var(t[i]) : i \in 1 .. Len(t)} \cup {Var(l)}
    BY <1>0, <1>1, <2>1, <2>2
  <2> QED BY <1>2, <2>3, <2>4
<1>7. ASSUME NEW i \in 1 .. Len(t2)
      PROVE  /\ lv2[Var(t2[i])] \in 0 .. Len(tl2)
             /\ \A k \in 1 .. Len(tl2) : k <= lv2[Var(t2[i])] <=> tl2[k] < i
  <2>1. CASE i \in 1 .. Len(t)
    <3>1. /\ lv2[Var(t2[i])] = lv[Var(t[i])] /\ lv[Var(t[i])] \in 0 .. Len(tl)
          /\ \A k \in 1 .. Len(tl) : k <= lv[Var(t[i])] <=> tl[k] < i
      BY <1>1, <1>2, <2>1 DEF Cut
    <3>2. ASSUME NEW k \in 1 .. Len(tl2)
          PROVE  k <= lv2[Var(t2[i])] <=> tl2[k] < i
      <4>1. CASE k \in 1 .. Len(tl)
        <5>1. tl2[k] = tl[k]
          BY <1>1, <4>1
        <5> QED BY <3>1, <4>1, <5>1
      <4>2. CASE k = Len(tl) + 1
        <5>1. tl2[k] = Len(t) /\ ~(Len(t) < i)
          BY <1>1, <2>1, <4>2
        <5>2. ~(k <= lv[Var(t[i])])
          BY <1>1, <3>1, <4>2
        <5> QED BY <3>1, <5>1, <5>2
      <4> QED BY <1>9, <4>1, <4>2
    <3>3. lv2[Var(t2[i])] \in 0 .. Len(tl2)
      BY <1>1, <3>1
    <3> QED BY <3>2, <3>3
  <2>2. CASE i = Len(t) + 1
    <3>1. lv2[Var(t2[i])] = Len(tl) + 1
      BY <1>1, <1>2, <2>2
    <3>2. \A k \in 1 .. Len(tl2) : k <= Len(tl) + 1
      BY <1>1
    <3>3. ASSUME NEW k \in 1 .. Len(tl2) PROVE tl2[k] < i
      <4>1. tl2[k] \in 0 .. Len(t2) - 1
        BY <1>4
      <4> QED BY <1>1, <2>2, <4>1
    <3>4. Len(tl) + 1 \in 0 .. Len(tl2)
      BY <1>1
    <3> QED BY <3>1, <3>2, <3>3, <3>4
  <2> QED BY <1>0, <2>1, <2>2
<1>8. Cut(t2, tl2, lv2)
  BY <1>1, <1>3, <1>4, <1>6, <1>7 DEF Cut
<1> QED BY <1>8 DEF t2, lv2, tl2

\* Backjumping takes the levels above k off.
CutBack(t, tl, lv, k, n, t2, tl2, lv2, V) ==
  /\ Cut(t2, tl2, lv2)
  /\ Len(t2) = n /\ Len(tl2) = k /\ n \in 0 .. Len(t) - 1
  /\ \A i \in 1 .. n : t2[i] = t[i]
  /\ \A m \in 1 .. k : tl2[m] = tl[m] /\ tl[m] < n
  /\ DOMAIN lv2 = V
  /\ \A v \in V : lv2[v] = lv[v]
  /\ \A i \in 1 .. Len(t) : /\ i <= n <=> lv[Var(t[i])] <= k
                            /\ i <= n <=> Var(t[i]) \in V

LEMMA CancelCut ==
  ASSUME NEW t, NEW tl, NEW lv, Cut(t, tl, lv), NEW k \in 0 .. Len(tl) - 1
  PROVE  CutBack(t, tl, lv, k, tl[k + 1], SubSeq(t, 1, tl[k + 1]), SubSeq(tl, 1, k),
                 Only(lv, {Var(t[i]) : i \in 1 .. tl[k + 1]}),
                 {Var(t[i]) : i \in 1 .. tl[k + 1]})
<1> DEFINE n == tl[k + 1]
           t2 == SubSeq(t, 1, n)
           tl2 == SubSeq(tl, 1, k)
           V == {Var(t[i]) : i \in 1 .. n}
           lv2 == Only(lv, V)
<1>1. /\ t \in Seq(Lits) /\ Len(t) \in Nat /\ Len(tl) \in Nat /\ tl \in Seq(Nat)
      /\ k + 1 \in 1 .. Len(tl) /\ n \in 0 .. Len(t) - 1
  BY DEF Cut
<1>2. /\ t2 \in Seq(Lits) /\ Len(t2) = n /\ \A i \in 1 .. n : t2[i] = t[i]
  BY <1>1
<1>3. /\ tl2 \in Seq(Nat) /\ Len(tl2) = k /\ \A m \in 1 .. k : tl2[m] = tl[m]
  BY <1>1
<1>4. \A m \in 1 .. k : tl[m] < n /\ tl[m] \in 0 .. Len(t) - 1
  BY <1>1 DEF Cut
<1>5. V \subseteq DOMAIN lv /\ DOMAIN lv2 = V /\ \A v \in V : lv2[v] = lv[v]
  BY <1>1 DEF Cut, Only
<1>6. ASSUME NEW i \in 1 .. Len(t) PROVE i <= n <=> lv[Var(t[i])] <= k
  <2>1. lv[Var(t[i])] \in 0 .. Len(tl) /\ (k + 1 <= lv[Var(t[i])] <=> n < i)
    BY <1>1 DEF Cut
  <2> QED BY <1>1, <2>1
<1>7. ASSUME NEW i \in 1 .. Len(t) PROVE i <= n <=> Var(t[i]) \in V
  <2>1. \A j \in 1 .. Len(t) : Var(t[i]) = Var(t[j]) => i = j
    BY DEF Cut
  <2>2. ASSUME Var(t[i]) \in V PROVE i <= n
    <3>1. PICK j \in 1 .. n : Var(t[i]) = Var(t[j])
      BY <2>2
    <3>2. i = j
      BY <1>1, <2>1, <3>1
    <3> QED BY <3>1, <3>2
  <2>3. i <= n => i \in 1 .. n
    BY <1>1
  <2> QED BY <2>2, <2>3
<1> HIDE DEF n, t2, tl2, V, lv2
<1>14. /\ \A i \in 1 .. Len(t2) : i \in 1 .. n /\ i \in 1 .. Len(t) /\ t2[i] = t[i]
       /\ \A i \in 1 .. n : i \in 1 .. Len(t2)
       /\ \A m \in 1 .. Len(tl2) : m \in 1 .. k /\ m \in 1 .. Len(tl) /\ tl2[m] = tl[m]
  <2>1. \A i \in 1 .. n : i \in 1 .. Len(t)
    BY <1>1
  <2>2. \A m \in 1 .. k : m \in 1 .. Len(tl)
    BY <1>1
  <2> QED BY <1>2, <1>3, <2>1, <2>2
<1>8. ASSUME NEW i \in 1 .. Len(t2), NEW j \in 1 .. Len(t2), Var(t2[i]) = Var(t2[j])
      PROVE  i = j
  BY <1>8, <1>14 DEF Cut
<1>9. \A m \in 1 .. Len(tl2) : tl2[m] \in 0 .. Len(t2) - 1
  <2> SUFFICES ASSUME NEW m \in 1 .. Len(tl2) PROVE tl2[m] \in 0 .. Len(t2) - 1
    OBVIOUS
  <2>1. tl2[m] = tl[m] /\ tl[m] < n /\ tl[m] \in 0 .. Len(t) - 1
    BY <1>4, <1>14
  <2> QED BY <1>1, <1>2, <2>1
<1>10. ASSUME NEW m \in 1 .. Len(tl2), NEW q \in 1 .. Len(tl2), m < q
       PROVE  tl2[m] < tl2[q]
  <2>1. m \in 1 .. Len(tl) /\ q \in 1 .. Len(tl) /\ tl2[m] = tl[m] /\ tl2[q] = tl[q]
    BY <1>14
  <2> QED BY <1>10, <2>1 DEF Cut
<1>11. DOMAIN lv2 = {Var(t2[i]) : i \in 1 .. Len(t2)}
  <2>1. V = {Var(t2[i]) : i \in 1 .. Len(t2)}
    BY <1>2, <1>14 DEF V
  <2> QED BY <1>5, <2>1
<1>12. ASSUME NEW i \in 1 .. Len(t2)
       PROVE  /\ lv2[Var(t2[i])] \in 0 .. Len(tl2)
              /\ \A m \in 1 .. Len(tl2) : m <= lv2[Var(t2[i])] <=> tl2[m] < i
  <2>1. t2[i] = t[i] /\ i \in 1 .. Len(t) /\ i \in 1 .. n
    BY <1>14
  <2>2. Var(t[i]) \in V
    BY <2>1 DEF V
  <2>3. lv2[Var(t2[i])] = lv[Var(t[i])] /\ lv[Var(t[i])] <= k
    BY <1>1, <1>5, <1>6, <2>1, <2>2
  <2>4. /\ lv[Var(t[i])] \in 0 .. Len(tl)
        /\ \A m \in 1 .. Len(tl) : m <= lv[Var(t[i])] <=> tl[m] < i
    BY <2>1 DEF Cut
  <2>5. lv2[Var(t2[i])] \in 0 .. Len(tl2)
    BY <1>1, <1>3, <2>3, <2>4
  <2>6. ASSUME NEW m \in 1 .. Len(tl2)
        PROVE  m <= lv2[Var(t2[i])] <=> tl2[m] < i
    BY <1>14, <2>3, <2>4
  <2> QED BY <2>5, <2>6
<1>13. Cut(t2, tl2, lv2)
  BY <1>2, <1>3, <1>8, <1>9, <1>10, <1>11, <1>12 DEF Cut
<1>15. CutBack(t, tl, lv, k, n, t2, tl2, lv2, V)
  BY <1>1, <1>2, <1>3, <1>4, <1>5, <1>6, <1>7, <1>13 DEF CutBack
<1> QED BY <1>15 DEF n, t2, tl2, V, lv2

\* What a trail says of the literals.
LEMMA CutFacts ==
  ASSUME NEW t, NEW tl, NEW lv, Cut(t, tl, lv)
  PROVE  /\ Len(t) \in Nat /\ Len(tl) \in Nat
         /\ \A i \in 1 .. Len(t) : t[i] \in Lits /\ t[i] \in TrueIn(t)
         /\ TrueIn(t) \subseteq Lits
         /\ \A l \in Lits : ~(l \in TrueIn(t) /\ Neg(l) \in TrueIn(t))
         /\ \A l \in Lits : OpenIn(t, l) <=> l \notin TrueIn(t) /\ Neg(l) \notin TrueIn(t)
         /\ \A l \in Lits : Var(l) \in DOMAIN lv <=> l \in TrueIn(t) \/ Neg(l) \in TrueIn(t)
         /\ DOMAIN lv = {Var(l) : l \in TrueIn(t)}
         /\ \A v \in DOMAIN lv : lv[v] \in 0 .. Len(tl)
<1>1. /\ Len(t) \in Nat /\ Len(tl) \in Nat
      /\ \A i \in 1 .. Len(t) : t[i] \in Lits /\ t[i] \in TrueIn(t)
      /\ TrueIn(t) \subseteq Lits
  BY DEF Cut, TrueIn
<1>2. ASSUME NEW l \in Lits, l \in TrueIn(t), Neg(l) \in TrueIn(t) PROVE FALSE
  <2>1. PICK i \in 1 .. Len(t) : t[i] = l
    BY <1>2 DEF TrueIn
  <2>2. PICK j \in 1 .. Len(t) : t[j] = Neg(l)
    BY <1>2 DEF TrueIn
  <2>3. i = j
    BY <2>1, <2>2, NegLit DEF Cut
  <2> QED BY <2>1, <2>2, <2>3, NegLit
<1>3. ASSUME NEW l \in Lits
      PROVE  OpenIn(t, l) <=> l \notin TrueIn(t) /\ Neg(l) \notin TrueIn(t)
  <2>1. ASSUME NEW i \in 1 .. Len(t), Var(t[i]) = Var(l)
        PROVE  t[i] = l \/ t[i] = Neg(l)
    BY <1>1, <2>1, SameVar
  <2>2. ASSUME NEW i \in 1 .. Len(t), t[i] = l \/ t[i] = Neg(l)
        PROVE  Var(t[i]) = Var(l)
    BY <2>2, NegLit
  <2> QED BY <2>1, <2>2 DEF OpenIn, TrueIn
<1>4. DOMAIN lv = {Var(t[i]) : i \in 1 .. Len(t)}
  BY DEF Cut
<1>5. ASSUME NEW l \in Lits
      PROVE  Var(l) \in DOMAIN lv <=> l \in TrueIn(t) \/ Neg(l) \in TrueIn(t)
  BY <1>3, <1>4 DEF OpenIn
<1>6. DOMAIN lv = {Var(l) : l \in TrueIn(t)}
  BY <1>4 DEF TrueIn
<1>7. \A v \in DOMAIN lv : lv[v] \in 0 .. Len(tl)
  BY <1>4 DEF Cut
<1> QED BY <1>1, <1>2, <1>3, <1>5, <1>6, <1>7

\* A trail is no longer than there are variables.
LEMMA TrailShort ==
  ASSUME NEW t, NEW tl, NEW lv, Cut(t, tl, lv)
  PROVE  Len(t) <= Cardinality(Vars) /\ Cardinality(Vars) \in Nat
<1>1. Len(t) \in Nat
  BY CutFacts
<1> DEFINE f == [i \in 1 .. Len(t) |-> Var(t[i])]
<1>2. f \in [1 .. Len(t) -> Vars]
  BY CutFacts, NegLit
<1>3. IsInjective(f)
  BY DEF Cut, IsInjective
<1>4. IsFiniteSet(1 .. Len(t)) /\ Cardinality(1 .. Len(t)) = Len(t)
  <2>1. 1 \in Int /\ Len(t) \in Int
    BY <1>1
  <2>2. /\ IsFiniteSet(1 .. Len(t))
        /\ Cardinality(1 .. Len(t)) = IF 1 > Len(t) THEN 0 ELSE Len(t) - 1 + 1
    BY <2>1, FS_Interval
  <2> QED BY <1>1, <2>2
<1>5. f \in Injection(1 .. Len(t), Vars)
  BY <1>2, <1>3 DEF Injection
<1>7. Cardinality(1 .. Len(t)) <= Cardinality(Vars)
  <2> HIDE DEF f
  <2> QED BY <1>5, VarsAssumption, FS_Injection
<1> QED BY <1>4, <1>7, VarsAssumption, FS_CardinalityType

\* The rest of the type.
Counters ==
  /\ input \in Formulas
  /\ nextClause \in 1 .. Len(input) + 1
  /\ DOMAIN db \subseteq Refs /\ \A r \in DOMAIN db : db[r] \in Clauses
  /\ visit \subseteq DOMAIN db
  /\ confl \in Refs \cup {Undef}
  /\ conflictC \in BOOLEAN
  /\ simpAssigns \in -1 .. Cardinality(Vars)
  /\ reductions \in 0 .. MaxReductions(input)
  /\ adapt \in BOOLEAN
  /\ pc \in PCs
  /\ status \in {"none", "SAT", "UNSAT"}

ReasonType == /\ DOMAIN reason = DOMAIN level
              /\ \A v \in DOMAIN reason : reason[v] \in Refs \cup {Undef}

\* The types after a step: what the trail says, and the counters.
LEMMA FoldTypes ==
  ASSUME Cut(trail', trailLim', level'), ReasonType', Counters', (qhead \in 0 .. Len(trail))'
  PROVE  TypeOK' /\ TrailOK'
<1>1. Len(trail') <= Cardinality(Vars)
  BY TrailShort
<1>2. DOMAIN level' = {Var(l) : l \in TrueLits'}
  BY CutFacts DEF TrueLits, TrueIn
<1>3. trailLim' \in Seq(0 .. Len(trail'))
  <2>1. trailLim' \in Seq(Nat) /\ \A k \in 1 .. Len(trailLim') : trailLim'[k] \in 0 .. Len(trail') - 1
    BY DEF Cut
  <2>2. \A k \in 1 .. Len(trailLim') : trailLim'[k] \in 0 .. Len(trail')
    BY <2>1, CutFacts
  <2> QED BY <2>1, <2>2
<1>4. \A v \in DOMAIN level' : level'[v] \in 0 .. DecisionLevel'
  BY CutFacts DEF DecisionLevel
<1>5. trail' \in Seq(Lits)
  BY DEF Cut
<1>6. TypeOK'
  BY <1>1, <1>2, <1>3, <1>4, <1>5 DEF TypeOK, Counters, ReasonType
<1>7. TrailOK'
  BY DEF TrailOK, Cut, Places, DecisionLevel, LevelOf
<1> QED BY <1>6, <1>7

\* The literals in a state of the search.
LEMMA Literals ==
  ASSUME TypeOK, TrailOK
  PROVE  /\ Cut(trail, trailLim, level) /\ ReasonType /\ Counters
         /\ Len(trail) \in Nat /\ DecisionLevel \in Nat /\ qhead \in 0 .. Len(trail)
         /\ \A i \in Places : trail[i] \in Lits /\ IsTrue(trail[i])
         /\ TrueLits \subseteq Lits
         /\ \A l \in Lits : ~(IsTrue(l) /\ IsFalse(l))
         /\ \A l \in Lits : IsOpen(l) <=> OpenIn(trail, l)
         /\ \A l \in Lits : Var(l) \in DOMAIN level <=> IsTrue(l) \/ IsFalse(l)
         /\ \A v \in DOMAIN level : level[v] \in 0 .. DecisionLevel
         /\ \A l \in Lits : IsTrue(l) \/ IsFalse(l) => LevelOf(l) \in 0 .. DecisionLevel
         /\ \A r \in DOMAIN db : /\ db[r].w[1] \in Lits /\ db[r].w[2] \in Lits
                                  /\ db[r].rest \subseteq Lits
                                  /\ LitsOf(db[r]) \subseteq Lits
<1>1. Cut(trail, trailLim, level)
  BY CutIs
<1>2. ReasonType /\ Counters /\ qhead \in 0 .. Len(trail)
  BY DEF TypeOK, ReasonType, Counters
<1>3. TrueLits = TrueIn(trail)
  BY DEF TrueLits, TrueIn
<1>4. /\ Len(trail) \in Nat /\ DecisionLevel \in Nat
      /\ \A i \in Places : trail[i] \in Lits /\ IsTrue(trail[i])
      /\ TrueLits \subseteq Lits
      /\ \A l \in Lits : ~(IsTrue(l) /\ IsFalse(l))
      /\ \A l \in Lits : IsOpen(l) <=> OpenIn(trail, l)
      /\ \A l \in Lits : Var(l) \in DOMAIN level <=> IsTrue(l) \/ IsFalse(l)
      /\ \A v \in DOMAIN level : level[v] \in 0 .. DecisionLevel
  BY <1>1, <1>3, CutFacts DEF DecisionLevel, Places, IsTrue, IsFalse, IsOpen
<1>5. ASSUME NEW r \in DOMAIN db
      PROVE  /\ db[r].w[1] \in Lits /\ db[r].w[2] \in Lits
             /\ db[r].rest \subseteq Lits /\ LitsOf(db[r]) \subseteq Lits
  <2>1. db[r] \in Clauses
    BY DEF TypeOK
  <2>2. db[r].w \in Lits \X Lits /\ db[r].rest \subseteq Lits
    BY <2>1 DEF Clauses
  <2>3. db[r].w[1] \in Lits /\ db[r].w[2] \in Lits
    BY <2>2
  <2> QED BY <2>2, <2>3 DEF LitsOf
<1>6. ASSUME NEW l \in Lits, IsTrue(l) \/ IsFalse(l) PROVE LevelOf(l) \in 0 .. DecisionLevel
  BY <1>4, <1>6 DEF LevelOf
<1> QED BY <1>1, <1>2, <1>4, <1>5, <1>6

-----------------------------------------------------------------------------
\* What becomes of the trail: l is put after it at level k, for the reason from ...
Grows(l, from, k) ==
  /\ Len(trail') = Len(trail) + 1
  /\ \A i \in Places : trail'[i] = trail[i]
  /\ trail'[Len(trail) + 1] = l
  /\ TrueLits' = TrueLits \cup {l}
  /\ DOMAIN level' = DOMAIN level \cup {Var(l)}
  /\ \A v \in DOMAIN level : v # Var(l) /\ level'[v] = level[v] /\ reason'[v] = reason[v]
  /\ level'[Var(l)] = k /\ reason'[Var(l)] = from

\* uncheckedEnqueue grows the trail at the current level,
LEMMA EnqueueGrows ==
  ASSUME TypeOK, TrailOK, NEW l \in Lits, IsOpen(l), NEW from \in Refs \cup {Undef},
         UncheckedEnqueue(l, from), trailLim' = trailLim
  PROVE  Cut(trail', trailLim', level') /\ ReasonType' /\ Grows(l, from, DecisionLevel)
<1>1. /\ Cut(trail, trailLim, level) /\ ReasonType /\ OpenIn(trail, l)
      /\ Var(l) \notin DOMAIN level /\ trail \in Seq(Lits)
      /\ DOMAIN level = DOMAIN reason
  BY Literals DEF Cut, IsOpen, ReasonType
<1>2. /\ trail' = Append(trail, l) /\ level' = Extend(level, Var(l), Len(trailLim))
      /\ reason' = Extend(reason, Var(l), from)
  BY DEF UncheckedEnqueue, DecisionLevel
<1>3. Cut(trail', trailLim', level')
  BY <1>1, <1>2, EnqueueCut
<1>4. /\ Len(trail') = Len(trail) + 1
      /\ \A i \in Places : trail'[i] = trail[i]
      /\ trail'[Len(trail) + 1] = l
  BY <1>1, <1>2 DEF Places
<1>5. TrueLits' = TrueLits \cup {l}
  <2>1. \A i \in 1 .. Len(trail') : i \in Places \/ i = Len(trail) + 1
    BY <1>1, <1>4 DEF Places
  <2>2. \A i \in Places : i \in 1 .. Len(trail')
    BY <1>1, <1>4 DEF Places
  <2>3. Len(trail) + 1 \in 1 .. Len(trail')
    BY <1>1, <1>4
  <2> QED BY <1>4, <2>1, <2>2, <2>3 DEF TrueLits, Places
<1>6. /\ DOMAIN level' = DOMAIN level \cup {Var(l)} /\ DOMAIN reason' = DOMAIN reason \cup {Var(l)}
      /\ \A v \in DOMAIN level : v # Var(l) /\ level'[v] = level[v] /\ reason'[v] = reason[v]
      /\ level'[Var(l)] = DecisionLevel /\ reason'[Var(l)] = from
  BY <1>1, <1>2 DEF Extend, DecisionLevel
<1>7. ReasonType'
  BY <1>1, <1>6 DEF ReasonType
<1> QED BY <1>3, <1>4, <1>5, <1>6, <1>7 DEF Grows

\* and newDecisionLevel with uncheckedEnqueue at a new one.
LEMMA DecideGrows ==
  ASSUME TypeOK, TrailOK, NEW l \in Lits, IsOpen(l),
         trail' = Append(trail, l), trailLim' = Append(trailLim, Len(trail)),
         reason' = Extend(reason, Var(l), Undef),
         level' = Extend(level, Var(l), DecisionLevel + 1)
  PROVE  /\ Cut(trail', trailLim', level') /\ ReasonType'
         /\ Grows(l, Undef, DecisionLevel + 1)
         /\ DecisionLevel' = DecisionLevel + 1 /\ trailLim'[DecisionLevel + 1] = Len(trail)
         /\ \A k \in 1 .. DecisionLevel : trailLim'[k] = trailLim[k]
<1>1. /\ Cut(trail, trailLim, level) /\ ReasonType /\ OpenIn(trail, l)
      /\ Var(l) \notin DOMAIN level /\ trail \in Seq(Lits)
      /\ DOMAIN level = DOMAIN reason /\ trailLim \in Seq(Nat)
  BY Literals DEF Cut, IsOpen, ReasonType
<1>3. Cut(trail', trailLim', level')
  BY <1>1, DecideCut DEF DecisionLevel
<1>4. /\ Len(trail') = Len(trail) + 1
      /\ \A i \in Places : trail'[i] = trail[i]
      /\ trail'[Len(trail) + 1] = l
  BY <1>1 DEF Places
<1>5. TrueLits' = TrueLits \cup {l}
  <2>1. \A i \in 1 .. Len(trail') : i \in Places \/ i = Len(trail) + 1
    BY <1>1, <1>4 DEF Places
  <2>2. \A i \in Places : i \in 1 .. Len(trail')
    BY <1>1, <1>4 DEF Places
  <2>3. Len(trail) + 1 \in 1 .. Len(trail')
    BY <1>1, <1>4
  <2> QED BY <1>4, <2>1, <2>2, <2>3 DEF TrueLits, Places
<1>6. /\ DOMAIN level' = DOMAIN level \cup {Var(l)} /\ DOMAIN reason' = DOMAIN reason \cup {Var(l)}
      /\ \A v \in DOMAIN level : v # Var(l) /\ level'[v] = level[v] /\ reason'[v] = reason[v]
      /\ level'[Var(l)] = DecisionLevel + 1 /\ reason'[Var(l)] = Undef
  BY <1>1 DEF Extend
<1>7. ReasonType'
  BY <1>1, <1>6 DEF ReasonType
<1>8. /\ DecisionLevel' = DecisionLevel + 1 /\ trailLim'[DecisionLevel + 1] = Len(trail)
      /\ \A k \in 1 .. DecisionLevel : trailLim'[k] = trailLim[k]
  BY <1>1 DEF DecisionLevel
<1> QED BY <1>3, <1>4, <1>5, <1>6, <1>7, <1>8 DEF Grows

\* ... or it is cut to what is not above level k.
Shrinks(k) ==
  /\ trailLim[k + 1] \in 0 .. Len(trail) - 1
  /\ Len(trail') = trailLim[k + 1] /\ DecisionLevel' = k
  /\ \A i \in 1 .. trailLim[k + 1] : trail'[i] = trail[i]
  /\ \A i \in Places : i <= trailLim[k + 1] <=> LevelOf(trail[i]) <= k
  /\ \A m \in 1 .. k : trailLim'[m] = trailLim[m] /\ trailLim[m] < trailLim[k + 1]
  /\ TrueLits' = {l \in TrueLits : LevelOf(l) <= k}
  /\ DOMAIN level' = KeptVars(k) /\ KeptVars(k) \subseteq DOMAIN level
  /\ \A v \in KeptVars(k) : level'[v] = level[v] /\ level[v] <= k

\* cancelUntil.
LEMMA CancelShrinks ==
  ASSUME TypeOK, TrailOK, NEW k \in 0 .. DecisionLevel - 1,
         trail' = KeptTrail(k), trailLim' = SubSeq(trailLim, 1, k),
         level' = Only(level, KeptVars(k))
  PROVE  Cut(trail', trailLim', level') /\ Shrinks(k)
<1>1. Cut(trail, trailLim, level) /\ k \in 0 .. Len(trailLim) - 1 /\ Len(trail) \in Nat
  BY Literals DEF DecisionLevel
<1>2. /\ Cut(trail', trailLim', level')
      /\ Len(trail') = trailLim[k + 1] /\ DecisionLevel' = k
      /\ trailLim[k + 1] \in 0 .. Len(trail) - 1
      /\ \A i \in 1 .. trailLim[k + 1] : trail'[i] = trail[i]
      /\ \A m \in 1 .. k : trailLim'[m] = trailLim[m] /\ trailLim[m] < trailLim[k + 1]
      /\ DOMAIN level' = KeptVars(k)
      /\ \A v \in KeptVars(k) : level'[v] = level[v]
      /\ \A i \in 1 .. Len(trail) : /\ i <= trailLim[k + 1] <=> level[Var(trail[i])] <= k
                                    /\ i <= trailLim[k + 1] <=> Var(trail[i]) \in KeptVars(k)
  <2>1. /\ trail' = SubSeq(trail, 1, trailLim[k + 1])
        /\ trailLim' = SubSeq(trailLim, 1, k)
        /\ level' = Only(level, {Var(trail[i]) : i \in 1 .. trailLim[k + 1]})
        /\ KeptVars(k) = {Var(trail[i]) : i \in 1 .. trailLim[k + 1]}
    BY DEF KeptTrail, KeptVars
  <2>2. CutBack(trail, trailLim, level, k, trailLim[k + 1], trail', trailLim', level',
                KeptVars(k))
    <3> HIDE DEF KeptVars
    <3> QED BY <1>1, <2>1, CancelCut
  <2> QED BY <2>2 DEF CutBack, DecisionLevel
<1>3. \A i \in Places : i <= trailLim[k + 1] <=> LevelOf(trail[i]) <= k
  BY <1>2 DEF Places, LevelOf
<1>4. \A i \in 1 .. trailLim[k + 1] : i \in Places
  BY <1>1, <1>2 DEF Places
<1>5. TrueLits' = {l \in TrueLits : LevelOf(l) <= k}
  <2>1. TrueLits' = {trail[i] : i \in 1 .. trailLim[k + 1]}
    BY <1>2 DEF TrueLits
  <2>2. ASSUME NEW l \in TrueLits' PROVE l \in TrueLits /\ LevelOf(l) <= k
    <3>1. PICK i \in 1 .. trailLim[k + 1] : l = trail[i]
      BY <2>1
    <3>2. i \in Places /\ i <= trailLim[k + 1]
      BY <1>2, <1>4
    <3> QED BY <1>3, <3>1, <3>2 DEF TrueLits, Places
  <2>3. ASSUME NEW l \in TrueLits, LevelOf(l) <= k PROVE l \in TrueLits'
    <3>1. PICK i \in Places : l = trail[i]
      BY DEF TrueLits, Places
    <3>2. i <= trailLim[k + 1]
      BY <1>3, <2>3, <3>1
    <3>3. i \in 1 .. trailLim[k + 1]
      BY <1>1, <1>2, <3>2 DEF Places
    <3> QED BY <2>1, <3>1, <3>3
  <2> QED BY <2>2, <2>3
<1>6. ASSUME NEW v \in KeptVars(k) PROVE v \in DOMAIN level /\ level[v] <= k
  <2>1. PICK i \in 1 .. trailLim[k + 1] : v = Var(trail[i])
    BY DEF KeptVars
  <2>2. i \in Places /\ i <= trailLim[k + 1]
    BY <1>2, <1>4
  <2>3. Var(trail[i]) \in DOMAIN level
    BY <1>1, <2>2 DEF Cut, Places
  <2> QED BY <1>3, <2>1, <2>2, <2>3 DEF LevelOf
<1> QED BY <1>2, <1>3, <1>5, <1>6 DEF Shrinks

\* ... or both.
Jumps(k, l, from) ==
  /\ trailLim[k + 1] \in 0 .. Len(trail) - 1
  /\ Len(trail') = trailLim[k + 1] + 1 /\ DecisionLevel' = k
  /\ \A i \in 1 .. trailLim[k + 1] : trail'[i] = trail[i]
  /\ trail'[trailLim[k + 1] + 1] = l
  /\ \A i \in Places : i <= trailLim[k + 1] <=> LevelOf(trail[i]) <= k
  /\ \A m \in 1 .. k : trailLim'[m] = trailLim[m] /\ trailLim[m] < trailLim[k + 1]
  /\ TrueLits' = {m \in TrueLits : LevelOf(m) <= k} \cup {l}
  /\ DOMAIN level' = KeptVars(k) \cup {Var(l)} /\ KeptVars(k) \subseteq DOMAIN level
  /\ Var(l) \notin KeptVars(k)
  /\ \A v \in KeptVars(k) : /\ level'[v] = level[v] /\ level[v] <= k
                             /\ reason'[v] = reason[v]
  /\ level'[Var(l)] = k /\ reason'[Var(l)] = from

\* cancelUntil and uncheckedEnqueue, after a conflict.
LEMMA EnqueueJumps ==
  ASSUME TypeOK, TrailOK, NEW k \in 0 .. DecisionLevel - 1,
         NEW l \in Lits, IsFalse(l), LevelOf(l) > k, NEW from \in Refs \cup {Undef},
         CancelAndEnqueue(k, l, from)
  PROVE  Cut(trail', trailLim', level') /\ ReasonType' /\ Jumps(k, l, from)
<1> DEFINE n == trailLim[k + 1]
           t1 == KeptTrail(k)
           lv1 == Only(level, KeptVars(k))
           tl1 == SubSeq(trailLim, 1, k)
<1>1. /\ Cut(trail, trailLim, level) /\ k \in 0 .. Len(trailLim) - 1 /\ Len(trail) \in Nat
      /\ ReasonType
  BY Literals DEF DecisionLevel
<1>2. CutBack(trail, trailLim, level, k, n, t1, tl1, lv1, KeptVars(k))
  BY <1>1, CancelCut DEF KeptTrail, KeptVars
<1>3. /\ trail' = Append(t1, l) /\ trailLim' = tl1
      /\ level' = Extend(lv1, Var(l), k)
      /\ reason' = Extend(Only(reason, KeptVars(k)), Var(l), from)
  BY DEF CancelAndEnqueue
<1> HIDE DEF n, t1, lv1, tl1
<1>4. Cut(t1, tl1, lv1) /\ Len(t1) = n /\ Len(tl1) = k /\ n \in 0 .. Len(trail) - 1
  BY <1>2 DEF CutBack
<1>5. \A i \in 1 .. n : i \in Places /\ t1[i] = trail[i]
  BY <1>1, <1>2, <1>4 DEF CutBack, Places
<1>6. \A i \in Places : /\ i <= n <=> LevelOf(trail[i]) <= k
                        /\ i <= n <=> Var(trail[i]) \in KeptVars(k)
  BY <1>2 DEF CutBack, Places, LevelOf
<1>7. Var(l) \notin KeptVars(k) /\ OpenIn(t1, l)
  <2>1. PICK j \in Places : trail[j] = Neg(l)
    BY DEF IsFalse, TrueLits, Places
  <2>2. Var(trail[j]) = Var(l)
    BY <2>1, NegLit
  <2>3. ~(j <= n)
    BY <1>1, <1>6, <2>2, Literals DEF LevelOf
  <2>4. Var(l) \notin KeptVars(k)
    BY <1>6, <2>2, <2>3
  <2>5. ASSUME NEW i \in 1 .. Len(t1) PROVE Var(t1[i]) # Var(l)
    <3>1. i \in Places /\ t1[i] = trail[i] /\ i <= n
      BY <1>1, <1>4, <1>5
    <3> QED BY <1>6, <2>4, <3>1
  <2> QED BY <2>4, <2>5 DEF OpenIn
<1>8. Cut(trail', trailLim', level')
  BY <1>3, <1>4, <1>7, EnqueueCut
<1>9. t1 \in Seq(Lits) /\ n \in Nat
  BY <1>4 DEF Cut
<1>10. /\ Len(trail') = n + 1 /\ DecisionLevel' = k
       /\ \A i \in 1 .. n : trail'[i] = trail[i]
       /\ trail'[n + 1] = l
  BY <1>3, <1>4, <1>5, <1>9 DEF DecisionLevel
<1>11. \A m \in 1 .. k : trailLim'[m] = trailLim[m] /\ trailLim[m] < n
  BY <1>2, <1>3 DEF CutBack
<1>12. TrueLits' = {m \in TrueLits : LevelOf(m) <= k} \cup {l}
  <2>1. ASSUME NEW m \in TrueLits' PROVE m \in {q \in TrueLits : LevelOf(q) <= k} \cup {l}
    <3>1. PICK i \in 1 .. n + 1 : m = trail'[i]
      BY <1>10 DEF TrueLits
    <3>2. CASE i = n + 1
      BY <1>10, <3>1, <3>2
    <3>3. CASE i # n + 1
      <4>1. i \in 1 .. n
        BY <1>9, <3>3
      <4>2. i \in Places /\ m = trail[i] /\ LevelOf(m) <= k
        BY <1>5, <1>6, <1>9, <1>10, <3>1, <4>1
      <4> QED BY <4>2 DEF TrueLits, Places
    <3> QED BY <3>2, <3>3
  <2>2. ASSUME NEW m \in TrueLits, LevelOf(m) <= k PROVE m \in TrueLits'
    <3>1. PICK i \in Places : m = trail[i]
      BY DEF TrueLits, Places
    <3>2. i \in 1 .. n
      BY <1>6, <1>9, <2>2, <3>1 DEF Places
    <3>3. i \in 1 .. n + 1 /\ trail'[i] = m
      BY <1>9, <1>10, <3>1, <3>2
    <3> QED BY <1>10, <3>3 DEF TrueLits
  <2>3. l \in TrueLits'
    BY <1>9, <1>10 DEF TrueLits
  <2> QED BY <2>1, <2>2, <2>3
<1>13. /\ DOMAIN lv1 = KeptVars(k)
       /\ \A v \in KeptVars(k) : lv1[v] = level[v]
  BY <1>2 DEF CutBack
<1>14. ASSUME NEW v \in KeptVars(k) PROVE v \in DOMAIN level /\ level[v] <= k
  <2>1. PICK i \in 1 .. n : v = Var(trail[i])
    BY DEF KeptVars, n
  <2>2. i \in Places /\ i <= n
    BY <1>5, <1>9
  <2>3. Var(trail[i]) \in DOMAIN level
    BY <1>1, <2>2 DEF Cut, Places
  <2> QED BY <1>6, <2>1, <2>2, <2>3 DEF LevelOf
<1>15. /\ DOMAIN level' = KeptVars(k) \cup {Var(l)}
       /\ \A v \in KeptVars(k) : level'[v] = level[v]
       /\ level'[Var(l)] = k
  BY <1>3, <1>7, <1>13 DEF Extend
<1>16. /\ DOMAIN reason' = KeptVars(k) \cup {Var(l)}
       /\ \A v \in KeptVars(k) : reason'[v] = reason[v]
       /\ reason'[Var(l)] = from
  BY <1>1, <1>3, <1>7, <1>14 DEF Extend, Only, ReasonType
<1>17. ReasonType'
  BY <1>1, <1>14, <1>15, <1>16 DEF ReasonType
<1> QED
  BY <1>4, <1>6, <1>7, <1>8, <1>10, <1>11, <1>12, <1>14, <1>15, <1>16, <1>17
  DEF Jumps, n

-----------------------------------------------------------------------------
\* What is left of the trail after a step is settled as before, where the clause was
\* and is watched by the same literal.
LEMMA WatchedStep ==
  ASSUME TypeOK, TrailOK, Watched, NEW n \in 0 .. Len(trail), n <= Len(trail'),
         Len(trail') \in Nat,
         \A i \in 1 .. n : trail'[i] = trail[i],
         \A l \in TrueLits : \A j \in 1 .. n :
           LevelOf(l) <= LevelOf(trail[j]) => l \in TrueLits' /\ level'[Var(l)] = level[Var(l)],
         \A r \in DOMAIN db' : \A j \in 1 .. Len(trail') :
           Neg(trail'[j]) \in Watches(db'[r]) /\ Settled(r, j)' =>
             \/ Held(r, j)'
             \/ /\ j \in 1 .. n /\ r \in DOMAIN db /\ LitsOf(db'[r]) = LitsOf(db[r])
                /\ Neg(trail[j]) \in Watches(db[r]) /\ Settled(r, j)
  PROVE  Watched'
<1> SUFFICES ASSUME NEW r \in DOMAIN db', NEW j \in 1 .. Len(trail'),
                    Neg(trail'[j]) \in Watches(db'[r]), Settled(r, j)'
             PROVE  Held(r, j)'
  BY DEF Watched, Places
<1>1. CASE Held(r, j)'
  BY <1>1
<1>2. CASE /\ j \in 1 .. n /\ r \in DOMAIN db /\ LitsOf(db'[r]) = LitsOf(db[r])
           /\ Neg(trail[j]) \in Watches(db[r]) /\ Settled(r, j)
  <2>1. j \in Places /\ Held(r, j)
    BY <1>2, Literals DEF Watched, Places
  <2>2. PICK l \in LitsOf(db[r]) : IsTrue(l) /\ LevelOf(l) <= LevelOf(trail[j])
    BY <2>1 DEF Held
  <2>3. IsTrue(l)' /\ level'[Var(l)] = level[Var(l)]
    BY <1>2, <2>2 DEF IsTrue
  <2>4. trail[j] \in TrueLits /\ trail'[j] = trail[j] /\ LevelOf(trail[j]) \in Nat
    BY <1>2, <2>1, Literals DEF IsTrue
  <2>5. level'[Var(trail[j])] = level[Var(trail[j])]
    BY <1>2, <2>4 DEF LevelOf
  <2> QED BY <1>2, <2>2, <2>3, <2>4, <2>5 DEF Held, LevelOf
<1> QED BY <1>1, <1>2

\* A variable that stays on the trail is justified as before, if its reason is not
\* changed but for the literals watched.
LEMMA JustifiedStep ==
  ASSUME TypeOK, TrailOK, NEW v \in DOMAIN level, level[v] > 0, Justified(v),
         NEW n \in 0 .. Len(trail), n <= Len(trail'), Len(trail') \in Nat,
         \A i \in 1 .. n : trail'[i] = trail[i],
         \A i \in Places : Var(trail[i]) = v => i <= n,
         trailLim'[level[v]] = trailLim[level[v]],
         level'[v] = level[v], reason'[v] = reason[v],
         reason[v] \in DOMAIN db =>
           /\ reason[v] \in DOMAIN db'
           /\ LitsOf(db'[reason[v]]) = LitsOf(db[reason[v]])
           /\ IsBin(db'[reason[v]]) <=> IsBin(db[reason[v]])
           /\ \A i \in {1, 2} : (i = 1 \/ IsBin(db[reason[v]])) /\ IsTrue(db[reason[v]].w[i])
                             => db'[reason[v]].w[i] = db[reason[v]].w[i]
  PROVE  Justified(v)'
<1>1. Len(trail) \in Nat /\ Cut(trail, trailLim, level) /\ level[v] \in 1 .. DecisionLevel
  BY Literals
<1>2. CASE reason[v] = Undef /\ Var(trail[trailLim[level[v]] + 1]) = v
  <2>1. PICK p \in Places : Var(trail[p]) = v
    BY <1>1 DEF Cut, Places
  <2>2. trailLim[level[v]] < p /\ trailLim[level[v]] \in Nat
    BY <1>1, <2>1 DEF Cut, Places, DecisionLevel
  <2>3. p <= n
    BY <2>1
  <2>4. trailLim[level[v]] + 1 \in 1 .. n
    BY <1>1, <2>2, <2>3 DEF Places
  <2>5. trail'[trailLim[level[v]] + 1] = trail[trailLim[level[v]] + 1]
    BY <2>4
  <2> QED BY <1>2, <2>5 DEF Justified
<1>3. CASE /\ reason[v] \in DOMAIN db
           /\ LET c == db[reason[v]] IN
                \E i \in IF IsBin(c) THEN {1, 2} ELSE {1} :
                  /\ Var(c.w[i]) = v /\ IsTrue(c.w[i])
                  /\ \A l \in LitsOf(c) \ {c.w[i]} : Before(l, v)
  <2> DEFINE c == db[reason[v]]
             d == db'[reason[v]]
  <2>1. PICK i \in {1, 2} : /\ i = 1 \/ IsBin(c)
                           /\ Var(c.w[i]) = v /\ IsTrue(c.w[i])
                           /\ \A l \in LitsOf(c) \ {c.w[i]} : Before(l, v)
    BY <1>3
  <2>2. /\ reason[v] \in DOMAIN db' /\ LitsOf(d) = LitsOf(c) /\ (IsBin(d) <=> IsBin(c))
        /\ d.w[i] = c.w[i]
    BY <1>3, <2>1
  <2>3. PICK p \in Places : trail[p] = c.w[i]
    BY <2>1 DEF IsTrue, TrueLits, Places
  <2>4. p \in 1 .. n /\ p \in 1 .. Len(trail')
    BY <1>1, <2>1, <2>3 DEF Places
  <2>5. d.w[i] \in TrueLits'
    <3>1. d.w[i] = trail'[p]
      BY <2>2, <2>3, <2>4
    <3> QED BY <2>4, <3>1 DEF TrueLits
  <2>6. ASSUME NEW l, Before(l, v) PROVE Before(l, v)'
    <3>1. PICK a \in Places, b \in Places : a < b /\ trail[a] = Neg(l) /\ Var(trail[b]) = v
      BY <2>6 DEF Before, Places
    <3>2. b <= n
      BY <3>1
    <3>3. /\ a \in 1 .. n /\ b \in 1 .. n
          /\ a \in 1 .. Len(trail') /\ b \in 1 .. Len(trail')
      BY <1>1, <3>1, <3>2 DEF Places
    <3> QED BY <3>1, <3>3 DEF Before
  <2>7. /\ Var(d.w[i]) = v
        /\ \A l \in LitsOf(d) \ {d.w[i]} : Before(l, v)'
    BY <2>1, <2>2, <2>6
  <2>8. reason'[v] = reason[v] /\ i \in IF IsBin(d) THEN {1, 2} ELSE {1}
    BY <2>1, <2>2
  <2>9. /\ reason'[v] \in DOMAIN db' /\ d = db'[reason'[v]]
        /\ \E m \in IF IsBin(d) THEN {1, 2} ELSE {1} :
             /\ Var(d.w[m]) = v /\ d.w[m] \in TrueLits'
             /\ \A l \in LitsOf(d) \ {d.w[m]} : Before(l, v)'
    <3> HIDE DEF c
    <3> QED BY <2>2, <2>5, <2>7, <2>8
  <2> HIDE DEF d, c
  <2> QED BY <2>9 DEF Justified, IsTrue
<1> QED BY <1>2, <1>3 DEF Justified

\* ReasonsImply says that every variable above level 0 is justified.
LEMMA AllJustified ==
  /\ ReasonsImply <=> \A v \in DOMAIN reason : level[v] > 0 => Justified(v)
  /\ ReasonsImply' <=> \A v \in DOMAIN reason' : level'[v] > 0 => Justified(v)'
  BY DEF ReasonsImply, Justified

\* A step that leaves trail and clauses alone.
LEMMA QuietKeeps ==
  ASSUME InSearch, trail' = trail, trailLim' = trailLim, level' = level,
         reason' = reason, db' = db,
         Counters', (qhead \in 0 .. Len(trail))', QueueOK', ConflictFalse',
         \A r \in DOMAIN db : \A j \in Places :
           Neg(trail[j]) \in Watches(db[r]) /\ Settled(r, j)' => Settled(r, j) \/ Held(r, j)
  PROVE  InSearch'
<1>1. TypeOK /\ TrailOK /\ ClausesOK /\ Watched /\ ReasonsImply
  BY DEF InSearch
<1>2. TypeOK' /\ TrailOK'
  <2>1. Cut(trail', trailLim', level') /\ ReasonType'
    BY <1>1, Literals DEF ReasonType
  <2> QED BY <2>1, FoldTypes
<1>3. ClausesOK'
  BY <1>1 DEF ClausesOK
<1>4. ReasonsImply'
  <2>1. trail' = trail /\ TrueLits' = TrueLits
    BY DEF TrueLits
  <2>2. \A l, v : Before(l, v) => Before(l, v)'
    BY DEF Before
  <2>3. \A v \in DOMAIN reason : Justified(v) => Justified(v)'
    BY <2>1, <2>2 DEF Justified, IsTrue
  <2> QED BY <1>1, <2>3, AllJustified
<1>5. Watched'
  <2>1. \A r, j : Held(r, j) => Held(r, j)'
    BY DEF Held, IsTrue, TrueLits, LevelOf
  <2> QED BY <1>1, <2>1 DEF Watched, Places
<1> QED BY <1>2, <1>3, <1>4, <1>5 DEF InSearch

\* solve_ begins.
LEMMA SolveKeeps ==
  ASSUME InSearch, Solve
  PROVE  InSearch'
<1> USE DEF InSearch, Solve
<1>1. Counters'
  BY DEF TypeOK, Counters, PCs
<1>2. (qhead \in 0 .. Len(trail))'
  BY DEF TypeOK
<1>3. QueueOK' /\ ConflictFalse'
  BY DEF QueueOK, ConflictFalse, DecisionLevel, TypeOK
<1>4. \A r, j : Settled(r, j)' => Settled(r, j)
  BY DEF Settled, DecisionLevel, LevelOf
<1> QED BY <1>1, <1>2, <1>3, <1>4, QuietKeeps

\* A conflict at level 0 ends the search,
LEMMA ConflictAtZeroKeeps ==
  ASSUME InSearch, ConflictAtZero
  PROVE  InSearch'
<1> USE DEF InSearch, ConflictAtZero, Answer
<1>1. Counters'
  BY DEF TypeOK, Counters, PCs
<1>2. (qhead \in 0 .. Len(trail))'
  BY DEF TypeOK
<1>3. QueueOK' /\ ConflictFalse'
  BY DEF QueueOK, ConflictFalse, DecisionLevel, TypeOK
<1>4. \A r, j : Settled(r, j)' => Settled(r, j)
  BY DEF Settled, DecisionLevel, LevelOf
<1> QED BY <1>1, <1>2, <1>3, <1>4, QuietKeeps

\* and so does a model.
LEMMA ModelFoundKeeps ==
  ASSUME InSearch, ModelFound
  PROVE  InSearch'
<1> USE DEF InSearch, ModelFound, Answer
<1>1. Counters'
  BY DEF TypeOK, Counters, PCs
<1>2. (qhead \in 0 .. Len(trail))'
  BY DEF TypeOK
<1>3. QueueOK' /\ ConflictFalse'
  BY DEF QueueOK, ConflictFalse, DecisionLevel, TypeOK
<1>4. \A r, j : Settled(r, j)' => Settled(r, j)
  BY DEF Settled, DecisionLevel, LevelOf
<1> QED BY <1>1, <1>2, <1>3, <1>4, QuietKeeps

\* The next literal of the queue: every watcher of its negation is still to be looked
\* at.
LEMMA DequeueKeeps ==
  ASSUME InSearch, Dequeue
  PROVE  InSearch'
<1>1. /\ trail' = trail /\ trailLim' = trailLim /\ level' = level /\ reason' = reason
      /\ db' = db /\ input' = input /\ nextClause' = nextClause /\ confl' = confl
      /\ conflictC' = conflictC /\ simpAssigns' = simpAssigns /\ reductions' = reductions
      /\ adapt' = adapt /\ status' = status
      /\ pc = "propagate" /\ visit = {}
  BY DEF Dequeue
<1>2. TypeOK /\ TrailOK /\ QueueOK
  BY DEF InSearch
<1>3. /\ Len(trail) \in Nat /\ qhead \in 0 .. Len(trail) /\ Counters
      /\ nextClause \in Nat /\ Len(input) \in Nat
  BY <1>2, Literals, FormulasAssumption DEF TypeOK
<1>4. CASE qhead < Len(trail)
  <2>1. qhead' = qhead + 1 /\ visit' = Watchers(trail[qhead + 1]) /\ pc' = pc
    BY <1>4 DEF Dequeue
  <2>2. visit' \subseteq DOMAIN db
    BY <2>1 DEF Watchers
  <2>3. Counters' /\ (qhead \in 0 .. Len(trail))'
    BY <1>1, <1>3, <1>4, <2>1, <2>2 DEF Counters
  <2>4. QueueOK'
    <3>2. visit' \subseteq Watchers(trail[qhead])'
      BY <1>1, <2>1 DEF Watchers
    <3>3. DecisionLevel > 0 => trailLim[DecisionLevel] \in Nat
      BY <1>2, Literals DEF Cut, DecisionLevel
    <3> QED BY <1>1, <1>2, <1>3, <2>1, <3>2, <3>3 DEF QueueOK, DecisionLevel
  <2>5. ConflictFalse'
    BY <1>1, <2>1 DEF ConflictFalse
  <2>6. ASSUME NEW r \in DOMAIN db, NEW j \in Places,
               Neg(trail[j]) \in Watches(db[r]), Settled(r, j)'
        PROVE  Settled(r, j)
    <3>1. CASE LevelOf(trail[j])' < DecisionLevel'
      BY <1>1, <3>1 DEF Settled, LevelOf, DecisionLevel
    <3>2. CASE j < qhead + 1 \/ (j = qhead + 1 /\ r \notin visit')
      <4>1. ~(j = qhead + 1 /\ r \notin visit')
        BY <2>1, <2>6 DEF Watchers, Watches
      <4>2. j <= qhead
        BY <1>3, <3>2, <4>1 DEF Places
      <4>3. j < qhead \/ j = qhead
        BY <1>3, <4>2 DEF Places
      <4> QED BY <1>1, <4>3 DEF Settled
    <3> QED BY <2>1, <2>6, <3>1, <3>2 DEF Settled
  <2> QED BY <1>1, <2>3, <2>4, <2>5, <2>6, QuietKeeps
<1>5. CASE ~(qhead < Len(trail))
  <2>1. /\ qhead' = qhead /\ visit' = visit
        /\ pc' = IF nextClause <= Len(input) THEN "load" ELSE "decide"
    BY <1>5 DEF Dequeue
  <2>2. Counters' /\ (qhead \in 0 .. Len(trail))'
    BY <1>1, <1>3, <2>1 DEF Counters, PCs
  <2>3. QueueOK' /\ ConflictFalse'
    BY <1>1, <1>2, <1>3, <1>5, <2>1 DEF QueueOK, DecisionLevel, ConflictFalse
  <2>4. \A r, j : Settled(r, j)' => Settled(r, j)
    BY <1>1, <2>1 DEF Settled, LevelOf, DecisionLevel
  <2> QED BY <1>1, <2>2, <2>3, <2>4, QuietKeeps
<1> QED BY <1>4, <1>5

-----------------------------------------------------------------------------
\* The clauses keep their literals, and a true first literal stays the first.
SameReasons ==
  \A q \in DOMAIN db :
    /\ q \in DOMAIN db'
    /\ LitsOf(db'[q]) = LitsOf(db[q])
    /\ IsBin(db'[q]) <=> IsBin(db[q])
    /\ \A i \in {1, 2} : (i = 1 \/ IsBin(db[q])) /\ IsTrue(db[q].w[i])
                      => db'[q].w[i] = db[q].w[i]

\* A longer trail, whose new literal is justified.
LEMMA GrowsJustified ==
  ASSUME TypeOK, TrailOK, ReasonsImply, NEW l \in Lits, NEW from, NEW k \in Nat,
         Grows(l, from, k), ReasonType', SameReasons,
         \A m \in 1 .. DecisionLevel : trailLim'[m] = trailLim[m],
         k > 0 => Justified(Var(l))'
  PROVE  ReasonsImply'
<1>1. /\ Len(trail) \in Nat /\ ReasonType
      /\ \A v \in DOMAIN level : level[v] \in 0 .. DecisionLevel
  BY Literals
<1>2. SUFFICES ASSUME NEW v \in DOMAIN reason', level'[v] > 0 PROVE Justified(v)'
  BY AllJustified
<1>3. CASE v = Var(l)
  BY <1>2, <1>3 DEF Grows
<1>4. CASE v # Var(l)
  <2>1. v \in DOMAIN level /\ level'[v] = level[v] /\ reason'[v] = reason[v] /\ v \in DOMAIN reason
    BY <1>1, <1>2, <1>4 DEF Grows, ReasonType
  <2>2. Justified(v) /\ level[v] \in 1 .. DecisionLevel
    BY <1>1, <1>2, <2>1, AllJustified
  <2>3. /\ Len(trail) \in 0 .. Len(trail) /\ Len(trail) <= Len(trail') /\ Len(trail') \in Nat
        /\ \A i \in 1 .. Len(trail) : trail'[i] = trail[i]
        /\ \A i \in Places : i <= Len(trail)
        /\ level[v] > 0
    BY <1>1, <2>2 DEF Grows, Places
  <2>4. trailLim'[level[v]] = trailLim[level[v]]
    BY <2>2
  <2>5. reason[v] \in DOMAIN db =>
           /\ reason[v] \in DOMAIN db'
           /\ LitsOf(db'[reason[v]]) = LitsOf(db[reason[v]])
           /\ IsBin(db'[reason[v]]) <=> IsBin(db[reason[v]])
           /\ \A i \in {1, 2} : (i = 1 \/ IsBin(db[reason[v]])) /\ IsTrue(db[reason[v]].w[i])
                             => db'[reason[v]].w[i] = db[reason[v]].w[i]
    BY DEF SameReasons
  <2> QED BY <2>1, <2>2, <2>3, <2>4, <2>5, JustifiedStep
<1> QED BY <1>3, <1>4

\* A longer trail: the watches that become false are not settled, or held.
LEMMA GrowsWatched ==
  ASSUME TypeOK, TrailOK, Watched, NEW l \in Lits, NEW from, NEW k \in Nat,
         Grows(l, from, k),
         \A r \in DOMAIN db' : \A j \in 1 .. Len(trail') :
           Neg(trail'[j]) \in Watches(db'[r]) /\ Settled(r, j)' =>
             \/ Held(r, j)'
             \/ /\ j \in Places /\ r \in DOMAIN db /\ LitsOf(db'[r]) = LitsOf(db[r])
                /\ Neg(trail[j]) \in Watches(db[r]) /\ Settled(r, j)
  PROVE  Watched'
<1>1. /\ Len(trail) \in 0 .. Len(trail) /\ Len(trail) <= Len(trail') /\ Len(trail') \in Nat
      /\ \A i \in 1 .. Len(trail) : trail'[i] = trail[i]
  BY Literals DEF Grows, Places
<1>2. ASSUME NEW m \in TrueLits PROVE m \in TrueLits' /\ level'[Var(m)] = level[Var(m)]
  <2>1. Var(m) \in DOMAIN level
    BY Literals DEF IsTrue
  <2> QED BY <2>1 DEF Grows
<1> QED BY <1>1, <1>2, WatchedStep DEF Places

\* The same trail, with clauses that are watched differently.
LEMMA SameJustified ==
  ASSUME TypeOK, TrailOK, ReasonsImply, trail' = trail, trailLim' = trailLim,
         level' = level, reason' = reason, SameReasons
  PROVE  ReasonsImply'
<1>1. /\ Len(trail) \in Nat /\ ReasonType
      /\ \A v \in DOMAIN level : level[v] \in 0 .. DecisionLevel
  BY Literals
<1>2. SUFFICES ASSUME NEW v \in DOMAIN reason, level[v] > 0 PROVE Justified(v)'
  BY AllJustified
<1>3. Justified(v) /\ v \in DOMAIN level
  BY <1>1, <1>2, AllJustified DEF ReasonType
<1>4. reason[v] \in DOMAIN db =>
         /\ reason[v] \in DOMAIN db'
         /\ LitsOf(db'[reason[v]]) = LitsOf(db[reason[v]])
         /\ IsBin(db'[reason[v]]) <=> IsBin(db[reason[v]])
         /\ \A i \in {1, 2} : (i = 1 \/ IsBin(db[reason[v]])) /\ IsTrue(db[reason[v]].w[i])
                           => db'[reason[v]].w[i] = db[reason[v]].w[i]
  BY DEF SameReasons
<1>5. /\ Len(trail) \in 0 .. Len(trail) /\ Len(trail) <= Len(trail') /\ Len(trail') \in Nat
      /\ \A i \in 1 .. Len(trail) : trail'[i] = trail[i]
      /\ \A i \in Places : i <= Len(trail)
      /\ trailLim'[level[v]] = trailLim[level[v]] /\ level'[v] = level[v]
      /\ reason'[v] = reason[v]
  BY <1>1 DEF Places
<1> QED BY <1>2, <1>3, <1>4, <1>5, JustifiedStep

LEMMA SameWatched ==
  ASSUME TypeOK, TrailOK, Watched, trail' = trail, level' = level,
         \A r \in DOMAIN db' : \A j \in Places :
           Neg(trail[j]) \in Watches(db'[r]) /\ Settled(r, j)' =>
             \/ Held(r, j)'
             \/ /\ r \in DOMAIN db /\ LitsOf(db'[r]) = LitsOf(db[r])
                /\ Neg(trail[j]) \in Watches(db[r]) /\ Settled(r, j)
  PROVE  Watched'
<1>1. /\ Len(trail) \in 0 .. Len(trail) /\ Len(trail) <= Len(trail') /\ Len(trail') \in Nat
      /\ \A i \in 1 .. Len(trail) : trail'[i] = trail[i]
  BY Literals DEF Places
<1>2. \A m \in TrueLits : m \in TrueLits' /\ level'[Var(m)] = level[Var(m)]
  BY DEF TrueLits
<1> QED BY <1>1, <1>2, WatchedStep DEF Places

-----------------------------------------------------------------------------
\* The clause that is looked at: of its two watched literals one is false since the
\* current level.
LEMMA Visited ==
  ASSUME InSearch, NEW r \in visit
  PROVE  /\ r \in DOMAIN db /\ qhead \in Places /\ pc = "propagate"
         /\ FalseLit \in Lits /\ OtherWatch(db[r]) \in Lits
         /\ Neg(FalseLit) = trail[qhead] /\ IsFalse(FalseLit)
         /\ Watches(db[r]) = {FalseLit, OtherWatch(db[r])}
         /\ OtherWatch(db[r]) # FalseLit
         /\ OtherWatch(db[r]) \notin db[r].rest /\ FalseLit \notin db[r].rest
         /\ LitsOf(db[r]) = {FalseLit, OtherWatch(db[r])} \cup db[r].rest
         /\ LevelOf(trail[qhead]) = DecisionLevel /\ LevelOf(FalseLit) = DecisionLevel
         /\ IsTrue(db[r].w[1]) => OtherWatch(db[r]) = db[r].w[1]
<1>1. TypeOK /\ TrailOK /\ ClausesOK /\ QueueOK
  BY DEF InSearch
<1>2. /\ r \in DOMAIN db /\ qhead \in Places /\ pc = "propagate"
      /\ r \in Watchers(trail[qhead])
      /\ DecisionLevel > 0 => trailLim[DecisionLevel] < qhead
  BY <1>1, Literals DEF QueueOK, Counters, Places
<1>3. /\ trail[qhead] \in Lits /\ IsTrue(trail[qhead])
      /\ db[r].w[1] \in Lits /\ db[r].w[2] \in Lits
      /\ DecisionLevel \in Nat /\ LevelOf(trail[qhead]) \in 0 .. DecisionLevel
  BY <1>1, <1>2, Literals
<1>4. FalseLit \in Lits /\ Neg(FalseLit) = trail[qhead] /\ Var(FalseLit) = Var(trail[qhead])
  BY <1>3, NegLit DEF FalseLit
<1>5. IsFalse(FalseLit)
  BY <1>3, <1>4 DEF IsFalse, IsTrue
<1>6. db[r].w[1] = FalseLit \/ db[r].w[2] = FalseLit
  BY <1>2 DEF Watchers, FalseLit
<1>7. /\ db[r].w[1] # db[r].w[2]
      /\ db[r].w[1] \notin db[r].rest
      /\ db[r].w[2] \notin db[r].rest
  BY <1>1, <1>2 DEF ClausesOK
<1>8. /\ Watches(db[r]) = {FalseLit, OtherWatch(db[r])}
      /\ OtherWatch(db[r]) \in Lits /\ OtherWatch(db[r]) # FalseLit
      /\ OtherWatch(db[r]) \notin db[r].rest /\ FalseLit \notin db[r].rest
  BY <1>3, <1>6, <1>7 DEF Watches, OtherWatch
<1>9. LitsOf(db[r]) = {FalseLit, OtherWatch(db[r])} \cup db[r].rest
  BY <1>8 DEF LitsOf, Watches
<1>10. LevelOf(trail[qhead]) = DecisionLevel
  <2>1. CASE DecisionLevel = 0
    BY <1>3, <2>1
  <2>2. CASE DecisionLevel > 0
    <3>1. DecisionLevel \in 1 .. DecisionLevel
      BY <1>3, <2>2
    <3>2. DecisionLevel <= LevelOf(trail[qhead])
      BY <1>1, <1>2, <2>2, <3>1 DEF TrailOK
    <3> QED BY <1>3, <3>2
  <2> QED BY <1>3, <2>1, <2>2
<1>11. LevelOf(FalseLit) = DecisionLevel
  BY <1>4, <1>10 DEF LevelOf
<1>12. IsTrue(db[r].w[1]) => OtherWatch(db[r]) = db[r].w[1]
  BY <1>1, <1>4, <1>5, Literals DEF OtherWatch
<1> QED BY <1>2, <1>4, <1>5, <1>8, <1>9, <1>10, <1>11, <1>12

\* One more watcher of the literal dequeued has been looked at.
LEMMA SettledBy ==
  ASSUME InSearch, NEW r \in visit, NEW q, NEW j \in Places,
         trail'[j] = trail[j], level'[Var(trail[j])] = level[Var(trail[j])],
         trailLim' = trailLim, pc \in {"propagate"},
         \/ pc' = pc /\ qhead' = qhead /\ visit' = visit \ {r}
         \/ pc' = "conflict",
         Settled(q, j)'
  PROVE  Settled(q, j) \/ (q = r /\ j = qhead /\ pc' = pc)
  BY DEF Settled, LevelOf, DecisionLevel

\* A binary clause is looked at.
LEMMA VisitBinaryKeeps ==
  ASSUME InSearch, NEW r, VisitBinary(r)
  PROVE  InSearch'
<1>0. PICK imp, fl : imp = OtherWatch(db[r]) /\ fl = FalseLit
  OBVIOUS
<1>1. /\ trailLim' = trailLim /\ db' = db /\ qhead' = qhead
      /\ input' = input /\ nextClause' = nextClause
      /\ conflictC' = conflictC /\ simpAssigns' = simpAssigns /\ reductions' = reductions
      /\ adapt' = adapt /\ status' = status
      /\ pc = "propagate" /\ r \in visit /\ IsBin(db[r])
  BY DEF VisitBinary
<1>2. /\ r \in DOMAIN db /\ qhead \in Places
      /\ fl \in Lits /\ imp \in Lits
      /\ Neg(fl) = trail[qhead] /\ IsFalse(fl)
      /\ Watches(db[r]) = {fl, imp} /\ LitsOf(db[r]) = {fl, imp}
      /\ LevelOf(trail[qhead]) = DecisionLevel /\ LevelOf(fl) = DecisionLevel
  BY <1>0, <1>1, Visited DEF IsBin
<1>3. /\ TypeOK /\ TrailOK /\ QueueOK /\ ClausesOK /\ Watched /\ ReasonsImply
      /\ Counters /\ qhead \in 0 .. Len(trail) /\ Len(trail) \in Nat
      /\ DecisionLevel \in Nat /\ r \in Refs
      /\ trail[qhead] \in Lits
  BY <1>2, Literals DEF InSearch, Counters
<1>4. CASE IsFalse(imp) /\ confl' = r /\ pc' = "conflict" /\ visit' = {}
           /\ UNCHANGED <<trail, reason, level>>
  <2>1. Counters' /\ (qhead \in 0 .. Len(trail))'
    BY <1>1, <1>3, <1>4 DEF Counters, PCs
  <2>2. QueueOK'
    BY <1>1, <1>3, <1>4 DEF QueueOK, DecisionLevel
  <2>3. ConflictFalse'
    BY <1>1, <1>2, <1>4 DEF ConflictFalse, Current, IsFalse, TrueLits, LevelOf, DecisionLevel
  <2>4. \A q, j : Settled(q, j)' => Settled(q, j)
    BY <1>1, <1>4 DEF Settled, LevelOf, DecisionLevel
  <2> QED BY <1>1, <1>4, <2>1, <2>2, <2>3, <2>4, QuietKeeps
<1>5. CASE /\ IsTrue(imp) /\ visit' = visit \ {r}
           /\ UNCHANGED <<trail, reason, level, confl, pc>>
  <2>1. Counters' /\ (qhead \in 0 .. Len(trail))'
    BY <1>1, <1>3, <1>5 DEF Counters, PCs
  <2>2. QueueOK'
    BY <1>1, <1>3, <1>5 DEF QueueOK, DecisionLevel, Watchers
  <2>3. ConflictFalse'
    BY <1>1, <1>5 DEF ConflictFalse
  <2>4. ASSUME NEW q \in DOMAIN db, NEW j \in Places, Settled(q, j)'
        PROVE  Settled(q, j) \/ Held(q, j)
    <3>1. Settled(q, j) \/ (q = r /\ j = qhead)
      BY <1>1, <1>5, <2>4 DEF Settled, LevelOf, DecisionLevel
    <3>2. LevelOf(imp) <= DecisionLevel
      BY <1>2, <1>3, <1>5, Literals
    <3>3. Held(r, qhead)
      BY <1>2, <1>5, <3>2 DEF Held
    <3> QED BY <3>1, <3>3
  <2> QED BY <1>1, <1>5, <2>1, <2>2, <2>3, <2>4, QuietKeeps
<1>6. CASE /\ IsOpen(imp) /\ UncheckedEnqueue(imp, r) /\ visit' = visit \ {r}
           /\ UNCHANGED <<confl, pc>>
  <2>1. Cut(trail', trailLim', level') /\ ReasonType' /\ Grows(imp, r, DecisionLevel)
    BY <1>1, <1>2, <1>3, <1>6, EnqueueGrows
  <2>2. Len(trail') = Len(trail) + 1 /\ Len(trail') \in Nat
    BY <1>3, <2>1 DEF Grows
  <2>3. Counters' /\ (qhead \in 0 .. Len(trail))'
    BY <1>1, <1>3, <1>6, <2>2 DEF Counters, PCs
  <2>4. TypeOK' /\ TrailOK'
    BY <2>1, <2>3, FoldTypes
  <2>5. trail'[qhead] = trail[qhead]
    BY <1>2, <2>1 DEF Grows
  <2>6. QueueOK'
    BY <1>1, <1>3, <1>6, <2>5 DEF QueueOK, DecisionLevel, Watchers
  <2>7. ConflictFalse'
    BY <1>1, <1>6 DEF ConflictFalse
  <2>8. ClausesOK'
    BY <1>1, <1>3 DEF ClausesOK
  <2>9. SameReasons
    BY <1>1 DEF SameReasons
  <2>10. Justified(Var(imp))'
    <3>1. reason'[Var(imp)] = r /\ imp \in TrueLits'
      BY <2>1 DEF Grows
    <3>2. Before(fl, Var(imp))'
      <4>1. /\ qhead \in 1 .. Len(trail') /\ Len(trail) + 1 \in 1 .. Len(trail')
            /\ qhead < Len(trail) + 1
        BY <1>2, <1>3, <2>2 DEF Places
      <4>2. trail'[qhead] = Neg(fl) /\ trail'[Len(trail) + 1] = imp
        BY <1>2, <2>1, <2>5 DEF Grows
      <4> QED BY <4>1, <4>2 DEF Before
    <3>3. PICK i \in {1, 2} : db[r].w[i] = imp
      BY <1>2 DEF Watches
    <3>4. \A l \in LitsOf(db[r]) \ {imp} : l = fl
      BY <1>2
    <3> QED BY <1>1, <1>2, <3>1, <3>2, <3>3, <3>4 DEF Justified, IsTrue
  <2>11. ReasonsImply'
    BY <1>1, <1>2, <1>3, <2>1, <2>9, <2>10, GrowsJustified
  <2>12. ASSUME NEW q \in DOMAIN db', NEW j \in 1 .. Len(trail'),
                Neg(trail'[j]) \in Watches(db'[q]), Settled(q, j)'
         PROVE  \/ Held(q, j)'
                \/ /\ j \in Places /\ q \in DOMAIN db /\ LitsOf(db'[q]) = LitsOf(db[q])
                   /\ Neg(trail[j]) \in Watches(db[q]) /\ Settled(q, j)
    <3>1. CASE j = Len(trail) + 1
      <4>1. level'[Var(trail'[j])] = DecisionLevel
        BY <2>1, <3>1 DEF Grows
      <4>2. ~(LevelOf(trail[j])' < DecisionLevel') /\ ~(j <= qhead')
        BY <1>1, <1>3, <3>1, <4>1 DEF LevelOf, DecisionLevel
      <4> QED BY <1>1, <1>3, <2>12, <4>1, <4>2, <3>1 DEF Settled, LevelOf, DecisionLevel
    <3>2. CASE j \in Places
      <4>1. /\ trail'[j] = trail[j] /\ IsTrue(trail[j]) /\ trail[j] \in Lits
            /\ Var(trail[j]) \in DOMAIN level
        BY <1>3, <2>1, <3>2, Literals DEF Grows
      <4>2. level'[Var(trail[j])] = level[Var(trail[j])]
        BY <2>1, <4>1 DEF Grows
      <4>3. Settled(q, j) \/ (q = r /\ j = qhead)
        BY <1>1, <1>6, <2>12, <3>2, <4>1, <4>2, SettledBy
      <4>4. CASE q = r /\ j = qhead
        <5>1. imp \in TrueLits' /\ level'[Var(imp)] = DecisionLevel
          BY <2>1 DEF Grows
        <5>2. level'[Var(trail'[qhead])] = DecisionLevel
          BY <1>2, <2>5, <4>2, <4>4 DEF LevelOf
        <5>3. imp \in LitsOf(db'[r]) /\ DecisionLevel <= DecisionLevel
          BY <1>1, <1>2, <1>3
        <5>4. Held(r, qhead)'
          BY <1>1, <5>1, <5>2, <5>3 DEF Held, IsTrue, LevelOf
        <5> QED BY <1>1, <4>4, <5>4
      <4> QED BY <1>1, <2>12, <3>2, <4>1, <4>3, <4>4
    <3>3. j \in Places \/ j = Len(trail) + 1
      BY <1>3, <2>2 DEF Places
    <3> QED BY <3>1, <3>2, <3>3
  <2>13. Watched'
    BY <1>2, <1>3, <2>1, <2>12, GrowsWatched
  <2> QED BY <2>4, <2>6, <2>7, <2>8, <2>11, <2>13 DEF InSearch
<1> QED BY <1>0, <1>4, <1>5, <1>6 DEF VisitBinary

-----------------------------------------------------------------------------
\* A clause whose false literal is put second.
LEMMA TurnedIs ==
  ASSUME InSearch, NEW r \in visit, NEW d,
         d = [db[r] EXCEPT !.w = <<OtherWatch(db[r]), FalseLit>>]
  PROVE  /\ d \in Clauses /\ LitsOf(d) = LitsOf(db[r])
         /\ Watches(d) = Watches(db[r])
         /\ d.rest = db[r].rest
         /\ d.w[1] = OtherWatch(db[r]) /\ d.w[1] # d.w[2]
         /\ d.w[1] \notin d.rest /\ d.w[2] \notin d.rest
<1>1. /\ OtherWatch(db[r]) \in Lits /\ FalseLit \in Lits /\ r \in DOMAIN db
      /\ Watches(db[r]) = {FalseLit, OtherWatch(db[r])}
      /\ OtherWatch(db[r]) # FalseLit
      /\ OtherWatch(db[r]) \notin db[r].rest /\ FalseLit \notin db[r].rest
      /\ LitsOf(db[r]) = {FalseLit, OtherWatch(db[r])} \cup db[r].rest
  BY Visited
<1>2. db[r] \in Clauses
  BY <1>1 DEF InSearch, TypeOK
<1> HIDE DEF FalseLit
<1>3. d \in Clauses /\ d.w = <<OtherWatch(db[r]), FalseLit>> /\ d.rest = db[r].rest
  BY <1>1, <1>2 DEF Clauses
<1>4. d.w[1] = OtherWatch(db[r]) /\ d.w[2] = FalseLit
  BY <1>3
<1> QED BY <1>1, <1>3, <1>4 DEF LitsOf, Watches

\* A clause in which another literal is watched instead of the false one.
LEMMA MovedIs ==
  ASSUME InSearch, NEW r \in visit, NEW l \in db[r].rest, NEW d,
         d = [db[r] EXCEPT !.w = <<OtherWatch(db[r]), l>>,
                           !.rest = (@ \ {l}) \cup {FalseLit}]
  PROVE  /\ d \in Clauses /\ LitsOf(d) = LitsOf(db[r])
         /\ Watches(d) = {OtherWatch(db[r]), l}
         /\ d.rest # {} /\ l \in Lits
         /\ d.w[1] = OtherWatch(db[r]) /\ d.w[1] # d.w[2]
         /\ d.w[1] \notin d.rest /\ d.w[2] \notin d.rest
<1>1. /\ OtherWatch(db[r]) \in Lits /\ FalseLit \in Lits /\ r \in DOMAIN db
      /\ OtherWatch(db[r]) # FalseLit
      /\ OtherWatch(db[r]) \notin db[r].rest /\ FalseLit \notin db[r].rest
      /\ LitsOf(db[r]) = {FalseLit, OtherWatch(db[r])} \cup db[r].rest
  BY Visited
<1>2. db[r] \in Clauses
  BY <1>1 DEF InSearch, TypeOK
<1>3. db[r].rest \subseteq Lits
  BY <1>2 DEF Clauses
<1>4. /\ d \in Clauses /\ d.w = <<OtherWatch(db[r]), l>>
      /\ d.rest = (db[r].rest \ {l}) \cup {FalseLit}
  BY <1>1, <1>2, <1>3 DEF Clauses
<1>5. d.w[1] = OtherWatch(db[r]) /\ d.w[2] = l
  BY <1>4
<1> QED BY <1>1, <1>3, <1>4, <1>5 DEF LitsOf, Watches

\* The clauses, when one is watched by other literals or its watches change places.
LEMMA Replaced ==
  ASSUME InSearch, NEW r \in visit, ~IsBin(db[r]), NEW d \in Clauses,
         LitsOf(d) = LitsOf(db[r]), d.rest # {}, d.w[1] = OtherWatch(db[r]),
         d.w[1] # d.w[2], d.w[1] \notin d.rest, d.w[2] \notin d.rest,
         db' = [db EXCEPT ![r] = d]
  PROVE  /\ DOMAIN db' = DOMAIN db /\ db'[r] = d
         /\ \A q \in DOMAIN db : /\ q # r => db'[q] = db[q]
                                 /\ db'[q] \in Clauses
                                 /\ LitsOf(db'[q]) = LitsOf(db[q])
         /\ SameReasons /\ ClausesOK'
<1>1. r \in DOMAIN db /\ (IsTrue(db[r].w[1]) => OtherWatch(db[r]) = db[r].w[1])
  BY Visited
<1>2. /\ DOMAIN db' = DOMAIN db /\ db'[r] = d
      /\ \A q \in DOMAIN db : q # r => db'[q] = db[q]
  BY <1>1
<1>3. \A q \in DOMAIN db : db'[q] \in Clauses /\ LitsOf(db'[q]) = LitsOf(db[q])
  BY <1>2 DEF InSearch, TypeOK
<1>4. SameReasons
  <2> SUFFICES ASSUME NEW q \in DOMAIN db
               PROVE  /\ IsBin(db'[q]) <=> IsBin(db[q])
                      /\ \A i \in {1, 2} : (i = 1 \/ IsBin(db[q])) /\ IsTrue(db[q].w[i])
                                        => db'[q].w[i] = db[q].w[i]
    BY <1>2, <1>3 DEF SameReasons
  <2>1. CASE q = r
    BY <1>1, <1>2, <2>1 DEF IsBin
  <2>2. CASE q # r
    BY <1>2, <2>2
  <2> QED BY <2>1, <2>2
<1>5. ClausesOK'
  BY <1>2 DEF ClausesOK, InSearch
<1> QED BY <1>2, <1>3, <1>4, <1>5

\* The clause is rewatched, and the trail is left alone.
LEMMA RewatchKeeps ==
  ASSUME InSearch, NEW r \in visit, ~IsBin(db[r]), NEW d \in Clauses,
         LitsOf(d) = LitsOf(db[r]), d.rest # {}, d.w[1] = OtherWatch(db[r]),
         d.w[1] # d.w[2], d.w[1] \notin d.rest, d.w[2] \notin d.rest,
         db' = [db EXCEPT ![r] = d],
         trail' = trail, trailLim' = trailLim, level' = level, reason' = reason,
         Counters', (qhead \in 0 .. Len(trail))', QueueOK', ConflictFalse',
         \/ pc' = pc /\ qhead' = qhead /\ visit' = visit \ {r}
         \/ pc' = "conflict",
         \A j \in Places : Neg(trail[j]) \in Watches(d) /\ (j = qhead => pc' # pc) =>
                           Neg(trail[j]) \in Watches(db[r]),
         pc' = pc /\ FalseLit \in Watches(d) => IsTrue(OtherWatch(db[r]))
  PROVE  InSearch'
<1>1. /\ TypeOK /\ TrailOK /\ ClausesOK /\ Watched /\ ReasonsImply
      /\ r \in DOMAIN db /\ qhead \in Places /\ pc = "propagate"
      /\ OtherWatch(db[r]) \in LitsOf(db[r]) /\ OtherWatch(db[r]) \in Lits
      /\ LevelOf(trail[qhead]) = DecisionLevel
  BY Visited DEF InSearch
<1>2. /\ DOMAIN db' = DOMAIN db /\ db'[r] = d
      /\ \A q \in DOMAIN db : /\ q # r => db'[q] = db[q]
                              /\ LitsOf(db'[q]) = LitsOf(db[q])
      /\ SameReasons /\ ClausesOK'
  BY Replaced
<1>3. TypeOK' /\ TrailOK'
  <2>1. Cut(trail', trailLim', level') /\ ReasonType'
    BY <1>1, Literals DEF ReasonType
  <2> QED BY <2>1, FoldTypes
<1>4. ReasonsImply'
  BY <1>1, <1>2, SameJustified
<1>5. ASSUME NEW q \in DOMAIN db', NEW j \in Places,
             Neg(trail[j]) \in Watches(db'[q]), Settled(q, j)'
      PROVE  \/ Held(q, j)'
             \/ /\ q \in DOMAIN db /\ LitsOf(db'[q]) = LitsOf(db[q])
                /\ Neg(trail[j]) \in Watches(db[q]) /\ Settled(q, j)
  <2>1. Settled(q, j) \/ (q = r /\ j = qhead /\ pc' = pc)
    BY <1>1, <1>5, SettledBy
  <2>2. CASE q # r
    BY <1>2, <1>5, <2>1, <2>2
  <2>3. CASE q = r /\ j = qhead /\ pc' = pc
    <3>1. FalseLit \in Watches(d)
      BY <1>2, <1>5, <2>3 DEF FalseLit
    <3>2. IsTrue(OtherWatch(db[r])) /\ LevelOf(OtherWatch(db[r])) <= DecisionLevel
      BY <1>1, <2>3, <3>1, Literals
    <3>3. PICK m : m = OtherWatch(db[r])
      OBVIOUS
    <3>4. m \in LitsOf(db'[r]) /\ m \in TrueLits' /\ level'[Var(m)] <= level'[Var(trail'[qhead])]
      BY <1>1, <1>2, <3>2, <3>3 DEF IsTrue, TrueLits, LevelOf
    <3>5. Held(r, j)'
      BY <2>3, <3>4 DEF Held, IsTrue, LevelOf
    <3> QED BY <2>3, <3>5
  <2>4. CASE q = r /\ Settled(q, j) /\ ~(j = qhead /\ pc' = pc)
    <3>1. Neg(trail[j]) \in Watches(db[r])
      BY <1>2, <1>5, <2>4
    <3> QED BY <1>1, <1>2, <2>4, <3>1
  <2> QED BY <2>1, <2>2, <2>3, <2>4
<1>6. Watched'
  BY <1>1, <1>5, SameWatched
<1> QED BY <1>2, <1>3, <1>4, <1>6 DEF InSearch

\* A longer clause is looked at: its five outcomes.
LEMMA VisitLongKeeps ==
  ASSUME InSearch, NEW r, VisitLong(r)
  PROVE  InSearch'
<1>0. PICK imp, fl, c : imp = OtherWatch(db[r]) /\ fl = FalseLit /\ c = db[r]
  OBVIOUS
<1>1. /\ trailLim' = trailLim /\ input' = input /\ nextClause' = nextClause
      /\ conflictC' = conflictC /\ simpAssigns' = simpAssigns /\ reductions' = reductions
      /\ adapt' = adapt /\ status' = status
      /\ pc = "propagate" /\ r \in visit /\ ~IsBin(db[r])
  BY DEF VisitLong
<1>2. /\ r \in DOMAIN db /\ qhead \in Places
      /\ fl \in Lits /\ imp \in Lits /\ imp # fl
      /\ Neg(fl) = trail[qhead] /\ fl = Neg(trail[qhead]) /\ IsFalse(fl)
      /\ Watches(db[r]) = {fl, imp} /\ LitsOf(db[r]) = {fl, imp} \cup c.rest
      /\ LevelOf(trail[qhead]) = DecisionLevel /\ LevelOf(fl) = DecisionLevel
  BY <1>0, <1>1, Visited DEF FalseLit
<1>3. /\ TypeOK /\ TrailOK /\ QueueOK /\ ClausesOK /\ Watched /\ ReasonsImply
      /\ Counters /\ qhead \in 0 .. Len(trail) /\ Len(trail) \in Nat
      /\ DecisionLevel \in Nat /\ r \in Refs
      /\ trail[qhead] \in Lits /\ c.rest \subseteq Lits
      /\ \A j \in Places : IsTrue(trail[j]) /\ trail[j] \in Lits
      /\ c \in Clauses
  BY <1>0, <1>2, Literals DEF InSearch, Counters
<1>4. ASSUME UNCHANGED <<trail, reason, level>>, DOMAIN db' = DOMAIN db,
             \A q \in DOMAIN db : db'[q] \in Clauses,
             \A q \in DOMAIN db : q # r => db'[q] = db[q],
             \/ visit' = visit \ {r} /\ qhead' = qhead /\ confl' = confl /\ pc' = pc
             \/ visit' = {} /\ qhead' = Len(trail) /\ confl' = r /\ pc' = "conflict"
      PROVE  Counters' /\ (qhead \in 0 .. Len(trail))' /\ QueueOK'
  <2>1. Counters' /\ (qhead \in 0 .. Len(trail))'
    BY <1>1, <1>3, <1>4 DEF Counters, PCs
  <2>3. QueueOK'
    <3>1. DecisionLevel > 0 => trailLim[DecisionLevel] \in 0 .. Len(trail) - 1
      BY <1>3, Literals DEF TrailOK, DecisionLevel
    <3>2. CASE visit' = visit \ {r} /\ qhead' = qhead /\ confl' = confl /\ pc' = pc
      <4>1. visit' \subseteq Watchers(trail[qhead])'
        BY <1>3, <1>4, <3>2 DEF QueueOK, Watchers
      <4> QED BY <1>1, <1>3, <1>4, <3>2, <4>1 DEF QueueOK, DecisionLevel
    <3>3. CASE visit' = {} /\ qhead' = Len(trail) /\ confl' = r /\ pc' = "conflict"
      BY <1>1, <1>3, <1>4, <3>1, <3>3 DEF QueueOK, DecisionLevel
    <3> QED BY <1>4, <3>2, <3>3
  <2> QED BY <2>1, <2>3
\* A blocker is true.
<1>5. CASE /\ \E blocker \in LitsOf(c) : IsTrue(blocker)
           /\ visit' = visit \ {r}
           /\ UNCHANGED <<db, trail, reason, level, qhead, confl, pc>>
  <2>1. Counters' /\ (qhead \in 0 .. Len(trail))' /\ QueueOK'
    BY <1>4, <1>5, <1>3 DEF Counters
  <2>3. ConflictFalse'
    BY <1>1, <1>5 DEF ConflictFalse
  <2>4. ASSUME NEW q \in DOMAIN db, NEW j \in Places, Settled(q, j)'
        PROVE  Settled(q, j) \/ Held(q, j)
    <3>1. Settled(q, j) \/ (q = r /\ j = qhead)
      BY <1>1, <1>5, <2>4 DEF Settled, LevelOf, DecisionLevel
    <3>2. PICK l \in LitsOf(c) : IsTrue(l)
      BY <1>5
    <3>3. LevelOf(l) <= DecisionLevel
      BY <1>0, <1>2, <1>3, <3>2, Literals
    <3>4. Held(r, qhead)
      BY <1>0, <1>2, <3>2, <3>3 DEF Held
    <3> QED BY <3>1, <3>4
  <2> QED BY <1>1, <1>5, <2>1, <2>3, <2>4, QuietKeeps
\* The other watched literal is true.
<1>6. CASE /\ IsTrue(imp)
           /\ db' = [db EXCEPT ![r] = [c EXCEPT !.w = <<imp, fl>>]]
           /\ visit' = visit \ {r}
           /\ UNCHANGED <<trail, reason, level, qhead, confl, pc>>
  <2>1. PICK d : d = [c EXCEPT !.w = <<imp, fl>>]
    OBVIOUS
  <2>2. /\ d \in Clauses /\ LitsOf(d) = LitsOf(db[r]) /\ Watches(d) = Watches(db[r])
        /\ d.rest # {} /\ d.w[1] = OtherWatch(db[r]) /\ d.w[1] # d.w[2]
        /\ d.w[1] \notin d.rest /\ d.w[2] \notin d.rest
    BY <1>0, <1>1, <2>1, TurnedIs DEF IsBin
  <2>3. db' = [db EXCEPT ![r] = d]
    BY <1>6, <2>1
  <2>4. /\ DOMAIN db' = DOMAIN db
        /\ \A q \in DOMAIN db : db'[q] \in Clauses /\ (q # r => db'[q] = db[q])
    BY <1>1, <2>2, <2>3, Replaced
  <2>5. Counters' /\ (qhead \in 0 .. Len(trail))' /\ QueueOK'
    BY <1>4, <1>6, <2>4
  <2>6. ConflictFalse'
    BY <1>1, <1>6 DEF ConflictFalse
  <2> QED BY <1>0, <1>1, <1>6, <2>2, <2>3, <2>5, <2>6, RewatchKeeps
\* The watch moves.
<1>7. CASE /\ ~IsTrue(imp)
           /\ \E l \in Replacements(c) :
                db' = [db EXCEPT ![r].w = <<imp, l>>,
                                 ![r].rest = (@ \ {l}) \cup {fl}]
           /\ visit' = visit \ {r}
           /\ UNCHANGED <<trail, reason, level, qhead, confl, pc>>
  <2>1. PICK l \in Replacements(c) :
                db' = [db EXCEPT ![r].w = <<imp, l>>,
                                 ![r].rest = (@ \ {l}) \cup {fl}]
    BY <1>7
  <2>2. l \in db[r].rest /\ ~IsFalse(l) /\ l \in Lits
    BY <1>0, <1>3 DEF Replacements
  <2>3. PICK d : d = [db[r] EXCEPT !.w = <<imp, l>>, !.rest = (@ \ {l}) \cup {fl}]
    OBVIOUS
  <2>4. /\ d \in Clauses /\ LitsOf(d) = LitsOf(db[r]) /\ Watches(d) = {imp, l}
        /\ d.rest # {} /\ d.w[1] = OtherWatch(db[r]) /\ d.w[1] # d.w[2]
        /\ d.w[1] \notin d.rest /\ d.w[2] \notin d.rest
    BY <1>0, <1>1, <2>2, <2>3, MovedIs
  <2>5. db' = [db EXCEPT ![r] = d]
    BY <1>0, <1>2, <1>3, <2>1, <2>3 DEF Clauses
  <2>6. /\ DOMAIN db' = DOMAIN db
        /\ \A q \in DOMAIN db : db'[q] \in Clauses /\ (q # r => db'[q] = db[q])
    BY <1>1, <2>4, <2>5, Replaced
  <2>7. Counters' /\ (qhead \in 0 .. Len(trail))' /\ QueueOK'
    BY <1>4, <1>7, <2>6
  <2>8. ConflictFalse'
    BY <1>1, <1>7 DEF ConflictFalse
  <2>9. ASSUME NEW j \in Places, Neg(trail[j]) \in Watches(d)
        PROVE  Neg(trail[j]) \in Watches(db[r])
    <3>1. IsFalse(Neg(trail[j]))
      BY <1>3, NegLit DEF IsFalse, IsTrue
    <3>2. Neg(trail[j]) = imp
      BY <2>2, <2>4, <2>9, <3>1
    <3> QED BY <1>2, <3>2
  <2>10. FalseLit \notin Watches(d)
    BY <1>0, <1>2, <2>2, <2>4
  <2> QED BY <1>0, <1>1, <1>7, <2>4, <2>5, <2>7, <2>8, <2>9, <2>10, RewatchKeeps
\* All literals are false.
<1>8. CASE /\ IsFalse(imp) /\ Replacements(c) = {}
           /\ db' = [db EXCEPT ![r] = [c EXCEPT !.w = <<imp, fl>>]]
           /\ confl' = r /\ pc' = "conflict" /\ visit' = {}
           /\ qhead' = Len(trail)
           /\ UNCHANGED <<trail, reason, level>>
  <2>1. PICK d : d = [c EXCEPT !.w = <<imp, fl>>]
    OBVIOUS
  <2>2. /\ d \in Clauses /\ LitsOf(d) = LitsOf(db[r]) /\ Watches(d) = Watches(db[r])
        /\ d.rest # {} /\ d.w[1] = OtherWatch(db[r]) /\ d.w[1] # d.w[2]
        /\ d.w[1] \notin d.rest /\ d.w[2] \notin d.rest
    BY <1>0, <1>1, <2>1, TurnedIs DEF IsBin
  <2>3. db' = [db EXCEPT ![r] = d]
    BY <1>8, <2>1
  <2>4. /\ DOMAIN db' = DOMAIN db /\ LitsOf(db'[r]) = LitsOf(db[r])
        /\ Watches(db'[r]) = Watches(db[r])
        /\ \A q \in DOMAIN db : db'[q] \in Clauses /\ (q # r => db'[q] = db[q])
    BY <1>1, <1>2, <2>2, <2>3, Replaced
  <2>5. Counters' /\ (qhead \in 0 .. Len(trail))' /\ QueueOK'
    BY <1>4, <1>8, <2>4
  <2>6. \A l \in LitsOf(db[r]) : IsFalse(l)
    BY <1>2, <1>8 DEF Replacements
  <2>7. ConflictFalse'
    <3>1. /\ \A l \in LitsOf(db'[r]) : IsFalse(l)'
          /\ fl \in LitsOf(db'[r]) /\ level'[Var(fl)] = DecisionLevel'
          /\ r \in DOMAIN db'
      BY <1>1, <1>2, <1>8, <2>4, <2>6 DEF IsFalse, TrueLits, LevelOf, DecisionLevel
    <3> QED BY <1>8, <3>1 DEF ConflictFalse, Current, LevelOf
  <2> QED BY <1>0, <1>1, <1>8, <2>2, <2>3, <2>5, <2>7, RewatchKeeps
\* One literal is left.
<1>9. CASE /\ IsOpen(imp) /\ Replacements(c) = {}
           /\ db' = [db EXCEPT ![r] = [c EXCEPT !.w = <<imp, fl>>]]
           /\ UncheckedEnqueue(imp, r)
           /\ visit' = visit \ {r}
           /\ UNCHANGED <<qhead, confl, pc>>
  <2>1. PICK d : d = [c EXCEPT !.w = <<imp, fl>>]
    OBVIOUS
  <2>2. /\ d \in Clauses /\ LitsOf(d) = LitsOf(db[r]) /\ Watches(d) = Watches(db[r])
        /\ d.rest # {} /\ d.w[1] = imp /\ d.w[1] # d.w[2]
        /\ d.w[1] \notin d.rest /\ d.w[2] \notin d.rest
    BY <1>0, <1>1, <2>1, TurnedIs DEF IsBin
  <2>3. db' = [db EXCEPT ![r] = d]
    BY <1>9, <2>1
  <2>4. /\ DOMAIN db' = DOMAIN db /\ db'[r] = d
        /\ \A q \in DOMAIN db : /\ q # r => db'[q] = db[q]
                                /\ db'[q] \in Clauses
                                /\ LitsOf(db'[q]) = LitsOf(db[q])
        /\ SameReasons /\ ClausesOK'
    BY <1>0, <1>1, <2>2, <2>3, Replaced
  <2>5. Cut(trail', trailLim', level') /\ ReasonType' /\ Grows(imp, r, DecisionLevel)
    BY <1>1, <1>2, <1>3, <1>9, EnqueueGrows
  <2>6. Len(trail') = Len(trail) + 1 /\ Len(trail') \in Nat /\ trail'[qhead] = trail[qhead]
    BY <1>2, <1>3, <2>5 DEF Grows
  <2>7. Counters' /\ (qhead \in 0 .. Len(trail))'
    BY <1>1, <1>3, <1>9, <2>4, <2>6 DEF Counters, PCs
  <2>8. TypeOK' /\ TrailOK'
    BY <2>5, <2>7, FoldTypes
  <2>9. QueueOK'
    <3>1. \A q \in visit \ {r} : q \in Watchers(trail[qhead]) => q \in Watchers(trail[qhead])'
      BY <1>9, <2>4, <2>6 DEF Watchers
    <3>2. visit' \subseteq Watchers(trail[qhead])'
      BY <1>3, <1>9, <3>1 DEF QueueOK
    <3> QED BY <1>1, <1>3, <1>9, <2>6, <3>2 DEF QueueOK, DecisionLevel
  <2>10. ConflictFalse'
    BY <1>1, <1>9 DEF ConflictFalse
  <2>11. Justified(Var(imp))'
    <3>1. reason'[Var(imp)] = r /\ imp \in TrueLits'
      BY <2>5 DEF Grows
    <3>2. ASSUME NEW l \in LitsOf(db[r]), l # imp PROVE Before(l, Var(imp))'
      <4>1. IsFalse(l)
        BY <1>2, <1>9, <3>2 DEF Replacements
      <4>2. PICK i \in Places : trail[i] = Neg(l)
        BY <4>1 DEF IsFalse, TrueLits, Places
      <4>3. /\ i \in 1 .. Len(trail') /\ Len(trail) + 1 \in 1 .. Len(trail')
            /\ i < Len(trail) + 1
        BY <1>3, <2>6 DEF Places
      <4>4. trail'[i] = Neg(l) /\ trail'[Len(trail) + 1] = imp
        BY <2>5, <4>2 DEF Grows
      <4> QED BY <4>3, <4>4 DEF Before
    <3>3. r \in DOMAIN db' /\ d.w[1] = imp /\ LitsOf(db'[r]) = LitsOf(db[r])
      BY <1>2, <2>2, <2>4
    <3>4. 1 \in IF IsBin(db'[r]) THEN {1, 2} ELSE {1}
      OBVIOUS
    <3> QED BY <2>4, <3>1, <3>2, <3>3, <3>4 DEF Justified, IsTrue
  <2>12. ReasonsImply'
    BY <1>1, <1>2, <1>3, <2>4, <2>5, <2>11, GrowsJustified
  <2>13. ASSUME NEW q \in DOMAIN db', NEW j \in 1 .. Len(trail'),
                Neg(trail'[j]) \in Watches(db'[q]), Settled(q, j)'
         PROVE  \/ Held(q, j)'
                \/ /\ j \in Places /\ q \in DOMAIN db /\ LitsOf(db'[q]) = LitsOf(db[q])
                   /\ Neg(trail[j]) \in Watches(db[q]) /\ Settled(q, j)
    <3>1. CASE j = Len(trail) + 1
      <4>1. level'[Var(trail'[j])] = DecisionLevel
        BY <2>5, <3>1 DEF Grows
      <4>2. ~(LevelOf(trail[j])' < DecisionLevel') /\ ~(j <= qhead')
        BY <1>1, <1>3, <1>9, <3>1, <4>1 DEF LevelOf, DecisionLevel
      <4> QED BY <1>1, <1>3, <1>9, <2>13, <4>1, <4>2, <3>1 DEF Settled, LevelOf, DecisionLevel
    <3>2. CASE j \in Places
      <4>1. /\ trail'[j] = trail[j] /\ IsTrue(trail[j]) /\ trail[j] \in Lits
            /\ Var(trail[j]) \in DOMAIN level
        BY <1>3, <2>5, <3>2, Literals DEF Grows
      <4>2. level'[Var(trail[j])] = level[Var(trail[j])]
        BY <2>5, <4>1 DEF Grows
      <4>3. Settled(q, j) \/ (q = r /\ j = qhead)
        BY <1>1, <1>9, <2>13, <3>2, <4>1, <4>2, SettledBy
      <4>4. CASE q = r /\ j = qhead
        <5>1. imp \in TrueLits' /\ level'[Var(imp)] = DecisionLevel
          BY <2>5 DEF Grows
        <5>2. level'[Var(trail'[qhead])] = DecisionLevel
          BY <1>2, <2>6, <4>2, <4>4 DEF LevelOf
        <5>3. imp \in LitsOf(db'[r]) /\ DecisionLevel <= DecisionLevel
          BY <1>1, <1>2, <1>3, <2>4
        <5>4. Held(r, qhead)'
          BY <1>1, <1>9, <5>1, <5>2, <5>3 DEF Held, IsTrue, LevelOf
        <5> QED BY <1>9, <4>4, <5>4
      <4>5. Neg(trail[j]) \in Watches(db[q])
        BY <2>2, <2>4, <2>13, <4>1
      <4> QED BY <2>4, <3>2, <4>3, <4>4, <4>5
    <3>3. j \in Places \/ j = Len(trail) + 1
      BY <1>3, <2>6 DEF Places
    <3> QED BY <3>1, <3>2, <3>3
  <2>14. Watched'
    BY <1>2, <1>3, <2>5, <2>13, GrowsWatched
  <2> QED BY <2>4, <2>8, <2>9, <2>10, <2>12, <2>14 DEF InSearch
<1> QED BY <1>0, <1>5, <1>6, <1>7, <1>8, <1>9 DEF VisitLong

-----------------------------------------------------------------------------
\* A clause is added.
LEMMA Added ==
  ASSUME InSearch, FreeRefs # {}, NEW d \in Clauses, NEW n, n = NewRef,
         d.w[1] # d.w[2], d.w[1] \notin d.rest, d.w[2] \notin d.rest,
         db' = Extend(db, n, d)
  PROVE  /\ n \in Refs /\ n \notin DOMAIN db /\ n # Undef
         /\ DOMAIN db' = DOMAIN db \cup {n} /\ db'[n] = d
         /\ \A q \in DOMAIN db : q # n /\ db'[q] = db[q]
         /\ DOMAIN db' \subseteq Refs
         /\ \A q \in DOMAIN db' : db'[q] \in Clauses
         /\ SameReasons /\ ClausesOK'
<1>1. n \in Refs /\ n \notin DOMAIN db
  BY NewRefFree
<1>2. /\ DOMAIN db' = DOMAIN db \cup {n} /\ db'[n] = d
      /\ \A q \in DOMAIN db : q # n /\ db'[q] = db[q]
  BY <1>1 DEF Extend
<1>3. /\ DOMAIN db' \subseteq Refs
      /\ \A q \in DOMAIN db' : db'[q] \in Clauses
  BY <1>1, <1>2 DEF InSearch, TypeOK
<1>4. SameReasons
  BY <1>2 DEF SameReasons
<1>5. ClausesOK'
  BY <1>2 DEF ClausesOK, InSearch
<1>6. n # Undef
  BY <1>1, BoundsAssumption DEF Refs, Undef
<1> QED BY <1>1, <1>2, <1>3, <1>4, <1>5, <1>6

\* Of a set of literals one is the least.
LEMMA LeastIn ==
  ASSUME NEW C, C \subseteq Lits, C # {}
  PROVE  Least(C) \in C
<1>1. ASSUME NEW l \in Lits PROVE Key(l) \in Nat
  <2>1. Var(l) \in Nat /\ (IF l[2] THEN 0 ELSE 1) \in Nat
    BY VarsAssumption, NegLit
  <2> QED BY <2>1 DEF Key
<1>2. {Key(l) : l \in C} \subseteq Nat /\ {Key(l) : l \in C} # {}
  BY <1>1
<1>3. \E m \in {Key(l) : l \in C} : \A k \in {Key(l) : l \in C} : m <= k
  BY <1>2, LeastNumber
<1>4. \E l \in C : \A m \in C : Key(l) <= Key(m)
  BY <1>3
<1> QED BY <1>4 DEF Least

\* At level 0 no literal needs a reason.
LEMMA ZeroJustified ==
  ASSUME \A v \in DOMAIN reason' : ~(level'[v] > 0)
  PROVE  ReasonsImply'
  BY DEF ReasonsImply

\* A clause of the file is read.
LEMMA AddClauseKeeps ==
  ASSUME InSearch, AddClause
  PROVE  InSearch'
<1>0. PICK ps, C : ps = input[nextClause] /\ C = {l \in ps : ~IsFalse(l)}
  OBVIOUS
<1>1. /\ trailLim' = trailLim /\ qhead' = qhead /\ visit' = visit
      /\ input' = input /\ nextClause' = nextClause + 1 /\ confl' = confl
      /\ conflictC' = conflictC /\ simpAssigns' = simpAssigns /\ reductions' = reductions
      /\ adapt' = adapt /\ pc = "load" /\ nextClause <= Len(input)
  BY DEF AddClause
<1>2. /\ TypeOK /\ TrailOK /\ QueueOK /\ ClausesOK /\ Watched /\ ReasonsImply
      /\ Counters /\ qhead \in 0 .. Len(trail) /\ Len(trail) \in Nat
      /\ DecisionLevel = 0 /\ visit = {}
      /\ \A v \in DOMAIN level : level[v] \in 0 .. DecisionLevel
      /\ \A j \in Places : IsTrue(trail[j]) /\ trail[j] \in Lits
  BY <1>1, Literals DEF InSearch, QueueOK
<1>3. ps \subseteq Lits /\ nextClause' \in 1 .. Len(input) + 1 /\ input \in Formulas
  BY <1>0, <1>1, <1>2, FormulasAssumption DEF TypeOK
<1>4. ASSUME UNCHANGED <<db, trail, reason, level>>, pc' \in {"load", "done"},
             status' \in {"none", "SAT", "UNSAT"}
      PROVE  InSearch'
  <2>1. Counters' /\ (qhead \in 0 .. Len(trail))'
    BY <1>1, <1>2, <1>3, <1>4 DEF Counters, PCs
  <2>2. QueueOK' /\ ConflictFalse'
    BY <1>1, <1>2, <1>4 DEF QueueOK, ConflictFalse, DecisionLevel
  <2>3. \A r, j : Settled(r, j)' => Settled(r, j)
    BY <1>1, <1>4 DEF Settled, DecisionLevel, LevelOf
  <2> QED BY <1>1, <1>4, <2>1, <2>2, <2>3, QuietKeeps
<1>5. CASE UNCHANGED <<db, trail, reason, level, pc, status>>
  BY <1>1, <1>2, <1>4, <1>5 DEF Counters
<1>6. CASE Answer("UNSAT") /\ UNCHANGED <<db, trail, reason, level>>
  BY <1>4, <1>6 DEF Answer
<1>7. CASE /\ ~(\E l \in ps : IsTrue(l) \/ Neg(l) \in ps)
           /\ \E l \in C : UncheckedEnqueue(l, Undef)
           /\ pc' = "propagate"
           /\ UNCHANGED <<db, status>>
  <2>1. PICK l \in C : UncheckedEnqueue(l, Undef)
    BY <1>7
  <2>2. l \in Lits /\ IsOpen(l)
    BY <1>0, <1>3, <1>7 DEF IsOpen
  <2>3. Cut(trail', trailLim', level') /\ ReasonType' /\ Grows(l, Undef, 0)
    BY <1>1, <1>2, <2>1, <2>2, EnqueueGrows
  <2>4. Len(trail') = Len(trail) + 1 /\ Len(trail') \in Nat
    BY <1>2, <2>3 DEF Grows
  <2>5. Counters' /\ (qhead \in 0 .. Len(trail))'
    BY <1>1, <1>2, <1>3, <1>7, <2>4 DEF Counters, PCs
  <2>6. TypeOK' /\ TrailOK'
    BY <2>3, <2>5, FoldTypes
  <2>7. QueueOK' /\ ConflictFalse'
    BY <1>1, <1>2, <1>7 DEF QueueOK, ConflictFalse, DecisionLevel
  <2>8. ClausesOK'
    BY <1>2, <1>7 DEF ClausesOK
  <2>9. ReasonsImply'
    <3>1. \A v \in DOMAIN level' : level'[v] \in 0 .. DecisionLevel'
      BY <2>3, CutFacts DEF DecisionLevel
    <3>2. DecisionLevel' = 0
      BY <1>1, <1>2 DEF DecisionLevel
    <3> QED BY <2>3, <3>1, <3>2, ZeroJustified DEF ReasonType
  <2>10. ASSUME NEW q \in DOMAIN db', NEW j \in 1 .. Len(trail'),
                Neg(trail'[j]) \in Watches(db'[q]), Settled(q, j)'
         PROVE  /\ j \in Places /\ q \in DOMAIN db /\ LitsOf(db'[q]) = LitsOf(db[q])
                /\ Neg(trail[j]) \in Watches(db[q]) /\ Settled(q, j)
    <3>1. j <= qhead
      <4>1. DecisionLevel' = 0 /\ Var(trail'[j]) \in DOMAIN level'
        BY <1>1, <1>2, <2>3, CutFacts DEF DecisionLevel, Cut
      <4>2. level'[Var(trail'[j])] \in 0 .. DecisionLevel'
        BY <2>3, <4>1, CutFacts DEF DecisionLevel
      <4>3. ~(level'[Var(trail'[j])] < DecisionLevel')
        BY <4>1, <4>2
      <4> QED BY <1>1, <1>2, <2>10, <4>3 DEF Settled, LevelOf
    <3>2. j \in Places
      BY <1>2, <2>4, <3>1 DEF Places
    <3>3. trail'[j] = trail[j]
      BY <2>3, <3>2 DEF Grows
    <3>4. j < qhead \/ j = qhead
      BY <1>2, <3>1, <3>2 DEF Places
    <3> QED BY <1>1, <1>2, <1>7, <2>10, <3>2, <3>3, <3>4 DEF Settled
  <2>11. Watched'
    BY <1>2, <2>2, <2>3, <2>10, GrowsWatched
  <2> QED BY <2>6, <2>7, <2>8, <2>9, <2>11 DEF InSearch
<1>8. CASE /\ Cardinality(C) > 1 /\ FreeRefs # {}
           /\ LET a == Least(C)
                  b == Least(C \ {a})
              IN db' = Extend(db, NewRef,
                              [w |-> <<a, b>>, rest |-> C \ {a, b}, learnt |-> FALSE])
           /\ UNCHANGED <<trail, reason, level, pc, status>>
  <2>1. PICK a, b, n, d : /\ a = Least(C) /\ b = Least(C \ {a}) /\ n = NewRef
                          /\ d = [w |-> <<a, b>>, rest |-> C \ {a, b}, learnt |-> FALSE]
    OBVIOUS
  <2>2. C \subseteq Lits /\ \A l \in C : ~IsFalse(l)
    BY <1>0, <1>3
  <2>3. a \in C
    <3>1. C # {}
      BY <1>8, FS_EmptySet
    <3> QED BY <2>1, <2>2, <3>1, LeastIn
  <2>4. b \in C /\ b # a
    <3>1. C # {a}
      <4>1. Cardinality({a}) = 1
        BY SingleCard
      <4> QED BY <1>8, <4>1
    <3>2. C \ {a} # {} /\ C \ {a} \subseteq Lits
      BY <2>2, <2>3, <3>1
    <3>3. b \in C \ {a}
      BY <2>1, <3>2, LeastIn
    <3> QED BY <3>3
  <2>5. /\ d \in Clauses /\ d.w = <<a, b>> /\ d.rest = C \ {a, b}
        /\ d.w[1] = a /\ d.w[2] = b
    BY <2>1, <2>2, <2>3, <2>4 DEF Clauses
  <2>6. d.w[1] # d.w[2] /\ d.w[1] \notin d.rest /\ d.w[2] \notin d.rest
    BY <2>4, <2>5
  <2>7. db' = Extend(db, n, d)
    BY <1>8, <2>1
  <2>8. /\ DOMAIN db' = DOMAIN db \cup {n} /\ db'[n] = d
        /\ \A q \in DOMAIN db : q # n /\ db'[q] = db[q]
        /\ DOMAIN db' \subseteq Refs
        /\ \A q \in DOMAIN db' : db'[q] \in Clauses
        /\ SameReasons /\ ClausesOK'
    <3>1. FreeRefs # {} /\ n = NewRef
      BY <1>8, <2>1
    <3> QED BY <2>5, <2>6, <2>7, <3>1, Added
  <2>9. Counters' /\ (qhead \in 0 .. Len(trail))'
    BY <1>1, <1>2, <1>3, <1>8, <2>8 DEF Counters, PCs
  <2>10. TypeOK' /\ TrailOK'
    <3>1. Cut(trail', trailLim', level') /\ ReasonType'
      BY <1>1, <1>2, <1>8, Literals DEF ReasonType
    <3> QED BY <2>9, <3>1, FoldTypes
  <2>11. QueueOK' /\ ConflictFalse'
    BY <1>1, <1>2, <1>8 DEF QueueOK, ConflictFalse, DecisionLevel
  <2>12. ReasonsImply'
    BY <1>1, <1>2, <1>8, <2>8, SameJustified
  <2>13. ASSUME NEW q \in DOMAIN db', NEW j \in Places,
                Neg(trail[j]) \in Watches(db'[q]), Settled(q, j)'
         PROVE  /\ q \in DOMAIN db /\ LitsOf(db'[q]) = LitsOf(db[q])
                /\ Neg(trail[j]) \in Watches(db[q]) /\ Settled(q, j)
    <3>1. IsFalse(Neg(trail[j]))
      BY <1>2, NegLit DEF IsFalse, IsTrue
    <3>2. Watches(d) = {a, b}
      BY <2>5 DEF Watches
    <3>3. q # n
      BY <2>2, <2>3, <2>4, <2>8, <2>13, <3>1, <3>2
    <3>4. q \in DOMAIN db /\ db'[q] = db[q]
      BY <2>8, <3>3
    <3>5. Settled(q, j)
      BY <1>1, <1>8, <2>13 DEF Settled, LevelOf, DecisionLevel
    <3> QED BY <2>13, <3>4, <3>5
  <2>14. Watched'
    BY <1>1, <1>2, <1>8, <2>13, SameWatched
  <2> QED BY <2>8, <2>10, <2>11, <2>12, <2>14 DEF InSearch
<1> QED BY <1>0, <1>5, <1>6, <1>7, <1>8 DEF AddClause

\* A decision.
LEMMA DecideKeeps ==
  ASSUME InSearch, Decide
  PROVE  InSearch'
<1>1. /\ db' = db /\ qhead' = qhead /\ visit' = visit
      /\ input' = input /\ nextClause' = nextClause /\ confl' = confl
      /\ conflictC' = conflictC /\ simpAssigns' = simpAssigns /\ reductions' = reductions
      /\ adapt' = adapt /\ status' = status
      /\ pc = "decide" /\ pc' = "propagate" /\ trailLim' = Append(trailLim, Len(trail))
  BY DEF Decide
<1>2. /\ TypeOK /\ TrailOK /\ QueueOK /\ ClausesOK /\ Watched /\ ReasonsImply
      /\ Counters /\ Len(trail) \in Nat /\ DecisionLevel \in Nat
      /\ visit = {} /\ qhead = Len(trail)
      /\ \A j \in Places : IsTrue(trail[j]) /\ trail[j] \in Lits
  BY <1>1, Literals DEF InSearch, QueueOK
<1>3. PICK l \in Decidable(input) :
         /\ Var(l) \in Variables /\ IsOpen(l)
         /\ trail' = Append(trail, l)
         /\ reason' = Extend(reason, Var(l), Undef)
         /\ level' = Extend(level, Var(l), DecisionLevel + 1)
  BY DEF Decide
<1>4. l \in Lits
  BY <1>2, <1>3, DecidableAssumption DEF Counters
<1>5. /\ Cut(trail', trailLim', level') /\ ReasonType'
      /\ Grows(l, Undef, DecisionLevel + 1)
      /\ DecisionLevel' = DecisionLevel + 1 /\ trailLim'[DecisionLevel + 1] = Len(trail)
      /\ \A k \in 1 .. DecisionLevel : trailLim'[k] = trailLim[k]
  BY <1>1, <1>2, <1>3, <1>4, DecideGrows
<1>6. Len(trail') = Len(trail) + 1 /\ Len(trail') \in Nat
  BY <1>2, <1>5 DEF Grows
<1>7. Counters' /\ (qhead \in 0 .. Len(trail))'
  BY <1>1, <1>2, <1>6 DEF Counters, PCs
<1>8. TypeOK' /\ TrailOK'
  BY <1>5, <1>7, FoldTypes
<1>9. QueueOK'
  <2>1. ~(nextClause <= Len(input))
    BY <1>1, <1>2, FormulasAssumption DEF QueueOK, TypeOK
  <2> QED BY <1>1, <1>2, <1>5, <2>1 DEF QueueOK
<1>10. ConflictFalse' /\ ClausesOK' /\ SameReasons
  BY <1>1, <1>2 DEF ConflictFalse, ClausesOK, SameReasons
<1>11. Justified(Var(l))'
  <2>1. /\ reason'[Var(l)] = Undef /\ level'[Var(l)] = DecisionLevel + 1
        /\ trail'[Len(trail) + 1] = l
    BY <1>5 DEF Grows
  <2> QED BY <1>5, <2>1 DEF Justified
<1>12. ReasonsImply'
  <2>1. DecisionLevel + 1 \in Nat
    BY <1>2
  <2> QED BY <1>2, <1>4, <1>5, <1>10, <1>11, <2>1, GrowsJustified
<1>13. ASSUME NEW q \in DOMAIN db', NEW j \in 1 .. Len(trail'),
              Neg(trail'[j]) \in Watches(db'[q]), Settled(q, j)'
       PROVE  /\ j \in Places /\ q \in DOMAIN db /\ LitsOf(db'[q]) = LitsOf(db[q])
              /\ Neg(trail[j]) \in Watches(db[q]) /\ Settled(q, j)
  <2>1. j # Len(trail) + 1
    <3>1. ASSUME j = Len(trail) + 1 PROVE FALSE
      <4>1. level'[Var(trail'[j])] = DecisionLevel + 1
        BY <1>5, <3>1 DEF Grows
      <4>2. ~(LevelOf(trail[j])' < DecisionLevel') /\ ~(j <= qhead')
        BY <1>1, <1>2, <1>5, <3>1, <4>1 DEF LevelOf
      <4> QED BY <1>1, <1>2, <1>13, <3>1, <4>2 DEF Settled
    <3> QED BY <3>1
  <2>2. j \in Places
    BY <1>2, <1>6, <2>1 DEF Places
  <2>3. trail'[j] = trail[j]
    BY <1>5, <2>2 DEF Grows
  <2>4. Settled(q, j)
    BY <1>1, <1>2, <2>2 DEF Settled, Places
  <2> QED BY <1>1, <1>13, <2>2, <2>3, <2>4
<1>14. Watched'
  <2>1. DecisionLevel + 1 \in Nat
    BY <1>2
  <2> QED BY <1>2, <1>4, <1>5, <1>13, <2>1, GrowsWatched
<1> QED BY <1>8, <1>9, <1>10, <1>12, <1>14 DEF InSearch

\* Back to level 0, where clauses may be removed.
LEMMA BackToZero ==
  ASSUME InSearch, DecisionLevel > 0, trail' = KeptTrail(0),
         trailLim' = SubSeq(trailLim, 1, 0), level' = Only(level, KeptVars(0)),
         qhead' = trailLim[1], visit' = {}, pc' = "propagate",
         nextClause' = nextClause, input' = input,
         ReasonType', Counters', \A q \in DOMAIN db' : q \in DOMAIN db /\ db'[q] = db[q]
  PROVE  InSearch'
<1>1. /\ TypeOK /\ TrailOK /\ QueueOK /\ ClausesOK /\ Watched
      /\ Len(trail) \in Nat /\ DecisionLevel \in Nat
      /\ 0 \in 0 .. DecisionLevel - 1
      /\ \A l \in TrueLits : l \in Lits /\ LevelOf(l) \in 0 .. DecisionLevel
      /\ \A j \in Places : trail[j] \in TrueLits
  BY Literals DEF InSearch, IsTrue
<1>2. Cut(trail', trailLim', level') /\ Shrinks(0)
  BY <1>1, CancelShrinks
<1> DEFINE n == trailLim[1]
<1>3. /\ n \in 0 .. Len(trail) - 1 /\ Len(trail') = n /\ DecisionLevel' = 0
      /\ \A i \in 1 .. n : trail'[i] = trail[i]
      /\ \A i \in Places : i <= n <=> LevelOf(trail[i]) <= 0
      /\ TrueLits' = {l \in TrueLits : LevelOf(l) <= 0}
      /\ DOMAIN level' = KeptVars(0)
      /\ \A v \in KeptVars(0) : level'[v] = level[v] /\ level[v] <= 0
  <2>1. 0 + 1 = 1
    OBVIOUS
  <2> QED BY <1>2, <2>1 DEF Shrinks
<1> HIDE DEF n
<1>4. qhead' = n
  BY DEF n
<1>5. TypeOK' /\ TrailOK'
  <2>1. (qhead \in 0 .. Len(trail))'
    BY <1>1, <1>3, <1>4
  <2> QED BY <1>2, <2>1, FoldTypes
<1>6. QueueOK' /\ ConflictFalse'
  BY <1>3 DEF QueueOK, ConflictFalse
<1>7. ClausesOK'
  BY <1>1 DEF ClausesOK
<1>8. ReasonsImply'
  <2>1. \A v \in KeptVars(0) : level[v] \in Nat
    BY <1>1, <1>2, Literals DEF Shrinks
  <2> QED BY <1>3, <2>1, ZeroJustified DEF ReasonType
<1>9. \A i \in 1 .. n : i \in Places /\ LevelOf(trail[i]) <= 0
  BY <1>1, <1>3 DEF Places
<1>10. ASSUME NEW l \in TrueLits, NEW j \in 1 .. n, LevelOf(l) <= LevelOf(trail[j])
       PROVE  l \in TrueLits' /\ level'[Var(l)] = level[Var(l)]
  <2>1. LevelOf(l) <= 0
    BY <1>1, <1>9, <1>10
  <2>2. l \in TrueLits'
    BY <1>3, <2>1
  <2>3. Var(l) \in DOMAIN level'
    BY <1>1, <1>2, <2>2, CutFacts DEF TrueIn, TrueLits
  <2> QED BY <1>3, <2>2, <2>3
<1>11. ASSUME NEW q \in DOMAIN db', NEW j \in 1 .. Len(trail'),
              Neg(trail'[j]) \in Watches(db'[q]), Settled(q, j)'
       PROVE  /\ j \in 1 .. n /\ q \in DOMAIN db /\ LitsOf(db'[q]) = LitsOf(db[q])
              /\ Neg(trail[j]) \in Watches(db[q]) /\ Settled(q, j)
  <2>1. j \in 1 .. n /\ trail'[j] = trail[j]
    BY <1>3
  <2>2. LevelOf(trail[j]) < DecisionLevel
    BY <1>1, <1>9, <2>1
  <2> QED BY <1>11, <2>1, <2>2 DEF Settled
<1>12. Watched'
  <2>1. n \in 0 .. Len(trail) /\ n <= Len(trail') /\ Len(trail') \in Nat
    BY <1>1, <1>3
  <2> QED BY <1>1, <1>3, <1>10, <1>11, <2>1, WatchedStep
<1> QED BY <1>5, <1>6, <1>7, <1>8, <1>12 DEF InSearch

\* A restart.
LEMMA RestartKeeps ==
  ASSUME InSearch, Restart
  PROVE  InSearch'
<1>1. /\ db' = db /\ visit' = visit
      /\ input' = input /\ nextClause' = nextClause /\ confl' = confl
      /\ conflictC' = FALSE /\ simpAssigns' = simpAssigns /\ reductions' = reductions
      /\ adapt' = adapt /\ status' = status
      /\ pc = "decide" /\ pc' = "propagate"
  BY DEF Restart
<1>2. /\ TypeOK /\ TrailOK /\ QueueOK /\ Counters /\ visit = {} /\ ReasonType
      /\ qhead = Len(trail) /\ DecisionLevel \in Nat
  BY <1>1, Literals DEF InSearch, QueueOK
<1>3. Counters'
  BY <1>1, <1>2 DEF Counters, PCs
<1>4. CASE DecisionLevel > 0
  <2>1. /\ trail' = KeptTrail(0) /\ reason' = Only(reason, KeptVars(0))
        /\ level' = Only(level, KeptVars(0)) /\ trailLim' = SubSeq(trailLim, 1, 0)
        /\ qhead' = trailLim[0 + 1]
    BY <1>4 DEF Restart, CancelUntil
  <2>2. ReasonType'
    BY <1>2, <2>1 DEF ReasonType, Only
  <2>3. qhead' = trailLim[1]
    BY <2>1
  <2> QED BY <1>1, <1>2, <1>3, <1>4, <2>1, <2>2, <2>3, BackToZero
<1>5. CASE ~(DecisionLevel > 0)
  <2>1. UNCHANGED <<trail, reason, level, trailLim, qhead>>
    BY <1>5 DEF Restart
  <2>2. (qhead \in 0 .. Len(trail))' /\ QueueOK' /\ ConflictFalse'
    BY <1>1, <1>2, <2>1 DEF QueueOK, ConflictFalse, TypeOK, DecisionLevel
  <2>3. \A r, j : Settled(r, j)' => Settled(r, j)
    BY <1>1, <2>1 DEF Settled, DecisionLevel, LevelOf
  <2> QED BY <1>1, <1>3, <2>1, <2>2, <2>3, QuietKeeps
<1> QED BY <1>4, <1>5

\* removeClause, for some of the clauses.
LEMMA Removed ==
  ASSUME InSearch, NEW S, NEW first, NEW V, V \subseteq DOMAIN reason,
         RemoveClauses(S, first, V)
  PROVE  /\ \A q \in DOMAIN db' : q \in DOMAIN db /\ db'[q] = db[q]
         /\ DOMAIN db' = DOMAIN db \ S
         /\ DOMAIN reason' = V /\ \A v \in V : reason'[v] \in Refs \cup {Undef}
         /\ (\A r \in S : ~LockedIn(r, V)) => \A v \in V : reason'[v] = reason[v]
<1>1. \A v \in DOMAIN reason : reason[v] \in Refs \cup {Undef}
  BY DEF InSearch, TypeOK
<1>2. /\ \A q \in DOMAIN db' : q \in DOMAIN db /\ db'[q] = db[q]
      /\ DOMAIN db' = DOMAIN db \ S
  BY DEF RemoveClauses, Only
<1> HIDE DEF LockedIn
<1>3. /\ DOMAIN reason' = V /\ \A v \in V : reason'[v] \in Refs \cup {Undef}
      /\ (\A r \in S : ~LockedIn(r, V)) => \A v \in V : reason'[v] = reason[v]
  BY <1>1 DEF RemoveClauses
<1> QED BY <1>2, <1>3

\* adaptSolver, at the 100000th conflict.
LEMMA AdaptKeeps ==
  ASSUME InSearch, Adapt
  PROVE  InSearch'
<1>1. /\ visit' = visit /\ input' = input /\ nextClause' = nextClause /\ confl' = Undef
      /\ conflictC' = FALSE /\ simpAssigns' = simpAssigns /\ reductions' = reductions
      /\ adapt' = FALSE /\ status' = status /\ DecisionLevel > 0
      /\ pc = "conflict" /\ pc' = "propagate"
      /\ trail' = KeptTrail(0) /\ level' = Only(level, KeptVars(0))
      /\ trailLim' = <<>> /\ qhead' = trailLim[1]
  BY DEF Adapt
<1>2. /\ TypeOK /\ TrailOK /\ QueueOK /\ Counters /\ visit = {} /\ ReasonType
      /\ DecisionLevel \in Nat /\ trailLim \in Seq(Nat)
  BY <1>1, Literals DEF InSearch, QueueOK, Cut
<1>3. PICK S, first : RemoveClauses(S, first, KeptVars(0))
  BY DEF Adapt
<1>4. trailLim' = SubSeq(trailLim, 1, 0)
  BY <1>1, <1>2
<1>5. Shrinks(0)
  <2>1. 0 \in 0 .. DecisionLevel - 1
    BY <1>1, <1>2
  <2> QED BY <1>1, <1>2, <1>4, <2>1, CancelShrinks
<1>6. KeptVars(0) \subseteq DOMAIN reason /\ DOMAIN level' = KeptVars(0)
  BY <1>2, <1>5 DEF Shrinks, ReasonType
<1>7. /\ \A q \in DOMAIN db' : q \in DOMAIN db /\ db'[q] = db[q]
      /\ DOMAIN db' = DOMAIN db \ S
      /\ DOMAIN reason' = KeptVars(0)
      /\ \A v \in KeptVars(0) : reason'[v] \in Refs \cup {Undef}
  BY <1>3, <1>6, Removed
<1>8. ReasonType'
  BY <1>6, <1>7 DEF ReasonType
<1>9. Counters'
  BY <1>1, <1>2, <1>7 DEF Counters, PCs
<1> QED BY <1>1, <1>2, <1>4, <1>7, <1>8, <1>9, BackToZero

\* simplify, at level 0.
LEMMA SimplifyKeeps ==
  ASSUME InSearch, Simplify
  PROVE  InSearch'
<1>1. /\ trail' = trail /\ trailLim' = trailLim /\ level' = level /\ qhead' = qhead
      /\ visit' = visit /\ input' = input /\ nextClause' = nextClause /\ confl' = confl
      /\ conflictC' = conflictC /\ simpAssigns' = Len(trail) /\ reductions' = reductions
      /\ adapt' = adapt /\ status' = status /\ pc = "decide" /\ pc' = pc
      /\ DecisionLevel = 0
  BY DEF Simplify
<1>2. /\ TypeOK /\ TrailOK /\ QueueOK /\ ClausesOK /\ Watched /\ Counters /\ ReasonType
      /\ visit = {} /\ Cut(trail, trailLim, level) /\ qhead \in 0 .. Len(trail)
      /\ \A v \in DOMAIN level : level[v] \in 0 .. DecisionLevel
  BY <1>1, Literals DEF InSearch, QueueOK
<1>3. PICK S, first : RemoveClauses(S, first, DOMAIN reason)
  BY DEF Simplify
<1>4. /\ \A q \in DOMAIN db' : q \in DOMAIN db /\ db'[q] = db[q]
      /\ DOMAIN reason' = DOMAIN reason
      /\ \A v \in DOMAIN reason : reason'[v] \in Refs \cup {Undef}
  BY <1>3, Removed
<1>5. Counters' /\ (qhead \in 0 .. Len(trail))'
  <2>1. Len(trail) \in -1 .. Cardinality(Vars)
    BY <1>2, TrailShort, Literals
  <2> QED BY <1>1, <1>2, <1>4, <2>1 DEF Counters, PCs
<1>6. TypeOK' /\ TrailOK'
  <2>1. Cut(trail', trailLim', level') /\ ReasonType'
    BY <1>1, <1>2, <1>4 DEF ReasonType
  <2> QED BY <1>5, <2>1, FoldTypes
<1>7. QueueOK' /\ ConflictFalse' /\ ClausesOK'
  BY <1>1, <1>2, <1>4 DEF QueueOK, ConflictFalse, ClausesOK, DecisionLevel
<1>8. ReasonsImply'
  BY <1>1, <1>2, <1>4, ZeroJustified DEF ReasonType
<1>9. \A q, j : Settled(q, j)' => Settled(q, j)
  BY <1>1 DEF Settled, LevelOf, DecisionLevel
<1>10. Watched'
  BY <1>1, <1>2, <1>4, <1>9, SameWatched
<1> QED BY <1>6, <1>7, <1>8, <1>10 DEF InSearch

\* reduceDB: clauses that are locked stay.
LEMMA ReduceDBKeeps ==
  ASSUME InSearch, ReduceDB
  PROVE  InSearch'
<1>1. /\ trail' = trail /\ trailLim' = trailLim /\ level' = level /\ qhead' = qhead
      /\ visit' = visit /\ input' = input /\ nextClause' = nextClause /\ confl' = confl
      /\ conflictC' = conflictC /\ simpAssigns' = simpAssigns
      /\ reductions < MaxReductions(input) /\ reductions' = reductions + 1
      /\ adapt' = adapt /\ status' = status /\ pc = "decide" /\ pc' = pc
  BY DEF ReduceDB
<1>2. /\ TypeOK /\ TrailOK /\ QueueOK /\ ClausesOK /\ Watched /\ ReasonsImply
      /\ Counters /\ ReasonType
      /\ visit = {} /\ Cut(trail, trailLim, level) /\ qhead \in 0 .. Len(trail)
      /\ Len(trail) \in Nat
  BY <1>1, Literals DEF InSearch, QueueOK
<1>3. PICK S \in SUBSET {r \in Learnts : ~IsBin(db[r]) /\ ~Locked(r)} :
         RemoveClauses(S, [r \in S |-> 1], DOMAIN reason)
  BY DEF ReduceDB
<1>4. \A r \in S : ~LockedIn(r, DOMAIN reason) /\ ~IsBin(db[r])
  BY <1>3 DEF Locked
<1>5. /\ \A q \in DOMAIN db' : q \in DOMAIN db /\ db'[q] = db[q]
      /\ DOMAIN db' = DOMAIN db \ S
      /\ DOMAIN reason' = DOMAIN reason
      /\ \A v \in DOMAIN reason : reason'[v] = reason[v]
  <2>1. PICK first : first = [r \in S |-> 1]
    OBVIOUS
  <2>2. RemoveClauses(S, first, DOMAIN reason)
    BY <1>3, <2>1
  <2>3. PICK V : V = DOMAIN reason
    OBVIOUS
  <2>4. /\ \A q \in DOMAIN db' : q \in DOMAIN db /\ db'[q] = db[q]
        /\ DOMAIN db' = DOMAIN db \ S
        /\ DOMAIN reason' = V
        /\ (\A r \in S : ~LockedIn(r, V)) => \A v \in V : reason'[v] = reason[v]
    <3>1. V \subseteq DOMAIN reason /\ RemoveClauses(S, first, V)
      BY <2>2, <2>3
    <3> QED BY ONLY <3>1, InSearch, Removed, Zenon
  <2> QED BY <1>4, <2>3, <2>4
<1>6. Counters' /\ (qhead \in 0 .. Len(trail))'
  <2>1. reductions' \in 0 .. MaxReductions(input)
    BY <1>1, <1>2, BoundsAssumption DEF Counters
  <2> QED BY <1>1, <1>2, <1>5, <2>1 DEF Counters, PCs
<1>7. TypeOK' /\ TrailOK'
  <2>1. Cut(trail', trailLim', level') /\ ReasonType'
    BY <1>1, <1>2, <1>5 DEF ReasonType
  <2> QED BY <1>6, <2>1, FoldTypes
<1>8. QueueOK' /\ ConflictFalse' /\ ClausesOK'
  BY <1>1, <1>2, <1>5 DEF QueueOK, ConflictFalse, ClausesOK, DecisionLevel
<1>9. ASSUME NEW v \in DOMAIN reason, level[v] > 0 PROVE Justified(v)'
  <2>1. Justified(v) /\ v \in DOMAIN level
    BY <1>2, <1>9, AllJustified DEF ReasonType
  <2>2. ASSUME reason[v] \in DOMAIN db PROVE reason[v] \notin S
    <3>1. reason[v] # Undef
      BY <1>2, <2>2, BoundsAssumption DEF Counters, Refs, Undef
    <3>2. ASSUME reason[v] \in S PROVE FALSE
      <4>1. ~IsBin(db[reason[v]]) /\ ~LockedIn(reason[v], DOMAIN reason)
        BY <1>4, <3>2
      <4>2. Var(db[reason[v]].w[1]) = v /\ IsTrue(db[reason[v]].w[1])
        BY <2>1, <3>1, <4>1 DEF Justified
      <4>3. LockedIn(reason[v], DOMAIN reason)
        BY <4>1, <4>2 DEF LockedIn
      <4> QED BY <4>1, <4>3
    <3> QED BY <3>2
  <2>3. reason[v] \in DOMAIN db =>
         /\ reason[v] \in DOMAIN db'
         /\ LitsOf(db'[reason[v]]) = LitsOf(db[reason[v]])
         /\ IsBin(db'[reason[v]]) <=> IsBin(db[reason[v]])
         /\ \A i \in {1, 2} : (i = 1 \/ IsBin(db[reason[v]])) /\ IsTrue(db[reason[v]].w[i])
                           => db'[reason[v]].w[i] = db[reason[v]].w[i]
    <3>1. ASSUME reason[v] \in DOMAIN db
          PROVE  reason[v] \in DOMAIN db' /\ db'[reason[v]] = db[reason[v]]
      BY <1>5, <2>2, <3>1
    <3> QED BY <3>1
  <2>4. /\ Len(trail) \in 0 .. Len(trail) /\ Len(trail) <= Len(trail') /\ Len(trail') \in Nat
        /\ \A i \in 1 .. Len(trail) : trail'[i] = trail[i]
        /\ \A i \in Places : i <= Len(trail)
        /\ trailLim'[level[v]] = trailLim[level[v]] /\ level'[v] = level[v]
        /\ reason'[v] = reason[v]
    BY <1>1, <1>2, <1>5 DEF Places
  <2> QED BY <1>2, <1>9, <2>1, <2>3, <2>4, JustifiedStep
<1>10. ReasonsImply'
  BY <1>1, <1>5, <1>9, AllJustified
<1>11. \A q, j : Settled(q, j)' => Settled(q, j)
  BY <1>1 DEF Settled, LevelOf, DecisionLevel
<1>12. Watched'
  BY <1>1, <1>2, <1>5, <1>11, SameWatched
<1> QED BY <1>7, <1>8, <1>10, <1>12 DEF InSearch

-----------------------------------------------------------------------------
\* analyze.  What it has resolved when the trail above i has been considered: false
\* literals above level 0, of the current level some, and, unless it is one only,
\* those were made false by trail[1], ..., trail[i].
Resolved(i, S) ==
  /\ S \subseteq Lits
  /\ \A l \in S : IsFalse(l) /\ LevelOf(l) > 0
  /\ Current(S) # {}
  /\ \/ Cardinality(Current(S)) = 1
     \/ \A l \in Current(S) : \E j \in 1 .. i : l = Neg(trail[j])

Resolve(i, S) ==
  LET p == trail[i + 1]
  IN IF Cardinality(Current(S)) = 1 \/ Neg(p) \notin S
     THEN S
     ELSE (S \ {Neg(p)}) \cup (AboveZero(LitsOf(db[reason[Var(p)]])) \ {p})

\* The reason of a literal that is not the decision of its level, and is above 0.
LEMMA ReasonOf ==
  ASSUME InSearch, NEW i \in Places, LevelOf(trail[i]) > 0,
         i # trailLim[LevelOf(trail[i])] + 1 \/ reason[Var(trail[i])] # Undef
  PROVE  /\ reason[Var(trail[i])] \in DOMAIN db
         /\ trail[i] \in LitsOf(db[reason[Var(trail[i])]])
         /\ \A l \in LitsOf(db[reason[Var(trail[i])]]) :
              l # trail[i] => l \in Lits /\ \E j \in 1 .. i - 1 : l = Neg(trail[j])
<1> DEFINE v == Var(trail[i])
           c == db[reason[v]]
<1>1. /\ TypeOK /\ TrailOK /\ ReasonsImply /\ Len(trail) \in Nat
      /\ ReasonType /\ v \in DOMAIN level /\ trail[i] \in Lits /\ IsTrue(trail[i])
      /\ DecisionLevel \in Nat /\ level[v] \in 0 .. DecisionLevel /\ level[v] > 0
  BY Literals DEF InSearch, LevelOf
<1>2. Justified(v)
  BY <1>1, AllJustified DEF ReasonType
<1>3. ASSUME reason[v] = Undef, Var(trail[trailLim[level[v]] + 1]) = v PROVE FALSE
  <2>1. trailLim[level[v]] \in 0 .. Len(trail) - 1
    BY <1>1 DEF TrailOK
  <2>2. trailLim[level[v]] + 1 \in Places
    BY <1>1, <2>1 DEF Places
  <2>3. i = trailLim[level[v]] + 1
    BY <1>1, <1>3, <2>2, SMTT(20) DEF TrailOK
  <2> QED BY <1>3, <2>3 DEF LevelOf
<1>4. PICK k \in {1, 2} : /\ reason[v] \in DOMAIN db
                         /\ Var(c.w[k]) = v /\ IsTrue(c.w[k])
                         /\ \A l \in LitsOf(c) \ {c.w[k]} : Before(l, v)
  BY <1>2, <1>3 DEF Justified
<1>5. c.w[k] \in LitsOf(c) /\ c.w[k] \in Lits /\ LitsOf(c) \subseteq Lits
  BY <1>1, <1>4, Literals DEF LitsOf
<1>6. c.w[k] = trail[i]
  <2>1. c.w[k] = trail[i] \/ c.w[k] = Neg(trail[i])
    BY <1>1, <1>4, <1>5, SameVar
  <2>2. c.w[k] # Neg(trail[i])
    BY <1>1, <1>4, Literals DEF IsFalse, IsTrue
  <2> QED BY <2>1, <2>2
<1>7. ASSUME NEW l \in LitsOf(c), l # trail[i]
      PROVE  l \in Lits /\ \E j \in 1 .. i - 1 : l = Neg(trail[j])
  <2>1. PICK a \in Places, b \in Places : a < b /\ trail[a] = Neg(l) /\ Var(trail[b]) = v
    BY <1>4, <1>6, <1>7 DEF Before, Places
  <2>2. b = i
    BY <1>1, <2>1 DEF TrailOK
  <2>3. a \in 1 .. i - 1
    BY <1>1, <2>1, <2>2 DEF Places
  <2>4. l \in Lits /\ l = Neg(trail[a])
    BY <1>5, <1>7, <2>1, NegLit
  <2> QED BY <2>3, <2>4
<1> QED BY <1>4, <1>5, <1>6, <1>7

\* analyze begins with the conflict clause,
LEMMA ResolvedStart ==
  ASSUME InSearch, pc = "conflict", DecisionLevel > 0
  PROVE  Resolved(Len(trail), AboveZero(LitsOf(db[confl])))
<1> DEFINE S == AboveZero(LitsOf(db[confl]))
<1>1. /\ confl \in DOMAIN db /\ \A l \in LitsOf(db[confl]) : IsFalse(l)
      /\ Current(LitsOf(db[confl])) # {} /\ TypeOK /\ TrailOK
  BY DEF InSearch, ConflictFalse
<1>2. LitsOf(db[confl]) \subseteq Lits
  BY <1>1, Literals
<1>3. S \subseteq Lits /\ \A l \in S : IsFalse(l) /\ LevelOf(l) > 0
  BY <1>1, <1>2 DEF AboveZero
<1>4. Current(S) # {}
  BY <1>1 DEF Current, AboveZero
<1>5. ASSUME NEW l \in S PROVE \E j \in 1 .. Len(trail) : l = Neg(trail[j])
  <2>1. PICK j \in 1 .. Len(trail) : trail[j] = Neg(l)
    BY <1>3 DEF IsFalse, TrueLits
  <2> QED BY <1>3, <2>1, NegLit
<1> QED BY <1>3, <1>4, <1>5 DEF Resolved, Current

\* and resolves with a reason: the literals still come in the order of the trail, and a
\* decision is not resolved upon.
LEMMA ResolvedStep ==
  ASSUME InSearch, DecisionLevel > 0, NEW i \in 0 .. Len(trail) - 1,
         NEW S, Resolved(i + 1, S)
  PROVE  /\ Resolved(i, Resolve(i, S))
         /\ Cardinality(Current(S)) # 1 /\ Neg(trail[i + 1]) \in S =>
              /\ LevelOf(trail[i + 1]) = DecisionLevel
              /\ i + 1 # trailLim[DecisionLevel] + 1
<1> DEFINE p == trail[i + 1]
           c == db[reason[Var(p)]]
<1>1. /\ TypeOK /\ TrailOK /\ Len(trail) \in Nat /\ DecisionLevel \in Nat
      /\ i + 1 \in Places /\ p \in Lits /\ LevelOf(p) \in 0 .. DecisionLevel
      /\ DecisionLevel \in 1 .. DecisionLevel
      /\ \A j \in Places : trail[j] \in Lits /\ LevelOf(trail[j]) \in 0 .. DecisionLevel
  BY Literals DEF InSearch, Places
<1>2. CASE Cardinality(Current(S)) = 1
  BY <1>2 DEF Resolve, Resolved
<1>3. CASE Cardinality(Current(S)) # 1 /\ Neg(p) \notin S
  <2>1. ASSUME NEW l \in Current(S) PROVE \E j \in 1 .. i : l = Neg(trail[j])
    <3>1. PICK j \in 1 .. i + 1 : l = Neg(trail[j])
      BY <1>3 DEF Resolved
    <3>2. j # i + 1
      BY <1>3, <3>1 DEF Current
    <3>3. j \in 1 .. i
      BY <3>2
    <3> QED BY <3>1, <3>3
  <2>2. Resolve(i, S) = S
    BY <1>3 DEF Resolve
  <2> QED BY <1>3, <2>1, <2>2 DEF Resolved
<1>4. CASE Cardinality(Current(S)) # 1 /\ Neg(p) \in S
  <2>1. ASSUME NEW l \in Current(S)
        PROVE  \E j \in 1 .. i + 1 : /\ l = Neg(trail[j]) /\ j \in Places
                                    /\ LevelOf(trail[j]) = DecisionLevel
                                    /\ trailLim[DecisionLevel] < j
    <3>1. PICK j \in 1 .. i + 1 : l = Neg(trail[j])
      BY <1>4 DEF Resolved
    <3>2. j \in Places
      BY <1>1 DEF Places
    <3>3. LevelOf(trail[j]) = DecisionLevel
      BY <1>1, <3>1, <3>2, NegLit DEF Current, LevelOf
    <3>4. trailLim[DecisionLevel] < j
      BY <1>1, <3>2, <3>3 DEF TrailOK
    <3> QED BY <3>1, <3>2, <3>3, <3>4
  <2>2. PICK l0 \in Current(S) : TRUE
    BY DEF Resolved
  <2>3. LevelOf(p) = DecisionLevel
    <3>1. PICK j \in 1 .. i + 1 : trailLim[DecisionLevel] < j
      BY <2>1, <2>2
    <3>2. trailLim[DecisionLevel] < i + 1
      BY <1>1, <3>1 DEF TrailOK
    <3>3. DecisionLevel <= LevelOf(p)
      BY <1>1, <3>2 DEF TrailOK
    <3> QED BY <1>1, <3>3
  <2>4. Neg(p) \in Current(S)
    BY <1>1, <1>4, <2>3, NegLit DEF Current, LevelOf
  <2>5. PICK m \in Current(S) : m # Neg(p)
    <3>1. Current(S) # {Neg(p)}
      BY <1>4, SingleCard
    <3> QED BY <2>4, <3>1
  <2>6. PICK j \in 1 .. i + 1 : /\ m = Neg(trail[j]) /\ trailLim[DecisionLevel] < j
    BY <2>1
  <2>7. j \in 1 .. i
    BY <2>5, <2>6
  <2>8. i + 1 # trailLim[DecisionLevel] + 1
    BY <1>1, <2>6, <2>7 DEF TrailOK
  <2>9. /\ reason[Var(p)] \in DOMAIN db /\ p \in LitsOf(c)
        /\ \A l \in LitsOf(c) : l # p => l \in Lits /\ \E a \in 1 .. i : l = Neg(trail[a])
    <3>1. LevelOf(p) > 0 /\ i + 1 # trailLim[LevelOf(p)] + 1 /\ (i + 1) - 1 = i
      BY <1>1, <2>3, <2>8
    <3> QED BY <1>1, <3>1, ReasonOf
  <2> DEFINE T == (S \ {Neg(p)}) \cup (AboveZero(LitsOf(c)) \ {p})
  <2>10. Resolve(i, S) = T
    BY <1>4 DEF Resolve
  <2>11. ASSUME NEW l \in LitsOf(c), l # p PROVE l \in Lits /\ IsFalse(l)
    <3>1. PICK a \in 1 .. i : l \in Lits /\ l = Neg(trail[a])
      BY <2>9, <2>11
    <3>2. a \in Places
      BY <1>1 DEF Places
    <3>3. Neg(l) = trail[a]
      BY <1>1, <3>1, <3>2, NegLit
    <3> QED BY <3>1, <3>2, <3>3 DEF IsFalse, TrueLits, Places
  <2>12. T \subseteq Lits /\ \A l \in T : IsFalse(l) /\ LevelOf(l) > 0
    BY <2>11 DEF Resolved, AboveZero
  <2>13. Current(T) # {}
    BY <2>5 DEF Current
  <2>14. ASSUME NEW l \in Current(T) PROVE \E a \in 1 .. i : l = Neg(trail[a])
    <3>1. CASE l \in S \ {Neg(p)}
      <4>1. l \in Current(S) /\ l # Neg(p)
        BY <2>14, <3>1 DEF Current
      <4>2. PICK a \in 1 .. i + 1 : l = Neg(trail[a])
        BY <2>1, <4>1
      <4>3. a \in 1 .. i
        BY <4>1, <4>2
      <4> QED BY <4>2, <4>3
    <3>2. CASE l \in AboveZero(LitsOf(c)) \ {p}
      BY <2>9, <3>2 DEF AboveZero
    <3> QED BY <2>14, <3>1, <3>2 DEF Current
  <2> HIDE DEF T
  <2> QED BY <2>3, <2>8, <2>10, <2>12, <2>13, <2>14 DEF Resolved
<1> QED BY <1>2, <1>3, <1>4

\* The recursion of Resolvent.
LEMMA ResolventIs ==
  ASSUME InSearch, pc = "conflict", DecisionLevel > 0
  PROVE  /\ Resolvent[Len(trail)] = AboveZero(LitsOf(db[confl]))
         /\ \A i \in 0 .. Len(trail) - 1 : Resolvent[i] = Resolve(i, Resolvent[i + 1])
         /\ \A i \in 0 .. Len(trail) : Resolved(i, Resolvent[i])
<1> DEFINE n == Len(trail)
           x == AboveZero(LitsOf(db[confl]))
           step == [i \in 0 .. n - 1 |-> [T \in SUBSET Lits |-> Resolve(i, T) \cap Lits]]
           Body(f) == [i \in 0 .. Len(trail) |->
                         IF i = Len(trail) THEN AboveZero(LitsOf(db[confl]))
                         ELSE LET S == f[i + 1]
                                  p == trail[i + 1]
                              IN IF Cardinality(Current(S)) = 1 \/ Neg(p) \notin S
                                 THEN S
                                 ELSE (S \ {Neg(p)}) \cup
                                        (AboveZero(LitsOf(db[reason[Var(p)]])) \ {p})]
<1>1. n \in Nat /\ TypeOK /\ TrailOK
  BY Literals DEF InSearch
<1>2. Resolved(n, x) /\ x \in SUBSET Lits
  BY ResolvedStart DEF Resolved
<1>3. step \in Steps(n, SUBSET Lits)
  BY DEF Steps
<1>4. PICK f : GoesDown(f, n, SUBSET Lits, x, step)
  <2> HIDE DEF step, x
  <2> QED BY <1>1, <1>2, <1>3, DownRecursion
<1>5. ASSUME NEW i \in 0 .. n - 1, Resolved(i + 1, f[i + 1])
      PROVE  f[i] = Resolve(i, f[i + 1]) /\ Resolved(i, f[i])
  <2>1. Resolved(i, Resolve(i, f[i + 1]))
    BY <1>5, ResolvedStep
  <2>2. f[i] = step[i][f[i + 1]] /\ f[i + 1] \in SUBSET Lits
    <3>1. i + 1 \in 0 .. n
      BY <1>1
    <3> HIDE DEF step
    <3> QED BY <1>4, <3>1 DEF GoesDown
  <2>3. f[i] = Resolve(i, f[i + 1]) \cap Lits
    BY <2>2
  <2>4. Resolve(i, f[i + 1]) \subseteq Lits
    BY <2>1 DEF Resolved
  <2> QED BY <2>1, <2>3, <2>4
<1>6. \A i \in 0 .. n : Resolved(i, f[i])
  <2> DEFINE P == {i \in 0 .. n : Resolved(i, f[i])}
  <2>1. n \in P
    BY <1>1, <1>2, <1>4 DEF GoesDown
  <2>2. \A i \in 0 .. n - 1 : i + 1 \in P => i \in P
    BY <1>1, <1>5
  <2> HIDE DEF P
  <2>3. \A i \in 0 .. n : i \in P
    BY <1>1, <2>1, <2>2, DownInduction
  <2> QED BY <2>3 DEF P
<1>7. f = Body(f)
  <2>1. f \in [0 .. n -> SUBSET Lits] /\ f[n] = x
    BY <1>4 DEF GoesDown
  <2>2. ASSUME NEW i \in 0 .. n PROVE f[i] = Body(f)[i]
    <3>1. CASE i = n
      BY <2>1, <3>1
    <3>2. CASE i # n
      <4>1. i \in 0 .. n - 1 /\ i + 1 \in 0 .. n
        BY <1>1, <3>2
      <4>2. f[i] = Resolve(i, f[i + 1])
        BY <1>5, <1>6, <4>1
      <4> QED BY <3>2, <4>2 DEF Resolve
    <3> QED BY <3>1, <3>2
  <2> HIDE DEF x
  <2> QED BY <2>1, <2>2
<1>8. Resolvent = Body(Resolvent)
  <2>1. Resolvent = CHOOSE g : g = Body(g)
    BY DEF Resolvent
  <2> HIDE DEF Body
  <2> QED BY <1>7, <2>1
<1>9. Resolvent[n] = x
  BY <1>1, <1>8
<1>10. \A i \in 0 .. n - 1 : Resolvent[i] = Resolve(i, Resolvent[i + 1])
  <2> SUFFICES ASSUME NEW i \in 0 .. n - 1 PROVE Resolvent[i] = Resolve(i, Resolvent[i + 1])
    OBVIOUS
  <2>1. i \in 0 .. n /\ i # n
    BY <1>1
  <2>2. Resolvent[i] = Body(Resolvent)[i]
    <3> HIDE DEF Body
    <3> QED BY <1>8
  <2> QED BY <2>1, <2>2 DEF Resolve
<1>11. \A i \in 0 .. n : Resolved(i, Resolvent[i])
  <2> DEFINE P == {i \in 0 .. n : Resolved(i, Resolvent[i])}
  <2>1. n \in P
    BY <1>1, <1>2, <1>9
  <2>2. ASSUME NEW i \in 0 .. n - 1, i + 1 \in P PROVE i \in P
    <3>1. Resolved(i, Resolve(i, Resolvent[i + 1]))
      BY <2>2, ResolvedStep
    <3> QED BY <1>1, <1>10, <3>1
  <2> HIDE DEF P
  <2>3. \A i \in 0 .. n : i \in P
    BY <1>1, <2>1, <2>2, DownInduction
  <2> QED BY <2>3 DEF P
<1> QED BY <1>9, <1>10, <1>11

\* So one literal of the current level is left, and the clauses learnt are false.
LEMMA Learnt ==
  ASSUME InSearch, pc = "conflict", DecisionLevel > 0,
         NEW uip \in Current(Resolvent[0]), NEW C \in LearntClauses(uip)
  PROVE  /\ uip \in C /\ C \subseteq Lits /\ C \subseteq Resolvent[0]
         /\ \A l \in C : IsFalse(l) /\ LevelOf(l) \in 1 .. DecisionLevel
         /\ LevelOf(uip) = DecisionLevel
         /\ \A l \in C \ {uip} : LevelOf(l) \in 1 .. DecisionLevel - 1
<1>1. /\ TypeOK /\ TrailOK /\ DecisionLevel \in Nat /\ Len(trail) \in Nat
      /\ \A l \in Lits : IsFalse(l) => LevelOf(l) \in 0 .. DecisionLevel
  BY Literals DEF InSearch
<1>2. Resolved(0, Resolvent[0])
  BY <1>1, ResolventIs
<1>3. C \subseteq Resolvent[0] /\ uip \in C
  BY DEF LearntClauses, Current
<1>4. \A l \in C : l \in Lits /\ IsFalse(l) /\ LevelOf(l) \in 1 .. DecisionLevel
  BY <1>1, <1>2, <1>3 DEF Resolved
<1>5. Current(Resolvent[0]) = {uip}
  <2>1. Cardinality(Current(Resolvent[0])) = 1
    BY <1>2 DEF Resolved
  <2>2. IsFiniteSet(Current(Resolvent[0]))
    BY <1>2, FiniteLits DEF Resolved, Current
  <2> QED BY <2>1, <2>2, Single
<1>6. \A l \in C \ {uip} : LevelOf(l) # DecisionLevel
  BY <1>3, <1>5 DEF Current
<1> QED BY <1>1, <1>3, <1>4, <1>6 DEF Current

\* The state after jumping back and asserting the literal learnt.
LEMMA JumpKeeps ==
  ASSUME InSearch, pc = "conflict", pc' = "propagate", visit' = visit,
         nextClause' = nextClause, input' = input,
         NEW k \in 0 .. DecisionLevel - 1, NEW uip \in Lits, IsFalse(uip), LevelOf(uip) > k,
         NEW from \in Refs \cup {Undef}, CancelAndEnqueue(k, uip, from),
         Counters', SameReasons, ClausesOK',
         \A q \in DOMAIN db : db'[q] = db[q],
         \A q \in DOMAIN db' \ DOMAIN db :
           /\ uip \in LitsOf(db'[q])
           /\ \A l \in Watches(db'[q]) : l = uip \/ LevelOf(l) = k,
         \/ k = 0
         \/ /\ from \in DOMAIN db' /\ db'[from].w[1] = uip
            /\ \A l \in LitsOf(db'[from]) \ {uip} : l \in Lits /\ IsFalse(l) /\ LevelOf(l) <= k
  PROVE  InSearch'
<1>1. /\ TypeOK /\ TrailOK /\ QueueOK /\ ClausesOK /\ Watched /\ ReasonsImply
      /\ visit = {} /\ Len(trail) \in Nat /\ DecisionLevel \in Nat /\ ReasonType
      /\ \A l \in TrueLits : l \in Lits /\ Var(l) \in DOMAIN level
      /\ \A v \in DOMAIN level : level[v] \in 0 .. DecisionLevel
      /\ \A l \in TrueLits : LevelOf(l) \in 0 .. DecisionLevel
      /\ \A j \in Places : trail[j] \in TrueLits
  BY Literals DEF InSearch, QueueOK, IsTrue
<1>2. Cut(trail', trailLim', level') /\ ReasonType' /\ Jumps(k, uip, from)
  BY <1>1, EnqueueJumps
<1>3. PICK n : n = trailLim[k + 1]
  OBVIOUS
<1>4. /\ n \in 0 .. Len(trail) - 1 /\ Len(trail') = n + 1 /\ DecisionLevel' = k
      /\ \A i \in 1 .. n : trail'[i] = trail[i]
      /\ trail'[n + 1] = uip
      /\ \A i \in Places : i <= n <=> LevelOf(trail[i]) <= k
      /\ \A m \in 1 .. k : trailLim'[m] = trailLim[m] /\ trailLim[m] < n
      /\ TrueLits' = {m \in TrueLits : LevelOf(m) <= k} \cup {uip}
      /\ DOMAIN level' = KeptVars(k) \cup {Var(uip)} /\ KeptVars(k) \subseteq DOMAIN level
      /\ Var(uip) \notin KeptVars(k)
      /\ \A v \in KeptVars(k) : /\ level'[v] = level[v] /\ level[v] <= k
                                 /\ reason'[v] = reason[v]
      /\ level'[Var(uip)] = k /\ reason'[Var(uip)] = from
  BY <1>2, <1>3 DEF Jumps
<1>5. qhead' = n
  BY <1>3 DEF CancelAndEnqueue
<1>6. TypeOK' /\ TrailOK'
  <2>1. (qhead \in 0 .. Len(trail))'
    BY <1>1, <1>4, <1>5
  <2> QED BY <1>2, <2>1, FoldTypes
<1>7. QueueOK' /\ ConflictFalse'
  <2>1. (nextClause <= Len(input))' => k = 0
    BY <1>1 DEF QueueOK
  <2>2. k > 0 => trailLim'[k] < n /\ trailLim'[k] <= n
    <3>1. k > 0 => trailLim'[k] = trailLim[k] /\ trailLim[k] < n
      BY <1>4
    <3>2. k > 0 => trailLim[k] \in Nat
      BY <1>1 DEF TrailOK
    <3> QED BY <1>4, <3>1, <3>2
  <2> QED BY <1>1, <1>4, <1>5, <2>1, <2>2 DEF QueueOK, ConflictFalse
<1>8. \A i \in 1 .. n : i \in Places /\ LevelOf(trail[i]) <= k
  BY <1>1, <1>4 DEF Places
<1>9. ASSUME NEW l \in TrueLits, LevelOf(l) <= k
      PROVE  l \in TrueLits' /\ level'[Var(l)] = level[Var(l)]
  <2>1. l \in TrueLits'
    BY <1>4, <1>9
  <2>2. Var(l) \in DOMAIN level'
    BY <1>1, <1>2, <2>1, CutFacts DEF TrueIn, TrueLits
  <2>3. Var(l) # Var(uip)
    <3>1. ASSUME Var(l) = Var(uip) PROVE FALSE
      BY <1>1, <1>9, <3>1 DEF LevelOf
    <3> QED BY <3>1
  <2> QED BY <1>4, <2>1, <2>2, <2>3
<1>10. Watched'
  <2>1. n \in 0 .. Len(trail) /\ n <= Len(trail') /\ Len(trail') \in Nat
    BY <1>1, <1>4
  <2>2. ASSUME NEW l \in TrueLits, NEW j \in 1 .. n, LevelOf(l) <= LevelOf(trail[j])
        PROVE  l \in TrueLits' /\ level'[Var(l)] = level[Var(l)]
    <3>1. LevelOf(l) <= k
      BY <1>1, <1>8, <2>2
    <3> QED BY <1>9, <3>1
  <2>3. ASSUME NEW q \in DOMAIN db', NEW j \in 1 .. Len(trail'),
               Neg(trail'[j]) \in Watches(db'[q]), Settled(q, j)'
        PROVE  \/ Held(q, j)'
               \/ /\ j \in 1 .. n /\ q \in DOMAIN db /\ LitsOf(db'[q]) = LitsOf(db[q])
                  /\ Neg(trail[j]) \in Watches(db[q]) /\ Settled(q, j)
    <3>1. j # n + 1
      <4>1. ASSUME j = n + 1 PROVE FALSE
        <5>1. ~(level'[Var(trail'[j])] < DecisionLevel')
          BY <1>4, <4>1
        <5> QED BY <1>4, <1>5, <2>3, <4>1, <5>1 DEF Settled, LevelOf
      <4> QED BY <4>1
    <3>2. j \in 1 .. n /\ trail'[j] = trail[j]
      BY <1>4, <3>1
    <3>3. j \in Places /\ LevelOf(trail[j]) <= k /\ LevelOf(trail[j]) \in 0 .. DecisionLevel
      BY <1>1, <1>8, <3>2
    <3>4. CASE q \in DOMAIN db
      BY <1>1, <2>3, <3>2, <3>3, <3>4 DEF Settled
    <3>5. CASE q \notin DOMAIN db
      <4>1. uip \in LitsOf(db'[q])
        BY <3>5
      <4>2. trail[j] \in Lits /\ LevelOf(Neg(trail[j])) = LevelOf(trail[j])
        BY <1>1, <3>3, NegLit DEF LevelOf
      <4>3. Neg(trail[j]) # uip
        BY <1>1, <3>3, <4>2
      <4>4. LevelOf(trail[j]) = k
        BY <2>3, <3>2, <3>5, <4>2, <4>3
      <4>5. level'[Var(trail'[j])] = k
        BY <1>9, <3>2, <3>3, <4>4, <1>1 DEF LevelOf
      <4>6. uip \in TrueLits' /\ level'[Var(uip)] <= level'[Var(trail'[j])]
        BY <1>4, <4>5
      <4> QED BY <4>1, <4>6 DEF Held, IsTrue, LevelOf
    <3> QED BY <3>4, <3>5
  <2> QED BY <1>1, <1>4, <2>1, <2>2, <2>3, WatchedStep
<1>11. ASSUME k > 0 PROVE Justified(Var(uip))'
  <2>1. /\ from \in DOMAIN db' /\ db'[from].w[1] = uip
        /\ \A l \in LitsOf(db'[from]) \ {uip} : l \in Lits /\ IsFalse(l) /\ LevelOf(l) <= k
    BY <1>11
  <2>2. ASSUME NEW l \in LitsOf(db'[from]), l # uip PROVE Before(l, Var(uip))'
    <3>1. l \in Lits /\ IsFalse(l) /\ LevelOf(l) <= k
      BY <2>1, <2>2
    <3>2. PICK a \in Places : trail[a] = Neg(l)
      BY <3>1 DEF IsFalse, TrueLits, Places
    <3>3. LevelOf(trail[a]) <= k
      BY <3>1, <3>2, NegLit DEF LevelOf
    <3>4. a \in 1 .. n
      BY <1>1, <1>4, <3>2, <3>3 DEF Places
    <3>5. trail'[a] = Neg(l) /\ a \in 1 .. Len(trail') /\ n + 1 \in 1 .. Len(trail') /\ a < n + 1
      BY <1>1, <1>4, <3>2, <3>4
    <3> QED BY <1>4, <3>5 DEF Before
  <2>3. uip \in TrueLits' /\ reason'[Var(uip)] = from
    BY <1>4
  <2>4. 1 \in IF IsBin(db'[from]) THEN {1, 2} ELSE {1}
    OBVIOUS
  <2> QED BY <2>1, <2>2, <2>3, <2>4 DEF Justified, IsTrue
<1>12. ReasonsImply'
  <2> SUFFICES ASSUME NEW v \in DOMAIN reason', level'[v] > 0 PROVE Justified(v)'
    BY AllJustified
  <2>1. CASE v = Var(uip)
    BY <1>4, <1>11, <2>1
  <2>2. CASE v # Var(uip)
    <3>1. v \in KeptVars(k)
      BY <1>2, <1>4, <2>2 DEF ReasonType
    <3>2. /\ v \in DOMAIN level /\ level'[v] = level[v] /\ level[v] <= k
          /\ reason'[v] = reason[v] /\ v \in DOMAIN reason /\ level[v] > 0
      BY <1>1, <1>4, <3>1 DEF ReasonType
    <3>3. Justified(v)
      BY <1>1, <3>2, AllJustified
    <3>4. trailLim'[level[v]] = trailLim[level[v]]
      <4>1. level[v] \in 1 .. k
        BY <1>1, <3>2
      <4> QED BY <1>4, <4>1
    <3>5. ASSUME NEW i \in Places, Var(trail[i]) = v PROVE i <= n
      BY <1>4, <3>2, <3>5 DEF LevelOf
    <3>6. n \in 0 .. Len(trail) /\ n <= Len(trail') /\ Len(trail') \in Nat
      BY <1>1, <1>4
    <3>7. reason[v] \in DOMAIN db =>
           /\ reason[v] \in DOMAIN db'
           /\ LitsOf(db'[reason[v]]) = LitsOf(db[reason[v]])
           /\ IsBin(db'[reason[v]]) <=> IsBin(db[reason[v]])
           /\ \A i \in {1, 2} : (i = 1 \/ IsBin(db[reason[v]])) /\ IsTrue(db[reason[v]].w[i])
                             => db'[reason[v]].w[i] = db[reason[v]].w[i]
      BY DEF SameReasons
    <3> QED BY <1>1, <1>4, <3>2, <3>3, <3>4, <3>5, <3>6, <3>7, JustifiedStep
  <2> QED BY <2>1, <2>2
<1> QED BY <1>6, <1>7, <1>10, <1>12 DEF InSearch

\* A conflict is analysed, the clause learnt attached, and its literal asserted.
LEMMA ConflictKeeps ==
  ASSUME InSearch, Conflict
  PROVE  InSearch'
<1>1. /\ pc = "conflict" /\ DecisionLevel > 0 /\ confl' = Undef /\ conflictC' = TRUE
      /\ pc' = "propagate" /\ input' = input /\ nextClause' = nextClause /\ visit' = visit
      /\ simpAssigns' = simpAssigns /\ reductions' = reductions /\ adapt' = adapt
      /\ status' = status
  BY DEF Conflict
<1>2. /\ TypeOK /\ QueueOK /\ ClausesOK /\ Counters /\ DecisionLevel \in Nat
      /\ visit = {}
  BY <1>1, Literals DEF InSearch, QueueOK
<1>3. PICK uip \in Current(Resolvent[0]) : \E C \in LearntClauses(uip) :
         \/ /\ C = {uip}
            /\ CancelAndEnqueue(0, uip, Undef)
            /\ UNCHANGED db
         \/ \E second \in SecondWatches(C, uip) :
              /\ FreeRefs # {}
              /\ db' = Extend(db, NewRef, [w |-> <<uip, second>>,
                                           rest |-> C \ {uip, second},
                                           learnt |-> TRUE])
              /\ CancelAndEnqueue(BacktrackLevel(C, uip), uip, NewRef)
  BY DEF Conflict
<1>4. PICK C \in LearntClauses(uip) :
         \/ /\ C = {uip}
            /\ CancelAndEnqueue(0, uip, Undef)
            /\ UNCHANGED db
         \/ \E second \in SecondWatches(C, uip) :
              /\ FreeRefs # {}
              /\ db' = Extend(db, NewRef, [w |-> <<uip, second>>,
                                           rest |-> C \ {uip, second},
                                           learnt |-> TRUE])
              /\ CancelAndEnqueue(BacktrackLevel(C, uip), uip, NewRef)
  BY <1>3
<1>5. /\ uip \in C /\ C \subseteq Lits
      /\ \A l \in C : IsFalse(l) /\ LevelOf(l) \in 1 .. DecisionLevel
      /\ LevelOf(uip) = DecisionLevel
      /\ \A l \in C \ {uip} : LevelOf(l) \in 1 .. DecisionLevel - 1
  BY <1>1, Learnt
<1>6. CASE CancelAndEnqueue(0, uip, Undef) /\ UNCHANGED db
  <2>1. Counters' /\ SameReasons /\ ClausesOK'
    BY <1>1, <1>2, <1>6 DEF Counters, PCs, SameReasons, ClausesOK
  <2>2. 0 \in 0 .. DecisionLevel - 1 /\ LevelOf(uip) > 0 /\ uip \in Lits /\ IsFalse(uip)
    BY <1>1, <1>2, <1>5
  <2> QED BY <1>1, <1>6, <2>1, <2>2, JumpKeeps
<1>7. ASSUME NEW second \in SecondWatches(C, uip), FreeRefs # {},
             db' = Extend(db, NewRef, [w |-> <<uip, second>>,
                                       rest |-> C \ {uip, second}, learnt |-> TRUE]),
             CancelAndEnqueue(BacktrackLevel(C, uip), uip, NewRef)
      PROVE  InSearch'
  <2>1. PICK n, d, k : /\ n = NewRef /\ k = BacktrackLevel(C, uip)
                       /\ d = [w |-> <<uip, second>>, rest |-> C \ {uip, second},
                               learnt |-> TRUE]
    OBVIOUS
  <2>2. /\ second \in C \ {uip}
        /\ \A m \in C \ {uip} : LevelOf(m) <= LevelOf(second)
    BY DEF SecondWatches
  <2>3. k = LevelOf(second)
    <3>1. \E j \in {LevelOf(l) : l \in C \ {uip}} : \A l \in C \ {uip} : LevelOf(l) <= j
      BY <2>2
    <3>2. /\ k \in {LevelOf(l) : l \in C \ {uip}}
          /\ \A l \in C \ {uip} : LevelOf(l) <= k
      BY <2>1, <3>1 DEF BacktrackLevel
    <3>3. k <= LevelOf(second) /\ LevelOf(second) <= k
      BY <2>2, <3>2
    <3>4. k \in 1 .. DecisionLevel - 1 /\ LevelOf(second) \in 1 .. DecisionLevel - 1
      BY <1>5, <2>2, <3>2
    <3> QED BY <3>3, <3>4
  <2>4. k \in 0 .. DecisionLevel - 1 /\ LevelOf(uip) > k
    BY <1>2, <1>5, <2>2, <2>3
  <2>5. /\ d \in Clauses /\ d.w = <<uip, second>> /\ d.rest = C \ {uip, second}
        /\ d.w[1] = uip /\ d.w[2] = second
    BY <1>5, <2>1, <2>2 DEF Clauses
  <2>6. /\ d.w[1] # d.w[2] /\ d.w[1] \notin d.rest /\ d.w[2] \notin d.rest
        /\ LitsOf(d) = C /\ Watches(d) = {uip, second}
    BY <1>5, <2>2, <2>5 DEF LitsOf, Watches
  <2>7. db' = Extend(db, n, d)
    BY <1>7, <2>1
  <2>8. /\ n \in Refs /\ n \notin DOMAIN db /\ n # Undef
        /\ DOMAIN db' = DOMAIN db \cup {n} /\ db'[n] = d
        /\ \A q \in DOMAIN db : q # n /\ db'[q] = db[q]
        /\ DOMAIN db' \subseteq Refs
        /\ \A q \in DOMAIN db' : db'[q] \in Clauses
        /\ SameReasons /\ ClausesOK'
    <3>1. FreeRefs # {} /\ n = NewRef
      BY <1>7, <2>1
    <3> QED BY <2>5, <2>6, <2>7, <3>1, Added
  <2>9. Counters'
    BY <1>1, <1>2, <2>8 DEF Counters, PCs
  <2>10. CancelAndEnqueue(k, uip, n)
    BY <1>7, <2>1
  <2>11. ASSUME NEW q \in DOMAIN db' \ DOMAIN db
         PROVE  /\ uip \in LitsOf(db'[q])
                /\ \A l \in Watches(db'[q]) : l = uip \/ LevelOf(l) = k
    BY <1>5, <2>3, <2>6, <2>8
  <2>12. /\ n \in DOMAIN db' /\ db'[n].w[1] = uip
         /\ \A l \in LitsOf(db'[n]) \ {uip} : l \in Lits /\ IsFalse(l) /\ LevelOf(l) <= k
    BY <1>5, <2>2, <2>3, <2>5, <2>6, <2>8
  <2>13. uip \in Lits /\ IsFalse(uip) /\ n \in Refs \cup {Undef}
    BY <1>5, <2>8
  <2>14. \A q \in DOMAIN db : db'[q] = db[q]
    BY <2>8
  <2> QED BY <1>1, <2>4, <2>8, <2>9, <2>10, <2>11, <2>12, <2>13, <2>14, JumpKeeps
<1> QED BY <1>4, <1>6, <1>7

-----------------------------------------------------------------------------
\* The search begins in a state of the invariant,
LEMMA InitHolds ==
  ASSUME Init
  PROVE  InSearch
<1> USE DEF Init
<1>1. TypeOK
  <2>1. Cardinality(Vars) \in Nat
    BY VarsAssumption, FS_CardinalityType
  <2>2. nextClause \in 1 .. Len(input) + 1 /\ MaxReductions(input) \in Nat
    BY FormulasAssumption, BoundsAssumption
  <2>3. adapt \in BOOLEAN
    BY OptionAssumption
  <2>4. TrueLits = {} /\ DecisionLevel = 0
    BY DEF TrueLits, DecisionLevel
  <2>5. DOMAIN db = {} /\ DOMAIN level = {} /\ DOMAIN reason = {}
    OBVIOUS
  <2>6. trail \in Seq(Lits) /\ Len(trail) = 0 /\ trailLim \in Seq(0 .. Len(trail))
    OBVIOUS
  <2>7. /\ input \in Formulas /\ Len(trail) <= Cardinality(Vars)
        /\ qhead \in 0 .. Len(trail) /\ simpAssigns \in -1 .. Cardinality(Vars)
        /\ reductions \in 0 .. MaxReductions(input)
    BY <2>1, <2>2, <2>6
  <2>8. DOMAIN reason = {Var(l) : l \in TrueLits} /\ DOMAIN level = DOMAIN reason
    BY <2>4, <2>5
  <2>9. /\ DOMAIN db \subseteq Refs /\ \A r \in DOMAIN db : db[r] \in Clauses
        /\ \A v \in DOMAIN reason : reason[v] \in Refs \cup {Undef}
        /\ \A v \in DOMAIN level : level[v] \in 0 .. DecisionLevel
        /\ visit \subseteq DOMAIN db
    BY <2>5
  <2>10. /\ confl \in Refs \cup {Undef} /\ conflictC \in BOOLEAN /\ pc \in PCs
         /\ status \in {"none", "SAT", "UNSAT"}
    BY DEF PCs
  <2> QED BY <2>2, <2>3, <2>6, <2>7, <2>8, <2>9, <2>10 DEF TypeOK
<1>2. TrailOK /\ Watched
  BY DEF TrailOK, Watched, Places, DecisionLevel
<1>3. ClausesOK /\ QueueOK
  BY DEF ClausesOK, QueueOK, DecisionLevel
<1>4. ReasonsImply /\ ConflictFalse
  BY DEF ReasonsImply, ConflictFalse
<1> QED BY <1>1, <1>2, <1>3, <1>4 DEF InSearch

LEMMA StutterKeeps ==
  ASSUME InSearch, UNCHANGED vars
  PROVE  InSearch'
<1> USE DEF InSearch, vars
<1>1. Counters' /\ (qhead \in 0 .. Len(trail))'
  BY DEF TypeOK, Counters
<1>2. QueueOK' /\ ConflictFalse'
  BY DEF QueueOK, ConflictFalse, DecisionLevel, Watchers, IsFalse, TrueLits, Current, LevelOf
<1>3. \A r, j : Settled(r, j)' => Settled(r, j)
  BY DEF Settled, DecisionLevel, LevelOf
<1> QED BY <1>1, <1>2, <1>3, QuietKeeps

\* and every step leads to one.
LEMMA NextKeeps ==
  ASSUME InSearch, [Next]_vars
  PROVE  InSearch'
<1>1. CASE AddClause
  BY <1>1, AddClauseKeeps
<1>2. CASE Solve
  BY <1>2, SolveKeeps
<1>3. CASE Dequeue
  BY <1>3, DequeueKeeps
<1>4. ASSUME NEW r \in Refs, VisitBinary(r) PROVE InSearch'
  BY <1>4, VisitBinaryKeeps
<1>5. ASSUME NEW r \in Refs, VisitLong(r) PROVE InSearch'
  BY <1>5, VisitLongKeeps
<1>6. CASE ConflictAtZero
  BY <1>6, ConflictAtZeroKeeps
<1>7. CASE Conflict
  BY <1>7, ConflictKeeps
<1>8. CASE Adapt
  BY <1>8, AdaptKeeps
<1>9. CASE Restart
  BY <1>9, RestartKeeps
<1>10. CASE Simplify
  BY <1>10, SimplifyKeeps
<1>11. CASE ReduceDB
  BY <1>11, ReduceDBKeeps
<1>12. CASE Decide
  BY <1>12, DecideKeeps
<1>13. CASE ModelFound
  BY <1>13, ModelFoundKeeps
<1>14. CASE Done \/ UNCHANGED vars
  BY <1>14, StutterKeeps DEF Done
<1> QED
  BY <1>1, <1>2, <1>3, <1>4, <1>5, <1>6, <1>7, <1>8, <1>9, <1>10, <1>11, <1>12, <1>13,
     <1>14 DEF Next

\* Whatever the file, the decisions and the clauses that are deleted, the search keeps
\* trail, watches, queue and reasons in order: propagate, analyze, cancelUntil and the
\* removal of clauses leave behind what the others rely on.
THEOREM SearchHolds == Spec => []InSearch
<1>1. Init => InSearch
  BY InitHolds
<1>2. InSearch /\ [Next]_vars => InSearch'
  BY NextKeeps
<1> QED BY <1>1, <1>2, PTL DEF Spec

\* The variables keep their types: what trail_lim, the watchers, reason and level refer to is
\* there, and the trail is no longer than there are variables.
THEOREM SearchTyped == Spec => []TypeOK
<1>1. InSearch => TypeOK
  BY DEF InSearch
<1> QED BY <1>1, SearchHolds, PTL

\* Above level 0 the reason of a literal stays allocated and watches it, and the other
\* literals of the reason were false before it on the trail: reduceDB, simplify and
\* adaptSolver delete no reason, and propagate turns none around.
THEOREM ReasonsStay == Spec => []ReasonsImply
<1>1. InSearch => ReasonsImply
  BY DEF InSearch
<1> QED BY <1>1, SearchHolds, PTL

\* Two watched literals that are not false are open, if the clause is not true.
LEMMA NothingMissed ==
  ASSUME InSearch
  PROVE  PropagationComplete
<1> SUFFICES ASSUME pc = "decide", NEW r \in DOMAIN db,
                    \A l \in LitsOf(db[r]) : ~IsTrue(l)
             PROVE  Cardinality({l \in LitsOf(db[r]) : IsOpen(l)}) >= 2
  BY DEF PropagationComplete
<1>1. /\ TypeOK /\ TrailOK /\ ClausesOK /\ Watched /\ qhead = Len(trail) /\ visit = {}
      /\ Len(trail) \in Nat /\ LitsOf(db[r]) \subseteq Lits
  BY Literals DEF InSearch, QueueOK
<1>2. ASSUME NEW w \in Watches(db[r]) PROVE w \in LitsOf(db[r]) /\ IsOpen(w)
  <2>1. w \in LitsOf(db[r]) /\ w \in Lits
    BY <1>1 DEF Watches, LitsOf
  <2>2. ASSUME IsFalse(w) PROVE FALSE
    <3>1. PICK j \in Places : trail[j] = Neg(w)
      BY <2>2 DEF IsFalse, TrueLits, Places
    <3>2. Neg(trail[j]) = w
      BY <2>1, <3>1, NegLit
    <3>3. Settled(r, j)
      BY <1>1 DEF Settled, Places
    <3>4. Held(r, j)
      BY <1>1, <3>2, <3>3 DEF Watched
    <3> QED BY <3>4 DEF Held
  <2> QED BY <2>1, <2>2 DEF IsOpen
<1> DEFINE O == {l \in LitsOf(db[r]) : IsOpen(l)}
           a == db[r].w[1]
           b == db[r].w[2]
<1>3. {a, b} \subseteq O /\ a # b
  BY <1>1, <1>2 DEF Watches, ClausesOK
<1>4. IsFiniteSet(O)
  BY <1>1, FiniteLits
<1> HIDE DEF O, a, b
<1>5. Cardinality({a, b}) = 2
  <2>1. IsFiniteSet({a}) /\ Cardinality({a}) = 1
    BY FS_Singleton
  <2>2. b \notin {a} /\ {a} \cup {b} = {a, b}
    BY <1>3
  <2>3. Cardinality({a} \cup {b}) = IF b \in {a} THEN Cardinality({a}) ELSE Cardinality({a}) + 1
    BY <2>1, FS_AddElement
  <2> QED BY <2>1, <2>2, <2>3
<1>6. Cardinality({a, b}) <= Cardinality(O) /\ Cardinality(O) \in Nat
  BY <1>3, <1>4, FS_Subset, FS_CardinalityType
<1>7. Cardinality(O) >= 2
  BY <1>5, <1>6
<1> QED BY <1>7 DEF O

\* When propagate returns without a conflict, no clause is false, and none has a single
\* open literal and no true one, though only two literals of a clause are watched and
\* backjumping does not touch the watches.
THEOREM PropagationMissesNothing == Spec => []PropagationComplete
<1>1. InSearch => PropagationComplete
  BY NothingMissed
<1> QED BY <1>1, SearchHolds, PTL

LEMMA Analysable ==
  ASSUME InSearch
  PROVE  ConflictAnalysable
<1> SUFFICES ASSUME pc = "conflict"
             PROVE  /\ \A l \in LitsOf(db[confl]) : IsFalse(l)
                    /\ DecisionLevel > 0 => /\ Current(LitsOf(db[confl])) # {}
                                            /\ Cardinality(Current(Resolvent[0])) = 1
  BY DEF ConflictAnalysable
<1>1. /\ \A l \in LitsOf(db[confl]) : IsFalse(l)
      /\ Current(LitsOf(db[confl])) # {}
  BY DEF InSearch, ConflictFalse
<1>2. ASSUME DecisionLevel > 0 PROVE Cardinality(Current(Resolvent[0])) = 1
  <2>1. Len(trail) \in Nat
    BY Literals DEF InSearch
  <2>2. Resolved(0, Resolvent[0])
    BY <1>2, <2>1, ResolventIs
  <2> QED BY <2>2 DEF Resolved
<1> QED BY <1>1, <1>2

\* A clause that propagate returns is false, and analyze, resolving it with reasons,
\* comes to a clause with one literal of the current level.
THEOREM ConflictsAnalysable == Spec => []ConflictAnalysable
<1>1. InSearch => ConflictAnalysable
  BY Analysable
<1> QED BY <1>1, SearchHolds, PTL

\* Of two literals that a clause watches one is not the asserting one.  If the clause
\* were contained in the one learnt that literal would have been false below the
\* current level, and the clause would hold.
LEMMA LearntNew ==
  ASSUME InSearch, Conflict, NEW r \in DOMAIN db' \ DOMAIN db, NEW q \in DOMAIN db
  PROVE  ~(LitsOf(db[q]) \subseteq LitsOf(db'[r]))
<1>1. pc = "conflict" /\ DecisionLevel > 0
  BY DEF Conflict
<1>a. PICK uip \in Current(Resolvent[0]) : \E C \in LearntClauses(uip) :
         \E second \in SecondWatches(C, uip) :
           db' = Extend(db, NewRef, [w |-> <<uip, second>>, rest |-> C \ {uip, second},
                                     learnt |-> TRUE])
  BY DEF Conflict
<1>b. PICK C \in LearntClauses(uip) : \E second \in SecondWatches(C, uip) :
         db' = Extend(db, NewRef, [w |-> <<uip, second>>, rest |-> C \ {uip, second},
                                   learnt |-> TRUE])
  BY <1>a
<1>2. PICK second \in SecondWatches(C, uip) :
         db' = Extend(db, NewRef, [w |-> <<uip, second>>, rest |-> C \ {uip, second},
                                   learnt |-> TRUE])
  BY <1>b
<1>3. /\ uip \in C /\ C \subseteq Lits /\ \A l \in C : IsFalse(l)
      /\ \A l \in C \ {uip} : LevelOf(l) \in 1 .. DecisionLevel - 1
  BY <1>1, Learnt
<1>4. LitsOf(db'[r]) = C
  <2>1. second \in C
    BY DEF SecondWatches
  <2>2. PICK d : d = [w |-> <<uip, second>>, rest |-> C \ {uip, second}, learnt |-> TRUE]
    OBVIOUS
  <2>3. db'[r] = d
    BY <1>2, <2>2 DEF Extend
  <2>4. d.w[1] = uip /\ d.w[2] = second /\ d.rest = C \ {uip, second}
    BY <2>2
  <2> QED BY <1>3, <2>1, <2>3, <2>4 DEF LitsOf
<1>5. /\ TypeOK /\ TrailOK /\ ClausesOK /\ Watched /\ DecisionLevel \in Nat
      /\ \A l \in Lits : ~(IsTrue(l) /\ IsFalse(l))
  BY Literals DEF InSearch
<1> SUFFICES ASSUME LitsOf(db[q]) \subseteq C PROVE FALSE
  BY <1>4
<1>6. PICK w \in Watches(db[q]) : w # uip
  BY <1>5 DEF Watches, ClausesOK
<1>7. w \in C /\ w \in Lits /\ IsFalse(w) /\ LevelOf(w) < DecisionLevel
  BY <1>3, <1>5, <1>6 DEF Watches, LitsOf
<1>8. PICK j \in Places : trail[j] = Neg(w)
  BY <1>7 DEF IsFalse, TrueLits, Places
<1>9. Neg(trail[j]) = w /\ LevelOf(trail[j]) = LevelOf(w)
  BY <1>7, <1>8, NegLit DEF LevelOf
<1>10. Held(q, j)
  BY <1>5, <1>6, <1>7, <1>9 DEF Watched, Settled
<1> QED BY <1>3, <1>5, <1>10 DEF Held

\* A clause that analyze learns, minimised or not, contains none of those the solver
\* has.
THEOREM LearntIsNews == Spec => LearntIsNew
<1>1. ASSUME InSearch, [Next]_vars, NEW r \in DOMAIN db' \ DOMAIN db, db'[r].learnt,
             NEW q \in DOMAIN db
      PROVE  ~(LitsOf(db[q]) \subseteq LitsOf(db'[r]))
  <2>1. ASSUME AddClause PROVE FALSE
    <3>1. PICK n, d : db' = Extend(db, n, d) /\ d.learnt = FALSE
      BY <1>1, <2>1 DEF AddClause
    <3> QED BY <1>1, <3>1 DEF Extend
  <2>2. CASE Conflict
    BY <1>1, <2>2, LearntNew
  <2>3. ASSUME NEW x \in Refs, VisitLong(x) PROVE FALSE
    <3>1. DOMAIN db' = DOMAIN db
      BY <2>3 DEF VisitLong
    <3> QED BY <1>1, <3>1
  <2>4. ASSUME Adapt \/ Simplify \/ ReduceDB PROVE FALSE
    <3>1. PICK S : db' = Only(db, DOMAIN db \ S)
      BY <2>4 DEF Adapt, Simplify, ReduceDB, RemoveClauses
    <3> QED BY <1>1, <3>1 DEF Only
  <2>5. ASSUME db' = db PROVE FALSE
    BY <1>1, <2>5
  <2> QED
    BY <1>1, <2>1, <2>2, <2>3, <2>4, <2>5
    DEF Next, Solve, Dequeue, VisitBinary, ConflictAtZero, Restart, Decide, ModelFound, Done, vars
<1>2. InSearch /\ [Next]_vars =>
        [\A r \in DOMAIN db' \ DOMAIN db : db'[r].learnt =>
           \A q \in DOMAIN db : ~(LitsOf(db[q]) \subseteq LitsOf(db'[r]))]_vars
  BY <1>1
<1> QED BY <1>2, SearchHolds, PTL DEF Spec, LearntIsNew

-----------------------------------------------------------------------------
\* The search implements the rules of CDCL, and so answers no file wrongly.  First, what
\* the rules see of the search.
Kept    == {LitsOf(db[r]) : r \in DOMAIN db}
Lev     == [v \in Vars |-> IF v \in DOMAIN level THEN level[v] ELSE 0]
Decided == [k \in 1 .. DecisionLevel |-> trail[trailLim[k] + 1]]

\* Whether a literal was decided is read off its level.
LEMMA DecidedIs ==
  ASSUME TypeOK, TrailOK
  PROVE  /\ Decided \in Seq(Lits)
         /\ Len(Decided) = DecisionLevel /\ DecisionLevel \in Nat
         /\ \A k \in 1 .. DecisionLevel : trailLim[k] + 1 \in Places
<1>1. /\ DecisionLevel \in Nat /\ Len(trail) \in Nat
      /\ \A i \in Places : trail[i] \in Lits
  BY Literals
<1>2. \A k \in 1 .. DecisionLevel : trailLim[k] + 1 \in Places
  BY <1>1 DEF TrailOK, Places
<1> QED BY <1>1, <1>2 DEF Decided

\* The levels of literals that are true.
LEMMA LevIs ==
  ASSUME TypeOK, TrailOK
  PROVE  /\ Lev \in [Vars -> Nat]
         /\ \A l \in TrueLits : Lev[Var(l)] = LevelOf(l) /\ LevelOf(l) \in 0 .. DecisionLevel
         /\ \A l \in Lits : IsFalse(l) => Lev[Var(l)] = LevelOf(l)
<1>1. /\ \A l \in Lits : Var(l) \in DOMAIN level <=> IsTrue(l) \/ IsFalse(l)
      /\ \A v \in DOMAIN level : level[v] \in 0 .. DecisionLevel
      /\ DecisionLevel \in Nat /\ TrueLits \subseteq Lits
  BY Literals
<1>2. Lev \in [Vars -> Nat]
  BY <1>1 DEF Lev
<1>3. \A l \in Lits : Var(l) \in Vars
  BY NegLit
<1> QED BY <1>1, <1>2, <1>3 DEF Lev, LevelOf, IsTrue

\* An open literal's variable is not assigned.
LEMMA OpenIs ==
  ASSUME TypeOK, TrailOK, NEW l \in Lits
  PROVE  IsOpen(l) <=> ~\E m \in TrueLits : Var(m) = Var(l)
<1>1. TrueLits \subseteq Lits
  BY Literals
<1>2. ASSUME NEW m \in TrueLits, Var(m) = Var(l) PROVE ~IsOpen(l)
  BY <1>1, <1>2, SameVar DEF IsOpen, IsTrue, IsFalse
<1>3. ASSUME ~IsOpen(l) PROVE \E m \in TrueLits : Var(m) = Var(l)
  BY <1>3, NegLit DEF IsOpen, IsTrue, IsFalse
<1> QED BY <1>2, <1>3

-----------------------------------------------------------------------------
\* The steps of the rules, in terms of the search.
RulesStep == Rules!Next \/ UNCHANGED Rules!rulesVars

\* The rules mean the same by literals and clauses.
LEMMA SameMeaning ==
  /\ Rules!Lits = Lits
  /\ \A x : Rules!Var(x) = Var(x) /\ Rules!Neg(x) = Neg(x)
  /\ \A F, C : Rules!Entails(F, C) <=> Entails(F, C)
  /\ \A F : Rules!Satisfiable(F) <=> Satisfiable(F)
  BY DEF Rules!Lits, Lits, Rules!Var, Var, Rules!Neg, Neg, Rules!Entails, Entails,
         Rules!Satisfiable, Satisfiable, Rules!Models, Models, Rules!Satisfies, Satisfies,
         Rules!Holds, Holds, Rules!Assignments, Assignments

\* The refinement mapping, written out.
LEMMA SeenAs ==
  /\ Rules!Level = Len(Decided)
  /\ UNCHANGED <<Input, Kept, TrueLits, Lev, Decided, status>> => RulesStep
  BY DEF Rules!Level, Rules!rulesVars, RulesStep, Kept, Lev, Decided

\* A step of the rules, one lemma a rule: none, ...
LEMMA StepUnseen ==
  ASSUME input' = input, Kept' = Kept, trail' = trail, trailLim' = trailLim,
         level' = level, status' = status
  PROVE  RulesStep
<1>1. UNCHANGED <<Input, TrueLits, Lev, Decided>>
  BY DEF Input, TrueLits, Lev, Decided, DecisionLevel
<1> QED BY <1>1, SeenAs

\* ... a propagation, ...
LEMMA StepPropagates ==
  ASSUME TypeOK, TrailOK, status = "none", status' = "none", input' = input,
         Kept' = Kept, Decided' = Decided,
         NEW C \in Kept \cup Input, NEW l \in C, l \in Lits, IsOpen(l),
         \A m \in C \ {l} : IsFalse(m),
         TrueLits' = TrueLits \cup {l}, Lev' = [Lev EXCEPT ![Var(l)] = DecisionLevel]
  PROVE  RulesStep
<1>1. Rules!Level = DecisionLevel
  BY SeenAs, DecidedIs
<1>2. Rules!Assign(l, Rules!Level)
  BY <1>1, SameMeaning DEF Rules!Assign, Lev
<1>3. Rules!UnitIn(l, C)
  <2>1. ~Rules!Assigned(Var(l))
    BY OpenIs, SameMeaning DEF Rules!Assigned
  <2> QED BY <2>1, SameMeaning DEF Rules!UnitIn, Rules!Falsified, IsFalse
<1>4. UNCHANGED <<Input, Kept, Decided, status>>
  BY DEF Input
<1>5. Rules!Propagate(l, C)
  BY <1>1, <1>2, <1>3, <1>4, SameMeaning DEF Rules!Propagate, Kept, Decided
<1> QED BY <1>5, SameMeaning DEF RulesStep, Rules!Next, Kept

\* ... a decision, ...
LEMMA StepDecides ==
  ASSUME TypeOK, TrailOK, status = "none", status' = "none", input' = input,
         Kept' = Kept, NEW l \in Lits, IsOpen(l), Decided' = Append(Decided, l),
         TrueLits' = TrueLits \cup {l}, Lev' = [Lev EXCEPT ![Var(l)] = DecisionLevel + 1]
  PROVE  RulesStep
<1>1. Rules!Level = DecisionLevel
  BY SeenAs, DecidedIs
<1>2. Rules!Assign(l, Rules!Level + 1)
  BY <1>1, SameMeaning DEF Rules!Assign, Lev
<1>3. ~Rules!Assigned(Var(l))
  BY OpenIs, SameMeaning DEF Rules!Assigned
<1>4. UNCHANGED <<Input, Kept, status>>
  BY DEF Input
<1>5. Rules!Decide(l)
  BY <1>1, <1>2, <1>3, <1>4, SameMeaning DEF Rules!Decide, Kept, Decided
<1> QED BY <1>5, SameMeaning DEF RulesStep, Rules!Next

\* Part of a clause is stored.
LEMMA StepStores ==
  ASSUME TypeOK, TrailOK, status = "none", UNCHANGED <<Input, TrueLits, Lev, Decided, status>>,
         DecisionLevel = 0, NEW D \in Input, NEW C \in SUBSET D, Kept' = Kept \cup {C},
         Entails(Input \cup Kept, C)
  PROVE  RulesStep
<1>1. Decided = <<>>
  BY DecidedIs
<1>2. Rules!Keep
  BY <1>1, SameMeaning DEF Rules!Keep, Kept, Decided, Lev
<1> QED BY <1>2 DEF RulesStep, Rules!Next

\* ... a clause is removed, ...
LEMMA StepForgets ==
  ASSUME status = "none", UNCHANGED <<Input, TrueLits, Lev, Decided, status>>,
         Kept' \subseteq Kept
  PROVE  RulesStep
<1>1. Rules!Forget
  BY DEF Rules!Forget, Kept, Decided, Lev
<1> QED BY <1>1 DEF RulesStep, Rules!Next

\* ... back to level 0, ...
LEMMA StepRestarts ==
  ASSUME status = "none", status' = "none", input' = input,
         Decided' = <<>>, TrueLits' = {l \in TrueLits : Lev[Var(l)] <= 0},
         Lev' = [v \in Vars |-> 0], Kept' \subseteq Kept
  PROVE  RulesStep
<1>1. UNCHANGED <<Input, status>>
  BY DEF Input
<1>2. Rules!Restart
  BY <1>1, SameMeaning DEF Rules!Restart, Rules!Below, Kept, Decided, Lev
<1> QED BY <1>2 DEF RulesStep, Rules!Next

\* ... UNSAT, ...
LEMMA StepUnsat ==
  ASSUME TypeOK, TrailOK, DecisionLevel = 0, status = "none", status' = "UNSAT",
         UNCHANGED <<Input, Kept, TrueLits, Lev, Decided>>,
         NEW C \in Kept \cup Input, \A l \in C : IsFalse(l)
  PROVE  RulesStep
<1>1. Decided = <<>>
  BY DecidedIs
<1>2. Rules!AnswerUnsat
  BY <1>1, SameMeaning DEF Rules!AnswerUnsat, Rules!Falsified, IsFalse, Kept, Decided, Lev
<1> QED BY <1>2 DEF RulesStep, Rules!Next

\* ... SAT, ...
LEMMA StepSat ==
  ASSUME status = "none", status' = "SAT",
         UNCHANGED <<Input, Kept, TrueLits, Lev, Decided>>,
         \A C \in Input : \E l \in C : IsTrue(l)
  PROVE  RulesStep
<1>1. Rules!AnswerSat
  BY DEF Rules!AnswerSat, IsTrue, Kept, Decided, Lev
<1> QED BY <1>1 DEF RulesStep, Rules!Next

\* ... and a clause that is learnt.
LEMMA StepLearns ==
  ASSUME TypeOK, TrailOK, status = "none", status' = "none", input' = input,
         NEW k \in 0 .. DecisionLevel - 1, NEW l \in Lits, NEW F \in SUBSET Lits,
         \A m \in F : IsFalse(m) /\ LevelOf(m) <= k,
         IsFalse(l), LevelOf(l) > k,
         Kept' = IF F = {} THEN Kept ELSE Kept \cup {{l} \cup F},
         Decided' = SubSeq(Decided, 1, k),
         TrueLits' = {m \in TrueLits : LevelOf(m) <= k} \cup {l},
         Lev' = [v \in Vars |-> IF v = Var(l) THEN k ELSE IF Lev[v] <= k THEN Lev[v] ELSE 0],
         Entails(Input \cup Kept, {l} \cup F)
  PROVE  RulesStep
<1>1. Rules!Level = DecisionLevel /\ DecisionLevel \in Nat
  BY SeenAs, DecidedIs
<1>2. Rules!Below(k) = {m \in TrueLits : LevelOf(m) <= k}
  BY LevIs, SameMeaning DEF Rules!Below, Lev
<1>3. F \in SUBSET Rules!FalseBelow(k)
  <2> SUFFICES ASSUME NEW m \in F PROVE m \in Lits /\ Neg(m) \in Rules!Below(k)
    BY SameMeaning DEF Rules!FalseBelow
  <2>1. IsFalse(m) /\ LevelOf(m) <= k /\ LevelOf(Neg(m)) = LevelOf(m)
    BY NegLit DEF LevelOf
  <2> QED BY <1>2, <2>1 DEF IsFalse
<1>4. ~\E m \in Rules!Below(k) : Var(m) = Var(l)
  <2>1. LevelOf(l) \in Nat /\ k \in Nat
    BY <1>1, Literals
  <2> QED BY <1>2, <2>1 DEF LevelOf
<1>5. UNCHANGED <<Input, status>>
  BY DEF Input
<1>6. Rules!LearnClause(l, F, k)
  BY <1>2, <1>4, SameMeaning DEF Rules!LearnClause, Kept, Lev
<1>7. Rules!Learn(k)
  BY <1>1, <1>3, <1>5, <1>6, SameMeaning DEF Rules!Learn, Decided
<1>8. k \in 0 .. Rules!Level
  BY <1>1
<1> QED BY <1>7, <1>8, SameMeaning DEF RulesStep, Rules!Next

-----------------------------------------------------------------------------
\* Facts, the literals of level 0, stay, and others are in S.
FactsStay ==
  \A l \in TrueLits : LevelOf(l) = 0 => l \in TrueLits' /\ level'[Var(l)] = 0
NewFacts(S) ==
  \A l \in TrueLits' : level'[Var(l)] = 0 => l \in S \/ (l \in TrueLits /\ LevelOf(l) = 0)

\* A literal is put after the trail.
LEMMA GrowsSeen ==
  ASSUME TypeOK, TrailOK, NEW l \in Lits, NEW from, NEW k \in Nat, Grows(l, from, k)
  PROVE  /\ Lev' = [Lev EXCEPT ![Var(l)] = k]
         /\ TrueLits' = TrueLits \cup {l}
         /\ trailLim' = trailLim => Decided' = Decided
         /\ trailLim' = Append(trailLim, Len(trail)) => Decided' = Append(Decided, l)
         /\ FactsStay
         /\ NewFacts(IF k = 0 THEN {l} ELSE {})
<1>1. /\ Var(l) \in Vars /\ Len(trail) \in Nat /\ DecisionLevel \in Nat
      /\ \A i \in Places : trail[i] \in Lits
      /\ \A m \in TrueLits : m \in Lits /\ Var(m) \in DOMAIN level
  BY Literals, NegLit DEF IsTrue
<1>2. /\ Len(trail') = Len(trail) + 1
      /\ \A i \in Places : trail'[i] = trail[i]
      /\ trail'[Len(trail) + 1] = l
      /\ TrueLits' = TrueLits \cup {l}
      /\ DOMAIN level' = DOMAIN level \cup {Var(l)}
      /\ \A v \in DOMAIN level : v # Var(l) /\ level'[v] = level[v]
      /\ level'[Var(l)] = k
  BY DEF Grows
<1>3. Lev' = [Lev EXCEPT ![Var(l)] = k]
  <2>1. ASSUME NEW v \in Vars
        PROVE  (IF v \in DOMAIN level' THEN level'[v] ELSE 0)
                 = IF v = Var(l) THEN k ELSE Lev[v]
    BY <1>2 DEF Lev
  <2> QED BY <1>1, <2>1 DEF Lev
<1>4. \A m \in 1 .. DecisionLevel : trailLim[m] + 1 \in Places
  BY DecidedIs
<1>5. ASSUME trailLim' = trailLim PROVE Decided' = Decided
  BY <1>2, <1>4, <1>5 DEF Decided, DecisionLevel
<1>6. ASSUME trailLim' = Append(trailLim, Len(trail)) PROVE Decided' = Append(Decided, l)
  <2>1. /\ DecisionLevel' = DecisionLevel + 1
        /\ trailLim'[DecisionLevel + 1] = Len(trail)
        /\ \A m \in 1 .. DecisionLevel : trailLim'[m] = trailLim[m]
    BY <1>6 DEF DecisionLevel, TypeOK
  <2>2. \A m \in 1 .. DecisionLevel + 1 :
          trail'[trailLim'[m] + 1] = IF m = DecisionLevel + 1 THEN l ELSE Decided[m]
    BY <1>1, <1>2, <1>4, <2>1, SMTT(20) DEF Decided
  <2>3. Decided \in Seq(Lits) /\ Len(Decided) = DecisionLevel
    BY DecidedIs
  <2>4. PICK s, t : /\ s = Append(Decided, l)
                   /\ t = [m \in 1 .. DecisionLevel + 1 |->
                            IF m = DecisionLevel + 1 THEN l ELSE Decided[m]]
    OBVIOUS
  <2>5. /\ s \in Seq(Lits) /\ Len(s) = DecisionLevel + 1 /\ s[DecisionLevel + 1] = l
        /\ \A m \in 1 .. DecisionLevel : s[m] = Decided[m]
    BY <1>1, <2>3, <2>4, AppendProperties
  <2>6. \A m \in 1 .. DecisionLevel + 1 : m = DecisionLevel + 1 \/ m \in 1 .. DecisionLevel
    BY <1>1
  <2>7. t \in Seq(Lits) /\ Len(t) = DecisionLevel + 1
    BY <1>1, <2>3, <2>4, <2>6
  <2>8. s = t
    BY <2>4, <2>5, <2>6, <2>7, SeqEqual
  <2> QED BY <2>1, <2>2, <2>4, <2>8 DEF Decided
<1>7. FactsStay /\ NewFacts(IF k = 0 THEN {l} ELSE {})
  BY <1>1, <1>2 DEF FactsStay, NewFacts, LevelOf
<1> QED BY <1>2, <1>3, <1>5, <1>6, <1>7

\* Back to level 0.
LEMMA ShrinksSeen ==
  ASSUME TypeOK, TrailOK, DecisionLevel > 0, Shrinks(0)
  PROVE  /\ Decided' = <<>>
         /\ TrueLits' = {l \in TrueLits : Lev[Var(l)] <= 0}
         /\ Lev' = [v \in Vars |-> 0]
         /\ FactsStay /\ NewFacts({})
<1>1. /\ TrueLits' = {l \in TrueLits : LevelOf(l) <= 0} /\ DecisionLevel' = 0
      /\ DOMAIN level' = KeptVars(0) /\ KeptVars(0) \subseteq DOMAIN level
      /\ \A v \in KeptVars(0) : level'[v] = level[v] /\ level[v] <= 0
      /\ trailLim[1] \in 0 .. Len(trail) - 1
      /\ \A i \in Places : i <= trailLim[1] <=> LevelOf(trail[i]) <= 0
  <2>1. 0 + 1 = 1
    OBVIOUS
  <2> QED BY <2>1 DEF Shrinks
<1>2. /\ \A v \in DOMAIN level : level[v] \in Nat
      /\ \A l \in TrueLits : LevelOf(l) \in Nat /\ Lev[Var(l)] = LevelOf(l)
      /\ Len(trail) \in Nat
  BY LevIs, Literals
<1>3. Decided' = <<>>
  BY <1>1 DEF Decided
<1>4. TrueLits' = {l \in TrueLits : Lev[Var(l)] <= 0}
  BY <1>1, <1>2
<1>5. \A v \in DOMAIN level' : level'[v] = 0
  BY <1>1, <1>2
<1>6. Lev' = [v \in Vars |-> 0]
  BY <1>5 DEF Lev
<1>7. ASSUME NEW l \in TrueLits' PROVE l \in TrueLits /\ LevelOf(l) = 0
  BY <1>1, <1>2
<1>8. ASSUME NEW l \in TrueLits, LevelOf(l) = 0 PROVE l \in TrueLits' /\ level'[Var(l)] = 0
  <2>1. l \in TrueLits'
    BY <1>1, <1>8
  <2>2. PICK i \in Places : l = trail[i]
    BY DEF TrueLits, Places
  <2>3. i \in 1 .. trailLim[0 + 1]
    BY <1>1, <1>2, <1>8, <2>2 DEF Places
  <2>4. Var(l) \in KeptVars(0)
    BY <2>2, <2>3 DEF KeptVars
  <2> QED BY <1>1, <1>5, <2>1, <2>4
<1> QED BY <1>3, <1>4, <1>6, <1>7, <1>8 DEF FactsStay, NewFacts

\* Back to level k, where l is asserted.
LEMMA JumpsSeen ==
  ASSUME TypeOK, TrailOK, NEW k \in 0 .. DecisionLevel - 1, NEW l \in Lits, NEW from,
         IsFalse(l), LevelOf(l) > k, Jumps(k, l, from)
  PROVE  /\ Decided' = SubSeq(Decided, 1, k)
         /\ TrueLits' = {m \in TrueLits : LevelOf(m) <= k} \cup {l}
         /\ Lev' = [v \in Vars |->
                      IF v = Var(l) THEN k ELSE IF Lev[v] <= k THEN Lev[v] ELSE 0]
         /\ FactsStay /\ NewFacts(IF k = 0 THEN {l} ELSE {})
<1>1. PICK n : n = trailLim[k + 1]
  OBVIOUS
<1>2. /\ n \in 0 .. Len(trail) - 1 /\ Len(trail') = n + 1 /\ DecisionLevel' = k
      /\ \A i \in 1 .. n : trail'[i] = trail[i]
      /\ trail'[n + 1] = l
      /\ \A i \in Places : i <= n <=> LevelOf(trail[i]) <= k
      /\ \A m \in 1 .. k : trailLim'[m] = trailLim[m] /\ trailLim[m] < n
      /\ TrueLits' = {m \in TrueLits : LevelOf(m) <= k} \cup {l}
      /\ DOMAIN level' = KeptVars(k) \cup {Var(l)} /\ KeptVars(k) \subseteq DOMAIN level
      /\ Var(l) \notin KeptVars(k)
      /\ \A v \in KeptVars(k) : level'[v] = level[v] /\ level[v] <= k
      /\ level'[Var(l)] = k
  BY <1>1 DEF Jumps
<1>3. /\ \A v \in DOMAIN level : level[v] \in Nat
      /\ \A m \in TrueLits : /\ LevelOf(m) \in Nat /\ Lev[Var(m)] = LevelOf(m)
                             /\ m \in Lits /\ Var(m) \in DOMAIN level
      /\ Len(trail) \in Nat /\ DecisionLevel \in Nat /\ k \in Nat
      /\ Decided \in Seq(Lits) /\ Len(Decided) = DecisionLevel
      /\ \A m \in 1 .. DecisionLevel : trailLim[m] + 1 \in Places
      /\ Cut(trail, trailLim, level)
  BY LevIs, DecidedIs, Literals DEF IsTrue
<1>4. ASSUME NEW i \in Places, LevelOf(trail[i]) <= k PROVE Var(trail[i]) \in KeptVars(k)
  <2>1. i \in 1 .. n
    BY <1>2, <1>3, <1>4 DEF Places
  <2> QED BY <1>1, <2>1 DEF KeptVars
<1>5. Decided' = SubSeq(Decided, 1, k)
  <2>1. \A m \in 1 .. k : Decided'[m] = Decided[m] /\ m \in 1 .. DecisionLevel
    <3> SUFFICES ASSUME NEW m \in 1 .. k PROVE Decided'[m] = Decided[m] /\ m \in 1 .. DecisionLevel
      OBVIOUS
    <3>1. m \in 1 .. DecisionLevel /\ trailLim[m] + 1 \in 1 .. n
      <4>1. m \in 1 .. DecisionLevel
        BY <1>3
      <4>2. trailLim[m] + 1 \in Places /\ trailLim[m] < n /\ trailLim[m] \in Nat
        <5>1. trailLim[m] + 1 \in Places /\ trailLim[m] < n
          BY <1>2, <1>3, <4>1
        <5>2. trailLim \in Seq(Nat) /\ DecisionLevel = Len(trailLim)
          BY <1>3 DEF Cut, DecisionLevel
        <5>3. trailLim[m] \in Nat
          BY <4>1, <5>2
        <5> QED BY <5>1, <5>3
      <4> QED BY <1>2, <1>3, <4>1, <4>2 DEF Places
    <3>2. trailLim'[m] = trailLim[m] /\ trail'[trailLim[m] + 1] = trail[trailLim[m] + 1]
      BY <1>2, <3>1
    <3> QED BY <1>2, <3>1, <3>2 DEF Decided
  <2>2. SubSeq(Decided, 1, k) = [m \in 1 .. k |-> Decided[m]]
    BY <1>3
  <2>3. DOMAIN Decided' = 1 .. k /\ Decided' = [m \in 1 .. k |-> Decided'[m]]
    BY <1>2 DEF Decided
  <2> QED BY <2>1, <2>2, <2>3
<1>6. ASSUME NEW v \in Vars
      PROVE  (IF v \in DOMAIN level' THEN level'[v] ELSE 0)
               = IF v = Var(l) THEN k ELSE IF Lev[v] <= k THEN Lev[v] ELSE 0
  <2>1. CASE v = Var(l)
    BY <1>2, <2>1
  <2>2. CASE v \in KeptVars(k)
    BY <1>2, <2>2 DEF Lev
  <2>3. CASE v # Var(l) /\ v \notin KeptVars(k) /\ v \in DOMAIN level
    <3>1. PICK i \in Places : v = Var(trail[i])
      BY <1>3, <2>3 DEF Cut, Places
    <3>2. ~(level[v] <= k)
      BY <1>4, <2>3, <3>1 DEF LevelOf
    <3> QED BY <1>2, <2>3, <3>2 DEF Lev
  <2>4. CASE v # Var(l) /\ v \notin DOMAIN level
    BY <1>2, <1>3, <2>4 DEF Lev
  <2> QED BY <2>1, <2>2, <2>3, <2>4
<1>7. Lev' = [v \in Vars |-> IF v = Var(l) THEN k ELSE IF Lev[v] <= k THEN Lev[v] ELSE 0]
  BY <1>6 DEF Lev
<1>8. ASSUME NEW m \in TrueLits, LevelOf(m) <= k
      PROVE  m \in TrueLits' /\ level'[Var(m)] = LevelOf(m)
  <2>1. PICK i \in Places : m = trail[i]
    BY DEF TrueLits, Places
  <2>2. Var(m) \in KeptVars(k)
    BY <1>4, <1>8, <2>1
  <2> QED BY <1>2, <1>8, <2>2 DEF LevelOf
<1>9. FactsStay
  BY <1>3, <1>8 DEF FactsStay
<1>10. NewFacts(IF k = 0 THEN {l} ELSE {})
  <2> SUFFICES ASSUME NEW m \in TrueLits', level'[Var(m)] = 0
               PROVE  m \in (IF k = 0 THEN {l} ELSE {}) \/ (m \in TrueLits /\ LevelOf(m) = 0)
    BY DEF NewFacts
  <2>1. CASE m = l
    BY <1>2, <2>1
  <2>2. CASE m # l
    <3>1. m \in TrueLits /\ LevelOf(m) <= k
      BY <1>2, <2>2
    <3> QED BY <1>8, <3>1
  <2> QED BY <2>1, <2>2
<1> QED BY <1>2, <1>5, <1>7, <1>9, <1>10

-----------------------------------------------------------------------------
\* Assignments that satisfy the file.
LEMMA HoldsNeg ==
  ASSUME NEW A \in Assignments, NEW l \in Lits
  PROVE  Holds(A, Neg(l)) <=> ~Holds(A, l)
<1>1. PICK v \in Vars, b \in BOOLEAN : l = <<v, b>>
  BY DEF Lits
<1>2. Neg(l) = <<v, ~b>> /\ A[v] \in BOOLEAN
  BY <1>1 DEF Neg, Assignments
<1> QED BY <1>1, <1>2 DEF Holds

\* They make false the literals that are false at level 0, ...
LEMMA FalseFacts ==
  ASSUME InSearch, Entailed, NEW A \in Assignments, Models(A, Input),
         NEW l \in Lits, IsFalse(l), LevelOf(l) = 0
  PROVE  ~Holds(A, l)
<1>1. LevelOf(Neg(l)) = 0 /\ Neg(l) \in TrueLits
  BY NegLit DEF IsFalse, LevelOf
<1>2. Holds(A, Neg(l))
  BY <1>1 DEF Entailed
<1> QED BY <1>2, HoldsNeg

\* ... and true the literal of a clause whose others they make false.
LEMMA Forced ==
  ASSUME NEW A, NEW C, Satisfies(A, C), NEW l, \A q \in C : q # l => ~Holds(A, q)
  PROVE  Holds(A, l)
  BY DEF Satisfies

\* The literals of level 0 that analyze drops are false in every such assignment, so
\* that the clause it arrives at follows from the file.
LEMMA ResolventFollows ==
  ASSUME InSearch, Entailed, pc = "conflict", DecisionLevel > 0,
         NEW A \in Assignments, Models(A, Input)
  PROVE  Satisfies(A, Resolvent[0])
<1> SUFFICES ASSUME \A l \in Resolvent[0] : ~Holds(A, l) PROVE FALSE
  BY DEF Satisfies
<1> DEFINE n == Len(trail)
<1>1. /\ n \in Nat /\ DecisionLevel \in Nat /\ TypeOK /\ TrailOK
      /\ \A l \in Lits : IsFalse(l) => LevelOf(l) \in 0 .. DecisionLevel
      /\ \A r \in DOMAIN db : LitsOf(db[r]) \subseteq Lits
      /\ \A i \in Places : trail[i] \in Lits
  BY Literals DEF InSearch
<1>2. /\ Resolvent[n] = AboveZero(LitsOf(db[confl]))
      /\ \A i \in 0 .. n - 1 : Resolvent[i] = Resolve(i, Resolvent[i + 1])
      /\ \A i \in 0 .. n : Resolved(i, Resolvent[i])
  BY ResolventIs
<1> DEFINE P == {i \in 0 .. n : \A l \in Resolvent[i] : ~Holds(A, l)}
<1>3. 0 \in P
  BY <1>1
<1>4. ASSUME NEW i \in 0 .. n - 1, i \in P PROVE i + 1 \in P
  <2> DEFINE S == Resolvent[i + 1]
             p == trail[i + 1]
             c == db[reason[Var(p)]]
  <2>1. i + 1 \in 0 .. n /\ Resolvent[i] = Resolve(i, S) /\ i + 1 \in Places /\ p \in Lits
    BY <1>1, <1>2 DEF Places
  <2>2. CASE Cardinality(Current(S)) = 1 \/ Neg(p) \notin S
    BY <1>4, <2>1, <2>2 DEF Resolve
  <2>3. CASE Cardinality(Current(S)) # 1 /\ Neg(p) \in S
    <3>1. Resolvent[i] = (S \ {Neg(p)}) \cup (AboveZero(LitsOf(c)) \ {p})
      BY <2>1, <2>3 DEF Resolve
    <3>2. LevelOf(p) = DecisionLevel /\ i + 1 # trailLim[DecisionLevel] + 1
      BY <1>2, <2>1, <2>3, ResolvedStep
    <3>3. /\ reason[Var(p)] \in DOMAIN db
          /\ \A l \in LitsOf(c) : l # p => l \in Lits /\ \E j \in 1 .. (i + 1) - 1 : l = Neg(trail[j])
      BY <2>1, <3>2, ReasonOf
    <3>4. Satisfies(A, LitsOf(c))
      BY <3>3 DEF Entailed
    <3>5. ASSUME NEW q \in LitsOf(c), q # p PROVE ~Holds(A, q)
      <4>1. PICK j \in 1 .. i : q = Neg(trail[j])
        BY <3>3, <3>5
      <4>2. j \in Places /\ trail[j] \in Lits
        BY <1>1, <2>1 DEF Places
      <4>3. q \in Lits /\ IsFalse(q)
        BY <4>1, <4>2, NegLit DEF IsFalse, TrueLits, Places
      <4>4. CASE LevelOf(q) = 0
        BY <4>3, <4>4, FalseFacts
      <4>5. CASE LevelOf(q) # 0
        <5>1. q \in AboveZero(LitsOf(c)) \ {p}
          BY <1>1, <3>5, <4>3, <4>5 DEF AboveZero
        <5> QED BY <1>4, <3>1, <5>1
      <4> QED BY <4>4, <4>5
    <3>6. Holds(A, p)
      BY <3>4, <3>5, Forced
    <3>7. ~Holds(A, Neg(p))
      BY <2>1, <3>6, HoldsNeg
    <3> QED BY <1>4, <2>1, <3>1, <3>7
  <2> QED BY <2>2, <2>3
<1>5. n \in P
  <2> HIDE DEF P
  <2>1. \A i \in 0 .. n : i \in P
    BY <1>1, <1>3, <1>4, UpInduction
  <2> QED BY <1>1, <2>1
<1>6. confl \in DOMAIN db /\ \A l \in LitsOf(db[confl]) : IsFalse(l)
  BY DEF InSearch, ConflictFalse
<1>7. ASSUME NEW q \in LitsOf(db[confl]) PROVE ~Holds(A, q)
  <2>1. q \in Lits /\ IsFalse(q)
    BY <1>1, <1>6
  <2>2. CASE LevelOf(q) = 0
    BY <2>1, <2>2, FalseFacts
  <2>3. CASE LevelOf(q) # 0
    BY <1>1, <1>2, <1>5, <2>1, <2>3 DEF AboveZero
  <2> QED BY <2>2, <2>3
<1>8. Satisfies(A, LitsOf(db[confl]))
  BY <1>6 DEF Entailed
<1> QED BY <1>7, <1>8 DEF Satisfies

\* litRedundant, on the trail: T holds the places of the literals found redundant.
Leads(S, i, T) ==
  /\ reason[Var(trail[i])] # Undef /\ LevelOf(trail[i]) > 0
  /\ \A q \in LitsOf(db[reason[Var(trail[i])]]) \ {trail[i]} :
       \/ LevelOf(q) = 0
       \/ q \in S
       \/ \E j \in 1 .. i - 1 : trail[j] = Neg(q) /\ j \in T

\* litRedundant as an induction along the trail can use it.
LEMMA RedundantIs ==
  ASSUME NEW S, Len(trail) \in Nat
  PROVE  \E T \in SUBSET (1 .. Len(trail)) :
           /\ Redundant(S) = {Neg(trail[i]) : i \in T}
           /\ \A i \in T : Leads(S, i, T)
<1> DEFINE n == Len(trail)
           W == SUBSET (1 .. n)
           step == [i \in 0 .. n - 1 |->
                      [G \in W |-> IF Leads(S, i + 1, G) THEN G \cup {i + 1} ELSE G]]
           Body(f) == [i \in 1 .. Len(trail) |->
                         LET r == reason[Var(trail[i])] IN
                           /\ r # Undef /\ LevelOf(trail[i]) > 0
                           /\ \A q \in LitsOf(db[r]) \ {trail[i]} :
                                \/ LevelOf(q) = 0
                                \/ q \in S
                                \/ \E j \in 1 .. i - 1 : trail[j] = Neg(q) /\ f[j]]
<1>1. step \in Steps(n, W)
  <2> SUFFICES ASSUME NEW i \in 0 .. n - 1
               PROVE  [G \in W |-> IF Leads(S, i + 1, G) THEN G \cup {i + 1} ELSE G] \in [W -> W]
    BY DEF Steps
  <2>1. i + 1 \in 1 .. n
    OBVIOUS
  <2> QED BY <2>1
<1>2. PICK g : GoesUp(g, n, W, {}, step)
  <2>1. {} \in W
    OBVIOUS
  <2> HIDE DEF step, W
  <2> QED BY <1>1, <2>1, UpRecursion
<1>3. /\ g[0] = {}
      /\ \A i \in 0 .. n : g[i] \in W
      /\ \A i \in 0 .. n - 1 : g[i + 1] = IF Leads(S, i + 1, g[i]) THEN g[i] \cup {i + 1} ELSE g[i]
  <2>1. /\ g \in [0 .. n -> W] /\ g[0] = {}
        /\ \A i \in 0 .. n - 1 : g[i + 1] = step[i][g[i]]
    BY <1>2 DEF GoesUp
  <2>2. ASSUME NEW i \in 0 .. n - 1
        PROVE  step[i][g[i]] = IF Leads(S, i + 1, g[i]) THEN g[i] \cup {i + 1} ELSE g[i]
    <3>1. g[i] \in W
      BY <2>1
    <3> QED BY <3>1
  <2> HIDE DEF step
  <2> QED BY <2>1, <2>2
<1> DEFINE f == [i \in 1 .. n |-> i \in g[i]]
           Q == {i \in 0 .. n : \A j \in 1 .. n : j \in g[i] <=> j <= i /\ j \in g[j]}
<1>4. \A i \in 0 .. n : i \in Q
  <2>1. 0 \in Q
    BY <1>3
  <2>2. ASSUME NEW i \in 0 .. n - 1, i \in Q PROVE i + 1 \in Q
    <3>1. i + 1 \in 1 .. n /\ i + 1 \in 0 .. n
      OBVIOUS
    <3>2. ASSUME NEW j \in 1 .. n PROVE j \in g[i + 1] <=> j <= i + 1 /\ j \in g[j]
      <4>1. CASE j = i + 1
        BY <4>1
      <4>2. CASE j # i + 1
        <5>1. j \in g[i + 1] <=> j \in g[i]
          BY <1>3, <4>2
        <5>2. j \in g[i] <=> j <= i /\ j \in g[j]
          BY <2>2
        <5> QED BY <4>2, <5>1, <5>2
      <4> QED BY <4>1, <4>2
    <3> QED BY <3>1, <3>2
  <2> HIDE DEF Q
  <2> QED BY <2>1, <2>2, UpInduction
<1>5. ASSUME NEW i \in 1 .. n
      PROVE  i \in g[i] <=> Leads(S, i, {j \in 1 .. n : f[j]})
  <2>1. i - 1 \in 0 .. n - 1 /\ i - 1 \in 0 .. n /\ (i - 1) + 1 = i
    OBVIOUS
  <2>2. \A j \in 1 .. n : j \in g[i - 1] <=> j <= i - 1 /\ j \in g[j]
    BY <1>4, <2>1
  <2>3. i \in g[i] <=> Leads(S, i, g[i - 1])
    <3>1. i \notin g[i - 1]
      BY <2>2
    <3>2. g[i] = IF Leads(S, i, g[i - 1]) THEN g[i - 1] \cup {i} ELSE g[i - 1]
      BY <1>3, <2>1
    <3> QED BY <3>1, <3>2
  <2>4. ASSUME NEW j \in 1 .. i - 1 PROVE j \in g[i - 1] <=> j \in {k \in 1 .. n : f[k]}
    <3>1. j \in 1 .. n /\ j <= i - 1
      OBVIOUS
    <3>2. j \in g[i - 1] <=> j \in g[j]
      BY <2>2, <3>1
    <3>3. f[j] <=> j \in g[j]
      BY <3>1
    <3> HIDE DEF f
    <3> QED BY <3>1, <3>2, <3>3
  <2> HIDE DEF f
  <2>5. Leads(S, i, g[i - 1]) <=> Leads(S, i, {j \in 1 .. n : f[j]})
    BY <2>4 DEF Leads
  <2> QED BY <2>3, <2>5
<1>6. f = Body(f)
  <2>1. ASSUME NEW i \in 1 .. n PROVE f[i] = Body(f)[i]
    <3>1. f[i] <=> Leads(S, i, {j \in 1 .. n : f[j]})
      BY <1>5
    <3>2. Body(f)[i] <=> Leads(S, i, {j \in 1 .. n : f[j]})
      <4> HIDE DEF f
      <4>1. \A j \in 1 .. i - 1 : f[j] <=> j \in {k \in 1 .. n : f[k]}
        OBVIOUS
      <4> QED BY <4>1 DEF Leads
    <3>3. f[i] \in BOOLEAN /\ Body(f)[i] \in BOOLEAN
      OBVIOUS
    <3> HIDE DEF f, Body
    <3> QED BY <3>1, <3>2, <3>3
  <2>2. f = [i \in 1 .. n |-> f[i]] /\ Body(f) = [i \in 1 .. n |-> Body(f)[i]]
    OBVIOUS
  <2> HIDE DEF f, Body
  <2> QED BY <2>1, <2>2
<1> DEFINE h == CHOOSE e : e = Body(e)
<1>7. h = Body(h)
  <2> HIDE DEF Body, f
  <2> QED BY <1>6
<1> DEFINE T == {i \in 1 .. n : h[i]}
<1>8. Redundant(S) = {Neg(trail[i]) : i \in T}
  BY DEF Redundant
<1>9. ASSUME NEW i \in T PROVE Leads(S, i, T)
  <2>1. h[i] = Body(h)[i] /\ h[i] /\ i \in 1 .. n
    <3> HIDE DEF Body, h
    <3> QED BY <1>7
  <2>2. Body(h)[i]
    BY <2>1
  <2> HIDE DEF h
  <2>3. \A j \in 1 .. i - 1 : h[j] => j \in T
    BY <2>1
  <2> QED BY <2>1, <2>2, <2>3 DEF Leads
<1>10. T \in SUBSET (1 .. Len(trail))
  OBVIOUS
<1> QED
  <2> HIDE DEF T
  <2> QED BY <1>8, <1>9, <1>10

\* What litRedundant takes away may be put back: it is false wherever the rest is.
LEMMA RedundantFollows ==
  ASSUME InSearch, Entailed, NEW A \in Assignments, Models(A, Input),
         NEW S, S \subseteq Lits, \A l \in S : IsFalse(l),
         \A l \in S \ Redundant(S) : ~Holds(A, l)
  PROVE  \A l \in S : ~Holds(A, l)
<1> DEFINE n == Len(trail)
<1>1. /\ n \in Nat /\ TypeOK /\ TrailOK
      /\ \A i \in Places : trail[i] \in Lits
      /\ \A r \in DOMAIN db : LitsOf(db[r]) \subseteq Lits
  BY Literals DEF InSearch
<1>2. PICK T \in SUBSET (1 .. n) : /\ Redundant(S) = {Neg(trail[i]) : i \in T}
                                   /\ \A i \in T : Leads(S, i, T)
  BY <1>1, RedundantIs
<1> DEFINE Q == {i \in 0 .. n : \A j \in 1 .. i :
                    Neg(trail[j]) \in S \/ j \in T => Holds(A, trail[j])}
<1>3. ASSUME NEW i \in 0 .. n - 1, i \in Q PROVE i + 1 \in Q
  <2> DEFINE p == trail[i + 1]
             c == db[reason[Var(p)]]
  <2>1. i + 1 \in Places /\ p \in Lits /\ i + 1 \in 0 .. n
    BY <1>1 DEF Places
  <2>2. ASSUME i + 1 \in T PROVE Holds(A, p)
    <3>1. Leads(S, i + 1, T)
      BY <1>2, <2>2
    <3>2. /\ reason[Var(p)] # Undef /\ LevelOf(p) > 0
          /\ \A q \in LitsOf(c) \ {p} : \/ LevelOf(q) = 0
                                        \/ q \in S
                                        \/ \E j \in 1 .. (i + 1) - 1 : trail[j] = Neg(q) /\ j \in T
      BY <3>1 DEF Leads
    <3>3. /\ reason[Var(p)] \in DOMAIN db
          /\ \A l \in LitsOf(c) : l # p => l \in Lits /\ \E j \in 1 .. (i + 1) - 1 : l = Neg(trail[j])
      BY <2>1, <3>2, ReasonOf
    <3>4. Satisfies(A, LitsOf(c))
      BY <3>3 DEF Entailed
    <3>5. ASSUME NEW q \in LitsOf(c), q # p PROVE ~Holds(A, q)
      <4>1. PICK j \in 1 .. i : q = Neg(trail[j])
        BY <3>3, <3>5
      <4>2. j \in Places /\ trail[j] \in Lits
        BY <1>1, <2>1 DEF Places
      <4>3. q \in Lits /\ IsFalse(q)
        BY <4>1, <4>2, NegLit DEF IsFalse, TrueLits, Places
      <4>4. CASE LevelOf(q) = 0
        BY <4>3, <4>4, FalseFacts
      <4>5. CASE q \in S
        <5>1. Holds(A, trail[j])
          BY <1>3, <4>1, <4>5
        <5> QED BY <4>1, <4>2, <5>1, HoldsNeg
      <4>6. ASSUME NEW m \in 1 .. i, trail[m] = Neg(q), m \in T PROVE ~Holds(A, q)
        <5>1. Holds(A, trail[m])
          BY <1>3, <4>6
        <5>2. Holds(A, Neg(q))
          BY <4>6, <5>1
        <5> QED BY <4>3, <5>2, HoldsNeg
      <4>7. (i + 1) - 1 = i
        BY <1>1
      <4> QED BY <3>2, <3>5, <4>4, <4>5, <4>6, <4>7
    <3> QED BY <3>4, <3>5, Forced
  <2>3. ASSUME i + 1 \notin T, Neg(p) \in S PROVE Holds(A, p)
    <3>1. ASSUME Neg(p) \in Redundant(S) PROVE FALSE
      <4>1. PICK m \in T : Neg(p) = Neg(trail[m])
        BY <1>2, <3>1
      <4>2. m \in Places /\ trail[m] \in Lits
        BY <1>1, <1>2 DEF Places
      <4>3. p = trail[m]
        BY <2>1, <4>1, <4>2, NegLit
      <4>4. m = i + 1
        BY <1>1, <2>1, <4>2, <4>3 DEF TrailOK
      <4> QED BY <2>3, <4>4
    <3>2. ~Holds(A, Neg(p))
      BY <2>3, <3>1
    <3> QED BY <2>1, <3>2, HoldsNeg
  <2>4. ASSUME NEW j \in 1 .. i + 1, Neg(trail[j]) \in S \/ j \in T PROVE Holds(A, trail[j])
    <3>1. CASE j = i + 1
      BY <2>2, <2>3, <2>4, <3>1
    <3>2. CASE j # i + 1
      BY <1>3, <2>4, <3>2
    <3> QED BY <3>1, <3>2
  <2> QED BY <2>1, <2>4
<1>4. n \in Q
  <2>1. 0 \in Q
    BY <1>1
  <2> HIDE DEF Q
  <2>2. \A i \in 0 .. n : i \in Q
    BY <1>1, <1>3, <2>1, UpInduction
  <2> QED BY <1>1, <2>2
<1>5. ASSUME NEW l \in S PROVE ~Holds(A, l)
  <2>1. PICK j \in 1 .. n : trail[j] = Neg(l)
    BY DEF IsFalse, TrueLits
  <2>2. l \in Lits /\ Neg(trail[j]) = l
    BY <2>1, NegLit
  <2>3. Holds(A, Neg(l))
    BY <1>4, <2>1, <2>2
  <2> QED BY <2>2, <2>3, HoldsNeg
<1> QED BY <1>5

\* A clause that analyze learns follows from the file.
LEMMA LearntFollows ==
  ASSUME InSearch, Entailed, pc = "conflict", DecisionLevel > 0,
         NEW uip \in Current(Resolvent[0]), NEW C \in LearntClauses(uip),
         NEW A \in Assignments, Models(A, Input)
  PROVE  Satisfies(A, C)
<1> SUFFICES ASSUME \A l \in C : ~Holds(A, l) PROVE FALSE
  BY DEF Satisfies
<1> DEFINE S == Resolvent[0] \ {uip}
           M == S \ Redundant(S)
<1>1. /\ S \subseteq Lits /\ \A l \in S : IsFalse(l)
      /\ uip \in Lits
  <2>1. 0 \in 0 .. Len(trail)
    BY Literals DEF InSearch
  <2>2. Resolved(0, Resolvent[0])
    BY <2>1, ResolventIs
  <2> QED BY <2>2 DEF Resolved, Current
<1>2. C \in {{uip} \cup M, {uip} \cup (M \ BinaryRedundant(uip))}
  BY DEF LearntClauses
<1>3. ~Holds(A, uip)
  BY <1>2
<1>4. ASSUME NEW l \in M PROVE ~Holds(A, l)
  <2>1. CASE l \in C
    BY <2>1
  <2>2. CASE l \in BinaryRedundant(uip)
    <3>1. PICK r \in DOMAIN db : LitsOf(db[r]) = {uip, Neg(l)}
      BY <2>2 DEF BinaryRedundant
    <3>2. Satisfies(A, {uip, Neg(l)})
      BY <3>1 DEF Entailed
    <3>3. Holds(A, Neg(l))
      BY <1>3, <3>2 DEF Satisfies
    <3>4. l \in Lits
      BY <1>1
    <3> QED BY <3>3, <3>4, HoldsNeg
  <2> QED BY <1>2, <2>1, <2>2
<1>5. \A l \in S : ~Holds(A, l)
  <2> HIDE DEF S
  <2> QED BY <1>1, <1>4, RedundantFollows
<1>6. Satisfies(A, Resolvent[0])
  BY ResolventFollows
<1> QED BY <1>3, <1>5, <1>6 DEF Satisfies
-----------------------------------------------------------------------------
\* What the answers rest on is as it should be.
Sure == Undecided /\ Entailed /\ Stored

\* The clauses, for the rules, are as they were.
SameClauses ==
  /\ DOMAIN db' = DOMAIN db
  /\ \A r \in DOMAIN db : /\ LitsOf(db'[r]) = LitsOf(db[r])
                          /\ db'[r].learnt = db[r].learnt

\* The clauses kept change with the references only.
LEMMA SameKept ==
  ASSUME SameClauses
  PROVE  Kept' = Kept
  BY DEF SameClauses, Kept

\* A clause that follows goes on following when literals are added.
LEMMA EntailsMore ==
  ASSUME NEW F, NEW G, NEW C, Entails(F, C)
  PROVE  Entails(F \cup G, C)
  BY DEF Entails, Models

\* Every clause follows from the file, ...
LEMMA KeptFollows ==
  ASSUME Entailed, NEW r \in DOMAIN db
  PROVE  Entails(Input, LitsOf(db[r]))
  BY DEF Entailed, Entails

\* The clauses of the file follow from the file.
LEMMA InputFollows ==
  ASSUME NEW C \in Input
  PROVE  Entails(Input, C)
  BY DEF Entails, Models

\* ... and so does what is left of it without literals false at level 0.
LEMMA Trimmed ==
  ASSUME InSearch, Entailed, NEW D \in SUBSET Lits, Entails(Input, D), NEW C \in SUBSET D,
         \A m \in D \ C : IsFalse(m) /\ LevelOf(m) = 0
  PROVE  Entails(Input, C)
<1> SUFFICES ASSUME NEW A \in Assignments, Models(A, Input) PROVE Satisfies(A, C)
  BY DEF Entails
<1>1. PICK l \in D : Holds(A, l)
  BY DEF Entails, Satisfies
<1>2. ASSUME l \notin C PROVE FALSE
  <2>1. l \in Lits /\ IsFalse(l) /\ LevelOf(l) = 0
    BY <1>2
  <2> QED BY <1>1, <2>1, FalseFacts
<1> QED BY <1>1, <1>2 DEF Satisfies

\* Clauses and facts follow from the file as long as the new ones do.
LEMMA EntailedStep ==
  ASSUME Entailed, input' = input, NEW S, NewFacts(S), \A l \in S : Entails(Input, {l}),
         \A q \in DOMAIN db' : \/ \E r \in DOMAIN db : LitsOf(db'[q]) = LitsOf(db[r])
                               \/ Entails(Input, LitsOf(db'[q]))
  PROVE  Entailed'
<1>1. Input' = Input
  BY DEF Input
<1>2. ASSUME NEW A \in Assignments, Models(A, Input), NEW q \in DOMAIN db'
      PROVE  Satisfies(A, LitsOf(db'[q]))
  <2>1. CASE \E r \in DOMAIN db : LitsOf(db'[q]) = LitsOf(db[r])
    <3>1. PICK r \in DOMAIN db : LitsOf(db'[q]) = LitsOf(db[r])
      BY <2>1
    <3>2. Satisfies(A, LitsOf(db[r]))
      BY <1>2 DEF Entailed
    <3> QED BY <3>1, <3>2
  <2>2. CASE Entails(Input, LitsOf(db'[q]))
    BY <1>2, <2>2 DEF Entails
  <2> QED BY <2>1, <2>2
<1>3. ASSUME NEW A \in Assignments, Models(A, Input), NEW l \in TrueLits', level'[Var(l)] = 0
      PROVE  Holds(A, l)
  <2>1. CASE l \in S
    <3>1. Satisfies(A, {l})
      BY <1>3, <2>1 DEF Entails
    <3> QED BY <3>1 DEF Satisfies
  <2>2. CASE l \in TrueLits /\ LevelOf(l) = 0
    BY <1>3, <2>2 DEF Entailed
  <2> QED BY <1>3, <2>1, <2>2 DEF NewFacts
<1> QED BY <1>1, <1>2, <1>3 DEF Entailed, LevelOf

\* What has been read of the file stays stored as long as clauses do that are not
\* satisfied by a fact.
LEMMA StoredStep ==
  ASSUME TypeOK, Stored, pc # "done", input' = input, FactsStay, NEW n, n = nextClause,
         \/ nextClause' = nextClause
         \/ nextClause' = nextClause + 1 /\ (pc' # "done" => StoredAt(n)'),
         \A r \in DOMAIN db : ~db[r].learnt =>
           \/ r \in DOMAIN db' /\ LitsOf(db'[r]) = LitsOf(db[r]) /\ ~db'[r].learnt
           \/ \E l \in LitsOf(db[r]) : IsTrue(l) /\ LevelOf(l) = 0
  PROVE  Stored'
<1> SUFFICES ASSUME pc' # "done", NEW i \in 1 .. nextClause' - 1
             PROVE  \/ \E l \in input[i] : Neg(l) \in input[i]
                    \/ \E l \in input[i] : l \in TrueLits' /\ level'[Var(l)] = 0
                    \/ \E r \in DOMAIN db' : ~db'[r].learnt /\ LitsOf(db'[r]) \subseteq input[i]
  BY DEF Stored, StoredAt, IsTrue, LevelOf
<1>1. i \in 1 .. nextClause - 1 \/ (nextClause' = nextClause + 1 /\ i = n)
  BY FormulasAssumption DEF TypeOK
<1>2. CASE i \in 1 .. nextClause - 1
  <2>1. StoredAt(i)
    BY <1>2 DEF Stored
  <2>2. \A l : IsTrue(l) /\ LevelOf(l) = 0 => l \in TrueLits' /\ level'[Var(l)] = 0
    BY DEF FactsStay, IsTrue
  <2>3. ASSUME NEW r \in DOMAIN db, ~db[r].learnt, LitsOf(db[r]) \subseteq input[i]
        PROVE  \/ \E l \in input[i] : l \in TrueLits' /\ level'[Var(l)] = 0
               \/ \E q \in DOMAIN db' : ~db'[q].learnt /\ LitsOf(db'[q]) \subseteq input[i]
    BY <2>2, <2>3
  <2> QED BY <2>1, <2>2, <2>3 DEF StoredAt
<1>3. CASE nextClause' = nextClause + 1 /\ i = n
  BY <1>1, <1>3 DEF StoredAt, IsTrue, LevelOf
<1> QED BY <1>1, <1>2, <1>3

\* Where trail and clauses are left alone, ...
LEMMA Facts ==
  ASSUME trail' = trail, level' = level
  PROVE  FactsStay /\ NewFacts({})
  BY DEF FactsStay, NewFacts, TrueLits, LevelOf

\* ... the rules see nothing.
LEMMA Unseen ==
  ASSUME InRules, pc # "done", pc' # "done", SameClauses,
         UNCHANGED <<input, nextClause, trail, trailLim, level, status>>
  PROVE  RulesStep /\ Sure'
<1>1. RulesStep
  BY SameKept, StepUnseen
<1>2. Undecided'
  BY DEF Undecided, InRules
<1>3. Entailed'
  <2>1. NewFacts({})
    BY Facts
  <2> QED BY <2>1, EntailedStep DEF SameClauses, InRules
<1>4. Stored'
  BY Facts, StoredStep DEF SameClauses, InRules, InSearch
<1> QED BY <1>1, <1>2, <1>3, <1>4 DEF Sure

\* A step that leaves trail and clauses alone leaves every answer justified.
LEMMA QuietAnswers ==
  ASSUME InRules, Solve \/ Dequeue \/ (Restart /\ ~(DecisionLevel > 0))
  PROVE  RulesStep /\ Sure'
<1>1. /\ pc # "done" /\ pc' # "done"
      /\ UNCHANGED <<db, input, nextClause, trail, trailLim, level, status>>
  BY DEF Solve, Dequeue, Restart
<1>2. SameClauses
  BY <1>1 DEF SameClauses
<1> QED BY <1>1, <1>2, Unseen

\* A clause whose other literals are false makes its last one true.
LEMMA Propagated ==
  ASSUME InRules, pc = "propagate", pc' = pc, SameClauses,
         UNCHANGED <<input, nextClause, trailLim, status>>,
         NEW r \in DOMAIN db, NEW l \in LitsOf(db[r]), IsOpen(l),
         \A m \in LitsOf(db[r]) \ {l} : IsFalse(m),
         Grows(l, r, DecisionLevel)
  PROVE  RulesStep /\ Sure'
<1>1. /\ TypeOK /\ TrailOK /\ DecisionLevel \in Nat /\ LitsOf(db[r]) \subseteq Lits
      /\ \A m \in Lits : IsFalse(m) => LevelOf(m) \in 0 .. DecisionLevel
  BY Literals DEF InRules, InSearch
<1>2. /\ Lev' = [Lev EXCEPT ![Var(l)] = DecisionLevel]
      /\ TrueLits' = TrueLits \cup {l}
      /\ Decided' = Decided
      /\ FactsStay /\ NewFacts(IF DecisionLevel = 0 THEN {l} ELSE {})
  BY <1>1, GrowsSeen
<1>3. RulesStep
  <2>1. Kept' = Kept /\ LitsOf(db[r]) \in Kept \cup Input
    BY SameKept DEF Kept
  <2>2. status = "none" /\ status' = "none" /\ l \in Lits
    BY <1>1 DEF InRules, Undecided
  <2> QED BY <1>1, <1>2, <2>1, <2>2, StepPropagates
<1>4. Undecided'
  BY DEF Undecided, InRules
<1>5. ASSUME DecisionLevel = 0 PROVE Entails(Input, {l})
  <2>1. Entails(Input, LitsOf(db[r]))
    BY KeptFollows DEF InRules
  <2>2. \A m \in LitsOf(db[r]) \ {l} : IsFalse(m) /\ LevelOf(m) = 0
    BY <1>1, <1>5
  <2> QED BY <1>1, <2>1, <2>2, Trimmed DEF InRules
<1>6. Entailed'
  BY <1>2, <1>5, EntailedStep DEF SameClauses, InRules
<1>7. Stored'
  BY <1>1, <1>2, StoredStep DEF SameClauses, InRules
<1> QED BY <1>3, <1>4, <1>6, <1>7 DEF Sure

\* propagate visits a binary clause: its other literal is asserted, or it is in conflict.
LEMMA VisitBinaryAnswers ==
  ASSUME InRules, NEW r, VisitBinary(r)
  PROVE  RulesStep /\ Sure'
<1>0. PICK imp, fl : imp = OtherWatch(db[r]) /\ fl = FalseLit
  OBVIOUS
<1>1. /\ UNCHANGED <<db, input, nextClause, trailLim, status>>
      /\ pc = "propagate" /\ r \in visit /\ IsBin(db[r])
  BY DEF VisitBinary
<1>2. SameClauses
  BY <1>1 DEF SameClauses
<1>3. CASE UNCHANGED <<trail, level>> /\ pc' # "done"
  BY <1>1, <1>2, <1>3, Unseen
<1>4. CASE IsOpen(imp) /\ UncheckedEnqueue(imp, r) /\ pc' = pc
  <2>1. /\ r \in DOMAIN db /\ imp \in Lits /\ IsFalse(fl) /\ LitsOf(db[r]) = {fl, imp}
        /\ InSearch /\ TypeOK /\ TrailOK
    BY <1>0, <1>1, Visited DEF IsBin, InRules, InSearch
  <2>2. r \in Refs \cup {Undef}
    BY <2>1 DEF TypeOK
  <2>3. Grows(imp, r, DecisionLevel)
    BY <1>1, <1>4, <2>1, <2>2, EnqueueGrows
  <2> QED BY <1>1, <1>2, <1>4, <2>1, <2>3, Propagated
<1> QED BY <1>0, <1>1, <1>3, <1>4 DEF VisitBinary

\* Turning a clause round, or watching another of its literals, leaves its literals.
LEMMA SameWhenReplaced ==
  ASSUME InSearch, NEW r \in visit, ~IsBin(db[r]), NEW d \in Clauses,
         LitsOf(d) = LitsOf(db[r]), d.rest # {}, d.w[1] = OtherWatch(db[r]),
         d.w[1] # d.w[2], d.w[1] \notin d.rest, d.w[2] \notin d.rest,
         d.learnt = db[r].learnt,
         db' = [db EXCEPT ![r] = d]
  PROVE  SameClauses
<1>1. /\ DOMAIN db' = DOMAIN db /\ db'[r] = d
      /\ \A q \in DOMAIN db : /\ q # r => db'[q] = db[q]
                              /\ LitsOf(db'[q]) = LitsOf(db[q])
  BY Replaced
<1> QED BY <1>1 DEF SameClauses

\* Literals 0 and 1 are exchanged.
LEMMA SameWhenTurned ==
  ASSUME InSearch, NEW r \in visit, ~IsBin(db[r]),
         db' = [db EXCEPT ![r] = [db[r] EXCEPT !.w = <<OtherWatch(db[r]), FalseLit>>]]
  PROVE  SameClauses
<1>1. PICK d : d = [db[r] EXCEPT !.w = <<OtherWatch(db[r]), FalseLit>>]
  OBVIOUS
<1>2. /\ d \in Clauses /\ LitsOf(d) = LitsOf(db[r]) /\ d.rest = db[r].rest
      /\ d.w[1] = OtherWatch(db[r]) /\ d.w[1] # d.w[2]
      /\ d.w[1] \notin d.rest /\ d.w[2] \notin d.rest
  BY <1>1, TurnedIs
<1>3. r \in DOMAIN db /\ db[r] \in Clauses
  BY Visited DEF InSearch, TypeOK
<1>4. d.learnt = db[r].learnt
  BY <1>1, <1>3 DEF Clauses
<1>5. d.rest # {} /\ db' = [db EXCEPT ![r] = d]
  BY <1>1, <1>2 DEF IsBin
<1> QED BY <1>2, <1>4, <1>5, SameWhenReplaced

\* A new literal is watched.
LEMMA SameWhenMoved ==
  ASSUME InSearch, NEW r \in visit, ~IsBin(db[r]), NEW l \in db[r].rest,
         db' = [db EXCEPT ![r].w = <<OtherWatch(db[r]), l>>,
                          ![r].rest = (@ \ {l}) \cup {FalseLit}]
  PROVE  SameClauses
<1>1. PICK d : d = [db[r] EXCEPT !.w = <<OtherWatch(db[r]), l>>,
                                 !.rest = (@ \ {l}) \cup {FalseLit}]
  OBVIOUS
<1>2. /\ d \in Clauses /\ LitsOf(d) = LitsOf(db[r]) /\ d.rest # {}
      /\ d.w[1] = OtherWatch(db[r]) /\ d.w[1] # d.w[2]
      /\ d.w[1] \notin d.rest /\ d.w[2] \notin d.rest
  BY <1>1, MovedIs
<1>3. r \in DOMAIN db /\ db[r] \in Clauses
  BY Visited DEF InSearch, TypeOK
<1>4. d.learnt = db[r].learnt
  BY <1>1, <1>3 DEF Clauses
<1>5. db' = [db EXCEPT ![r] = d]
  BY <1>1, <1>3
<1> QED BY <1>2, <1>4, <1>5, SameWhenReplaced

\* propagate visits a longer clause: turned round, watched elsewhere, asserted or in conflict.
LEMMA VisitLongAnswers ==
  ASSUME InRules, NEW r, VisitLong(r)
  PROVE  RulesStep /\ Sure'
<1>0. PICK imp, c : imp = OtherWatch(db[r]) /\ c = db[r]
  OBVIOUS
<1>1. /\ UNCHANGED <<input, nextClause, trailLim, status>>
      /\ pc = "propagate" /\ r \in visit /\ ~IsBin(db[r]) /\ InSearch
  BY DEF VisitLong, InRules
<1>2. CASE UNCHANGED <<trail, level>> /\ SameClauses /\ pc' # "done"
  BY <1>1, <1>2, Unseen
<1>3. CASE UNCHANGED db /\ UNCHANGED <<trail, level, pc>>
  <2>1. SameClauses /\ pc' # "done"
    BY <1>1, <1>3 DEF SameClauses
  <2> QED BY <1>2, <1>3, <2>1
<1>4. CASE /\ db' = [db EXCEPT ![r] = [c EXCEPT !.w = <<imp, FalseLit>>]]
           /\ UNCHANGED <<trail, level>> /\ pc' # "done"
  <2>1. SameClauses
    BY <1>0, <1>1, <1>4, SameWhenTurned
  <2> QED BY <1>2, <1>4, <2>1
<1>5. CASE /\ \E l \in Replacements(c) :
                db' = [db EXCEPT ![r].w = <<imp, l>>,
                                 ![r].rest = (@ \ {l}) \cup {FalseLit}]
           /\ UNCHANGED <<trail, level, pc>>
  <2>1. PICK l \in Replacements(c) :
               db' = [db EXCEPT ![r].w = <<imp, l>>,
                                ![r].rest = (@ \ {l}) \cup {FalseLit}]
    BY <1>5
  <2>2. l \in db[r].rest
    BY <1>0, <2>1 DEF Replacements
  <2>3. SameClauses
    BY <1>0, <1>1, <2>1, <2>2, SameWhenMoved
  <2>4. pc' # "done"
    BY <1>1, <1>5
  <2> QED BY <1>2, <1>5, <2>3, <2>4
<1>6. CASE /\ db' = [db EXCEPT ![r] = [c EXCEPT !.w = <<imp, FalseLit>>]]
           /\ IsOpen(imp) /\ Replacements(c) = {}
           /\ UncheckedEnqueue(imp, r) /\ pc' = pc
  <2>1. PICK fl : fl = FalseLit
    OBVIOUS
  <2>2. SameClauses
    BY <1>0, <1>1, <1>6, SameWhenTurned
  <2>3. /\ r \in DOMAIN db /\ imp \in Lits /\ IsFalse(fl)
        /\ LitsOf(db[r]) = {fl, imp} \cup c.rest
        /\ TypeOK /\ TrailOK
    BY <1>0, <1>1, <2>1, Visited DEF InSearch
  <2>4. r \in Refs \cup {Undef}
    BY <2>3 DEF TypeOK
  <2>5. Grows(imp, r, DecisionLevel)
    BY <1>1, <1>6, <2>3, <2>4, EnqueueGrows
  <2>6. \A m \in LitsOf(db[r]) \ {imp} : IsFalse(m)
    BY <1>6, <2>3 DEF Replacements
  <2>7. imp \in LitsOf(db[r])
    BY <2>3
  <2> QED BY <1>1, <1>6, <2>2, <2>3, <2>5, <2>6, <2>7, Propagated
<1>7. \/ UNCHANGED db /\ UNCHANGED <<trail, level, pc>>
      \/ /\ db' = [db EXCEPT ![r] = [c EXCEPT !.w = <<imp, FalseLit>>]]
         /\ UNCHANGED <<trail, level>>
         /\ pc' \in {pc, "conflict"}
      \/ /\ \E l \in Replacements(c) :
              db' = [db EXCEPT ![r].w = <<imp, l>>,
                               ![r].rest = (@ \ {l}) \cup {FalseLit}]
         /\ UNCHANGED <<trail, level, pc>>
      \/ /\ db' = [db EXCEPT ![r] = [c EXCEPT !.w = <<imp, FalseLit>>]]
         /\ IsOpen(imp) /\ Replacements(c) = {}
         /\ UncheckedEnqueue(imp, r) /\ pc' = pc
  BY <1>0 DEF VisitLong
<1> QED BY <1>1, <1>3, <1>4, <1>5, <1>6, <1>7

\* A conflict below the first decision.
LEMMA ConflictAtZeroAnswers ==
  ASSUME InRules, ConflictAtZero
  PROVE  RulesStep /\ Sure'
<1>1. /\ UNCHANGED <<db, input, nextClause, trail, trailLim, level>>
      /\ pc = "conflict" /\ pc' = "done" /\ status' = "UNSAT" /\ DecisionLevel = 0
  BY DEF ConflictAtZero, Answer
<1>2. SameClauses
  BY <1>1 DEF SameClauses
<1>3. confl \in DOMAIN db /\ \A l \in LitsOf(db[confl]) : IsFalse(l)
  BY <1>1 DEF InRules, InSearch, ConflictFalse
<1>4. RulesStep
  <2>1. UNCHANGED <<Input, TrueLits, Lev, Decided>>
    BY <1>1 DEF Input, TrueLits, Lev, Decided, DecisionLevel
  <2>2. LitsOf(db[confl]) \in Kept \cup Input
    BY <1>3 DEF Kept
  <2>3. status = "none" /\ TypeOK /\ TrailOK
    BY <1>1 DEF InRules, InSearch, Undecided
  <2> QED BY <1>1, <1>2, <1>3, <2>1, <2>2, <2>3, SameKept, StepUnsat
<1>5. Entailed'
  <2>1. NewFacts({})
    BY <1>1, Facts
  <2> QED BY <1>1, <2>1, EntailedStep DEF InRules
<1> QED BY <1>1, <1>4, <1>5 DEF Sure, Undecided, Stored

\* What is learnt is kept, and its literal asserted.
LEMMA JumpAnswers ==
  ASSUME InRules, pc = "conflict", pc' = "propagate",
         UNCHANGED <<input, nextClause, status>>,
         NEW k \in 0 .. DecisionLevel - 1, NEW uip \in Lits, IsFalse(uip), LevelOf(uip) > k,
         NEW F \in SUBSET Lits, \A m \in F : IsFalse(m) /\ LevelOf(m) <= k,
         F = {} <=> k = 0,
         NEW from, Jumps(k, uip, from),
         \A r \in DOMAIN db : r \in DOMAIN db' /\ db'[r] = db[r],
         \A q \in DOMAIN db' \ DOMAIN db : LitsOf(db'[q]) = {uip} \cup F,
         F = {} <=> DOMAIN db' = DOMAIN db,
         Entails(Input, {uip} \cup F)
  PROVE  RulesStep /\ Sure'
<1>1. /\ TypeOK /\ TrailOK /\ status = "none" /\ status' = "none"
      /\ Entailed /\ Stored
  BY DEF InRules, InSearch, Undecided
<1>2. /\ Decided' = SubSeq(Decided, 1, k)
      /\ TrueLits' = {m \in TrueLits : LevelOf(m) <= k} \cup {uip}
      /\ Lev' = [v \in Vars |->
                   IF v = Var(uip) THEN k ELSE IF Lev[v] <= k THEN Lev[v] ELSE 0]
      /\ FactsStay /\ NewFacts(IF k = 0 THEN {uip} ELSE {})
  BY <1>1, JumpsSeen
<1>3. Kept' = IF F = {} THEN Kept ELSE Kept \cup {{uip} \cup F}
  <2>1. CASE F = {}
    <3>1. SameClauses
      BY <2>1 DEF SameClauses
    <3> QED BY <2>1, <3>1, SameKept
  <2>2. CASE F # {}
    <3>1. PICK q \in DOMAIN db' : q \notin DOMAIN db
      BY <2>2
    <3>2. LitsOf(db'[q]) = {uip} \cup F
      BY <3>1
    <3>3. \A p \in DOMAIN db' : p \in DOMAIN db \/ LitsOf(db'[p]) = {uip} \cup F
      OBVIOUS
    <3>4. Kept' = {LitsOf(db'[p]) : p \in DOMAIN db'}
      BY DEF Kept
    <3>5. Kept' = Kept \cup {{uip} \cup F}
      BY <3>2, <3>3, <3>4 DEF Kept
    <3> QED BY <2>2, <3>5
  <2> QED BY <2>1, <2>2
<1>4. Entails(Input \cup Kept, {uip} \cup F)
  BY EntailsMore
<1>5. RulesStep
  BY <1>1, <1>2, <1>3, <1>4, StepLearns
<1>6. Entailed'
  <2>1. \A l \in IF k = 0 THEN {uip} ELSE {} : Entails(Input, {l})
    <3>1. CASE k = 0
      <4>1. {uip} \cup F = {uip}
        BY <3>1
      <4>2. Entails(Input, {uip})
        BY <4>1
      <4> QED BY <3>1, <4>2
    <3> QED BY <3>1
  <2>2. ASSUME NEW q \in DOMAIN db'
        PROVE  \/ \E r \in DOMAIN db : LitsOf(db'[q]) = LitsOf(db[r])
               \/ Entails(Input, LitsOf(db'[q]))
    <3>1. CASE q \in DOMAIN db
      BY <3>1
    <3>2. CASE q \notin DOMAIN db
      <4>1. LitsOf(db'[q]) = {uip} \cup F
        BY <3>2
      <4> QED BY <4>1
    <3> QED BY <3>1, <3>2
  <2> QED BY <1>1, <1>2, <2>1, <2>2, EntailedStep
<1>7. Stored'
  BY <1>1, <1>2, StoredStep
<1>8. Undecided'
  BY <1>1 DEF Undecided
<1> QED BY <1>5, <1>6, <1>7, <1>8 DEF Sure

\* A conflict is analysed.
LEMMA ConflictAnswers ==
  ASSUME InRules, Conflict
  PROVE  RulesStep /\ Sure'
<1>1. /\ pc = "conflict" /\ DecisionLevel > 0 /\ pc' = "propagate"
      /\ UNCHANGED <<input, nextClause, status>>
      /\ InSearch /\ Entailed
  BY DEF Conflict, InRules
<1>2. TypeOK /\ TrailOK /\ DecisionLevel \in Nat
  BY <1>1, Literals DEF InSearch
<1>3. PICK uip \in Current(Resolvent[0]) : \E C \in LearntClauses(uip) :
         \/ /\ C = {uip}
            /\ CancelAndEnqueue(0, uip, Undef)
            /\ UNCHANGED db
         \/ \E second \in SecondWatches(C, uip) :
              /\ FreeRefs # {}
              /\ db' = Extend(db, NewRef, [w |-> <<uip, second>>,
                                           rest |-> C \ {uip, second},
                                           learnt |-> TRUE])
              /\ CancelAndEnqueue(BacktrackLevel(C, uip), uip, NewRef)
  BY DEF Conflict
<1>4. PICK C \in LearntClauses(uip) :
         \/ /\ C = {uip}
            /\ CancelAndEnqueue(0, uip, Undef)
            /\ UNCHANGED db
         \/ \E second \in SecondWatches(C, uip) :
              /\ FreeRefs # {}
              /\ db' = Extend(db, NewRef, [w |-> <<uip, second>>,
                                           rest |-> C \ {uip, second},
                                           learnt |-> TRUE])
              /\ CancelAndEnqueue(BacktrackLevel(C, uip), uip, NewRef)
  BY <1>3
<1>5. /\ uip \in C /\ C \subseteq Lits
      /\ \A l \in C : IsFalse(l) /\ LevelOf(l) \in 1 .. DecisionLevel
      /\ LevelOf(uip) = DecisionLevel
      /\ \A l \in C \ {uip} : LevelOf(l) \in 1 .. DecisionLevel - 1
  BY <1>1, Learnt
<1>6. Entails(Input, C)
  BY <1>1, LearntFollows DEF Entails
<1>7. CASE C = {uip} /\ CancelAndEnqueue(0, uip, Undef) /\ UNCHANGED db
  <2>1. PICK k, F : k = 0 /\ F = {}
    OBVIOUS
  <2>2. k \in 0 .. DecisionLevel - 1 /\ uip \in Lits /\ IsFalse(uip) /\ LevelOf(uip) > k
    BY <1>1, <1>2, <1>5, <2>1
  <2>3. Jumps(k, uip, Undef)
    BY <1>2, <1>7, <2>1, <2>2, EnqueueJumps
  <2>4. Entails(Input, {uip} \cup F)
    <3>1. C = {uip} \cup F
      BY <1>7, <2>1
    <3> QED BY <1>6, <3>1
  <2>5. F \in SUBSET Lits /\ (F = {} <=> k = 0)
    BY <2>1
  <2>6. /\ \A m \in F : IsFalse(m) /\ LevelOf(m) <= k
        /\ \A r \in DOMAIN db : r \in DOMAIN db' /\ db'[r] = db[r]
        /\ \A q \in DOMAIN db' \ DOMAIN db : LitsOf(db'[q]) = {uip} \cup F
        /\ F = {} <=> DOMAIN db' = DOMAIN db
    BY <1>7, <2>1
  <2> QED BY <1>1, <2>2, <2>3, <2>4, <2>5, <2>6, JumpAnswers
<1>8. ASSUME NEW second \in SecondWatches(C, uip), FreeRefs # {},
             db' = Extend(db, NewRef, [w |-> <<uip, second>>,
                                       rest |-> C \ {uip, second}, learnt |-> TRUE]),
             CancelAndEnqueue(BacktrackLevel(C, uip), uip, NewRef)
      PROVE  RulesStep /\ Sure'
  <2>1. PICK n, d, k, F : /\ n = NewRef /\ k = BacktrackLevel(C, uip)
                          /\ d = [w |-> <<uip, second>>, rest |-> C \ {uip, second},
                                  learnt |-> TRUE]
                          /\ F = C \ {uip}
    OBVIOUS
  <2>2. /\ second \in C \ {uip}
        /\ \A m \in C \ {uip} : LevelOf(m) <= LevelOf(second)
    BY DEF SecondWatches
  <2>3. /\ k \in {LevelOf(l) : l \in C \ {uip}}
        /\ \A l \in C \ {uip} : LevelOf(l) <= k
    <3>1. \E j \in {LevelOf(l) : l \in C \ {uip}} : \A l \in C \ {uip} : LevelOf(l) <= j
      BY <2>2
    <3> QED BY <2>1, <3>1 DEF BacktrackLevel
  <2>4. k \in 1 .. DecisionLevel - 1
    BY <1>5, <2>3
  <2>5. /\ k \in 0 .. DecisionLevel - 1 /\ k # 0 /\ LevelOf(uip) > k
        /\ uip \in Lits /\ IsFalse(uip)
    BY <1>2, <1>5, <2>4
  <2>6. /\ d \in Clauses /\ d.w = <<uip, second>> /\ d.rest = C \ {uip, second}
        /\ d.w[1] = uip /\ d.w[2] = second
    BY <1>5, <2>1, <2>2 DEF Clauses
  <2>7. /\ d.w[1] # d.w[2] /\ d.w[1] \notin d.rest /\ d.w[2] \notin d.rest
        /\ LitsOf(d) = C
    BY <1>5, <2>2, <2>6 DEF LitsOf
  <2>8. db' = Extend(db, n, d)
    BY <1>8, <2>1
  <2>9. /\ n \in Refs /\ n \notin DOMAIN db
        /\ DOMAIN db' = DOMAIN db \cup {n} /\ db'[n] = d
        /\ \A q \in DOMAIN db : q # n /\ db'[q] = db[q]
    <3>1. FreeRefs # {} /\ n = NewRef
      BY <1>8, <2>1
    <3> QED BY <1>1, <2>6, <2>7, <2>8, <3>1, Added
  <2>10. CancelAndEnqueue(k, uip, n) /\ n \in Refs \cup {Undef}
    BY <1>8, <2>1, <2>9
  <2>11. Jumps(k, uip, n)
    BY <1>2, <2>5, <2>10, EnqueueJumps
  <2>12. C = {uip} \cup F /\ F # {} /\ F \in SUBSET Lits
    BY <1>5, <2>1, <2>2
  <2>13. /\ \A m \in F : IsFalse(m) /\ LevelOf(m) <= k
         /\ \A r \in DOMAIN db : r \in DOMAIN db' /\ db'[r] = db[r]
         /\ F = {} <=> k = 0
         /\ F = {} <=> DOMAIN db' = DOMAIN db
    BY <1>5, <2>1, <2>3, <2>5, <2>9, <2>12
  <2>14. \A q \in DOMAIN db' \ DOMAIN db : LitsOf(db'[q]) = {uip} \cup F
    BY <2>7, <2>9, <2>12
  <2>15. Entails(Input, {uip} \cup F)
    BY <1>6, <2>12
  <2> QED BY <1>1, <2>5, <2>11, <2>12, <2>13, <2>14, <2>15, JumpAnswers
<1> QED BY <1>4, <1>7, <1>8

\* Clauses may be removed if they were learnt, or are satisfied by a fact.
FewerClauses ==
  /\ \A q \in DOMAIN db' : q \in DOMAIN db /\ db'[q] = db[q]
  /\ \A r \in DOMAIN db : \/ r \in DOMAIN db'
                          \/ db[r].learnt
                          \/ \E l \in LitsOf(db[r]) : IsTrue(l) /\ LevelOf(l) = 0

\* Where clauses are removed and no fact is new, answers stay justified.
LEMMA FewerSure ==
  ASSUME InRules, FewerClauses, FactsStay, NewFacts({}), pc # "done", pc' # "done",
         UNCHANGED <<input, nextClause, status>>
  PROVE  Kept' \subseteq Kept /\ Sure'
<1>1. Kept' \subseteq Kept
  BY DEF Kept, FewerClauses
<1>2. Undecided'
  BY DEF Undecided, InRules
<1>3. Entailed'
  <2>1. \A q \in DOMAIN db' : \E r \in DOMAIN db : LitsOf(db'[q]) = LitsOf(db[r])
    BY DEF FewerClauses
  <2> QED BY <2>1, EntailedStep DEF InRules
<1>4. Stored'
  <2>1. \A r \in DOMAIN db : ~db[r].learnt =>
           \/ r \in DOMAIN db' /\ LitsOf(db'[r]) = LitsOf(db[r]) /\ ~db'[r].learnt
           \/ \E l \in LitsOf(db[r]) : IsTrue(l) /\ LevelOf(l) = 0
    BY DEF FewerClauses
  <2> QED BY <2>1, StoredStep DEF InRules, InSearch
<1> QED BY <1>1, <1>2, <1>3, <1>4 DEF Sure

\* Back to level 0.
LEMMA BackAnswers ==
  ASSUME InRules, DecisionLevel > 0, FewerClauses, pc # "done", pc' # "done",
         UNCHANGED <<input, nextClause, status>>,
         trail' = KeptTrail(0), trailLim' = SubSeq(trailLim, 1, 0),
         level' = Only(level, KeptVars(0))
  PROVE  RulesStep /\ Sure'
<1>1. TypeOK /\ TrailOK /\ DecisionLevel \in Nat /\ status = "none"
  BY Literals DEF InRules, InSearch, Undecided
<1>2. Shrinks(0)
  <2>1. 0 \in 0 .. DecisionLevel - 1
    BY <1>1
  <2> QED BY <1>1, <2>1, CancelShrinks
<1>3. /\ Decided' = <<>>
      /\ TrueLits' = {l \in TrueLits : Lev[Var(l)] <= 0}
      /\ Lev' = [v \in Vars |-> 0]
      /\ FactsStay /\ NewFacts({})
  BY <1>1, <1>2, ShrinksSeen
<1>4. Kept' \subseteq Kept /\ Sure'
  BY <1>3, FewerSure
<1> QED BY <1>1, <1>3, <1>4, StepRestarts

\* The restart of search().
LEMMA RestartAnswers ==
  ASSUME InRules, Restart
  PROVE  RulesStep /\ Sure'
<1>1. CASE ~(DecisionLevel > 0)
  BY <1>1, QuietAnswers
<1>2. CASE DecisionLevel > 0
  <2>1. /\ trail' = KeptTrail(0) /\ trailLim' = SubSeq(trailLim, 1, 0)
        /\ level' = Only(level, KeptVars(0))
        /\ pc # "done" /\ pc' # "done"
        /\ UNCHANGED <<db, input, nextClause, status>>
    BY <1>2 DEF Restart, CancelUntil
  <2>2. FewerClauses
    BY <2>1 DEF FewerClauses
  <2> QED BY <1>2, <2>1, <2>2, BackAnswers
<1> QED BY <1>1, <1>2

\* The restart after adaptSolver().
LEMMA AdaptAnswers ==
  ASSUME InRules, Adapt
  PROVE  RulesStep /\ Sure'
<1>1. /\ DecisionLevel > 0 /\ pc # "done" /\ pc' # "done"
      /\ UNCHANGED <<input, nextClause, status>>
      /\ trail' = KeptTrail(0) /\ level' = Only(level, KeptVars(0)) /\ trailLim' = <<>>
  BY DEF Adapt
<1>2. trailLim' = SubSeq(trailLim, 1, 0)
  <2>1. trailLim \in Seq(Nat)
    BY Literals DEF InRules, InSearch, Cut
  <2> QED BY <1>1, <2>1
<1>3. PICK S \in SUBSET Learnts : \E first \in Firsts(S) : RemoveClauses(S, first, KeptVars(0))
  BY DEF Adapt
<1>4. FewerClauses
  <2>1. db' = Only(db, DOMAIN db \ S)
    BY <1>3 DEF RemoveClauses
  <2> QED BY <2>1 DEF Only, FewerClauses, Learnts
<1> QED BY <1>1, <1>2, <1>4, BackAnswers

\* Clauses are removed, and the trail is left alone.
LEMMA RemoveAnswers ==
  ASSUME InRules, FewerClauses, pc # "done", pc' # "done",
         UNCHANGED <<input, nextClause, trail, trailLim, level, status>>
  PROVE  RulesStep /\ Sure'
<1>1. FactsStay /\ NewFacts({})
  BY Facts
<1>2. Kept' \subseteq Kept /\ Sure'
  BY <1>1, FewerSure
<1>3. UNCHANGED <<Input, TrueLits, Lev, Decided>>
  BY DEF Input, TrueLits, Lev, Decided, DecisionLevel
<1>4. status = "none"
  BY DEF InRules, Undecided
<1> QED BY <1>2, <1>3, <1>4, StepForgets

\* simplify() removes satisfied clauses at level 0.
LEMMA SimplifyAnswers ==
  ASSUME InRules, Simplify
  PROVE  RulesStep /\ Sure'
<1>1. /\ DecisionLevel = 0 /\ pc # "done" /\ pc' # "done"
      /\ UNCHANGED <<input, nextClause, trail, trailLim, level, status>>
  BY DEF Simplify
<1>2. PICK S, first : /\ S = {r \in DOMAIN db : \E l \in LitsOf(db[r]) : IsTrue(l)}
                      /\ RemoveClauses(S, first, DOMAIN reason)
  BY DEF Simplify
<1>3. \A l \in Lits : IsTrue(l) => LevelOf(l) = 0
  BY <1>1, Literals DEF InRules, InSearch
<1>4. \A r \in DOMAIN db : LitsOf(db[r]) \subseteq Lits
  BY Literals DEF InRules, InSearch
<1>5. FewerClauses
  <2>1. db' = Only(db, DOMAIN db \ S)
    BY <1>2 DEF RemoveClauses
  <2> QED BY <1>2, <1>3, <1>4, <2>1 DEF Only, FewerClauses
<1> QED BY <1>1, <1>5, RemoveAnswers

\* reduceDB() removes learnt clauses that are nobody's reason.
LEMMA ReduceDBAnswers ==
  ASSUME InRules, ReduceDB
  PROVE  RulesStep /\ Sure'
<1>1. /\ pc # "done" /\ pc' # "done"
      /\ UNCHANGED <<input, nextClause, trail, trailLim, level, status>>
  BY DEF ReduceDB
<1>2. PICK S \in SUBSET Learnts : db' = Only(db, DOMAIN db \ S)
  BY DEF ReduceDB, RemoveClauses, Learnts
<1>3. FewerClauses
  BY <1>2 DEF Only, FewerClauses, Learnts
<1> QED BY <1>1, <1>3, RemoveAnswers

\* A decision.
LEMMA DecideAnswers ==
  ASSUME InRules, Decide
  PROVE  RulesStep /\ Sure'
<1>1. /\ UNCHANGED <<db, input, nextClause, status>>
      /\ pc = "decide" /\ pc' = "propagate" /\ trailLim' = Append(trailLim, Len(trail))
  BY DEF Decide
<1>2. PICK l \in Decidable(input) :
         /\ IsOpen(l)
         /\ trail' = Append(trail, l)
         /\ reason' = Extend(reason, Var(l), Undef)
         /\ level' = Extend(level, Var(l), DecisionLevel + 1)
  BY DEF Decide
<1>3. /\ TypeOK /\ TrailOK /\ DecisionLevel \in Nat /\ input \in Formulas
      /\ status = "none"
  BY <1>1, Literals DEF InRules, InSearch, TypeOK, Undecided
<1>4. l \in Lits
  BY <1>2, <1>3, DecidableAssumption
<1>5. PICK k : k = DecisionLevel + 1 /\ k \in Nat /\ k # 0
  BY <1>3
<1>6. Grows(l, Undef, k)
  BY <1>1, <1>2, <1>3, <1>4, <1>5, DecideGrows
<1>7. /\ Lev' = [Lev EXCEPT ![Var(l)] = k]
      /\ TrueLits' = TrueLits \cup {l}
      /\ Decided' = Append(Decided, l)
      /\ FactsStay /\ NewFacts({})
  <2>1. NewFacts(IF k = 0 THEN {l} ELSE {}) => NewFacts({})
    BY <1>5
  <2> QED BY <1>1, <1>3, <1>4, <1>5, <1>6, <2>1, GrowsSeen
<1>8. SameClauses /\ FewerClauses
  BY <1>1 DEF SameClauses, FewerClauses
<1>9. RulesStep
  BY <1>1, <1>2, <1>3, <1>4, <1>5, <1>7, <1>8, SameKept, StepDecides
<1>10. Sure'
  BY <1>1, <1>7, <1>8, FewerSure
<1> QED BY <1>9, <1>10

\* Every clause of the file is satisfied when propagation has come to an end and no
\* variable is left.
LEMMA AllSatisfied ==
  ASSUME InRules, pc = "decide", \A v \in Variables : ~IsOpen(<<v, TRUE>>)
  PROVE  \A C \in Input : \E l \in C : IsTrue(l)
<1>1. /\ TypeOK /\ TrailOK /\ PropagationComplete /\ QueueOK /\ Stored
      /\ nextClause > Len(input) /\ nextClause \in 1 .. Len(input) + 1
      /\ input \in Seq(SUBSET Lits)
  BY NothingMissed, FormulasAssumption DEF InRules, InSearch, QueueOK, TypeOK
<1>2. ASSUME NEW i \in 1 .. Len(input), NEW l \in input[i] PROVE l \in Lits /\ ~IsOpen(l)
  <2>1. l \in Lits
    BY <1>1
  <2>2. PICK v \in Vars, b \in BOOLEAN : l = <<v, b>>
    BY <2>1 DEF Lits
  <2>3. v \in Variables
    <3>1. Var(l) = v /\ v <= v
      BY <2>2, VarsAssumption DEF Var
    <3> QED BY <3>1 DEF Variables
  <2>4. ~IsOpen(<<v, TRUE>>)
    BY <2>3
  <2>5. <<v, TRUE>> \in {l, Neg(l)} /\ Neg(Neg(l)) = l
    BY <2>1, <2>2, NegLit DEF Neg
  <2> QED BY <2>1, <2>4, <2>5 DEF IsOpen, IsTrue, IsFalse
<1>3. ASSUME NEW i \in 1 .. Len(input) PROVE \E l \in input[i] : IsTrue(l)
  <2>1. StoredAt(i)
    <3>1. i \in 1 .. nextClause - 1
      BY <1>1
    <3> QED BY <1>1, <3>1 DEF Stored
  <2>2. ASSUME NEW l \in input[i], Neg(l) \in input[i] PROVE \E m \in input[i] : IsTrue(m)
    <3>1. ~IsOpen(l)
      BY <1>2
    <3> QED BY <2>2, <3>1 DEF IsOpen, IsTrue, IsFalse
  <2>3. ASSUME NEW r \in DOMAIN db, LitsOf(db[r]) \subseteq input[i]
        PROVE  \E m \in input[i] : IsTrue(m)
    <3>1. CASE \E l \in LitsOf(db[r]) : IsTrue(l)
      BY <2>3, <3>1
    <3>2. CASE Cardinality({l \in LitsOf(db[r]) : IsOpen(l)}) >= 2
      <4>1. {l \in LitsOf(db[r]) : IsOpen(l)} = {}
        BY <1>2, <2>3
      <4>2. Cardinality({l \in LitsOf(db[r]) : IsOpen(l)}) = 0
        BY <4>1, FS_EmptySet
      <4> QED BY <3>2, <4>2
    <3> QED BY <1>1, <3>1, <3>2 DEF PropagationComplete
  <2> QED BY <2>1, <2>2, <2>3 DEF StoredAt
<1> QED BY <1>3 DEF Input

\* No variable is left to decide.
LEMMA ModelFoundAnswers ==
  ASSUME InRules, ModelFound
  PROVE  RulesStep /\ Sure'
<1>1. /\ UNCHANGED <<db, input, nextClause, trail, trailLim, level>>
      /\ pc = "decide" /\ pc' = "done" /\ status' = "SAT"
      /\ \A v \in Variables : ~IsOpen(<<v, TRUE>>)
  BY DEF ModelFound, Answer
<1>2. SameClauses
  BY <1>1 DEF SameClauses
<1>3. RulesStep
  <2>1. UNCHANGED <<Input, TrueLits, Lev, Decided>>
    BY <1>1 DEF Input, TrueLits, Lev, Decided, DecisionLevel
  <2>2. status = "none" /\ \A C \in Input : \E l \in C : IsTrue(l)
    BY <1>1, AllSatisfied DEF InRules, Undecided
  <2> QED BY <1>1, <1>2, <2>1, <2>2, SameKept, StepSat
<1>4. Entailed'
  <2>1. NewFacts({})
    BY <1>1, Facts
  <2> QED BY <1>1, <2>1, EntailedStep DEF InRules
<1> QED BY <1>1, <1>3, <1>4 DEF Sure, Undecided, Stored

\* A clause of the file is read.
LEMMA AddClauseAnswers ==
  ASSUME InRules, AddClause
  PROVE  RulesStep /\ Sure'
<1>0. PICK ps, C, n : /\ ps = input[nextClause] /\ C = {l \in ps : ~IsFalse(l)}
                      /\ n = nextClause
  OBVIOUS
<1>1. /\ UNCHANGED <<input, trailLim>> /\ nextClause' = nextClause + 1
      /\ pc = "load" /\ nextClause <= Len(input) /\ pc # "done"
  BY DEF AddClause
<1>2. /\ InSearch /\ TypeOK /\ TrailOK /\ DecisionLevel = 0 /\ status = "none"
      /\ Entailed /\ Stored
      /\ \A l \in Lits : IsTrue(l) \/ IsFalse(l) => LevelOf(l) \in 0 .. DecisionLevel
  BY <1>1, Literals DEF InRules, InSearch, QueueOK, Undecided
<1>3. ps \in SUBSET Lits /\ ps \in Input /\ C \in SUBSET ps
  BY <1>0, <1>1, <1>2, FormulasAssumption DEF TypeOK, Input
<1>4. \A l \in ps : (IsTrue(l) => LevelOf(l) = 0) /\ (IsFalse(l) => LevelOf(l) = 0)
  BY <1>2, <1>3
<1>5. \A m \in ps \ C : IsFalse(m)
  BY <1>0
<1>6. Entails(Input, C)
  BY <1>2, <1>3, <1>4, <1>5, InputFollows, Trimmed
<1>7. CASE /\ \E l \in ps : IsTrue(l) \/ Neg(l) \in ps
           /\ UNCHANGED <<db, trail, level, pc, status>>
  <2>1. SameClauses
    BY <1>7 DEF SameClauses
  <2>2. RulesStep
    BY <1>1, <1>7, <2>1, SameKept, StepUnseen
  <2>3. FactsStay /\ NewFacts({})
    BY <1>7, Facts
  <2>4. Entailed'
    BY <1>1, <1>2, <1>7, <2>3, EntailedStep
  <2>5. StoredAt(n)'
    BY <1>0, <1>1, <1>4, <1>7 DEF StoredAt, IsTrue, TrueLits, LevelOf
  <2>6. Stored'
    BY <1>0, <1>1, <1>2, <1>7, <2>3, <2>5, StoredStep
  <2> QED BY <1>2, <1>7, <2>2, <2>4, <2>6 DEF Sure, Undecided
<1>8. CASE C = {} /\ Answer("UNSAT") /\ UNCHANGED <<db, trail, level>>
  <2>1. pc' = "done" /\ status' = "UNSAT" /\ SameClauses
    BY <1>8 DEF Answer, SameClauses
  <2>2. UNCHANGED <<Input, TrueLits, Lev, Decided>>
    BY <1>1, <1>8 DEF Input, TrueLits, Lev, Decided, DecisionLevel
  <2>3. RulesStep
    BY <1>2, <1>3, <1>5, <1>8, <2>1, <2>2, SameKept, StepUnsat
  <2>4. NewFacts({})
    BY <1>8, Facts
  <2>5. Entailed'
    BY <1>1, <1>2, <1>8, <2>4, EntailedStep
  <2> QED BY <2>1, <2>3, <2>5 DEF Sure, Undecided, Stored
<1>9. CASE /\ ~(\E l \in ps : IsTrue(l) \/ Neg(l) \in ps)
           /\ Cardinality(C) = 1
           /\ \E l \in C : UncheckedEnqueue(l, Undef)
           /\ pc' = "propagate"
           /\ UNCHANGED <<db, status>>
  <2>1. PICK l \in C : UncheckedEnqueue(l, Undef)
    BY <1>9
  <2>2. l \in Lits /\ l \in ps /\ IsOpen(l)
    BY <1>0, <1>3, <1>9 DEF IsOpen
  <2>3. C = {l}
    <3>1. IsFiniteSet(C)
      BY <1>3, FiniteLits
    <3>2. \E x : C = {x}
      BY <1>9, <3>1, Single
    <3> QED BY <3>2
  <2>4. Grows(l, Undef, DecisionLevel)
    BY <1>1, <1>2, <2>1, <2>2, EnqueueGrows
  <2>5. /\ Lev' = [Lev EXCEPT ![Var(l)] = DecisionLevel]
        /\ TrueLits' = TrueLits \cup {l}
        /\ Decided' = Decided
        /\ FactsStay /\ NewFacts(IF DecisionLevel = 0 THEN {l} ELSE {})
    BY <1>1, <1>2, <2>2, <2>4, GrowsSeen
  <2>6. SameClauses
    BY <1>9 DEF SameClauses
  <2>7. RulesStep
    <3>1. \A m \in ps \ {l} : IsFalse(m)
      BY <1>5, <2>3
    <3>2. ps \in Kept \cup Input /\ status' = "none" /\ Kept' = Kept
      BY <1>2, <1>3, <1>9, <2>6, SameKept
    <3> QED BY <1>1, <1>2, <2>2, <2>5, <3>1, <3>2, StepPropagates
  <2>8. Entailed'
    <3>1. \A m \in (IF DecisionLevel = 0 THEN {l} ELSE {}) : Entails(Input, {m})
      <4>1. Entails(Input, {l})
        BY <1>6, <2>3
      <4> QED BY <1>2, <4>1
    <3> QED BY <1>1, <1>2, <1>9, <2>5, <3>1, EntailedStep
  <2>9. StoredAt(n)'
    <3>1. l \in TrueLits' /\ level'[Var(l)] = 0 /\ l \in input'[n]
      BY <1>0, <1>1, <1>2, <2>2, <2>4 DEF Grows
    <3> QED BY <3>1 DEF StoredAt, IsTrue, LevelOf
  <2>10. Stored'
    BY <1>0, <1>1, <1>2, <1>9, <2>5, <2>9, StoredStep
  <2> QED BY <1>2, <1>9, <2>7, <2>8, <2>10 DEF Sure, Undecided
<1>10. CASE /\ Cardinality(C) > 1 /\ FreeRefs # {}
            /\ LET a == Least(C)
                   b == Least(C \ {a})
               IN db' = Extend(db, NewRef,
                               [w |-> <<a, b>>, rest |-> C \ {a, b}, learnt |-> FALSE])
            /\ UNCHANGED <<trail, level, pc, status>>
  <2>1. PICK a, b, q, d : /\ a = Least(C) /\ b = Least(C \ {a}) /\ q = NewRef
                          /\ d = [w |-> <<a, b>>, rest |-> C \ {a, b}, learnt |-> FALSE]
    OBVIOUS
  <2>2. C \subseteq Lits
    BY <1>3
  <2>3. a \in C
    <3>1. C # {}
      <4>1. ASSUME C = {} PROVE Cardinality(C) = 0
        BY <4>1, FS_EmptySet
      <4> QED BY <1>10, <4>1
    <3> QED BY <2>1, <2>2, <3>1, LeastIn
  <2>4. b \in C /\ b # a
    <3>1. C # {a}
      <4>1. Cardinality({a}) = 1
        BY SingleCard
      <4> QED BY <1>10, <4>1
    <3>2. C \ {a} # {} /\ C \ {a} \subseteq Lits
      BY <2>2, <2>3, <3>1
    <3>3. b \in C \ {a}
      BY <2>1, <3>2, LeastIn
    <3> QED BY <3>3
  <2>5. /\ d \in Clauses /\ d.w = <<a, b>> /\ d.rest = C \ {a, b}
        /\ d.w[1] = a /\ d.w[2] = b /\ ~d.learnt
    BY <2>1, <2>2, <2>3, <2>4 DEF Clauses
  <2>6. /\ d.w[1] # d.w[2] /\ d.w[1] \notin d.rest /\ d.w[2] \notin d.rest
        /\ LitsOf(d) = C
    BY <2>3, <2>4, <2>5 DEF LitsOf
  <2>7. db' = Extend(db, q, d)
    BY <1>10, <2>1
  <2>8. /\ DOMAIN db' = DOMAIN db \cup {q} /\ db'[q] = d
        /\ \A r \in DOMAIN db : r # q /\ db'[r] = db[r]
    <3>1. FreeRefs # {} /\ q = NewRef
      BY <1>10, <2>1
    <3> QED BY <1>2, <2>5, <2>6, <2>7, <3>1, Added
  <2>9. Kept' = Kept \cup {C}
    <3>1. Kept' = {LitsOf(db'[r]) : r \in DOMAIN db'}
      BY DEF Kept
    <3>2. \A r \in DOMAIN db' : r \in DOMAIN db \/ r = q
      BY <2>8
    <3>3. LitsOf(db'[q]) = C
      BY <2>6, <2>8
    <3> QED BY <2>8, <3>1, <3>2, <3>3 DEF Kept
  <2>10. FactsStay /\ NewFacts({})
    BY <1>10, Facts
  <2>11. RulesStep
    <3>1. UNCHANGED <<Input, TrueLits, Lev, Decided>>
      BY <1>1, <1>10 DEF Input, TrueLits, Lev, Decided, DecisionLevel
    <3>2. Entails(Input \cup Kept, C)
      BY <1>6, EntailsMore
    <3> QED BY <1>2, <1>3, <1>10, <2>9, <3>1, <3>2, StepStores
  <2>12. Entailed'
    <3>1. ASSUME NEW r \in DOMAIN db'
          PROVE  \/ \E p \in DOMAIN db : LitsOf(db'[r]) = LitsOf(db[p])
                 \/ Entails(Input, LitsOf(db'[r]))
      <4>1. CASE r \in DOMAIN db
        BY <2>8, <4>1
      <4>2. CASE r = q
        <5>1. LitsOf(db'[r]) = C
          BY <2>6, <2>8, <4>2
        <5> QED BY <1>6, <5>1
      <4> QED BY <2>8, <4>1, <4>2
    <3> QED BY <1>1, <1>2, <2>10, <3>1, EntailedStep
  <2>13. StoredAt(n)'
    <3>1. q \in DOMAIN db' /\ ~db'[q].learnt /\ LitsOf(db'[q]) = C /\ C \subseteq input'[n]
      BY <1>0, <1>1, <2>5, <2>6, <2>8
    <3> QED BY <3>1 DEF StoredAt
  <2>14. Stored'
    <3>1. \A r \in DOMAIN db : r \in DOMAIN db' /\ db'[r] = db[r]
      BY <2>8
    <3> QED BY <1>0, <1>1, <1>2, <2>10, <2>13, <3>1, StoredStep
  <2> QED BY <1>2, <1>10, <2>11, <2>12, <2>14 DEF Sure, Undecided
<1> QED BY <1>0, <1>7, <1>8, <1>9, <1>10 DEF AddClause

-----------------------------------------------------------------------------
\* The search begins where the rules do,
LEMMA InitAnswers ==
  ASSUME Init
  PROVE  InRules /\ Rules!Init
<1> USE DEF Init
<1>1. DOMAIN db = {} /\ TrueLits = {} /\ DecisionLevel = 0 /\ DOMAIN level = {}
  BY DEF TrueLits, DecisionLevel
<1>2. Undecided /\ Entailed
  BY <1>1 DEF Undecided, Entailed
<1>3. Stored
  BY DEF Stored
<1>4. Kept = {} /\ Lev = [v \in Vars |-> 0] /\ Decided = <<>>
  BY <1>1 DEF Kept, Lev, Decided
<1>5. Input \in {{F[i] : i \in 1 .. Len(F)} : F \in Formulas}
  BY DEF Input
<1>6. Rules!Init
  BY <1>1, <1>4, <1>5 DEF Rules!Init, Kept, Lev, Decided
<1> QED BY <1>2, <1>3, <1>6, InitHolds DEF InRules, AnswerRight

\* Nothing happens.
LEMMA StutterAnswers ==
  ASSUME InRules, UNCHANGED vars
  PROVE  RulesStep /\ Sure'
<1> USE DEF vars
<1>1. RulesStep
  <2>1. SameClauses
    BY DEF SameClauses
  <2> QED BY <2>1, SameKept, StepUnseen
<1>2. Entailed'
  <2>1. NewFacts({})
    BY Facts
  <2> QED BY <2>1, EntailedStep DEF InRules
<1>3. Undecided' /\ Stored'
  BY DEF Undecided, Stored, StoredAt, IsTrue, TrueLits, LevelOf, InRules
<1> QED BY <1>1, <1>2, <1>3 DEF Sure

\* and takes a step of theirs, or one they do not see.
LEMMA NextAnswers ==
  ASSUME InRules, Next
  PROVE  RulesStep /\ Sure'
<1>1. CASE AddClause
  BY <1>1, AddClauseAnswers
<1>2. CASE Solve \/ Dequeue
  BY <1>2, QuietAnswers
<1>3. ASSUME NEW r \in Refs, VisitBinary(r) PROVE RulesStep /\ Sure'
  BY <1>3, VisitBinaryAnswers
<1>4. ASSUME NEW r \in Refs, VisitLong(r) PROVE RulesStep /\ Sure'
  BY <1>4, VisitLongAnswers
<1>5. CASE ConflictAtZero
  BY <1>5, ConflictAtZeroAnswers
<1>6. CASE Conflict
  BY <1>6, ConflictAnswers
<1>7. CASE Adapt
  BY <1>7, AdaptAnswers
<1>8. CASE Restart
  BY <1>8, RestartAnswers
<1>9. CASE Simplify
  BY <1>9, SimplifyAnswers
<1>10. CASE ReduceDB
  BY <1>10, ReduceDBAnswers
<1>11. CASE Decide
  BY <1>11, DecideAnswers
<1>12. CASE ModelFound
  BY <1>12, ModelFoundAnswers
<1>13. CASE Done
  <2>1. UNCHANGED vars
    BY <1>13 DEF Done
  <2> QED BY <2>1, StutterAnswers
<1> QED
  BY <1>1, <1>2, <1>3, <1>4, <1>5, <1>6, <1>7, <1>8, <1>9, <1>10, <1>11, <1>12, <1>13
  DEF Next

-----------------------------------------------------------------------------
\* A clause that follows from the file and is false at level 0 leaves the file no model.
LEMMA NoModel ==
  ASSUME InRules, NEW C \in SUBSET Lits, Entails(Input, C),
         \A l \in C : IsFalse(l) /\ LevelOf(l) = 0
  PROVE  ~Satisfiable(Input)
<1> SUFFICES ASSUME NEW A \in Assignments, Models(A, Input) PROVE FALSE
  BY DEF Satisfiable
<1>1. PICK l \in C : Holds(A, l)
  BY DEF Entails, Satisfies
<1> QED BY <1>1, FalseFacts DEF InRules

\* A trail with a true literal of every clause is a model.
LEMMA AModel ==
  ASSUME InRules, \A C \in Input : \E l \in C : IsTrue(l)
  PROVE  Satisfiable(Input)
<1> DEFINE A == [v \in Vars |-> <<v, TRUE>> \in TrueLits]
<1>1. A \in Assignments
  BY DEF Assignments
<1>2. TrueLits \subseteq Lits /\ \A l \in Lits : ~(IsTrue(l) /\ IsFalse(l))
  BY Literals DEF InRules, InSearch
<1>3. ASSUME NEW l \in TrueLits PROVE Holds(A, l)
  <2>1. PICK v \in Vars, b \in BOOLEAN : l = <<v, b>>
    BY <1>2 DEF Lits
  <2>2. CASE b = TRUE
    BY <2>1, <2>2 DEF Holds
  <2>3. CASE b = FALSE
    <3>1. <<v, TRUE>> = Neg(l)
      BY <2>1, <2>3 DEF Neg
    <3>2. <<v, TRUE>> \notin TrueLits
      BY <1>2, <3>1 DEF IsTrue, IsFalse
    <3> QED BY <2>1, <2>3, <3>2 DEF Holds
  <2> QED BY <2>1, <2>2, <2>3
<1>4. Models(A, Input)
  <2> HIDE DEF A
  <2> QED BY <1>3 DEF Models, Satisfies, IsTrue
<1> QED BY <1>1, <1>4 DEF Satisfiable

\* Only three steps answer.
LEMMA AnswerSteps ==
  ASSUME InRules, [Next]_vars
  PROVE  \/ UNCHANGED <<input, status>>
         \/ /\ input' = input /\ status' = "UNSAT"
            /\ \/ ConflictAtZero
               \/ /\ pc = "load" /\ nextClause <= Len(input)
                  /\ \A l \in input[nextClause] : IsFalse(l)
         \/ input' = input /\ status' = "SAT" /\ ModelFound
<1>1. CASE AddClause
  BY <1>1 DEF AddClause, Answer
<1>2. CASE Solve \/ Dequeue \/ Conflict \/ Adapt \/ Restart \/ Simplify \/ ReduceDB \/ Decide
  BY <1>2 DEF Solve, Dequeue, Conflict, Adapt, Restart, Simplify, ReduceDB, Decide
<1>3. ASSUME NEW r \in Refs, VisitBinary(r) \/ VisitLong(r) PROVE UNCHANGED <<input, status>>
  BY <1>3 DEF VisitBinary, VisitLong
<1>4. CASE ConflictAtZero
  BY <1>4 DEF ConflictAtZero, Answer
<1>5. CASE ModelFound
  BY <1>5 DEF ModelFound, Answer
<1>6. CASE Done \/ UNCHANGED vars
  BY <1>6 DEF Done, vars
<1> QED BY <1>1, <1>2, <1>3, <1>4, <1>5, <1>6 DEF Next

\* An answer is right when it is given: UNSAT without a model, SAT with one.
LEMMA RightAnswers ==
  ASSUME InRules, [Next]_vars
  PROVE  AnswerRight'
<1>1. Input' = Input \/ input' # input
  BY DEF Input
<1>2. CASE UNCHANGED <<input, status>>
  BY <1>1, <1>2 DEF AnswerRight, InRules
<1>3. /\ TypeOK /\ TrailOK /\ QueueOK /\ Entailed /\ DecisionLevel \in Nat
      /\ \A l \in Lits : IsFalse(l) => LevelOf(l) \in 0 .. DecisionLevel
      /\ \A r \in DOMAIN db : LitsOf(db[r]) \subseteq Lits
  BY Literals DEF InRules, InSearch
<1>4. CASE input' = input /\ status' = "UNSAT" /\ ConflictAtZero
  <2>1. DecisionLevel = 0 /\ confl \in DOMAIN db /\ \A l \in LitsOf(db[confl]) : IsFalse(l)
    BY <1>4 DEF ConflictAtZero, InRules, InSearch, ConflictFalse
  <2>2. Entails(Input, LitsOf(db[confl]))
    BY <1>3, <2>1, KeptFollows
  <2>3. /\ LitsOf(db[confl]) \in SUBSET Lits
        /\ \A l \in LitsOf(db[confl]) : IsFalse(l) /\ LevelOf(l) = 0
    BY <1>3, <2>1
  <2>4. ~Satisfiable(Input)
    BY <2>2, <2>3, NoModel
  <2> QED BY <1>1, <1>4, <2>4 DEF AnswerRight
<1>5. CASE /\ input' = input /\ status' = "UNSAT" /\ pc = "load" /\ nextClause <= Len(input)
           /\ \A l \in input[nextClause] : IsFalse(l)
  <2>1. PICK C : C = input[nextClause]
    OBVIOUS
  <2>2. C \in Input /\ C \in SUBSET Lits
    BY <1>3, <1>5, <2>1, FormulasAssumption DEF TypeOK, Input
  <2>3. \A l \in C : IsFalse(l) /\ LevelOf(l) = 0
    <3>1. DecisionLevel = 0
      BY <1>3, <1>5 DEF QueueOK
    <3> QED BY <1>3, <1>5, <2>1, <2>2, <3>1
  <2>4. ~Satisfiable(Input)
    BY <2>2, <2>3, InputFollows, NoModel
  <2> QED BY <1>1, <1>5, <2>4 DEF AnswerRight
<1>6. CASE input' = input /\ status' = "SAT" /\ ModelFound
  <2>1. \A C \in Input : \E l \in C : IsTrue(l)
    BY <1>6, AllSatisfied DEF ModelFound
  <2>2. Satisfiable(Input)
    BY <2>1, AModel
  <2> QED BY <1>1, <1>6, <2>2 DEF AnswerRight
<1> QED BY <1>2, <1>4, <1>5, <1>6, AnswerSteps

\* Justified answers and a step of the search give a step of the rules.
LEMMA RulesKept ==
  ASSUME InRules, [Next]_vars
  PROVE  InRules' /\ [Rules!Next]_(Rules!rulesVars)
<1>1. RulesStep /\ Sure'
  BY NextAnswers, StutterAnswers
<1>2. InSearch'
  BY NextKeeps DEF InRules
<1> QED BY <1>1, <1>2, RightAnswers DEF InRules, Sure, RulesStep

\* All that the search's answers rest on holds, whatever is decided, learnt and deleted.
THEOREM AnswersJustified == Spec => []InRules
<1>1. Init => InRules
  BY InitAnswers
<1>2. InRules /\ [Next]_vars => InRules'
  BY RulesKept
<1> QED BY <1>1, <1>2, PTL DEF Spec

\* Every step of watches, queue, conflict analysis and clause deletion is a step of
\* the rules of CDCL or one they do not see: each literal enqueued is forced or
\* decided, each clause learnt follows from those there are and asserts its literal at
\* the level jumped back to, and UNSAT and SAT are answered where the rules allow it.
THEOREM RulesImplemented == Spec => ImplementsRules
<1>1. Init => Rules!Init
  BY InitAnswers
<1>2. InRules /\ [Next]_vars => [Rules!Next]_(Rules!rulesVars)
  BY RulesKept
<1> QED BY <1>1, <1>2, AnswersJustified, PTL DEF Spec, ImplementsRules, Rules!Spec

\* The solver answers SAT only of files that have a model, and UNSAT only of files that
\* have none.
THEOREM SearchSound == Spec => []AnswerRight
<1>1. InRules => AnswerRight
  BY DEF InRules
<1> QED BY <1>1, AnswersJustified, PTL

-----------------------------------------------------------------------------
\* The search with vivification (CdclLcm).  What propagate does to the trail: nothing, or a
\* clause whose other literals are false makes its last literal true.
Implies(r, l) == /\ r \in DOMAIN db /\ l \in LitsOf(db[r]) /\ IsOpen(l)
                 /\ \A m \in LitsOf(db[r]) \ {l} : IsFalse(m)
                 /\ Grows(l, r, DecisionLevel)

\* New watches are not false.
OpenWatches == \A q \in DOMAIN db : \A w \in Watches(db'[q]) : w \in Watches(db[q]) \/ ~IsFalse(w)

Propagates(r) ==
  /\ UNCHANGED <<input, nextClause, trailLim, status>>
  /\ pc = "propagate"
  /\ pc' \in {"propagate", "conflict", "decide", "load"}
  /\ pc' = "load" => nextClause <= Len(input)
  /\ SameClauses
  /\ OpenWatches
  /\ UNCHANGED <<trail, reason, level>> \/ \E l : Implies(r, l)

LEMMA BinaryPropagates ==
  ASSUME InSearch, NEW r, VisitBinary(r)
  PROVE  Propagates(r)
<1>0. PICK imp, fl : imp = OtherWatch(db[r]) /\ fl = FalseLit
  OBVIOUS
<1>1. /\ UNCHANGED <<db, input, nextClause, trailLim, status>>
      /\ pc = "propagate" /\ r \in visit /\ IsBin(db[r])
  BY DEF VisitBinary
<1>2. SameClauses /\ OpenWatches
  BY <1>1 DEF SameClauses, OpenWatches
<1>3. CASE UNCHANGED <<trail, reason, level>> /\ pc' \in {"propagate", "conflict"}
  BY <1>1, <1>2, <1>3 DEF Propagates
<1>4. CASE IsOpen(imp) /\ UncheckedEnqueue(imp, r) /\ pc' = pc
  <2>1. /\ r \in DOMAIN db /\ imp \in Lits /\ IsFalse(fl) /\ LitsOf(db[r]) = {fl, imp}
        /\ TypeOK /\ TrailOK
    BY <1>0, <1>1, Visited DEF IsBin, InSearch
  <2>2. r \in Refs \cup {Undef}
    BY <2>1 DEF TypeOK
  <2>3. Grows(imp, r, DecisionLevel)
    BY <1>1, <1>4, <2>1, <2>2, EnqueueGrows
  <2>4. Implies(r, imp)
    BY <1>4, <2>1, <2>3 DEF Implies
  <2> QED BY <1>1, <1>2, <1>4, <2>4 DEF Propagates
<1> QED BY <1>0, <1>1, <1>3, <1>4 DEF VisitBinary

\* The clause that is looked at, when it is turned round or watched elsewhere.
LEMMA TurnedWatches ==
  ASSUME InSearch, NEW r \in visit, ~IsBin(db[r]),
         db' = [db EXCEPT ![r] = [db[r] EXCEPT !.w = <<OtherWatch(db[r]), FalseLit>>]]
  PROVE  SameClauses /\ OpenWatches
<1>1. PICK d : d = [db[r] EXCEPT !.w = <<OtherWatch(db[r]), FalseLit>>]
  OBVIOUS
<1>2. Watches(d) = Watches(db[r]) /\ r \in DOMAIN db
  BY <1>1, TurnedIs, Visited
<1>3. db' = [db EXCEPT ![r] = d]
  BY <1>1
<1>4. OpenWatches
  BY <1>2, <1>3 DEF OpenWatches
<1> QED BY <1>4, SameWhenTurned

LEMMA MovedWatches ==
  ASSUME InSearch, NEW r \in visit, ~IsBin(db[r]), NEW l \in Replacements(db[r]),
         db' = [db EXCEPT ![r].w = <<OtherWatch(db[r]), l>>,
                          ![r].rest = (@ \ {l}) \cup {FalseLit}]
  PROVE  SameClauses /\ OpenWatches
<1>0. l \in db[r].rest /\ ~IsFalse(l)
  BY DEF Replacements
<1>1. PICK d : d = [db[r] EXCEPT !.w = <<OtherWatch(db[r]), l>>,
                                 !.rest = (@ \ {l}) \cup {FalseLit}]
  OBVIOUS
<1>2. /\ Watches(d) = {OtherWatch(db[r]), l} /\ r \in DOMAIN db
      /\ OtherWatch(db[r]) \in Watches(db[r])
  <2>1. Watches(db[r]) = {FalseLit, OtherWatch(db[r])} /\ r \in DOMAIN db
    BY Visited
  <2>2. Watches(d) = {OtherWatch(db[r]), l}
    BY <1>0, <1>1, MovedIs
  <2> QED BY <2>1, <2>2
<1>3. db' = [db EXCEPT ![r] = d]
  <2>1. db[r] \in Clauses
    BY <1>2 DEF InSearch, TypeOK
  <2> QED BY <1>1, <1>2, <2>1
<1>4. OpenWatches
  BY <1>0, <1>2, <1>3 DEF OpenWatches
<1> QED BY <1>0, <1>4, SameWhenMoved

LEMMA LongPropagates ==
  ASSUME InSearch, NEW r, VisitLong(r)
  PROVE  Propagates(r)
<1>0. PICK imp, c : imp = OtherWatch(db[r]) /\ c = db[r]
  OBVIOUS
<1>1. /\ UNCHANGED <<input, nextClause, trailLim, status>>
      /\ pc = "propagate" /\ r \in visit /\ ~IsBin(db[r])
  BY DEF VisitLong
<1>2. CASE /\ SameClauses /\ OpenWatches
           /\ UNCHANGED <<trail, reason, level>> /\ pc' \in {"propagate", "conflict"}
  BY <1>1, <1>2 DEF Propagates
<1>3. CASE UNCHANGED db /\ UNCHANGED <<trail, reason, level, pc>>
  <2>1. SameClauses /\ OpenWatches
    BY <1>3 DEF SameClauses, OpenWatches
  <2> QED BY <1>1, <1>2, <1>3, <2>1
<1>4. CASE /\ db' = [db EXCEPT ![r] = [c EXCEPT !.w = <<imp, FalseLit>>]]
           /\ UNCHANGED <<trail, reason, level>> /\ pc' \in {pc, "conflict"}
  <2>1. SameClauses /\ OpenWatches
    BY <1>0, <1>1, <1>4, TurnedWatches
  <2> QED BY <1>1, <1>2, <1>4, <2>1
<1>5. CASE /\ \E l \in Replacements(c) :
                db' = [db EXCEPT ![r].w = <<imp, l>>,
                                 ![r].rest = (@ \ {l}) \cup {FalseLit}]
           /\ UNCHANGED <<trail, reason, level, pc>>
  <2>1. PICK l \in Replacements(c) :
               db' = [db EXCEPT ![r].w = <<imp, l>>,
                                ![r].rest = (@ \ {l}) \cup {FalseLit}]
    BY <1>5
  <2>2. SameClauses /\ OpenWatches
    BY <1>0, <1>1, <2>1, MovedWatches
  <2> QED BY <1>1, <1>2, <1>5, <2>2
<1>6. CASE /\ db' = [db EXCEPT ![r] = [c EXCEPT !.w = <<imp, FalseLit>>]]
           /\ IsOpen(imp) /\ Replacements(c) = {}
           /\ UncheckedEnqueue(imp, r) /\ pc' = pc
  <2>1. PICK fl : fl = FalseLit
    OBVIOUS
  <2>2. SameClauses /\ OpenWatches
    BY <1>0, <1>1, <1>6, TurnedWatches
  <2>3. /\ r \in DOMAIN db /\ imp \in Lits /\ IsFalse(fl)
        /\ LitsOf(db[r]) = {fl, imp} \cup c.rest
        /\ TypeOK /\ TrailOK
    BY <1>0, <1>1, <2>1, Visited DEF InSearch
  <2>4. r \in Refs \cup {Undef}
    BY <2>3 DEF TypeOK
  <2>5. Grows(imp, r, DecisionLevel)
    BY <1>1, <1>6, <2>3, <2>4, EnqueueGrows
  <2>6. \A m \in LitsOf(db[r]) \ {imp} : IsFalse(m)
    BY <1>6, <2>3 DEF Replacements
  <2>7. imp \in LitsOf(db[r])
    BY <2>3
  <2>8. Implies(r, imp)
    BY <1>6, <2>3, <2>5, <2>6, <2>7 DEF Implies
  <2> QED BY <1>1, <1>6, <2>2, <2>8 DEF Propagates
<1>7. \/ UNCHANGED db /\ UNCHANGED <<trail, reason, level, pc>>
      \/ /\ db' = [db EXCEPT ![r] = [c EXCEPT !.w = <<imp, FalseLit>>]]
         /\ UNCHANGED <<trail, reason, level>>
         /\ pc' \in {pc, "conflict"}
      \/ /\ \E l \in Replacements(c) :
              db' = [db EXCEPT ![r].w = <<imp, l>>,
                               ![r].rest = (@ \ {l}) \cup {FalseLit}]
         /\ UNCHANGED <<trail, reason, level, pc>>
      \/ /\ db' = [db EXCEPT ![r] = [c EXCEPT !.w = <<imp, FalseLit>>]]
         /\ IsOpen(imp) /\ Replacements(c) = {}
         /\ UncheckedEnqueue(imp, r) /\ pc' = pc
  BY <1>0 DEF VisitLong
<1> QED BY <1>1, <1>3, <1>4, <1>5, <1>6, <1>7

\* A literal is dequeued, or a watcher is visited.
LEMMA PropagationStep ==
  ASSUME InSearch, Dequeue \/ \E r \in Refs : VisitBinary(r) \/ VisitLong(r)
  PROVE  \E r : Propagates(r)
<1>1. CASE Dequeue
  <2>1. SameClauses /\ OpenWatches
    BY <1>1 DEF Dequeue, SameClauses, OpenWatches
  <2>2. ASSUME NEW r PROVE Propagates(r)
    BY <1>1, <2>1 DEF Propagates, Dequeue
  <2> QED BY <2>2
<1> QED BY <1>1, BinaryPropagates, LongPropagates

-----------------------------------------------------------------------------
\* At level 0 the search is in order as soon as a clause with a false watch that was looked
\* at is satisfied.
WatchesFine ==
  \A r \in DOMAIN db : \A j \in Places :
    Neg(trail[j]) \in Watches(db[r]) /\ Settled(r, j) => LitsOf(db[r]) \cap TrueLits # {}

LEMMA AtZero ==
  ASSUME Cut(trail', trailLim', level'), ReasonType', Counters', (qhead \in 0 .. Len(trail))',
         DecisionLevel' = 0, ClausesOK', QueueOK', ConflictFalse', WatchesFine'
  PROVE  InSearch'
<1>1. TypeOK' /\ TrailOK'
  BY FoldTypes
<1>2. /\ \A v \in DOMAIN level' : level'[v] = 0
      /\ \A l \in TrueLits' : Var(l) \in DOMAIN level'
      /\ \A j \in 1 .. Len(trail') : Var(trail'[j]) \in DOMAIN level'
  <2>1. /\ \A v \in DOMAIN level' : level'[v] \in 0 .. Len(trailLim')
        /\ DOMAIN level' = {Var(l) : l \in TrueIn(trail')}
        /\ \A i \in 1 .. Len(trail') : trail'[i] \in TrueIn(trail')
    BY CutFacts
  <2>2. Len(trailLim') = 0 /\ TrueLits' = TrueIn(trail')
    BY DEF DecisionLevel, TrueLits, TrueIn
  <2> QED BY <2>1, <2>2
<1>3. ReasonsImply'
  BY <1>2, ZeroJustified DEF ReasonType
<1>4. Watched'
  <2> SUFFICES ASSUME NEW r \in DOMAIN db', NEW j \in 1 .. Len(trail'),
                      Neg(trail'[j]) \in Watches(db'[r]), Settled(r, j)'
               PROVE  Held(r, j)'
    BY DEF Watched, Places
  <2>1. PICK l \in LitsOf(db'[r]) : l \in TrueLits'
    BY DEF WatchesFine, Places
  <2>2. level'[Var(l)] = 0 /\ level'[Var(trail'[j])] = 0
    BY <1>2, <2>1
  <2> QED BY <2>1, <2>2 DEF Held, IsTrue, LevelOf
<1> QED BY <1>1, <1>3, <1>4 DEF InSearch

\* When propagation is done, all of them were looked at.
LEMMA DoneAtZero ==
  ASSUME InSearch, pc = "decide", DecisionLevel = 0
  PROVE  /\ Cut(trail, trailLim, level) /\ ReasonType /\ Counters /\ ClausesOK
         /\ qhead = Len(trail) /\ Len(trail) \in Nat /\ nextClause > Len(input) /\ visit = {}
         /\ TypeOK /\ TrailOK /\ trailLim = <<>>
         /\ \A r \in DOMAIN db : \A j \in Places :
              Neg(trail[j]) \in Watches(db[r]) => LitsOf(db[r]) \cap TrueLits # {}
         /\ \A l \in Lits : IsTrue(l) \/ IsFalse(l) => LevelOf(l) = 0
         /\ \A l \in Lits : ~(IsTrue(l) /\ IsFalse(l))
         /\ \A r \in DOMAIN db : LitsOf(db[r]) \subseteq Lits
<1>1. /\ TypeOK /\ TrailOK /\ ClausesOK /\ QueueOK /\ Watched
      /\ Cut(trail, trailLim, level) /\ ReasonType /\ Counters /\ Len(trail) \in Nat
      /\ \A l \in Lits : IsTrue(l) \/ IsFalse(l) => LevelOf(l) \in 0 .. DecisionLevel
      /\ \A l \in Lits : ~(IsTrue(l) /\ IsFalse(l))
      /\ \A r \in DOMAIN db : LitsOf(db[r]) \subseteq Lits
  BY Literals DEF InSearch
<1>2. qhead = Len(trail) /\ nextClause > Len(input) /\ visit = {}
  BY <1>1 DEF QueueOK
<1>3. trailLim = <<>>
  BY <1>1 DEF DecisionLevel, Cut
<1>4. ASSUME NEW r \in DOMAIN db, NEW j \in Places, Neg(trail[j]) \in Watches(db[r])
      PROVE  LitsOf(db[r]) \cap TrueLits # {}
  <2>1. j < qhead \/ (j = qhead /\ r \notin visit)
    BY <1>1, <1>2 DEF Places
  <2>2. Settled(r, j)
    BY <2>1 DEF Settled
  <2>3. Held(r, j)
    BY <1>1, <1>4, <2>2 DEF Watched
  <2> QED BY <2>3 DEF Held, IsTrue
<1>5. \A l \in Lits : IsTrue(l) \/ IsFalse(l) => LevelOf(l) = 0
  BY <1>1
<1> QED BY <1>1, <1>2, <1>3, <1>4, <1>5

\* Clauses are removed, or detached, when propagation is done.
LEMMA FewerKeeps ==
  ASSUME InSearch, pc = "decide", pc' = pc, DecisionLevel = 0,
         UNCHANGED <<input, nextClause, trail, trailLim, level, qhead, visit>>,
         ReasonType', Counters', \A q \in DOMAIN db' : q \in DOMAIN db /\ db'[q] = db[q]
  PROVE  InSearch'
<1>1. /\ Cut(trail, trailLim, level) /\ ClausesOK
      /\ qhead = Len(trail) /\ Len(trail) \in Nat /\ nextClause > Len(input) /\ visit = {}
      /\ \A r \in DOMAIN db : \A j \in Places :
           Neg(trail[j]) \in Watches(db[r]) => LitsOf(db[r]) \cap TrueLits # {}
  BY DoneAtZero
<1>2. /\ Cut(trail', trailLim', level') /\ (qhead \in 0 .. Len(trail))' /\ DecisionLevel' = 0
      /\ ClausesOK' /\ QueueOK' /\ ConflictFalse'
  BY <1>1 DEF ClausesOK, QueueOK, ConflictFalse, DecisionLevel
<1>3. WatchesFine'
  BY <1>1 DEF WatchesFine, Places, TrueLits
<1> QED BY <1>2, <1>3, AtZero

\* A learnt clause that loses its false literals, when no literal of it is true: those
\* that are left are open.
LEMMA Thinned ==
  ASSUME InSearch, pc = "decide", DecisionLevel = 0, NEW r \in DOMAIN db,
         ~\E l \in LitsOf(db[r]) : IsTrue(l), NEW d, d = NoFalse(db[r])
  PROVE  /\ d \in Clauses /\ d.w = db[r].w /\ d.learnt = db[r].learnt
         /\ d.w[1] # d.w[2] /\ d.w[1] \notin d.rest /\ d.w[2] \notin d.rest
         /\ Watches(d) = Watches(db[r])
         /\ LitsOf(d) \subseteq LitsOf(db[r])
         /\ \A l \in LitsOf(db[r]) \ LitsOf(d) : IsFalse(l)
         /\ \A l \in LitsOf(d) : l \in Lits /\ IsOpen(l)
<1>1. db[r] \in Clauses /\ LitsOf(db[r]) \subseteq Lits
  BY DoneAtZero DEF Counters
<1>2. /\ d \in Clauses /\ d.w = db[r].w /\ d.learnt = db[r].learnt
      /\ d.rest = {l \in db[r].rest : ~IsFalse(l)}
  BY <1>1 DEF NoFalse, Clauses
<1>3. d.w[1] # d.w[2] /\ d.w[1] \notin d.rest /\ d.w[2] \notin d.rest
  BY <1>2, DoneAtZero DEF ClausesOK
<1>4. /\ Watches(d) = Watches(db[r])
      /\ LitsOf(d) \subseteq LitsOf(db[r])
      /\ \A l \in LitsOf(db[r]) \ LitsOf(d) : IsFalse(l)
  BY <1>2 DEF Watches, LitsOf
<1>5. ASSUME NEW l \in LitsOf(d) PROVE l \in Lits /\ IsOpen(l)
  <2>1. l \in Lits /\ ~IsTrue(l)
    BY <1>1, <1>4
  <2>2. ~IsFalse(l)
    <3>1. CASE l \in Watches(db[r])
      <4> SUFFICES ASSUME IsFalse(l) PROVE FALSE
        OBVIOUS
      <4>1. PICK j \in Places : trail[j] = Neg(l)
        BY DEF IsFalse, TrueLits, Places
      <4>2. Neg(trail[j]) = l
        BY <2>1, <4>1, NegLit
      <4>3. LitsOf(db[r]) \cap TrueLits # {}
        BY <3>1, <4>2, DoneAtZero
      <4> QED BY <4>3 DEF IsTrue
    <3>2. CASE l \notin Watches(db[r])
      BY <1>2, <3>2 DEF LitsOf, Watches
    <3> QED BY <3>1, <3>2
  <2> QED BY <2>1, <2>2 DEF IsOpen
<1> QED BY <1>2, <1>3, <1>4, <1>5

LEMMA ThinnedKeeps ==
  ASSUME InSearch, pc = "decide", pc' = pc, DecisionLevel = 0, NEW r \in DOMAIN db,
         ~\E l \in LitsOf(db[r]) : IsTrue(l), db' = [db EXCEPT ![r] = NoFalse(@)],
         UNCHANGED <<input, nextClause, trail, trailLim, level, qhead, visit>>,
         ReasonType', UNCHANGED <<confl, conflictC, simpAssigns, reductions, adapt, status>>
  PROVE  InSearch'
<1>1. PICK d : d = NoFalse(db[r])
  OBVIOUS
<1>2. /\ d \in Clauses
      /\ d.w[1] # d.w[2] /\ d.w[1] \notin d.rest /\ d.w[2] \notin d.rest
      /\ Watches(d) = Watches(db[r]) /\ \A l \in LitsOf(d) : IsOpen(l)
  BY <1>1, Thinned
<1>3. db' = [db EXCEPT ![r] = d]
  BY <1>1
<1>4. /\ Cut(trail, trailLim, level) /\ ClausesOK /\ Counters
      /\ qhead = Len(trail) /\ Len(trail) \in Nat /\ nextClause > Len(input) /\ visit = {}
      /\ \A i \in DOMAIN db : \A j \in Places :
           Neg(trail[j]) \in Watches(db[i]) => LitsOf(db[i]) \cap TrueLits # {}
      /\ \A i \in Places : trail[i] \in Lits
  BY DoneAtZero, Literals
<1>5. Counters'
  BY <1>2, <1>3, <1>4 DEF Counters
<1>6. /\ Cut(trail', trailLim', level') /\ (qhead \in 0 .. Len(trail))' /\ DecisionLevel' = 0
      /\ ClausesOK' /\ QueueOK' /\ ConflictFalse'
  BY <1>2, <1>3, <1>4 DEF ClausesOK, QueueOK, ConflictFalse, DecisionLevel
<1>7. WatchesFine'
  <2> SUFFICES ASSUME NEW i \in DOMAIN db', NEW j \in Places, Neg(trail[j]) \in Watches(db'[i])
               PROVE  LitsOf(db'[i]) \cap TrueLits # {}
    BY DEF WatchesFine, Places, TrueLits
  <2>1. i # r
    <3> SUFFICES ASSUME i = r PROVE FALSE
      OBVIOUS
    <3>1. LitsOf(db[r]) \cap TrueLits # {}
      BY <1>2, <1>3, <1>4
    <3> QED BY <3>1 DEF IsTrue
  <2> QED BY <1>3, <1>4, <2>1
<1> QED BY <1>5, <1>6, <1>7, AtZero

\* A literal is made true when propagation is done.
LEMMA EnqueuedKeeps ==
  ASSUME InSearch, pc = "decide", pc' = "propagate", DecisionLevel = 0,
         NEW l \in Lits, IsOpen(l), UncheckedEnqueue(l, Undef),
         UNCHANGED <<input, nextClause, db, trailLim, qhead, visit, confl, conflictC,
                     simpAssigns, reductions, adapt, status>>
  PROVE  InSearch' /\ Grows(l, Undef, 0)
<1>1. /\ TypeOK /\ TrailOK /\ ClausesOK /\ Counters
      /\ qhead = Len(trail) /\ Len(trail) \in Nat /\ nextClause > Len(input) /\ visit = {}
      /\ \A r \in DOMAIN db : \A j \in Places :
           Neg(trail[j]) \in Watches(db[r]) => LitsOf(db[r]) \cap TrueLits # {}
  BY DoneAtZero
<1>2. Cut(trail', trailLim', level') /\ ReasonType' /\ Grows(l, Undef, 0)
  BY <1>1, EnqueueGrows
<1>3. Len(trail') = Len(trail) + 1 /\ TrueLits' = TrueLits \cup {l}
  BY <1>2 DEF Grows
<1>4. Counters' /\ (qhead \in 0 .. Len(trail))' /\ DecisionLevel' = 0
  BY <1>1, <1>3 DEF Counters, PCs, DecisionLevel
<1>5. QueueOK' /\ ConflictFalse' /\ ClausesOK'
  BY <1>1 DEF QueueOK, ConflictFalse, ClausesOK, DecisionLevel
<1>6. WatchesFine'
  <2> SUFFICES ASSUME NEW r \in DOMAIN db, NEW j \in 1 .. Len(trail'),
                      Neg(trail'[j]) \in Watches(db[r]), Settled(r, j)'
               PROVE  LitsOf(db[r]) \cap TrueLits' # {}
    BY DEF WatchesFine, Places
  <2>1. j \in Places
    <3>1. Var(trail'[j]) \in DOMAIN level' /\ level'[Var(trail'[j])] \in 0 .. DecisionLevel'
      BY <1>2, CutFacts DEF DecisionLevel, Cut
    <3>2. j < qhead \/ j = qhead
      BY <1>4, <3>1 DEF Settled, LevelOf
    <3> QED BY <1>1, <3>2 DEF Places
  <2>2. trail'[j] = trail[j]
    BY <1>2, <2>1 DEF Grows
  <2> QED BY <1>1, <1>3, <2>1, <2>2
<1> QED BY <1>2, <1>4, <1>5, <1>6, AtZero

-----------------------------------------------------------------------------
\* cancelUntilTrailRecord cuts the trail.
CutAt(t, tl, lv, n, old, V) ==
  /\ Cut(old, tl, Only(lv, V))
  /\ Len(old) = n /\ DOMAIN old = 1 .. n /\ \A i \in 1 .. n : old[i] = t[i]
  /\ V \subseteq DOMAIN lv /\ DOMAIN Only(lv, V) = V
  /\ TrueIn(old) = {t[i] : i \in 1 .. n}

LEMMA RecordCut ==
  ASSUME NEW t, NEW tl, NEW lv, Cut(t, tl, lv), Len(tl) = 0, NEW n \in 0 .. Len(t),
         NEW old, old = SubSeq(t, 1, n), NEW V, V = {Var(old[i]) : i \in DOMAIN old}
  PROVE  CutAt(t, tl, lv, n, old, V)
<1>1. /\ t \in Seq(Lits) /\ Len(t) \in Nat /\ tl \in Seq(Nat)
      /\ \A i, j \in 1 .. Len(t) : Var(t[i]) = Var(t[j]) => i = j
      /\ DOMAIN lv = {Var(t[i]) : i \in 1 .. Len(t)}
      /\ \A i \in 1 .. Len(t) : lv[Var(t[i])] \in 0 .. Len(tl)
  BY DEF Cut
<1>2. /\ old \in Seq(Lits) /\ Len(old) = n /\ DOMAIN old = 1 .. n
      /\ \A i \in 1 .. n : old[i] = t[i] /\ i \in 1 .. Len(t)
  BY <1>1
<1>3. V \subseteq DOMAIN lv /\ DOMAIN Only(lv, V) = V /\ \A v \in V : Only(lv, V)[v] = lv[v]
  BY <1>1, <1>2 DEF Only
<1>4. /\ \A i, j \in 1 .. Len(old) : Var(old[i]) = Var(old[j]) => i = j
      /\ DOMAIN Only(lv, V) = {Var(old[i]) : i \in 1 .. Len(old)}
      /\ \A i \in 1 .. Len(old) : Only(lv, V)[Var(old[i])] \in 0 .. Len(tl)
  <2>1. \A i, j \in 1 .. Len(old) : Var(old[i]) = Var(old[j]) => i = j
    BY <1>1, <1>2
  <2>2. DOMAIN Only(lv, V) = {Var(old[i]) : i \in 1 .. Len(old)}
    BY <1>2, <1>3
  <2>3. ASSUME NEW i \in 1 .. Len(old) PROVE Only(lv, V)[Var(old[i])] \in 0 .. Len(tl)
    <3>1. Var(old[i]) \in V /\ old[i] = t[i] /\ i \in 1 .. Len(t)
      BY <1>2
    <3>2. Only(lv, V)[Var(old[i])] = lv[Var(old[i])]
      BY <1>3, <3>1
    <3>3. lv[Var(t[i])] \in 0 .. Len(tl)
      BY <1>1, <3>1
    <3> QED BY <3>1, <3>2, <3>3
  <2> QED BY <2>1, <2>2, <2>3
<1>5. \A k \in 1 .. Len(tl) : FALSE
  OBVIOUS
<1>6. Cut(old, tl, Only(lv, V))
  BY <1>1, <1>2, <1>4, <1>5 DEF Cut
<1>7. TrueIn(old) = {t[i] : i \in 1 .. n}
  BY <1>2 DEF TrueIn
<1> QED BY <1>2, <1>3, <1>6, <1>7 DEF CutAt

\* A clause that may replace the one that was vivified.
Shortened(D) ==
  /\ D \in Seq(clause.lits) /\ Len(D) >= 1
  /\ \A i, j \in 1 .. Len(D) : D[i] = D[j] => i = j

\* What the search sees of the replacement.
SetOf(D) == {D[i] : i \in 1 .. Len(D)}
Replaces(D) ==
  /\ DecisionLevel' = 0 /\ trailLim' = trailLim
  /\ \/ /\ Len(D) = 1
        /\ TrueLits' = Facts0 \cup {D[1]} /\ db' = db
     \/ /\ Len(D) > 1
        /\ TrueLits' = Facts0
        /\ DOMAIN db' = DOMAIN db \cup {clause.ref}
        /\ LitsOf(db'[clause.ref]) = SetOf(D)
        /\ db'[clause.ref].learnt
        /\ \A q \in DOMAIN db : db'[q] = db[q]

LEMMA ReplaceKeeps ==
  ASSUME InLcm, mode = "vivify", NEW D, Shortened(D), Replace(D)
  PROVE  InSearch' /\ Replaces(D)
<1> DEFINE n == trailRecord
           old == SubSeq(trail, 1, n)
           V == {Var(old[i]) : i \in DOMAIN old}
<1>1. /\ InSearch /\ TypeOK /\ TrailOK /\ ClausesOK /\ Counters /\ ReasonType
      /\ Cut(trail, trailLim, level) /\ Len(trail) \in Nat
      /\ \A i \in Places : trail[i] \in Lits
  BY Literals DEF InLcm, InSearch
<1>2. /\ DecisionLevel = 0 /\ nextClause > Len(input) /\ Vivifying /\ ClauseOK
      /\ n \in 0 .. Len(trail)
      /\ clause.ref \in Refs \ DOMAIN db /\ clause.lits \subseteq Lits
  BY DEF InLcm, Resting, LTypeOK, Vivifying, ClauseOK
<1>3. /\ Cut(old, trailLim, Only(level, V))
      /\ Len(old) = n /\ DOMAIN old = 1 .. n /\ \A i \in 1 .. n : old[i] = trail[i]
      /\ V \subseteq DOMAIN level /\ DOMAIN Only(level, V) = V
      /\ TrueIn(old) = Facts0
  <2>1. Len(trailLim) = 0
    BY <1>2 DEF DecisionLevel
  <2>0. Cut(trail, trailLim, level) /\ n \in 0 .. Len(trail)
    BY <1>1, <1>2
  <2>2. PICK o, W : o = SubSeq(trail, 1, n) /\ W = {Var(o[i]) : i \in DOMAIN o}
    OBVIOUS
  <2>3. CutAt(trail, trailLim, level, n, o, W)
    BY <2>0, <2>1, <2>2, RecordCut
  <2>4. o = old /\ W = V
    BY <2>2
  <2> HIDE DEF old, V
  <2> QED BY <2>3, <2>4 DEF CutAt, Facts0, Prefix
<1>4. ASSUME NEW i \in 1 .. Len(D)
      PROVE  /\ D[i] \in Lits /\ D[i] \in clause.lits
             /\ D[i] \notin Facts0 /\ Neg(D[i]) \notin Facts0
             /\ \A j \in Prefix : Neg(trail[j]) # D[i]
  <2>1. D[i] \in clause.lits /\ D[i] \in Lits
    BY <1>2 DEF Shortened
  <2>2. D[i] \notin Facts0 /\ Neg(D[i]) \notin Facts0
    BY <1>2, <2>1 DEF ClauseOK
  <2>3. \A j \in Prefix : trail[j] \in Lits /\ trail[j] \in Facts0
    BY <1>1, <1>2 DEF Prefix, Facts0, Places
  <2>4. \A j \in Prefix : Neg(trail[j]) # D[i]
    BY <2>2, <2>3, NegLit
  <2> QED BY <2>1, <2>2, <2>4
<1>5. /\ UNCHANGED <<input, nextClause, trailLim, conflictC, simpAssigns, reductions, adapt, status>>
      /\ qhead' = n /\ visit' = {} /\ confl' = Undef
      /\ DecisionLevel' = 0
  BY <1>2 DEF Replace, DecisionLevel
<1>6. \A q \in DOMAIN db : \A j \in Prefix :
        Neg(trail[j]) \in Watches(db[q]) => LitsOf(db[q]) \cap Facts0 # {}
  BY <1>2 DEF Vivifying, FactsWatched
<1>7. DOMAIN Only(reason, V) = V /\ \A v \in V : Only(reason, V)[v] \in Refs \cup {Undef}
  BY <1>1, <1>3 DEF Only, ReasonType
<1>8. Len(D) \in Nat /\ 1 \in 1 .. Len(D)
  BY DEF Shortened
<1>9. CASE Len(D) = 1
  <2>1. /\ trail' = Append(old, D[1])
        /\ reason' = Extend(Only(reason, V), Var(D[1]), Undef)
        /\ level' = Extend(Only(level, V), Var(D[1]), 0)
        /\ db' = db /\ pc' = "propagate"
    BY <1>9 DEF Replace
  <2> HIDE DEF old, V, n
  <2>2. OpenIn(old, D[1])
    <3>1. D[1] \in Lits /\ D[1] \notin TrueIn(old) /\ Neg(D[1]) \notin TrueIn(old)
      BY <1>3, <1>4, <1>8
    <3> QED BY <1>3, <3>1, CutFacts
  <2>3. Cut(trail', trailLim', level')
    <3>1. Len(trailLim) = 0
      BY <1>2 DEF DecisionLevel
    <3> QED BY <1>3, <1>5, <2>1, <2>2, <3>1, EnqueueCut
  <2>4. ReasonType'
    BY <1>3, <1>7, <2>1 DEF ReasonType, Extend
  <2>5. old \in Seq(Lits) /\ n \in Nat
    BY <1>2, <1>3 DEF Cut
  <2>6. /\ Len(trail') = n + 1 /\ trail'[n + 1] = D[1]
        /\ \A j \in 1 .. n : trail'[j] = trail[j]
    BY <1>3, <2>1, <2>5
  <2>7. TrueLits' = Facts0 \cup {D[1]}
    <3>1. \A j \in 1 .. Len(trail') : j \in 1 .. n \/ j = n + 1
      BY <2>5, <2>6
    <3>2. \A j \in 1 .. n : j \in 1 .. Len(trail')
      BY <2>5, <2>6
    <3>3. n + 1 \in 1 .. Len(trail')
      BY <2>5, <2>6
    <3> QED BY <2>6, <3>1, <3>2, <3>3 DEF TrueLits, Facts0, Prefix, n
  <2>8. (qhead \in 0 .. Len(trail))' /\ Counters'
    BY <1>1, <1>5, <2>1, <2>5, <2>6 DEF Counters, PCs, Undef
  <2>9. QueueOK' /\ ConflictFalse' /\ ClausesOK'
    BY <1>1, <1>2, <1>5, <2>1 DEF QueueOK, ConflictFalse, ClausesOK
  <2>10. WatchesFine'
    <3> SUFFICES ASSUME NEW q \in DOMAIN db, NEW j \in 1 .. Len(trail'),
                        Neg(trail'[j]) \in Watches(db[q]), Settled(q, j)'
                 PROVE  LitsOf(db[q]) \cap TrueLits' # {}
      BY <2>1 DEF WatchesFine, Places
    <3>1. j \in Prefix
      <4>1. Var(trail'[j]) \in DOMAIN level' /\ level'[Var(trail'[j])] \in 0 .. DecisionLevel'
        BY <2>3, CutFacts DEF DecisionLevel, Cut
      <4>2. j < qhead' \/ j = qhead'
        BY <1>5, <4>1 DEF Settled, LevelOf
      <4> QED BY <1>5, <2>5, <4>2 DEF Prefix, n
    <3>2. trail'[j] = trail[j]
      BY <2>6, <3>1 DEF Prefix, n
    <3> QED BY <1>6, <2>7, <3>1, <3>2
  <2>11. InSearch'
    BY <1>5, <2>3, <2>4, <2>8, <2>9, <2>10, AtZero
  <2>12. Replaces(D)
    BY <1>5, <1>9, <2>1, <2>7 DEF Replaces
  <2> QED BY <2>11, <2>12
<1>10. CASE Len(D) # 1
  <2>1. PICK d : d = [w |-> <<D[1], D[2]>>, learnt |-> TRUE, rest |-> {D[i] : i \in 3 .. Len(D)}]
    OBVIOUS
  <2>2. /\ trail' = old /\ reason' = Only(reason, V) /\ level' = Only(level, V)
        /\ db' = Extend(db, clause.ref, d) /\ pc' = "decide"
    BY <1>10, <2>1 DEF Replace
  <2>3. Len(D) > 1 /\ 2 \in 1 .. Len(D) /\ \A i \in 3 .. Len(D) : i \in 1 .. Len(D)
    <3>1. Len(D) \in Nat /\ Len(D) # 0 /\ Len(D) # 1
      BY <1>8, <1>10
    <3> HIDE DEF old, V
    <3>2. \A k \in Nat : k # 0 /\ k # 1 => k > 1 /\ 2 \in 1 .. k /\ \A i \in 3 .. k : i \in 1 .. k
      OBVIOUS
    <3> QED BY <3>1, <3>2
  <2>4. /\ d \in Clauses /\ d.w[1] # d.w[2] /\ d.w[1] \notin d.rest /\ d.w[2] \notin d.rest
        /\ d.learnt = TRUE /\ LitsOf(d) = SetOf(D) /\ Watches(d) \subseteq SetOf(D)
    <3>1. D[1] \in Lits /\ D[2] \in Lits /\ {D[i] : i \in 3 .. Len(D)} \subseteq Lits
      BY <1>4, <1>8, <2>3
    <3>2. d \in Clauses
      BY <2>1, <3>1 DEF Clauses
    <3>3. \A i, j \in 1 .. Len(D) : D[i] = D[j] => i = j
      BY DEF Shortened
    <3>4. d.w[1] # d.w[2] /\ d.w[1] \notin d.rest /\ d.w[2] \notin d.rest
      BY <1>8, <2>1, <2>3, <3>3
    <3>5. LitsOf(d) = {D[1], D[2]} \cup {D[i] : i \in 3 .. Len(D)}
      BY <2>1 DEF LitsOf
    <3>6. LitsOf(d) = SetOf(D)
      <4>1. \A i \in 1 .. Len(D) : i = 1 \/ i = 2 \/ i \in 3 .. Len(D)
        BY <1>8
      <4> QED BY <1>8, <2>3, <3>5, <4>1 DEF SetOf
    <3>7. Watches(d) \subseteq SetOf(D)
      BY <3>6 DEF Watches, LitsOf
    <3> QED BY <2>1, <3>2, <3>4, <3>6, <3>7
  <2> HIDE DEF old, V, n
  <2>5. /\ DOMAIN db' = DOMAIN db \cup {clause.ref} /\ db'[clause.ref] = d
        /\ \A q \in DOMAIN db : db'[q] = db[q]
    BY <1>2, <2>2 DEF Extend
  <2>6. Cut(trail', trailLim', level') /\ ReasonType'
    BY <1>3, <1>5, <1>7, <2>2 DEF ReasonType
  <2>7. Len(trail') = n /\ n \in Nat /\ TrueLits' = Facts0
    BY <1>2, <1>3, <2>2 DEF TrueLits, TrueIn
  <2>8. (qhead \in 0 .. Len(trail))' /\ Counters'
    BY <1>1, <1>2, <1>5, <2>2, <2>4, <2>5, <2>7 DEF Counters, PCs, Undef
  <2>9. QueueOK' /\ ConflictFalse' /\ ClausesOK'
    BY <1>1, <1>2, <1>5, <2>2, <2>4, <2>5, <2>7 DEF QueueOK, ConflictFalse, ClausesOK
  <2>10. WatchesFine'
    <3> SUFFICES ASSUME NEW q \in DOMAIN db', NEW j \in 1 .. Len(trail'),
                        Neg(trail'[j]) \in Watches(db'[q])
                 PROVE  LitsOf(db'[q]) \cap TrueLits' # {}
      BY DEF WatchesFine, Places
    <3>1. j \in Prefix /\ trail'[j] = trail[j]
      BY <1>3, <2>2, <2>7 DEF Prefix, n
    <3>2. CASE q = clause.ref
      <4>1. PICK i \in 1 .. Len(D) : Neg(trail[j]) = D[i]
        BY <2>4, <2>5, <3>1, <3>2 DEF SetOf
      <4> QED BY <1>4, <3>1, <4>1
    <3>3. CASE q \in DOMAIN db
      BY <1>6, <2>5, <2>7, <3>1, <3>3
    <3> QED BY <2>5, <3>2, <3>3
  <2>11. InSearch'
    BY <1>5, <2>6, <2>8, <2>9, <2>10, AtZero
  <2>12. Replaces(D)
    BY <1>5, <2>3, <2>4, <2>5, <2>7 DEF Replaces
  <2> QED BY <2>11, <2>12
<1> QED BY <1>9, <1>10

-----------------------------------------------------------------------------
\* simpleAnalyze: what it comes to, as one step of the walk can use it.
ComesTo(S, i, T) ==
  /\ trailRecord < i
  /\ \/ Neg(trail[i]) \in S
     \/ \E j \in i + 1 .. Len(trail) :
          /\ j \in T
          /\ reason[Var(trail[j])] # Undef
          /\ Neg(trail[i]) \in LitsOf(db[reason[Var(trail[j])]]) \ {trail[j]}

LEMMA ReachedIs ==
  ASSUME NEW S, Len(trail) \in Nat
  PROVE  /\ Reached(S) \subseteq 1 .. Len(trail)
         /\ \A i \in 1 .. Len(trail) : i \in Reached(S) <=> ComesTo(S, i, Reached(S))
<1> DEFINE n == Len(trail)
           W == [1 .. n -> BOOLEAN]
           T(f) == {i \in 1 .. n : f[i]}
           Body(f) == [i \in 1 .. Len(trail) |->
                         /\ trailRecord < i
                         /\ \/ Neg(trail[i]) \in S
                            \/ \E j \in i + 1 .. Len(trail) :
                                 /\ f[j]
                                 /\ reason[Var(trail[j])] # Undef
                                 /\ Neg(trail[i]) \in LitsOf(db[reason[Var(trail[j])]]) \ {trail[j]}]
           step == [i \in 1 .. n |-> [f \in W |-> ComesTo(S, i, T(f))]]
<1>1. \A f : \A i \in 1 .. n : ComesTo(S, i, T(f)) \in BOOLEAN
  BY DEF ComesTo
<1>2. ASSUME NEW f, NEW i \in 1 .. n PROVE Body(f)[i] <=> ComesTo(S, i, T(f))
  <2>1. \A j \in i + 1 .. n : f[j] <=> j \in T(f)
    OBVIOUS
  <2> HIDE DEF T
  <2> QED BY <2>1 DEF ComesTo
<1>3. LooksAhead(n, BOOLEAN, step)
  <2>1. step \in [1 .. n -> [W -> BOOLEAN]]
    <3> HIDE DEF T, W
    <3> QED BY <1>1
  <2>2. ASSUME NEW k \in 1 .. n, NEW f \in W, NEW g \in W,
               \A m \in k + 1 .. n : f[m] = g[m]
        PROVE  step[k][f] = step[k][g]
    <3>1. \A m \in k + 1 .. n : m \in T(f) <=> m \in T(g)
      BY <2>2
    <3>2. step[k][f] = ComesTo(S, k, T(f)) /\ step[k][g] = ComesTo(S, k, T(g))
      <4> HIDE DEF T, W
      <4> QED OBVIOUS
    <3>3. ComesTo(S, k, T(f)) <=> ComesTo(S, k, T(g))
      <4> HIDE DEF T
      <4> QED BY <3>1 DEF ComesTo
    <3> HIDE DEF T, step
    <3> QED BY <1>1, <3>2, <3>3
  <2> HIDE DEF step, W
  <2> QED BY <2>1, <2>2 DEF LooksAhead, W
<1>4. PICK f \in W : \A k \in 1 .. n : f[k] = step[k][f]
  <2>1. PICK B : B = BOOLEAN
    OBVIOUS
  <2>2. PICK x \in B : TRUE
    BY <2>1
  <2>3. n \in Nat /\ LooksAhead(n, B, step) /\ W = [1 .. n -> B]
    BY <1>3, <2>1
  <2> HIDE DEF step, n, W
  <2>4. \E f \in [1 .. n -> B] : \A k \in 1 .. n : f[k] = step[k][f]
    BY <2>2, <2>3, LaterRecursion
  <2> QED BY <2>3, <2>4
<1>5. f = Body(f)
  <2>1. ASSUME NEW i \in 1 .. n PROVE f[i] = Body(f)[i]
    <3>1. f[i] = ComesTo(S, i, T(f))
      <4> HIDE DEF T, W
      <4>1. step[i][f] = ComesTo(S, i, T(f))
        OBVIOUS
      <4> HIDE DEF step
      <4> QED BY <1>4, <4>1
    <3>2. Body(f)[i] \in BOOLEAN
      OBVIOUS
    <3> HIDE DEF T, Body, step
    <3> QED BY <1>1, <1>2, <3>1, <3>2
  <2>2. f = [i \in 1 .. n |-> f[i]] /\ Body(f) = [i \in 1 .. n |-> Body(f)[i]]
    OBVIOUS
  <2> HIDE DEF Body, step, T
  <2> QED BY <2>1, <2>2
<1> DEFINE h == CHOOSE e : e = Body(e)
<1>6. h = Body(h)
  <2> HIDE DEF Body, step
  <2> QED BY <1>5
<1>7. Reached(S) = T(h)
  BY DEF Reached
<1>8. ASSUME NEW i \in 1 .. n PROVE i \in T(h) <=> ComesTo(S, i, T(h))
  <2>1. h[i] = Body(h)[i]
    <3> HIDE DEF Body, h
    <3> QED BY <1>6
  <2>2. Body(h)[i] <=> ComesTo(S, i, T(h))
    BY <1>2
  <2>3. i \in T(h) <=> h[i]
    <3> HIDE DEF h
    <3> QED OBVIOUS
  <2> HIDE DEF T, Body, h
  <2> QED BY <2>1, <2>2, <2>3
<1>9. T(h) \subseteq 1 .. n
  <2> HIDE DEF h
  <2> QED OBVIOUS
<1> HIDE DEF T, h
<1> QED BY <1>7, <1>8, <1>9

\* The assumptions simpleAnalyze comes to, in the clause's literals, ...
Back(S) == {Neg(trail[i]) : i \in {j \in Reached(S) : reason[Var(trail[j])] = Undef}}

\* ... are listed without repetition.
LEMMA AssumptionsAre ==
  ASSUME NEW S, NEW C, clause.kept \in Seq(C),
         \A i, j \in DOMAIN clause.kept : clause.kept[i] = clause.kept[j] => i = j
  PROVE  /\ Assumptions(S) \in Seq(C)
         /\ SetOf(Assumptions(S)) = LitsKept \cap Back(S)
         /\ \A i, j \in 1 .. Len(Assumptions(S)) : Assumptions(S)[i] = Assumptions(S)[j] => i = j
<1> DEFINE k == clause.kept
           n == Len(k)
           B == Back(S)
           W == Seq(C)
           step == [i \in 0 .. n - 1 |->
                      [s \in W |-> IF k[i + 1] \in B THEN <<k[i + 1]>> \o s ELSE s]]
           Body(f) == [i \in 0 .. Len(clause.kept) |->
                         IF i = 0 THEN <<>>
                         ELSE IF clause.kept[i] \in B THEN <<clause.kept[i]>> \o f[i - 1]
                         ELSE f[i - 1]]
<1>1. n \in Nat /\ DOMAIN k = 1 .. n /\ \A i \in 1 .. n : k[i] \in C
  OBVIOUS
<1> HIDE DEF B, k
<1>2. step \in Steps(n, W)
  <2> SUFFICES ASSUME NEW i \in 0 .. n - 1, NEW s \in W
               PROVE  (IF k[i + 1] \in B THEN <<k[i + 1]>> \o s ELSE s) \in W
    BY DEF Steps
  <2>1. i + 1 \in 1 .. n
    BY <1>1
  <2> QED BY <1>1, <2>1
<1>3. PICK f : GoesUp(f, n, W, <<>>, step)
  <2>1. <<>> \in W
    OBVIOUS
  <2> HIDE DEF step, W
  <2> QED BY <1>1, <1>2, <2>1, UpRecursion
<1>4. /\ f \in [0 .. n -> W] /\ f[0] = <<>>
      /\ \A i \in 0 .. n - 1 :
           f[i + 1] = IF k[i + 1] \in B THEN <<k[i + 1]>> \o f[i] ELSE f[i]
  <2>1. /\ f \in [0 .. n -> W] /\ f[0] = <<>>
        /\ \A i \in 0 .. n - 1 : f[i + 1] = step[i][f[i]]
    BY <1>3 DEF GoesUp
  <2>2. ASSUME NEW i \in 0 .. n - 1
        PROVE  step[i][f[i]] = IF k[i + 1] \in B THEN <<k[i + 1]>> \o f[i] ELSE f[i]
    <3>1. f[i] \in W
      BY <1>1, <2>1
    <3> HIDE DEF W
    <3> QED BY <3>1
  <2> HIDE DEF step, W
  <2> QED BY <2>1, <2>2
<1> HIDE DEF step
<1>5. f = Body(f)
  <2>1. ASSUME NEW i \in 0 .. n PROVE f[i] = Body(f)[i]
    <3>1. CASE i = 0
      BY <1>4, <3>1
    <3>2. CASE i # 0
      <4>1. i - 1 \in 0 .. n - 1 /\ (i - 1) + 1 = i
        BY <1>1, <3>2
      <4>2. f[i] = IF k[i] \in B THEN <<k[i]>> \o f[i - 1] ELSE f[i - 1]
        BY <1>4, <4>1
      <4> QED BY <3>2, <4>2 DEF k
    <3> QED BY <3>1, <3>2
  <2>2. f = [i \in 0 .. n |-> f[i]] /\ Body(f) = [i \in 0 .. n |-> Body(f)[i]]
    BY <1>4 DEF k
  <2> HIDE DEF Body
  <2> QED BY <2>1, <2>2
<1>6. ASSUME NEW g, g = Body(g) PROVE g = f
  <2>1. /\ g = [i \in 0 .. n |-> g[i]] /\ g[0] = <<>>
        /\ \A i \in 0 .. n - 1 :
             g[i + 1] = IF k[i + 1] \in B THEN <<k[i + 1]>> \o g[i] ELSE g[i]
    <3>1. g = [i \in 0 .. n |-> g[i]]
      BY <1>6 DEF k
    <3>2. g[0] = <<>>
      BY <1>1, <1>6 DEF k
    <3>3. ASSUME NEW i \in 0 .. n - 1
          PROVE  g[i + 1] = IF k[i + 1] \in B THEN <<k[i + 1]>> \o g[i] ELSE g[i]
      <4>1. i + 1 \in 0 .. n /\ i + 1 # 0 /\ (i + 1) - 1 = i
        BY <1>1
      <4>2. g[i + 1] = Body(g)[i + 1]
        <5> HIDE DEF Body
        <5> QED BY <1>6
      <4> QED BY <4>1, <4>2 DEF k
    <3> QED BY <3>1, <3>2, <3>3
  <2> DEFINE P == {i \in 0 .. n : g[i] = f[i]}
  <2>2. 0 \in P
    BY <1>1, <1>4, <2>1
  <2>3. ASSUME NEW i \in 0 .. n - 1, i \in P PROVE i + 1 \in P
    <3>1. g[i + 1] = f[i + 1]
      BY <1>4, <2>1, <2>3
    <3> QED BY <1>1, <3>1
  <2>4. \A i \in 0 .. n : i \in P
    <3> HIDE DEF P
    <3> QED BY <1>1, <2>2, <2>3, UpInduction
  <2>5. f = [i \in 0 .. n |-> f[i]]
    BY <1>4
  <2> QED BY <2>1, <2>4, <2>5
<1>7. Assumptions(S) = f[n]
  <2> DEFINE h == CHOOSE e : e = Body(e)
  <2>1. h = Body(h)
    <3> HIDE DEF Body
    <3> QED BY <1>5
  <2>2. h = f
    <3> HIDE DEF Body, h
    <3> QED BY <1>6, <2>1
  <2>3. Assumptions(S) = h[n]
    BY DEF Assumptions, B, Back, k
  <2> HIDE DEF h
  <2> QED BY <2>2, <2>3
<1> DEFINE Listed(m) == /\ f[m] \in Seq(C)
                        /\ SetOf(f[m]) = {k[i] : i \in 1 .. m} \cap B
                        /\ \A i, j \in 1 .. Len(f[m]) : f[m][i] = f[m][j] => i = j
           P == {m \in 0 .. n : Listed(m)}
<1>8. 0 \in P
  <2>1. Listed(0)
    BY <1>4 DEF SetOf
  <2> QED BY <1>1, <2>1
<1>9. ASSUME NEW m \in 0 .. n - 1, m \in P PROVE m + 1 \in P
  <2>0. m + 1 \in 1 .. n /\ m + 1 \in 0 .. n /\ Listed(m) /\ k[m + 1] \in C
    BY <1>1, <1>9
  <2>1. {k[i] : i \in 1 .. m + 1} = {k[i] : i \in 1 .. m} \cup {k[m + 1]}
    <3>1. \A i \in 1 .. m + 1 : i \in 1 .. m \/ i = m + 1
      OBVIOUS
    <3>2. m + 1 \in 1 .. m + 1 /\ \A i \in 1 .. m : i \in 1 .. m + 1
      OBVIOUS
    <3> QED BY <3>1, <3>2
  <2>2. CASE k[m + 1] \notin B
    <3>1. f[m + 1] = f[m]
      BY <1>4, <2>2
    <3>2. {k[i] : i \in 1 .. m + 1} \cap B = {k[i] : i \in 1 .. m} \cap B
      BY <2>1, <2>2
    <3>3. Listed(m + 1)
      BY <2>0, <3>1, <3>2
    <3> QED BY <2>0, <3>3
  <2>3. CASE k[m + 1] \in B
    <3>0. PICK s : s = f[m]
      OBVIOUS
    <3>1. f[m + 1] = <<k[m + 1]>> \o s /\ s \in Seq(C) /\ Len(s) \in Nat
      <4>1. f[m + 1] = <<k[m + 1]>> \o s
        BY <1>4, <2>3, <3>0
      <4>2. s \in Seq(C)
        BY <2>0, <3>0
      <4> QED BY <4>1, <4>2, LenProperties
    <3>2. PICK z : z = <<k[m + 1]>> \o s
      OBVIOUS
    <3>3. /\ z \in Seq(C) /\ Len(z) = Len(s) + 1 /\ z[1] = k[m + 1]
          /\ \A i \in 2 .. Len(z) : z[i] = s[i - 1] /\ i - 1 \in 1 .. Len(s)
      BY <2>0, <3>1, <3>2
    <3>4. SetOf(z) = SetOf(s) \cup {k[m + 1]}
      <4>1. \A i \in 1 .. Len(z) : i = 1 \/ i \in 2 .. Len(z)
        BY <3>1, <3>3
      <4>2. 1 \in 1 .. Len(z)
        BY <3>1, <3>3
      <4>3. ASSUME NEW i \in 1 .. Len(s) PROVE i + 1 \in 1 .. Len(z) /\ z[i + 1] = s[i]
        <5>1. i + 1 \in 2 .. Len(z) /\ (i + 1) - 1 = i
          BY <3>1, <3>3
        <5>2. z[i + 1] = s[(i + 1) - 1]
          BY <3>3, <5>1
        <5> QED BY <5>1, <5>2
      <4>4. ASSUME NEW x \in SetOf(z) PROVE x \in SetOf(s) \cup {k[m + 1]}
        <5>1. PICK i \in 1 .. Len(z) : x = z[i]
          BY DEF SetOf
        <5>2. CASE i = 1
          BY <3>3, <5>1, <5>2
        <5>3. CASE i \in 2 .. Len(z)
          BY <3>3, <5>1, <5>3 DEF SetOf
        <5> QED BY <4>1, <5>2, <5>3
      <4>5. k[m + 1] \in SetOf(z)
        BY <3>3, <4>2 DEF SetOf
      <4>6. \A x \in SetOf(s) : x \in SetOf(z)
        BY <4>3 DEF SetOf
      <4> QED BY <4>4, <4>5, <4>6
    <3>5. k[m + 1] \notin SetOf(s)
      <4> SUFFICES ASSUME k[m + 1] \in {k[i] : i \in 1 .. m} PROVE FALSE
        BY <2>0, <3>0
      <4>1. PICK i \in 1 .. m : k[i] = k[m + 1]
        OBVIOUS
      <4>2. i \in DOMAIN k /\ m + 1 \in DOMAIN k /\ i # m + 1
        BY <1>1, <2>0
      <4> QED BY <4>1, <4>2 DEF k
    <3>6. ASSUME NEW i \in 1 .. Len(z), NEW j \in 1 .. Len(z), z[i] = z[j] PROVE i = j
      <4>0. \A a, b \in 1 .. Len(s) : s[a] = s[b] => a = b
        BY <2>0, <3>0
      <4>1. ASSUME NEW a \in 2 .. Len(z) PROVE z[a] # z[1]
        <5>1. s[a - 1] \in SetOf(s)
          BY <3>3 DEF SetOf
        <5> QED BY <3>3, <3>5, <5>1
      <4>2. \A a \in 1 .. Len(z) : a = 1 \/ a \in 2 .. Len(z)
        BY <3>1, <3>3
      <4>3. ASSUME i \in 2 .. Len(z), j \in 2 .. Len(z) PROVE i = j
        <5>1. s[i - 1] = s[j - 1] /\ i - 1 \in 1 .. Len(s) /\ j - 1 \in 1 .. Len(s)
          BY <3>3, <3>6, <4>3
        <5>2. i - 1 = j - 1
          BY <4>0, <5>1
        <5> QED BY <5>2
      <4> QED BY <3>6, <4>1, <4>2, <4>3
    <3>7. Listed(m + 1)
      BY <2>0, <2>1, <2>3, <3>0, <3>1, <3>2, <3>3, <3>4, <3>6
    <3> QED BY <2>0, <3>7
  <2> QED BY <2>2, <2>3
<1>10. Listed(n)
  <2>1. \A m \in 0 .. n : m \in P
    <3> HIDE DEF P
    <3> QED BY <1>1, <1>8, <1>9, UpInduction
  <2>2. n \in 0 .. n
    BY <1>1
  <2> HIDE DEF Listed
  <2> QED BY <2>1, <2>2
<1>11. {k[i] : i \in 1 .. n} = LitsKept
  BY <1>1 DEF LitsKept, ToSet, k
<1> QED BY <1>7, <1>10, <1>11 DEF B

-----------------------------------------------------------------------------
\* While a clause is vivified.
LEMMA Vivid ==
  ASSUME InLcm, mode = "vivify"
  PROVE  /\ InSearch /\ TypeOK /\ TrailOK /\ ClausesOK /\ Vivifying /\ ClauseOK /\ TriedFalse
         /\ DecisionLevel = 0 /\ nextClause > Len(input)
         /\ pc \in {"propagate", "conflict", "decide"}
         /\ Len(trail) \in Nat /\ trailRecord \in 0 .. Len(trail)
         /\ Prefix \subseteq Places /\ Behind = Places \ Prefix /\ Facts0 \subseteq TrueLits
         /\ \A i \in Places : trail[i] \in Lits /\ trail[i] \in TrueLits
         /\ \A i, j \in Places : Var(trail[i]) = Var(trail[j]) => i = j
         /\ \A l \in Lits : ~(l \in TrueLits /\ Neg(l) \in TrueLits)
         /\ clause.ref \in Refs \ DOMAIN db /\ clause.lits \subseteq Lits
         /\ clause \in [ref : Refs \ DOMAIN db, lits : SUBSET Lits,
                        todo : Seq(Lits), kept : Seq(Lits)]
         /\ LitsKept \subseteq clause.lits /\ LitsToDo \subseteq clause.lits
         /\ \A r \in DOMAIN db : /\ r # Undef /\ LitsOf(db[r]) \subseteq Lits
                                 /\ Watches(db[r]) \subseteq LitsOf(db[r])
<1>1. /\ InSearch /\ TypeOK /\ TrailOK /\ ClausesOK /\ Vivifying /\ ClauseOK /\ TriedFalse
      /\ DecisionLevel = 0 /\ nextClause > Len(input)
      /\ pc \in {"propagate", "conflict", "decide"}
      /\ trailRecord \in 0 .. Len(trail)
      /\ clause \in [ref : Refs \ DOMAIN db, lits : SUBSET Lits,
                     todo : Seq(Lits), kept : Seq(Lits)]
      /\ clause.ref \in Refs \ DOMAIN db /\ clause.lits \subseteq Lits
  BY DEF InLcm, InSearch, Resting, LTypeOK, Vivifying, ClauseOK
<1>2. /\ Len(trail) \in Nat
      /\ \A i \in Places : trail[i] \in Lits /\ trail[i] \in TrueLits
      /\ \A i, j \in Places : Var(trail[i]) = Var(trail[j]) => i = j
      /\ \A l \in Lits : ~(l \in TrueLits /\ Neg(l) \in TrueLits)
      /\ \A r \in DOMAIN db : LitsOf(db[r]) \subseteq Lits
  BY <1>1, Literals DEF IsTrue, IsFalse, TrailOK
<1>3. /\ Prefix \subseteq Places /\ Behind = Places \ Prefix /\ Facts0 \subseteq TrueLits
  <2>1. Prefix \subseteq Places
    BY <1>1, <1>2 DEF Prefix, Places
  <2>2. Behind = Places \ Prefix
    BY <1>1, <1>2 DEF Prefix, Places, Behind
  <2> QED BY <1>2, <2>1, <2>2 DEF Facts0
<1>4. LitsKept \subseteq clause.lits /\ LitsToDo \subseteq clause.lits
  BY <1>1 DEF ClauseOK, LitsKept, LitsToDo, ToSet
<1>5. \A r \in DOMAIN db : r # Undef /\ Watches(db[r]) \subseteq LitsOf(db[r])
  <2>1. Undef \notin Refs /\ DOMAIN db \subseteq Refs
    BY <1>1 DEF Undef, Refs, TypeOK
  <2> QED BY <2>1 DEF Watches, LitsOf
<1> QED BY <1>1, <1>2, <1>3, <1>4, <1>5

\* A false watched literal of a clause without a true literal lies behind the facts.
LEMMA WatchBehind ==
  ASSUME InLcm, mode = "vivify", NEW r \in DOMAIN db, NEW w \in Watches(db[r]),
         NEW j \in Places, trail[j] = Neg(w),
         \A l \in LitsOf(db[r]) : l \notin Facts0
  PROVE  j \in Behind
<1> SUFFICES ASSUME j \in Prefix PROVE FALSE
  BY Vivid
<1>1. w \in Lits
  BY Vivid
<1>2. Neg(trail[j]) = w
  BY <1>1, NegLit
<1> QED BY <1>2, Vivid DEF Vivifying, FactsWatched

\* Whatever simpleAnalyze comes to, an assumption is behind it.
LEMMA ReachesAssumption ==
  ASSUME InLcm, mode = "vivify", NEW S, Reached(S) # {}
  PROVE  LitsKept \cap Back(S) # {}
<1>1. /\ Reached(S) \subseteq Places
      /\ \A i \in Places : i \in Reached(S) <=> ComesTo(S, i, Reached(S))
  BY Vivid, ReachedIs DEF Places
<1>2. PICK m \in Reached(S) : \A k \in Reached(S) : m <= k
  <2>1. Reached(S) \subseteq Nat
    BY <1>1 DEF Places
  <2> QED BY <2>1, LeastNumber
<1>3. m \in Behind /\ m \in Places
  BY <1>1, <1>2, Vivid DEF ComesTo, Behind, Places
<1>4. CASE Assumed(m)
  BY <1>2, <1>4 DEF Assumed, Back
<1>5. ASSUME ByReason(m) PROVE FALSE
  <2>1. PICK r : r = reason[Var(trail[m])]
    OBVIOUS
  <2>2. /\ r \in DOMAIN db /\ r # Undef /\ trail[m] \in LitsOf(db[r])
        /\ \A l \in LitsOf(db[r]) \ {trail[m]} : \E j \in 1 .. m - 1 : trail[j] = Neg(l)
    BY <1>5, <2>1, Vivid DEF ByReason
  <2>3. ASSUME NEW l \in LitsOf(db[r]) PROVE l \notin Facts0
    <3>1. CASE l = trail[m]
      BY <1>3, <3>1, Vivid DEF Facts0
    <3>2. CASE l # trail[m]
      <4>1. PICK j \in 1 .. m - 1 : trail[j] = Neg(l)
        BY <2>2, <3>2
      <4>2. j \in Places /\ l \in Lits
        BY <1>3, <2>2, Vivid DEF Places
      <4> QED BY <4>1, <4>2, Vivid
    <3> QED BY <3>1, <3>2
  <2>4. PICK w \in Watches(db[r]) : w # trail[m]
    BY <2>2, Vivid DEF ClausesOK, Watches
  <2>5. PICK j \in 1 .. m - 1 : trail[j] = Neg(w)
    BY <2>2, <2>4, Vivid
  <2>6. j \in Places /\ w \in Lits /\ w \in LitsOf(db[r]) \ {trail[m]}
    BY <1>3, <2>2, <2>4, Vivid DEF Places
  <2>7. j \in Behind /\ Neg(trail[j]) = w /\ m \in j + 1 .. Len(trail)
    BY <1>3, <2>2, <2>3, <2>5, <2>6, WatchBehind, NegLit, Vivid DEF Places
  <2>8. j \in Reached(S)
    <3>1. trailRecord < j
      BY <2>7, Vivid DEF Behind
    <3> QED BY <1>1, <1>2, <2>1, <2>2, <2>6, <2>7, <3>1 DEF ComesTo
  <2> QED BY <1>2, <2>5, <2>8, <1>3 DEF Places
<1> QED BY <1>3, <1>4, <1>5, Vivid DEF Vivifying

\* From a literal that is false, and not by the facts.
LEMMA ReachedFrom ==
  ASSUME InLcm, mode = "vivify", NEW S, NEW l \in S, NEW j \in Behind, trail[j] = Neg(l), l \in Lits
  PROVE  j \in Reached(S)
<1>1. j \in 1 .. Len(trail) /\ trailRecord < j /\ Neg(trail[j]) \in S
  BY Vivid, NegLit DEF Behind
<1> QED BY <1>1, Vivid, ReachedIs DEF ComesTo

LEMMA FalseReached ==
  ASSUME InLcm, mode = "vivify", NEW l \in clause.lits, IsFalse(l)
  PROVE  /\ \E j \in Behind : trail[j] = Neg(l)
         /\ LitsKept # {}
<1>1. PICK j \in Places : trail[j] = Neg(l)
  BY DEF IsFalse, TrueLits, Places
<1>2. j \in Behind
  BY <1>1, Vivid DEF ClauseOK, Facts0
<1>3. j \in Reached({l})
  BY <1>1, <1>2, ReachedFrom, Vivid
<1> QED BY <1>1, <1>2, <1>3, ReachesAssumption

\* Behind a conflict there is an assumption.
LEMMA ConflictReached ==
  ASSUME InLcm, mode = "vivify", pc = "conflict"
  PROVE  /\ confl \in DOMAIN db
         /\ \A l \in LitsOf(db[confl]) : IsFalse(l)
         /\ LitsKept \cap Back(LitsOf(db[confl])) # {}
<1>1. confl \in DOMAIN db /\ \A l \in LitsOf(db[confl]) : IsFalse(l)
  BY Vivid DEF InSearch, ConflictFalse
<1>2. PICK w : w \in Watches(db[confl])
  BY DEF Watches
<1>3. w \in LitsOf(db[confl]) /\ w \in Lits
  BY <1>1, <1>2, Vivid
<1>4. PICK j \in Places : trail[j] = Neg(w)
  BY <1>1, <1>3 DEF IsFalse, TrueLits, Places
<1>5. ASSUME NEW l \in LitsOf(db[confl]) PROVE l \notin Facts0
  <2>1. l \in Lits /\ Neg(l) \in TrueLits
    BY <1>1, Vivid DEF IsFalse
  <2> QED BY <2>1, Vivid
<1>6. j \in Behind
  BY <1>1, <1>2, <1>4, <1>5, WatchBehind
<1>7. j \in Reached(LitsOf(db[confl]))
  BY <1>3, <1>4, <1>6, ReachedFrom
<1> QED BY <1>1, <1>7, ReachesAssumption

\* The clauses simplifyLearnt may leave.
LEMMA KeptShortened ==
  ASSUME InLcm, mode = "vivify", LitsKept # {}
  PROVE  Shortened(clause.kept) /\ SetOf(clause.kept) = LitsKept
<1>1. /\ clause.kept \in Seq(clause.lits)
      /\ \A i, j \in DOMAIN clause.kept : clause.kept[i] = clause.kept[j] => i = j
  BY Vivid DEF ClauseOK
<1>2. DOMAIN clause.kept = 1 .. Len(clause.kept) /\ Len(clause.kept) \in Nat
  BY <1>1
<1>3. SetOf(clause.kept) = LitsKept
  BY <1>2 DEF SetOf, LitsKept, ToSet
<1>4. Len(clause.kept) >= 1
  BY <1>2, <1>3 DEF SetOf
<1> QED BY <1>1, <1>2, <1>3, <1>4 DEF Shortened

LEMMA AssumptionsKept ==
  ASSUME InLcm, mode = "vivify", NEW S
  PROVE  /\ Assumptions(S) \in Seq(clause.lits)
         /\ SetOf(Assumptions(S)) = LitsKept \cap Back(S)
         /\ \A i, j \in 1 .. Len(Assumptions(S)) : Assumptions(S)[i] = Assumptions(S)[j] => i = j
  BY Vivid, AssumptionsAre DEF ClauseOK

LEMMA AssumptionsShortened ==
  ASSUME InLcm, mode = "vivify", NEW S, LitsKept \cap Back(S) # {}
  PROVE  Shortened(Assumptions(S))
<1>1. PICK D : D = Assumptions(S)
  OBVIOUS
<1>2. /\ D \in Seq(clause.lits) /\ SetOf(D) # {}
      /\ \A i, j \in 1 .. Len(D) : D[i] = D[j] => i = j
  BY <1>1, AssumptionsKept
<1>3. Len(D) >= 1
  BY <1>2 DEF SetOf
<1> QED BY <1>1, <1>2, <1>3 DEF Shortened

\* No literal is listed twice.
Distinct(s) == \A i, j \in 1 .. Len(s) : s[i] = s[j] => i = j

LEMMA PutBefore ==
  ASSUME NEW C, NEW l \in C, NEW s \in Seq(C), l \notin SetOf(s),
         Distinct(s), NEW z, z = <<l>> \o s
  PROVE  /\ z \in Seq(C) /\ Len(z) >= 1
         /\ Distinct(z)
         /\ SetOf(z) = SetOf(s) \cup {l}
<1>0. Len(s) \in Nat
  OBVIOUS
<1>1. /\ z \in Seq(C) /\ Len(z) = Len(s) + 1 /\ z[1] = l
      /\ \A i \in 2 .. Len(z) : z[i] = s[i - 1] /\ i - 1 \in 1 .. Len(s)
  OBVIOUS
<1>2. \A i \in 1 .. Len(z) : i = 1 \/ i \in 2 .. Len(z)
  BY <1>0, <1>1
<1>3. 1 \in 1 .. Len(z) /\ Len(z) >= 1
  BY <1>0, <1>1
<1>4. ASSUME NEW i \in 1 .. Len(s) PROVE i + 1 \in 1 .. Len(z) /\ z[i + 1] = s[i]
  <2>1. i + 1 \in 2 .. Len(z) /\ (i + 1) - 1 = i
    BY <1>0, <1>1
  <2>2. z[i + 1] = s[(i + 1) - 1]
    BY <1>1, <2>1
  <2> QED BY <2>1, <2>2
<1>5. ASSUME NEW x \in SetOf(z) PROVE x \in SetOf(s) \cup {l}
  <2>1. PICK i \in 1 .. Len(z) : x = z[i]
    BY DEF SetOf
  <2>2. CASE i = 1
    BY <1>1, <2>1, <2>2
  <2>3. CASE i \in 2 .. Len(z)
    BY <1>1, <2>1, <2>3 DEF SetOf
  <2> QED BY <1>2, <2>2, <2>3
<1>6. l \in SetOf(z)
  BY <1>1, <1>3 DEF SetOf
<1>7. \A x \in SetOf(s) : x \in SetOf(z)
  BY <1>4 DEF SetOf
<1>8. ASSUME NEW i \in 1 .. Len(z), NEW j \in 1 .. Len(z), z[i] = z[j] PROVE i = j
  <2>1. ASSUME NEW a \in 2 .. Len(z) PROVE z[a] # z[1]
    <3>1. s[a - 1] \in SetOf(s)
      BY <1>1 DEF SetOf
    <3> QED BY <1>1, <3>1
  <2>2. ASSUME i \in 2 .. Len(z), j \in 2 .. Len(z) PROVE i = j
    <3>1. s[i - 1] = s[j - 1] /\ i - 1 \in 1 .. Len(s) /\ j - 1 \in 1 .. Len(s)
      BY <1>1, <1>8, <2>2
    <3>2. i - 1 = j - 1
      BY <3>1 DEF Distinct
    <3> QED BY <3>2
  <2> QED BY <1>2, <1>8, <2>1, <2>2
<1> QED BY <1>1, <1>3, <1>5, <1>6, <1>7, <1>8 DEF Distinct

LEMMA PutAfter ==
  ASSUME NEW C, NEW l \in C, NEW s \in Seq(C), l \notin SetOf(s),
         Distinct(s), NEW z, z = Append(s, l)
  PROVE  /\ z \in Seq(C) /\ Len(z) >= 1
         /\ Distinct(z)
         /\ SetOf(z) = SetOf(s) \cup {l}
<1>0. Len(s) \in Nat
  OBVIOUS
<1>1. /\ z \in Seq(C) /\ Len(z) = Len(s) + 1 /\ z[Len(s) + 1] = l
      /\ \A i \in 1 .. Len(s) : z[i] = s[i]
  OBVIOUS
<1>2. \A i \in 1 .. Len(z) : i \in 1 .. Len(s) \/ i = Len(s) + 1
  BY <1>0, <1>1
<1>3. /\ \A i \in 1 .. Len(s) : i \in 1 .. Len(z)
      /\ Len(s) + 1 \in 1 .. Len(z) /\ Len(z) >= 1
  BY <1>0, <1>1
<1>4. \A i \in 1 .. Len(s) : z[i] # l
  BY <1>1 DEF SetOf
<1>5. SetOf(z) = SetOf(s) \cup {l}
  BY <1>1, <1>2, <1>3 DEF SetOf
<1>6. ASSUME NEW i \in 1 .. Len(z), NEW j \in 1 .. Len(z), z[i] = z[j] PROVE i = j
  BY <1>1, <1>2, <1>4, <1>6 DEF Distinct
<1> QED BY <1>1, <1>3, <1>5, <1>6 DEF Distinct

-----------------------------------------------------------------------------
\* Clauses stay free of complementary literals: where none is added, ...
LEMMA FewerPlain ==
  ASSUME Plain, \A q \in DOMAIN db' : \E r \in DOMAIN db : LitsOf(db'[q]) \subseteq LitsOf(db[r])
  PROVE  Plain'
<1> SUFFICES ASSUME NEW q \in DOMAIN db', NEW l \in LitsOf(db'[q])
             PROVE  Neg(l) \notin LitsOf(db'[q])
  BY DEF Plain, NoTautology
<1>1. PICK r \in DOMAIN db : LitsOf(db'[q]) \subseteq LitsOf(db[r])
  OBVIOUS
<1> QED BY <1>1 DEF Plain, NoTautology

\* ... and where one is that has none.
LEMMA MorePlain ==
  ASSUME Plain, NEW C, NoTautology(C), NEW n, NEW d, LitsOf(d) \subseteq C,
         db' = Extend(db, n, d)
  PROVE  Plain'
<1>1. /\ DOMAIN db' = DOMAIN db \cup {n} /\ db'[n] = d
      /\ \A q \in DOMAIN db : q # n => db'[q] = db[q]
  BY DEF Extend
<1> QED BY <1>1 DEF Plain, NoTautology

LEMMA AddClausePlain ==
  ASSUME InSearch, Plain, AddClause
  PROVE  Plain'
<1>1. PICK ps, C : ps = input[nextClause] /\ C = {l \in ps : ~IsFalse(l)}
  OBVIOUS
<1>2. C \subseteq Lits
  <2>1. input \in Seq(SUBSET Lits) /\ nextClause \in 1 .. Len(input)
    BY FormulasAssumption DEF InSearch, TypeOK, AddClause
  <2>2. ps \subseteq Lits
    BY <1>1, <2>1
  <2> QED BY <1>1, <2>2
<1>3. CASE UNCHANGED db
  BY <1>3 DEF Plain
<1>4. CASE /\ ~(\E l \in ps : IsTrue(l) \/ Neg(l) \in ps)
           /\ Cardinality(C) > 1
           /\ LET a == Least(C)
                  b == Least(C \ {a})
              IN db' = Extend(db, NewRef,
                              [w |-> <<a, b>>, rest |-> C \ {a, b}, learnt |-> FALSE])
  <2>1. PICK a, b, n, d : /\ a = Least(C) /\ b = Least(C \ {a}) /\ n = NewRef
                          /\ d = [w |-> <<a, b>>, rest |-> C \ {a, b}, learnt |-> FALSE]
    OBVIOUS
  <2>2. a \in C
    <3>1. C # {}
      BY <1>4, FS_EmptySet
    <3> QED BY <1>2, <2>1, <3>1, LeastIn
  <2>3. b \in C
    <3>1. Cardinality({a}) = 1
      BY SingleCard
    <3>2. C \ {a} # {} /\ C \ {a} \subseteq Lits
      BY <1>2, <1>4, <2>2, <3>1
    <3> QED BY <2>1, <3>2, LeastIn
  <2>4. LitsOf(d) \subseteq C
    <3>1. LitsOf(d) = {a, b} \cup (C \ {a, b})
      BY <2>1 DEF LitsOf
    <3> QED BY <2>2, <2>3, <3>1
  <2>5. NoTautology(C)
    BY <1>1, <1>4 DEF NoTautology
  <2>6. db' = Extend(db, n, d)
    BY <1>4, <2>1
  <2> QED BY <2>4, <2>5, <2>6, MorePlain
<1> QED BY <1>1, <1>3, <1>4 DEF AddClause

LEMMA ConflictPlain ==
  ASSUME InSearch, Plain, Conflict
  PROVE  Plain'
<1>0. PICK uip \in Current(Resolvent[0]) : \E C \in LearntClauses(uip) :
         \/ UNCHANGED db
         \/ \E second \in SecondWatches(C, uip) :
              db' = Extend(db, NewRef, [w |-> <<uip, second>>,
                                        rest |-> C \ {uip, second}, learnt |-> TRUE])
  BY DEF Conflict
<1>1. PICK C \in LearntClauses(uip) :
         \/ UNCHANGED db
         \/ \E second \in SecondWatches(C, uip) :
              db' = Extend(db, NewRef, [w |-> <<uip, second>>,
                                        rest |-> C \ {uip, second}, learnt |-> TRUE])
  BY <1>0
<1>2. /\ uip \in C /\ C \subseteq Lits /\ \A l \in C : IsFalse(l)
  BY Learnt DEF Conflict
<1>3. NoTautology(C)
  <2>1. \A l \in C : l \in Lits /\ Neg(l) \in TrueLits
    BY <1>2 DEF IsFalse
  <2>2. \A l \in Lits : ~(l \in TrueLits /\ Neg(l) \in TrueLits)
    BY Literals DEF InSearch, IsTrue, IsFalse
  <2> SUFFICES ASSUME NEW l \in C, Neg(l) \in C PROVE FALSE
    BY DEF NoTautology
  <2>3. Neg(Neg(l)) = l /\ Neg(Neg(l)) \in TrueLits /\ Neg(l) \in Lits
    BY <2>1, NegLit
  <2> QED BY <2>1, <2>2, <2>3
<1>4. CASE UNCHANGED db
  BY <1>4 DEF Plain
<1>5. ASSUME NEW second \in SecondWatches(C, uip),
             db' = Extend(db, NewRef, [w |-> <<uip, second>>,
                                       rest |-> C \ {uip, second}, learnt |-> TRUE])
      PROVE  Plain'
  <2>1. PICK d, n : n = NewRef /\ d = [w |-> <<uip, second>>, rest |-> C \ {uip, second}, learnt |-> TRUE]
    OBVIOUS
  <2>2. second \in C
    BY DEF SecondWatches
  <2>3. LitsOf(d) = {uip, second} \cup (C \ {uip, second})
    BY <2>1 DEF LitsOf
  <2>4. LitsOf(d) \subseteq C /\ db' = Extend(db, n, d)
    BY <1>2, <1>5, <2>1, <2>2, <2>3
  <2> QED BY <1>3, <2>4, MorePlain
<1> QED BY <1>1, <1>4, <1>5

\* What the steps of the search do to the database, but for these two.
LEMMA RestPlain ==
  ASSUME InSearch, Plain,
         \/ Solve \/ Dequeue \/ ConflictAtZero \/ Adapt \/ Restart \/ Simplify \/ ReduceDB
         \/ Decide \/ ModelFound \/ Done \/ \E r \in Refs : VisitBinary(r) \/ VisitLong(r)
  PROVE  Plain'
<1>1. CASE UNCHANGED db
  BY <1>1 DEF Plain
<1>2. CASE \E S : db' = Only(db, DOMAIN db \ S)
  <2>1. \A q \in DOMAIN db' : q \in DOMAIN db /\ db'[q] = db[q]
    BY <1>2 DEF Only
  <2> QED BY <2>1, FewerPlain
<1>3. CASE SameClauses
  <2>1. \A q \in DOMAIN db' : LitsOf(db'[q]) \subseteq LitsOf(db[q]) /\ q \in DOMAIN db
    BY <1>3 DEF SameClauses
  <2> QED BY <2>1, FewerPlain
<1>4. ASSUME Adapt \/ Simplify \/ ReduceDB PROVE \E S : db' = Only(db, DOMAIN db \ S)
  <2>1. \E S, first, V : RemoveClauses(S, first, V)
    BY <1>4 DEF Adapt, Simplify, ReduceDB
  <2> QED BY <2>1 DEF RemoveClauses
<1>5. ASSUME Dequeue \/ \E r \in Refs : VisitBinary(r) \/ VisitLong(r) PROVE SameClauses
  BY <1>5, PropagationStep DEF Propagates
<1>6. ASSUME Solve \/ ConflictAtZero \/ Restart \/ Decide \/ ModelFound \/ Done
      PROVE  UNCHANGED db
  BY <1>6 DEF Solve, ConflictAtZero, Restart, Decide, ModelFound, Done, vars
<1> QED BY <1>1, <1>2, <1>3, <1>4, <1>5, <1>6

LEMMA NextPlain ==
  ASSUME InSearch, Plain, Next
  PROVE  Plain'
  BY AddClausePlain, ConflictPlain, RestPlain DEF Next

-----------------------------------------------------------------------------
\* The invariant, between two clauses and in the search, ...
Course == /\ starts \in 0 .. MaxStarts
          /\ performLCM \in BOOLEAN
          /\ mode \in {"search", "enter", "each", "vivify"}

LEMMA Rested ==
  ASSUME InSearch', Plain', Course', mode' # "vivify", clause' = noClause, trailRecord' = 0,
         (toVisit \subseteq DOMAIN db)',
         (mode # "search" => /\ DecisionLevel = 0
                             /\ nextClause > Len(input)
                             /\ pc \in {"propagate", "conflict", "decide"})',
         (mode = "enter" \/ (mode = "search" /\ pc # "done") => toVisit = {})'
  PROVE  InLcm'
<1>1. Resting'
  BY DEF Resting
<1>2. LTypeOK'
  <2>1. TypeOK' /\ Len(trail') \in Nat
    BY Literals DEF InSearch, TypeOK
  <2>2. /\ clause' \in [ref : {Undef}, lits : SUBSET Lits, todo : Seq(Lits), kept : Seq(Lits)]
        /\ clause'.todo = <<>> /\ clause'.kept = <<>>
    BY DEF noClause
  <2>3. ToSet(<<>>) = {}
    BY DEF ToSet
  <2> QED BY <2>1, <2>2, <2>3 DEF LTypeOK, Course
<1> QED BY <1>1, <1>2 DEF InLcm

\* ... while a clause is vivified.
ClauseType == clause \in [ref : Refs \ DOMAIN db, lits : SUBSET Lits,
                          todo : Seq(Lits), kept : Seq(Lits)]

LEMMA Busy ==
  ASSUME InSearch', Plain', Course', mode' = "vivify", (toVisit \subseteq DOMAIN db)',
         DecisionLevel' = 0, nextClause' > Len(input'), pc' \in {"propagate", "conflict", "decide"},
         (trailRecord \in 0 .. Len(trail))', ClauseType', Vivifying'
  PROVE  InLcm'
<1>1. Resting'
  BY DEF Resting
<1>2. TypeOK'
  BY DEF InSearch
<1>3. \A l \in ToSet(clause'.todo) \cup ToSet(clause'.kept) : l \in clause'.lits
  <2>1. clause'.todo \in Seq(clause'.lits) /\ clause'.kept \in Seq(clause'.lits)
    BY DEF Vivifying, ClauseOK
  <2> QED BY <2>1 DEF ToSet
<1>4. LTypeOK'
  BY <1>2, <1>3 DEF LTypeOK, Course, ClauseType
<1> QED BY <1>1, <1>4 DEF InLcm

\* What holds of both.
LEMMA InLcmIs ==
  ASSUME InLcm
  PROVE  /\ InSearch /\ TypeOK /\ Plain /\ Course /\ toVisit \subseteq DOMAIN db
         /\ Len(input) \in Nat /\ nextClause \in Nat /\ DecisionLevel \in Nat
         /\ pc \in PCs
         /\ mode # "search" => DecisionLevel = 0 /\ nextClause > Len(input)
         /\ mode # "search" => pc \in {"propagate", "conflict", "decide"}
         /\ mode # "vivify" => clause = noClause /\ trailRecord = 0
         /\ mode = "enter" \/ (mode = "search" /\ pc # "done") => toVisit = {}
<1>1. InSearch /\ TypeOK /\ Plain /\ Course /\ toVisit \subseteq DOMAIN db /\ pc \in PCs
  BY DEF InLcm, InSearch, LTypeOK, Course, TypeOK
<1>2. Len(input) \in Nat /\ nextClause \in Nat /\ DecisionLevel \in Nat
  <2>1. input \in Seq(SUBSET Lits) /\ nextClause \in 1 .. Len(input) + 1
    BY <1>1, FormulasAssumption DEF TypeOK
  <2> QED BY <1>1, <2>1, Literals DEF InSearch
<1> QED BY <1>1, <1>2 DEF InLcm, Resting

\* search is called.
LEMMA CallSearchKeeps ==
  ASSUME InLcm, CallSearch
  PROVE  InLcm'
<1>1. /\ mode = "search" /\ clause' = noClause /\ trailRecord' = 0 /\ UNCHANGED toVisit
      /\ mode' \in {"enter", "search"} /\ InSearch /\ TypeOK /\ Plain /\ QueueOK
  BY InLcmIs DEF CallSearch, InSearch
<1>2. Course'
  BY InLcmIs, StartsAssumption DEF CallSearch, Course
<1>3. Solve \/ Restart \/ Adapt
  BY DEF CallSearch
<1>4. InSearch' /\ Plain'
  BY <1>1, <1>3, NextKeeps, NextPlain DEF Next
<1>5. pc # "done" /\ pc' = "propagate" /\ nextClause' = nextClause /\ input' = input
  BY <1>3 DEF Solve, Restart, Adapt
<1>6. toVisit = {}
  BY <1>1, <1>5, InLcmIs
<1>7. DecisionLevel' = 0 /\ nextClause > Len(input)
  <2>1. CASE Solve
    BY <1>1, <2>1, InLcmIs DEF Solve, QueueOK, DecisionLevel
  <2>2. CASE Restart /\ ~(DecisionLevel > 0)
    BY <1>1, <2>2, InLcmIs DEF Restart, QueueOK, DecisionLevel
  <2>3. CASE Restart /\ DecisionLevel > 0
    <3>1. trailLim' = SubSeq(trailLim, 1, 0)
      BY <2>3 DEF Restart, CancelUntil
    <3>2. nextClause > Len(input)
      BY <1>1, <2>3 DEF Restart, QueueOK
    <3> QED BY <3>1, <3>2 DEF DecisionLevel
  <2>4. CASE Adapt
    <3>1. trailLim' = <<>>
      BY <2>4 DEF Adapt
    <3>2. nextClause > Len(input)
      BY <1>1, <2>4, InLcmIs DEF Adapt, QueueOK
    <3> QED BY <3>1, <3>2 DEF DecisionLevel
  <2> QED BY <1>3, <2>1, <2>2, <2>3, <2>4, InLcmIs
<1> QED BY <1>1, <1>2, <1>4, <1>5, <1>6, <1>7, Rested

\* The search, reduceDB.
LEMMA SearchingKeeps ==
  ASSUME InLcm, ReduceAndAsk \/ Searching
  PROVE  InLcm'
<1>1. /\ mode = "search" /\ mode' = "search" /\ UNCHANGED <<clause, trailRecord, toVisit, starts>>
      /\ performLCM' \in {TRUE, performLCM}
      /\ \/ ReduceDB \/ AddClause \/ ConflictAtZero \/ Conflict \/ Simplify \/ Decide
         \/ ModelFound \/ Done
  BY DEF ReduceAndAsk, Searching, lcmVars
<1>2. InSearch' /\ Plain' /\ Course'
  BY <1>1, NextKeeps, NextPlain, InLcmIs DEF Next, Course
<1>3. toVisit \subseteq DOMAIN db' /\ (pc' # "done" => toVisit = {})
  <2>1. CASE pc # "done"
    BY <1>1, <2>1, InLcmIs
  <2>2. CASE pc = "done"
    <3>1. Done
      BY <1>1, <2>2 DEF ReduceDB, AddClause, ConflictAtZero, Conflict, Simplify, Decide, ModelFound
    <3> QED BY <2>2, <3>1, InLcmIs DEF Done, vars
  <2> QED BY <2>1, <2>2
<1> QED BY <1>1, <1>2, <1>3, InLcmIs, Rested

\* simplifyAll begins: the satisfied input clauses go.
LEMMA EnterKeeps ==
  ASSUME InLcm, EnterLcm
  PROVE  InLcm'
<1>1. /\ mode = "enter" /\ mode' = "each" /\ pc = "decide" /\ pc' = pc
      /\ UNCHANGED <<input, nextClause, trail, trailLim, level, qhead, visit, confl, conflictC,
                     simpAssigns, reductions, adapt, status, starts, performLCM, clause,
                     trailRecord>>
      /\ toVisit' \subseteq Learnts
  BY DEF EnterLcm
<1>2. /\ InSearch /\ Plain /\ DecisionLevel = 0 /\ nextClause > Len(input)
      /\ clause = noClause /\ trailRecord = 0 /\ Course
  BY <1>1, InLcmIs
<1>3. PICK S, first : /\ \A r \in S : r \notin Learnts
                      /\ RemoveClauses(S, first, DOMAIN reason)
  BY DEF EnterLcm
<1>4. /\ \A q \in DOMAIN db' : q \in DOMAIN db /\ db'[q] = db[q]
      /\ DOMAIN db' = DOMAIN db \ S
      /\ DOMAIN reason' = DOMAIN reason
      /\ \A v \in DOMAIN reason : reason'[v] \in Refs \cup {Undef}
  BY <1>2, <1>3, Removed
<1>5. ReasonType' /\ Counters'
  BY <1>1, <1>2, <1>4, DoneAtZero DEF ReasonType, Counters
<1>6. InSearch'
  BY <1>1, <1>2, <1>4, <1>5, FewerKeeps
<1>7. Plain'
  BY <1>2, <1>4, FewerPlain
<1>8. toVisit' \subseteq DOMAIN db'
  BY <1>1, <1>3, <1>4 DEF Learnts
<1> QED BY <1>1, <1>2, <1>6, <1>7, <1>8, Rested DEF Course, DecisionLevel

\* simplifyAll returns.
LEMMA LeavesKeep ==
  ASSUME InLcm, LcmUnsat \/ LeaveLcm
  PROVE  InLcm'
<1>1. CASE LcmUnsat
  <2>1. /\ mode \in {"enter", "each"} /\ mode' = "search" /\ pc' = "done"
        /\ UNCHANGED <<db, starts, performLCM, toVisit, clause, trailRecord>>
    BY <1>1 DEF LcmUnsat, Answer
  <2>2. ConflictAtZero
    BY <1>1, <2>1, InLcmIs DEF LcmUnsat, ConflictAtZero
  <2>3. InSearch' /\ Plain' /\ Course'
    BY <2>1, <2>2, NextKeeps, NextPlain, InLcmIs DEF Next, Course
  <2> QED BY <2>1, <2>3, InLcmIs, Rested
<1>2. CASE LeaveLcm
  <2>1. /\ mode = "each" /\ mode' = "search" /\ performLCM' = FALSE /\ toVisit = {}
        /\ UNCHANGED <<vars, starts, toVisit, clause, trailRecord>>
    BY <1>2 DEF LeaveLcm
  <2>2. InSearch'
    BY <2>1, NextKeeps, InLcmIs
  <2>3. Plain' /\ Course'
    BY <2>1, InLcmIs DEF vars, Plain, Course
  <2> QED BY <2>1, <2>2, <2>3, InLcmIs, Rested
<1> QED BY <1>1, <1>2

\* The order simplifyLearnt tries the literals in.
LEMMA Ordered ==
  ASSUME NEW c \in Clauses, NEW s \in SetToSeqs(c.rest), c.w[1] # c.w[2],
         c.w[1] \notin c.rest, c.w[2] \notin c.rest, NEW z, z = c.w \o s
  PROVE  /\ z \in Seq(LitsOf(c)) /\ z # <<>>
         /\ ToSet(z) = LitsOf(c)
         /\ \A i, j \in DOMAIN z : z[i] = z[j] => i = j
<1> DEFINE n == Cardinality(c.rest)
<1>1. IsFiniteSet(c.rest) /\ n \in Nat /\ c.w \in Lits \X Lits
  BY FiniteLits, FS_CardinalityType DEF Clauses
<1>2. s \in [1 .. n -> c.rest] /\ \A i, j \in 1 .. n : i # j => s[i] # s[j]
  BY DEF SetToSeqs
<1>3. \A l \in c.rest : \E i \in 1 .. n : s[i] = l
  <2>1. s \in Injection(1 .. n, c.rest)
    BY <1>2 DEF Injection, IsInjective
  <2>2. Cardinality(1 .. n) = n
    BY <1>1, FS_Interval
  <2>3. s \in Surjection(1 .. n, c.rest)
    BY <1>1, <2>1, <2>2, FS_Injection
  <2> QED BY <2>3 DEF Surjection
<1> HIDE DEF n
<1>4. s \in Seq(c.rest) /\ Len(s) = n
  BY <1>1, <1>2
<1>5. c.w = <<c.w[1], c.w[2]>>
  BY <1>1
<1>6. PICK a, b : a = c.w[1] /\ b = c.w[2]
  OBVIOUS
<1>7. /\ z = <<a, b>> \o s /\ LitsOf(c) = {a, b} \cup c.rest
      /\ a # b /\ a \notin c.rest /\ b \notin c.rest
  BY <1>5, <1>6 DEF LitsOf
<1>8. s \in Seq(LitsOf(c)) /\ a \in LitsOf(c) /\ b \in LitsOf(c)
  BY <1>2, <1>4, <1>7
<1>9. /\ z \in Seq(LitsOf(c)) /\ Len(z) = n + 2 /\ z[1] = a /\ z[2] = b
      /\ \A i \in 1 .. n : z[i + 2] = s[i]
  BY <1>1, <1>4, <1>7, <1>8
<1>10. /\ DOMAIN z = 1 .. n + 2 /\ 1 \in DOMAIN z /\ 2 \in DOMAIN z
       /\ \A i \in 1 .. n : i + 2 \in DOMAIN z
  BY <1>1, <1>9
<1>11. ASSUME NEW i \in DOMAIN z, i # 1, i # 2
       PROVE  i - 2 \in 1 .. n /\ z[i] = s[i - 2] /\ z[i] \in c.rest
  <2>1. i - 2 \in 1 .. n /\ (i - 2) + 2 = i
    BY <1>1, <1>10, <1>11
  <2>2. z[(i - 2) + 2] = s[i - 2]
    BY <1>9, <2>1
  <2> QED BY <1>2, <2>1, <2>2
<1>12. ToSet(z) = LitsOf(c)
  <2>1. ASSUME NEW x \in LitsOf(c) PROVE \E i \in DOMAIN z : z[i] = x
    <3>1. CASE x \in {a, b}
      BY <1>9, <1>10, <3>1
    <3>2. CASE x \in c.rest
      <4>1. PICK i \in 1 .. n : s[i] = x
        BY <1>3, <3>2
      <4>2. z[i + 2] = x /\ i + 2 \in DOMAIN z
        BY <1>9, <1>10, <4>1
      <4> QED BY <4>2
    <3> QED BY <1>7, <3>1, <3>2
  <2>2. \A i \in DOMAIN z : z[i] \in LitsOf(c)
    BY <1>9
  <2> QED BY <2>1, <2>2 DEF ToSet
<1>13. ASSUME NEW i \in DOMAIN z, NEW j \in DOMAIN z, z[i] = z[j] PROVE i = j
  <2>1. CASE i # 1 /\ i # 2 /\ j # 1 /\ j # 2
    <3>1. i - 2 = j - 2
      BY <1>2, <1>11, <1>13, <2>1
    <3> QED BY <1>10, <3>1
  <2>2. CASE i = 1 \/ i = 2 \/ j = 1 \/ j = 2
    BY <1>7, <1>9, <1>11, <1>13, <2>2
  <2> QED BY <2>1, <2>2
<1> QED BY <1>9, <1>10, <1>12, <1>13

\* simplifyAll comes to a learnt clause.
LEMMA NextLearntKeeps ==
  ASSUME InLcm, NEW r, NextLearnt(r)
  PROVE  InLcm'
<1>1. /\ mode = "each" /\ pc = "decide" /\ pc' = pc /\ r \in toVisit
      /\ UNCHANGED <<input, nextClause, trail, trailLim, level, qhead, visit, confl, conflictC,
                     simpAssigns, reductions, adapt, status, starts, performLCM>>
      /\ toVisit' = toVisit \ {r}
  BY DEF NextLearnt, Others
<1>2. /\ InSearch /\ TypeOK /\ Plain /\ DecisionLevel = 0 /\ nextClause > Len(input)
      /\ clause = noClause /\ trailRecord = 0 /\ Course /\ toVisit \subseteq DOMAIN db
      /\ r \in DOMAIN db /\ ReasonType /\ Counters /\ DecisionLevel' = 0 /\ visit = {}
  BY <1>1, InLcmIs, DoneAtZero DEF DecisionLevel
<1>3. CASE /\ \E first \in Firsts({r}) : RemoveClauses({r}, first, DOMAIN reason)
           /\ UNCHANGED <<mode, clause, trailRecord>>
  <2>1. PICK first : RemoveClauses({r}, first, DOMAIN reason)
    BY <1>3
  <2>2. /\ \A q \in DOMAIN db' : q \in DOMAIN db /\ db'[q] = db[q]
        /\ DOMAIN db' = DOMAIN db \ {r}
        /\ DOMAIN reason' = DOMAIN reason
        /\ \A v \in DOMAIN reason : reason'[v] \in Refs \cup {Undef}
    BY <1>2, <2>1, Removed
  <2>3. ReasonType' /\ Counters'
    BY <1>1, <1>2, <2>2 DEF ReasonType, Counters
  <2>4. InSearch'
    BY <1>1, <1>2, <2>2, <2>3, FewerKeeps
  <2>5. Plain'
    BY <1>2, <2>2, FewerPlain
  <2>6. toVisit' \subseteq DOMAIN db'
    BY <1>1, <1>2, <2>2
  <2> QED BY <1>1, <1>2, <1>3, <2>4, <2>5, <2>6, Rested DEF Course
<1>4. CASE /\ ~\E l \in LitsOf(db[r]) : IsTrue(l)
           /\ db' = [db EXCEPT ![r] = NoFalse(@)]
           /\ UNCHANGED <<reason, mode, clause, trailRecord>>
  <2>1. ReasonType'
    BY <1>1, <1>2, <1>4 DEF ReasonType
  <2>2. InSearch'
    BY <1>1, <1>2, <1>4, <2>1, ThinnedKeeps
  <2>3. PICK d : d = NoFalse(db[r])
    OBVIOUS
  <2>4. LitsOf(d) \subseteq LitsOf(db[r]) /\ db' = [db EXCEPT ![r] = d]
    BY <1>1, <1>2, <1>4, <2>3, Thinned
  <2>5. Plain'
    <3>1. \A q \in DOMAIN db' : q \in DOMAIN db /\ LitsOf(db'[q]) \subseteq LitsOf(db[q])
      BY <2>4
    <3> QED BY <1>2, <3>1, FewerPlain
  <2>6. toVisit' \subseteq DOMAIN db'
    BY <1>1, <1>2, <2>4
  <2> QED BY <1>1, <1>2, <1>4, <2>2, <2>5, <2>6, Rested DEF Course
<1>5. CASE /\ ~\E l \in LitsOf(db[r]) : IsTrue(l)
           /\ db' = Only(db, DOMAIN db \ {r})
           /\ mode' = "vivify"
           /\ LET c == NoFalse(db[r]) IN
                \E s \in SetToSeqs(c.rest) :
                  clause' = [ref |-> r, lits |-> LitsOf(c), todo |-> c.w \o s, kept |-> <<>>]
           /\ trailRecord' = Len(trail)
           /\ UNCHANGED reason
  <2>1. PICK c : c = NoFalse(db[r])
    OBVIOUS
  <2>2. PICK s \in SetToSeqs(c.rest) :
              clause' = [ref |-> r, lits |-> LitsOf(c), todo |-> c.w \o s, kept |-> <<>>]
    BY <1>5, <2>1
  <2>3. PICK z : z = c.w \o s
    OBVIOUS
  <2>4. /\ c \in Clauses
        /\ c.w[1] # c.w[2] /\ c.w[1] \notin c.rest /\ c.w[2] \notin c.rest
        /\ LitsOf(c) \subseteq LitsOf(db[r])
        /\ \A l \in LitsOf(c) : l \in Lits /\ IsOpen(l)
    BY <1>1, <1>2, <1>5, <2>1, Thinned
  <2>5. /\ z \in Seq(LitsOf(c)) /\ z # <<>> /\ ToSet(z) = LitsOf(c)
        /\ \A i, j \in DOMAIN z : z[i] = z[j] => i = j
    BY <2>3, <2>4, Ordered
  <2>6. /\ clause'.ref = r /\ clause'.lits = LitsOf(c) /\ clause'.todo = z /\ clause'.kept = <<>>
        /\ LitsKept' = {} /\ LitsToDo' = LitsOf(c)
    <3>1. /\ clause'.ref = r /\ clause'.lits = LitsOf(c) /\ clause'.todo = z
          /\ clause'.kept = <<>>
      BY <2>2, <2>3
    <3>2. ToSet(<<>>) = {}
      BY DEF ToSet
    <3> QED BY <2>5, <3>1, <3>2 DEF LitsKept, LitsToDo
  <2>7. /\ DOMAIN db' = DOMAIN db \ {r}
        /\ \A q \in DOMAIN db' : q \in DOMAIN db /\ db'[q] = db[q]
    BY <1>5 DEF Only
  <2>8. ReasonType' /\ Counters'
    BY <1>1, <1>2, <1>5, <2>7 DEF ReasonType, Counters
  <2>9. InSearch' /\ Plain'
    BY <1>1, <1>2, <2>7, <2>8, FewerKeeps, FewerPlain
  <2>10. /\ Prefix' = Places /\ Facts0' = TrueLits /\ Behind' = {} /\ Len(trail) \in Nat
         /\ (trailRecord \in 0 .. Len(trail))'
    <3>1. Len(trail) \in Nat
      BY <1>1, <1>2, DoneAtZero
    <3> QED BY <1>1, <1>5, <3>1 DEF Prefix, Places, Facts0, TrueLits, Behind
  <2>11. ClauseOK'
    <3>1. NoTautology(LitsOf(c))
      BY <1>2, <2>4 DEF Plain, NoTautology
    <3>2. \A l \in LitsOf(c) : l \notin TrueLits /\ Neg(l) \notin TrueLits
      BY <2>4 DEF IsOpen, IsTrue, IsFalse
    <3>3. r # Undef
      BY <1>2 DEF TypeOK, Refs, Undef
    <3> QED BY <2>5, <2>6, <2>10, <3>1, <3>2, <3>3 DEF ClauseOK
  <2>12. TriedFalse'
    BY <2>6 DEF TriedFalse
  <2>13. FactsWatched'
    <3>1. \A q \in DOMAIN db : \A j \in Places :
            Neg(trail[j]) \in Watches(db[q]) => LitsOf(db[q]) \cap TrueLits # {}
      BY <1>1, <1>2, DoneAtZero
    <3> QED BY <1>1, <2>7, <2>10, <3>1 DEF FactsWatched
  <2>14. Vivifying'
    BY <2>10, <2>11, <2>12, <2>13 DEF Vivifying
  <2>15. toVisit' \subseteq DOMAIN db'
    BY <1>1, <1>2, <2>7
  <2>16. ClauseType'
    <3>1. z \in Seq(Lits) /\ LitsOf(c) \subseteq Lits
      BY <2>4, <2>5
    <3>2. clause' = [ref |-> r, lits |-> LitsOf(c), todo |-> z, kept |-> <<>>]
      BY <2>2, <2>3
    <3> QED BY <1>2, <2>7, <3>1, <3>2 DEF ClauseType, TypeOK
  <2> QED BY <1>1, <1>2, <1>5, <2>9, <2>10, <2>14, <2>15, <2>16, Busy DEF Course
<1> QED BY <1>3, <1>4, <1>5 DEF NextLearnt

\* Propagation, with or without assumptions.
LEMMA PropagatingKeeps ==
  ASSUME InLcm, Propagating
  PROVE  InLcm'
<1>1. /\ Dequeue \/ \E r \in Refs : VisitBinary(r) \/ VisitLong(r)
      /\ UNCHANGED <<starts, performLCM, mode, toVisit, clause, trailRecord>>
  BY DEF Propagating, lcmVars
<1>2. InSearch /\ Plain /\ toVisit \subseteq DOMAIN db /\ Len(input) \in Nat /\ nextClause \in Nat
  BY InLcmIs
<1>3. InSearch' /\ Plain' /\ Course'
  BY <1>1, <1>2, NextKeeps, NextPlain, InLcmIs DEF Next, Course
<1>4. PICK r : Propagates(r)
  BY <1>1, <1>2, PropagationStep
<1>5. /\ UNCHANGED <<input, nextClause, trailLim, status>>
      /\ pc = "propagate" /\ pc' \in {"propagate", "conflict", "decide", "load"}
      /\ pc' = "load" => nextClause <= Len(input)
      /\ SameClauses /\ OpenWatches
      /\ UNCHANGED <<trail, reason, level>> \/ \E l : Implies(r, l)
      /\ DOMAIN db' = DOMAIN db /\ \A q \in DOMAIN db : LitsOf(db'[q]) = LitsOf(db[q])
      /\ DecisionLevel' = DecisionLevel
  BY <1>4 DEF Propagates, SameClauses, DecisionLevel
<1>6. mode # "search" => pc' \in {"propagate", "conflict", "decide"}
  BY <1>2, <1>5, InLcmIs
<1>7. CASE mode # "vivify"
  BY <1>1, <1>2, <1>3, <1>5, <1>6, <1>7, InLcmIs, Rested
<1>8. CASE mode = "vivify"
  <2>1. /\ Len(trail) \in Nat /\ trailRecord \in 0 .. Len(trail) /\ Prefix' = Prefix
        /\ Prefix \subseteq Places /\ Behind = Places \ Prefix
        /\ ClauseOK /\ TriedFalse /\ FactsWatched /\ \A i \in Behind : Assumed(i) \/ ByReason(i)
        /\ ClauseType /\ LitsKept' = LitsKept /\ LitsToDo' = LitsToDo
    BY <1>1, <1>8, Vivid DEF Vivifying, Prefix, LitsKept, LitsToDo, ClauseType
  <2>2. /\ Len(trail') \in Nat /\ Len(trail) <= Len(trail')
        /\ \A i \in Places : trail'[i] = trail[i]
        /\ \A i \in Places : reason'[Var(trail[i])] = reason[Var(trail[i])]
        /\ TrueLits \subseteq TrueLits'
        /\ Behind' \subseteq Behind \cup {Len(trail) + 1}
        /\ Len(trail) + 1 \in Behind' => \E l : Implies(r, l)
    <3>1. CASE UNCHANGED <<trail, reason, level>>
      BY <1>1, <2>1, <3>1 DEF Behind, TrueLits
    <3>2. ASSUME NEW l, Implies(r, l)
          PROVE  /\ Len(trail') = Len(trail) + 1
                 /\ \A i \in Places : trail'[i] = trail[i]
                 /\ \A i \in Places : reason'[Var(trail[i])] = reason[Var(trail[i])]
                 /\ TrueLits \subseteq TrueLits'
      <4>1. \A i \in Places : Var(trail[i]) \in DOMAIN level
        BY <1>2, Literals DEF InSearch, IsTrue
      <4> QED BY <3>2, <4>1 DEF Implies, Grows
    <3>3. ASSUME NEW l, Implies(r, l) PROVE Behind' \subseteq Behind \cup {Len(trail) + 1}
      BY <1>1, <2>1, <3>2, <3>3 DEF Behind
    <3> QED BY <1>5, <2>1, <3>1, <3>2, <3>3
  <2>3. Facts0' = Facts0
    BY <2>1, <2>2 DEF Facts0
  <2>4. ClauseOK'
    BY <1>1, <2>1, <2>3 DEF ClauseOK
  <2>5. TriedFalse'
    BY <1>1, <2>1, <2>2 DEF TriedFalse, IsFalse
  <2>6. FactsWatched'
    <3> SUFFICES ASSUME NEW q \in DOMAIN db, NEW i \in Prefix, Neg(trail'[i]) \in Watches(db'[q])
                 PROVE  LitsOf(db[q]) \cap Facts0 # {}
      BY <1>5, <2>1, <2>3 DEF FactsWatched
    <3>1. trail'[i] = trail[i] /\ i \in Places /\ trail[i] \in Lits /\ trail[i] \in TrueLits
      BY <1>8, <2>1, <2>2, Vivid
    <3>2. IsFalse(Neg(trail[i]))
      BY <3>1, NegLit DEF IsFalse
    <3>3. Neg(trail[i]) \in Watches(db[q])
      BY <1>5, <3>1, <3>2 DEF OpenWatches
    <3> QED BY <2>1, <3>3 DEF FactsWatched
  <2>7. ASSUME NEW i \in Behind' PROVE Assumed(i)' \/ ByReason(i)'
    <3>1. CASE i \in Behind
      <4>1. i \in Places /\ \A j \in 1 .. i - 1 : j \in Places
        BY <2>1, <3>1 DEF Places
      <4>2. /\ trail'[i] = trail[i] /\ reason'[Var(trail[i])] = reason[Var(trail[i])]
            /\ \A j \in 1 .. i - 1 : trail'[j] = trail[j]
        BY <2>2, <4>1
      <4>3. CASE Assumed(i)
        BY <2>1, <4>2, <4>3 DEF Assumed
      <4>4. CASE ByReason(i)
        BY <1>5, <4>2, <4>4 DEF ByReason
      <4> QED BY <2>1, <3>1, <4>3, <4>4
    <3>2. CASE i = Len(trail) + 1
      <4>1. PICK l : Implies(r, l)
        BY <2>2, <2>7, <3>2
      <4>2. /\ trail'[i] = l /\ reason'[Var(l)] = r /\ r \in DOMAIN db /\ l \in LitsOf(db[r])
            /\ \A m \in LitsOf(db[r]) \ {l} : IsFalse(m)
        BY <3>2, <4>1 DEF Implies, Grows
      <4>3. i - 1 = Len(trail)
        BY <2>1, <3>2
      <4>4. ASSUME NEW m \in LitsOf(db[r]) \ {l} PROVE \E j \in 1 .. i - 1 : trail'[j] = Neg(m)
        <5>1. PICK j \in Places : trail[j] = Neg(m)
          BY <4>2 DEF IsFalse, TrueLits, Places
        <5> QED BY <2>2, <4>3, <5>1 DEF Places
      <4> QED BY <1>5, <4>2, <4>4 DEF ByReason
    <3> QED BY <2>2, <3>1, <3>2
  <2>8. Vivifying'
    BY <2>4, <2>5, <2>6, <2>7 DEF Vivifying
  <2>9. /\ (trailRecord \in 0 .. Len(trail))' /\ (toVisit \subseteq DOMAIN db)'
        /\ ClauseType'
        /\ DecisionLevel' = 0 /\ nextClause' > Len(input')
        /\ pc' \in {"propagate", "conflict", "decide"} /\ mode' = "vivify"
    BY <1>1, <1>2, <1>5, <1>6, <1>8, <2>1, <2>2, InLcmIs DEF ClauseType
  <2> QED BY <1>3, <2>8, <2>9, Busy
<1> QED BY <1>7, <1>8

\* The first of the literals still to be tried.
LEMMA HeadAndTail ==
  ASSUME NEW C, NEW s \in Seq(C), s # <<>>, \A i, j \in DOMAIN s : s[i] = s[j] => i = j
  PROVE  /\ Head(s) \in C /\ Tail(s) \in Seq(C)
         /\ ToSet(s) = {Head(s)} \cup ToSet(Tail(s))
         /\ Head(s) \notin ToSet(Tail(s))
         /\ \A i, j \in DOMAIN Tail(s) : Tail(s)[i] = Tail(s)[j] => i = j
<1>0. PICK n : n = Len(s) - 1
  OBVIOUS
<1>1. n \in Nat /\ Len(s) = n + 1
  <2>1. Len(s) \in Nat /\ Len(s) # 0
    OBVIOUS
  <2> QED BY <1>0, <2>1
<1>2. PICK h, t : h = Head(s) /\ t = Tail(s)
  OBVIOUS
<1>3. /\ h \in C /\ t \in Seq(C) /\ h = s[1] /\ Len(t) = n
      /\ \A i \in 1 .. n : t[i] = s[i + 1]
      /\ DOMAIN s = 1 .. n + 1 /\ DOMAIN t = 1 .. n
  BY <1>1, <1>2
<1>4. /\ 1 \in DOMAIN s /\ \A i \in 1 .. n : i + 1 \in DOMAIN s
      /\ \A i \in DOMAIN s : i = 1 \/ (i - 1 \in 1 .. n /\ (i - 1) + 1 = i)
  BY <1>3
<1>5. ASSUME NEW x \in ToSet(s) PROVE x \in {h} \cup ToSet(t)
  <2>1. PICK i \in DOMAIN s : x = s[i]
    BY DEF ToSet
  <2>2. CASE i = 1
    BY <1>3, <2>1, <2>2
  <2>3. CASE i - 1 \in 1 .. n /\ (i - 1) + 1 = i
    <3>1. t[i - 1] = s[(i - 1) + 1]
      BY <1>3, <2>3
    <3> QED BY <1>3, <2>1, <2>3, <3>1 DEF ToSet
  <2> QED BY <1>4, <2>2, <2>3
<1>6. h \in ToSet(s) /\ \A x \in ToSet(t) : x \in ToSet(s)
  BY <1>3, <1>4 DEF ToSet
<1>7. h \notin ToSet(t)
  <2> SUFFICES ASSUME NEW i \in 1 .. n, t[i] = h PROVE FALSE
    BY <1>3 DEF ToSet
  <2> QED BY <1>3, <1>4
<1>8. ASSUME NEW i \in DOMAIN t, NEW j \in DOMAIN t, t[i] = t[j] PROVE i = j
  <2>1. i + 1 = j + 1
    BY <1>3, <1>4, <1>8
  <2> QED BY <1>3, <2>1
<1> QED BY <1>2, <1>3, <1>5, <1>6, <1>7, <1>8

\* A literal is tried.
LEMMA AssumeKeeps ==
  ASSUME InLcm, Assume
  PROVE  InLcm'
<1>1. /\ mode = "vivify" /\ pc = "decide" /\ clause.todo # <<>>
      /\ UNCHANGED <<input, nextClause, db, trailLim, qhead, visit, confl, conflictC,
                     simpAssigns, reductions, adapt, status, starts, performLCM, mode,
                     toVisit, trailRecord>>
  BY DEF Assume
<1>2. /\ InSearch /\ Plain /\ toVisit \subseteq DOMAIN db /\ Course /\ Plain' /\ Course'
      /\ DecisionLevel = 0 /\ DecisionLevel' = 0 /\ nextClause > Len(input)
  BY <1>1, InLcmIs DEF Plain, Course, DecisionLevel
<1>3. /\ Len(trail) \in Nat /\ trailRecord \in 0 .. Len(trail) /\ Prefix' = Prefix
      /\ Prefix \subseteq Places /\ Behind = Places \ Prefix
      /\ ClauseOK /\ TriedFalse /\ FactsWatched /\ \A i \in Behind : Assumed(i) \/ ByReason(i)
      /\ clause.lits \subseteq Lits /\ ClauseType
      /\ clause \in [ref : Refs \ DOMAIN db, lits : SUBSET Lits,
                     todo : Seq(Lits), kept : Seq(Lits)]
  BY <1>1, Vivid DEF Vivifying, Prefix, ClauseType
<1>4. PICK l, t, k : l = Head(clause.todo) /\ t = Tail(clause.todo) /\ k = clause.kept
  OBVIOUS
<1>5. /\ l \in clause.lits /\ t \in Seq(clause.lits) /\ LitsToDo = {l} \cup ToSet(t)
      /\ l \notin ToSet(t) /\ \A i, j \in DOMAIN t : t[i] = t[j] => i = j
  <2>1. /\ clause.todo \in Seq(clause.lits)
        /\ \A i, j \in DOMAIN clause.todo : clause.todo[i] = clause.todo[j] => i = j
    BY <1>3 DEF ClauseOK
  <2>2. /\ Head(clause.todo) \in clause.lits /\ Tail(clause.todo) \in Seq(clause.lits)
        /\ ToSet(clause.todo) = {Head(clause.todo)} \cup ToSet(Tail(clause.todo))
        /\ Head(clause.todo) \notin ToSet(Tail(clause.todo))
        /\ \A i, j \in DOMAIN Tail(clause.todo) :
             Tail(clause.todo)[i] = Tail(clause.todo)[j] => i = j
    BY <1>1, <2>1, HeadAndTail
  <2>3. l = Head(clause.todo) /\ t = Tail(clause.todo)
    BY <1>4
  <2> QED BY <2>2, <2>3 DEF LitsToDo
<1>6. l \in Lits /\ l \notin LitsKept /\ LitsKept \subseteq clause.lits
  BY <1>1, <1>3, <1>5, Vivid DEF ClauseOK
<1>7. ASSUME IsOpen(l), UncheckedEnqueue(Neg(l), Undef), pc' = "propagate",
             clause' = [clause EXCEPT !.todo = Tail(@), !.kept = Append(@, l)]
      PROVE  InLcm'
  <2>1. PICK m, a : m = Neg(l) /\ a = Append(k, l)
    OBVIOUS
  <2>2. m \in Lits /\ Neg(m) = l /\ IsOpen(m)
    BY <1>6, <1>7, <2>1, NegLit DEF IsOpen, IsTrue, IsFalse
  <2>3. InSearch' /\ Grows(m, Undef, 0)
    BY <1>1, <1>2, <1>7, <2>1, <2>2, EnqueuedKeeps
  <2>4. clause' = [clause EXCEPT !.todo = t, !.kept = a]
    BY <1>4, <1>7, <2>1
  <2>5. /\ clause'.ref = clause.ref /\ clause'.lits = clause.lits
        /\ clause'.todo = t /\ clause'.kept = a /\ LitsToDo' = ToSet(t)
    <3>1. /\ clause'.ref = clause.ref /\ clause'.lits = clause.lits
          /\ clause'.todo = t /\ clause'.kept = a
      BY <1>3, <2>4
    <3> QED BY <3>1 DEF LitsToDo
  <2>6. /\ k \in Seq(clause.lits) /\ SetOf(k) = LitsKept
        /\ \A i, j \in 1 .. Len(k) : k[i] = k[j] => i = j
    <3>1. k \in Seq(clause.lits) /\ DOMAIN k = 1 .. Len(k)
      BY <1>3, <1>4 DEF ClauseOK
    <3> QED BY <1>3, <1>4, <3>1 DEF ClauseOK, SetOf, LitsKept, ToSet
  <2>7. /\ a \in Seq(clause.lits) /\ Len(a) >= 1 /\ SetOf(a) = LitsKept \cup {l}
        /\ \A i, j \in 1 .. Len(a) : a[i] = a[j] => i = j
    <3>1. PICK C : C = clause.lits
      OBVIOUS
    <3>2. /\ l \in C /\ k \in Seq(C) /\ l \notin SetOf(k) /\ a = Append(k, l) /\ Distinct(k)
      BY <1>5, <1>6, <2>1, <2>6, <3>1 DEF Distinct
    <3>3. a \in Seq(C) /\ Len(a) >= 1 /\ SetOf(a) = SetOf(k) \cup {l} /\ Distinct(a)
      BY <3>2, PutAfter
    <3> QED BY <2>6, <3>1, <3>3 DEF Distinct
  <2>8. DOMAIN a = 1 .. Len(a) /\ LitsKept' = LitsKept \cup {l} /\ a # <<>>
    <3>1. DOMAIN a = 1 .. Len(a)
      BY <2>7
    <3>2. ToSet(a) = SetOf(a)
      BY <3>1 DEF ToSet, SetOf
    <3>3. a # <<>>
      BY <2>7
    <3> QED BY <2>5, <2>7, <3>1, <3>2, <3>3 DEF LitsKept
  <2>9. /\ Len(trail') = Len(trail) + 1
        /\ \A i \in Places : trail'[i] = trail[i]
        /\ \A i \in Places : reason'[Var(trail[i])] = reason[Var(trail[i])]
        /\ trail'[Len(trail) + 1] = m /\ reason'[Var(m)] = Undef
        /\ TrueLits' = TrueLits \cup {m}
    <3>1. \A i \in Places : Var(trail[i]) \in DOMAIN level
      BY <1>2, Literals DEF InSearch, IsTrue
    <3> QED BY <2>3, <3>1 DEF Grows
  <2>10. Facts0' = Facts0
    BY <1>3, <2>9 DEF Facts0
  <2>11. ClauseOK'
    BY <1>3, <1>5, <1>6, <2>5, <2>7, <2>8, <2>10 DEF ClauseOK
  <2>12. TriedFalse'
    BY <1>3, <1>5, <2>1, <2>5, <2>8, <2>9 DEF TriedFalse, IsFalse
  <2>13. FactsWatched'
    <3>1. \A i \in Prefix : trail'[i] = trail[i]
      BY <1>3, <2>9
    <3> QED BY <1>1, <1>3, <2>10, <3>1 DEF FactsWatched
  <2>14. ASSUME NEW i \in Behind' PROVE Assumed(i)' \/ ByReason(i)'
    <3>1. CASE i = Len(trail) + 1
      BY <2>2, <2>8, <2>9, <3>1 DEF Assumed
    <3>2. CASE i \in Behind
      <4>1. i \in Places /\ \A j \in 1 .. i - 1 : j \in Places
        BY <1>3, <3>2 DEF Places
      <4>2. /\ trail'[i] = trail[i] /\ reason'[Var(trail[i])] = reason[Var(trail[i])]
            /\ \A j \in 1 .. i - 1 : trail'[j] = trail[j]
        BY <2>9, <4>1
      <4>3. CASE Assumed(i)
        BY <2>8, <4>2, <4>3 DEF Assumed
      <4>4. CASE ByReason(i)
        BY <1>1, <4>2, <4>4 DEF ByReason
      <4> QED BY <1>3, <3>2, <4>3, <4>4
    <3> QED BY <1>1, <1>3, <2>9, <3>1, <3>2 DEF Behind
  <2>15. Vivifying'
    BY <2>11, <2>12, <2>13, <2>14 DEF Vivifying
  <2>16. (trailRecord \in 0 .. Len(trail))'
    BY <1>1, <1>3, <2>9
  <2>17. ClauseType'
    <3>1. t \in Seq(Lits) /\ a \in Seq(Lits)
      BY <1>3, <1>5, <2>7
    <3> QED BY <1>1, <1>3, <2>4, <3>1 DEF ClauseType
  <2> QED BY <1>1, <1>2, <1>3, <1>7, <2>3, <2>15, <2>16, <2>17, Busy
<1>8. ASSUME IsFalse(l), clause' = [clause EXCEPT !.todo = Tail(@)],
             UNCHANGED <<trail, reason, level, pc>>
      PROVE  InLcm'
  <2>1. InSearch'
    BY <1>1, <1>2, <1>8, NextKeeps DEF vars
  <2>2. /\ clause'.ref = clause.ref /\ clause'.lits = clause.lits
        /\ clause'.todo = t /\ clause'.kept = clause.kept
        /\ LitsToDo' = ToSet(t) /\ LitsKept' = LitsKept
    BY <1>3, <1>4, <1>8 DEF LitsToDo, LitsKept
  <2>3. Facts0' = Facts0 /\ TrueLits' = TrueLits
    BY <1>3, <1>8 DEF Facts0, TrueLits
  <2>4. clause.kept # <<>>
    <3>1. LitsKept # {}
      BY <1>1, <1>5, <1>8, FalseReached
    <3> QED BY <3>1 DEF LitsKept, ToSet
  <2>5. ClauseOK'
    BY <1>3, <1>5, <2>2, <2>3, <2>4 DEF ClauseOK
  <2>6. TriedFalse'
    BY <1>3, <1>5, <1>8, <2>2, <2>3 DEF TriedFalse, IsFalse
  <2>7. FactsWatched'
    BY <1>1, <1>3, <1>8, <2>3 DEF FactsWatched
  <2>8. \A i \in Behind' : Assumed(i)' \/ ByReason(i)'
    BY <1>1, <1>3, <1>8, <2>2, SMTT(20) DEF Behind, Assumed, ByReason
  <2>9. Vivifying'
    BY <2>5, <2>6, <2>7, <2>8 DEF Vivifying
  <2>10. (trailRecord \in 0 .. Len(trail))'
    BY <1>1, <1>3, <1>8
  <2>11. ClauseType'
    <3>1. t \in Seq(Lits) /\ clause' = [clause EXCEPT !.todo = t]
      BY <1>3, <1>4, <1>5, <1>8
    <3> QED BY <1>1, <1>3, <3>1 DEF ClauseType
  <2> QED BY <1>1, <1>2, <1>3, <1>8, <2>1, <2>9, <2>10, <2>11, Busy
<1> QED BY <1>4, <1>7, <1>8 DEF Assume

\* A clause is replaced by what simplifyLearnt left of it.
LEMMA ReplacedKeeps ==
  ASSUME InLcm, mode = "vivify", NEW D, Shortened(D), Replace(D)
  PROVE  InLcm'
<1>1. InSearch' /\ Replaces(D) /\ Plain /\ toVisit \subseteq DOMAIN db
  BY ReplaceKeeps, InLcmIs
<1>2. /\ mode' = "each" /\ clause' = noClause /\ trailRecord' = 0 /\ DecisionLevel' = 0
      /\ UNCHANGED <<input, nextClause, starts, performLCM, toVisit>>
      /\ pc' \in {"propagate", "decide"} /\ nextClause > Len(input) /\ Course'
  BY <1>1, InLcmIs DEF Replace, Replaces, Course
<1>3. Plain' /\ toVisit' \subseteq DOMAIN db'
  <2>1. CASE db' = db
    BY <1>1, <1>2, <2>1 DEF Plain
  <2>2. CASE /\ DOMAIN db' = DOMAIN db \cup {clause.ref}
             /\ LitsOf(db'[clause.ref]) = SetOf(D)
             /\ \A q \in DOMAIN db : db'[q] = db[q]
    <3>1. SetOf(D) \subseteq clause.lits
      BY DEF Shortened, SetOf
    <3>2. NoTautology(clause.lits)
      BY Vivid DEF ClauseOK
    <3>3. NoTautology(LitsOf(db'[clause.ref]))
      BY <2>2, <3>1, <3>2 DEF NoTautology
    <3> QED BY <1>1, <1>2, <2>2, <3>3 DEF Plain
  <2> QED BY <1>1, <2>1, <2>2 DEF Replaces
<1> QED BY <1>1, <1>2, <1>3, Rested

\* What it leaves is never empty.
Leaves(D) == mode = "vivify" /\ Shortened(D) /\ Replace(D)

LEMMA TrueLiteralLeaves ==
  ASSUME InLcm, TrueLiteral
  PROVE  LET l == Head(clause.todo)
             S == LitsOf(db[reason[Var(l)]]) \ {l}
         IN /\ l \in clause.lits /\ IsTrue(l) /\ l \notin LitsKept
            /\ \E D : /\ Leaves(D)
                      /\ SetOf(D) = (LitsKept \cap Back(S)) \cup {l} \/ SetOf(D) = LitsKept \cup {l}
<1> DEFINE l == Head(clause.todo)
           S == LitsOf(db[reason[Var(l)]]) \ {l}
           D1 == <<l>> \o Assumptions(S)
           D2 == Append(clause.kept, l)
<1>1. /\ mode = "vivify" /\ clause.todo # <<>> /\ IsTrue(l) /\ Replace(Shorter(D1, D2))
  BY DEF TrueLiteral
<1>2. ClauseOK
  BY <1>1, Vivid
<1>3. l \in clause.lits /\ l \in LitsToDo /\ l \notin LitsKept
  <2>1. /\ clause.todo \in Seq(clause.lits)
        /\ \A i, j \in DOMAIN clause.todo : clause.todo[i] = clause.todo[j] => i = j
    BY <1>2 DEF ClauseOK
  <2>2. l \in clause.lits /\ l \in LitsToDo
    BY <1>1, <2>1, HeadAndTail DEF LitsToDo
  <2> QED BY <1>2, <2>2 DEF ClauseOK
<1>4. PICK C, s, k, m, B : /\ C = clause.lits /\ s = Assumptions(S) /\ k = clause.kept /\ m = l
                           /\ B = LitsKept \cap Back(S)
  OBVIOUS
<1>5. s \in Seq(C) /\ SetOf(s) = B /\ Distinct(s)
  <2>1. PICK W : W = S
    OBVIOUS
  <2> HIDE DEF S, l
  <2>2. /\ Assumptions(W) \in Seq(clause.lits)
        /\ SetOf(Assumptions(W)) = LitsKept \cap Back(W)
        /\ \A i, j \in 1 .. Len(Assumptions(W)) : Assumptions(W)[i] = Assumptions(W)[j] => i = j
    BY <1>1, AssumptionsKept
  <2> QED BY <1>4, <2>1, <2>2 DEF Distinct
<1>6. k \in Seq(C) /\ Distinct(k) /\ SetOf(k) = LitsKept
  <2>1. k \in Seq(C) /\ \A i, j \in DOMAIN k : k[i] = k[j] => i = j
    BY <1>2, <1>4 DEF ClauseOK
  <2>2. DOMAIN k = 1 .. Len(k)
    BY <2>1
  <2> QED BY <1>4, <2>1, <2>2 DEF Distinct, SetOf, LitsKept, ToSet
<1>7. m \in C /\ m \notin SetOf(s) /\ m \notin SetOf(k)
  BY <1>3, <1>4, <1>5, <1>6
<1>8. PICK z1, z2 : z1 = <<m>> \o s /\ z2 = Append(k, m)
  OBVIOUS
<1>9. /\ z1 \in Seq(C) /\ Len(z1) >= 1 /\ Distinct(z1) /\ SetOf(z1) = B \cup {m}
      /\ z2 \in Seq(C) /\ Len(z2) >= 1 /\ Distinct(z2) /\ SetOf(z2) = LitsKept \cup {m}
  <2>1. z1 \in Seq(C) /\ Len(z1) >= 1 /\ Distinct(z1) /\ SetOf(z1) = SetOf(s) \cup {m}
    BY <1>5, <1>7, <1>8, PutBefore
  <2>2. z2 \in Seq(C) /\ Len(z2) >= 1 /\ Distinct(z2) /\ SetOf(z2) = SetOf(k) \cup {m}
    BY <1>6, <1>7, <1>8, PutAfter
  <2> QED BY <1>5, <1>6, <2>1, <2>2
<1>10. z1 = D1 /\ z2 = D2
  BY <1>4, <1>8
<1> HIDE DEF D1, D2
<1>11. Shortened(z1) /\ Shortened(z2)
  BY <1>4, <1>9 DEF Shortened, Distinct
<1>12. \E D \in {z1, z2} : Replace(D)
  BY <1>1, <1>10 DEF Shorter
<1>13. \E D : /\ Leaves(D)
              /\ SetOf(D) = B \cup {m} \/ SetOf(D) = LitsKept \cup {m}
  BY <1>1, <1>9, <1>11, <1>12 DEF Leaves
<1> QED BY <1>1, <1>3, <1>4, <1>13

LEMMA VivifyConflictLeaves ==
  ASSUME InLcm, VivifyConflict
  PROVE  \E D : /\ Leaves(D)
                /\ SetOf(D) = LitsKept \cap Back(LitsOf(db[confl])) \/ SetOf(D) = LitsKept
<1>1. PICK s, k : s = Assumptions(LitsOf(db[confl])) /\ k = clause.kept
  OBVIOUS
<1>2. mode = "vivify" /\ pc = "conflict" /\ Replace(Shorter(s, k))
  BY <1>1 DEF VivifyConflict
<1>3. LitsKept \cap Back(LitsOf(db[confl])) # {}
  BY <1>2, ConflictReached
<1>4. Shortened(s) /\ SetOf(s) = LitsKept \cap Back(LitsOf(db[confl]))
  BY <1>1, <1>2, <1>3, AssumptionsShortened, AssumptionsKept
<1>5. Shortened(k) /\ SetOf(k) = LitsKept
  BY <1>1, <1>2, <1>3, KeptShortened
<1>6. \E D \in {s, k} : Replace(D)
  BY <1>2 DEF Shorter
<1> QED BY <1>2, <1>4, <1>5, <1>6 DEF Leaves

LEMMA TriedLeaves ==
  ASSUME InLcm, Tried
  PROVE  LitsToDo = {} /\ \E D : Leaves(D) /\ SetOf(D) = LitsKept
<1>1. mode = "vivify" /\ clause.todo = <<>> /\ Replace(clause.kept)
  BY DEF Tried
<1>2. LitsToDo = {}
  BY <1>1 DEF LitsToDo, ToSet
<1>3. clause.kept # <<>> /\ clause.kept \in Seq(clause.lits)
  BY <1>1, Vivid DEF ClauseOK
<1>4. LitsKept # {}
  <2>1. clause.kept[1] \in ToSet(clause.kept)
    BY <1>3 DEF ToSet
  <2> QED BY <2>1 DEF LitsKept
<1> QED BY <1>1, <1>2, <1>4, KeptShortened DEF Leaves

\* Every step of the search with vivification keeps trail, watches and queue in order.
LEMMA LNextKeeps ==
  ASSUME InLcm, [LNext]_allVars
  PROVE  InLcm'
<1>1. CASE CallSearch \/ ReduceAndAsk \/ Searching \/ Propagating
  BY <1>1, CallSearchKeeps, SearchingKeeps, PropagatingKeeps
<1>2. CASE EnterLcm \/ LcmUnsat \/ LeaveLcm \/ Assume
  BY <1>2, EnterKeeps, LeavesKeep, AssumeKeeps
<1>3. ASSUME NEW r \in Refs, NextLearnt(r) PROVE InLcm'
  BY <1>3, NextLearntKeeps
<1>4. CASE TrueLiteral \/ VivifyConflict \/ Tried
  <2>1. \E D : Leaves(D)
    BY <1>4, TrueLiteralLeaves, VivifyConflictLeaves, TriedLeaves
  <2> QED BY <2>1, ReplacedKeeps DEF Leaves
<1>5. CASE UNCHANGED allVars
  <2>1. InSearch'
    BY <1>5, NextKeeps, InLcmIs DEF allVars
  <2>2. UNCHANGED <<vars, lcmVars>>
    BY <1>5 DEF allVars
  <2> HIDE DEF vars
  <2>3. LTypeOK'
    <3>1. TypeOK'
      BY <2>1 DEF InSearch
    <3>2. UNCHANGED <<db, trail>>
      BY <2>2 DEF vars
    <3> QED BY <2>2, <3>1, <3>2 DEF InLcm, LTypeOK, lcmVars
  <2>4. Resting'
    BY <2>2 DEF InLcm, Resting, lcmVars, vars, DecisionLevel
  <2>5. Plain' /\ Vivifying' = Vivifying
    BY <2>2 DEF InLcm, Plain, lcmVars, vars, Vivifying, ClauseOK, TriedFalse, FactsWatched,
                Assumed, ByReason, LitsKept, LitsToDo, Facts0, Prefix, Behind, IsFalse, TrueLits
  <2>6. mode' = mode
    BY <2>2 DEF lcmVars
  <2> QED BY <2>1, <2>3, <2>4, <2>5, <2>6 DEF InLcm
<1> QED BY <1>1, <1>2, <1>3, <1>4, <1>5 DEF LNext

LEMMA LInitHolds ==
  ASSUME LInit
  PROVE  InLcm
<1>1. InSearch
  BY InitHolds DEF LInit
<1>2. Plain
  BY DEF LInit, Init, Plain
<1>3. Resting /\ mode # "vivify"
  BY DEF LInit, Resting
<1>4. LTypeOK
  <2>1. TypeOK /\ Len(trail) \in Nat
    BY <1>1, Literals DEF InSearch
  <2>2. /\ clause \in [ref : {Undef}, lits : SUBSET Lits, todo : Seq(Lits), kept : Seq(Lits)]
        /\ clause.todo = <<>> /\ clause.kept = <<>>
    BY DEF LInit, noClause
  <2>3. ToSet(<<>>) = {}
    BY DEF ToSet
  <2>4. /\ starts \in 0 .. MaxStarts /\ performLCM \in BOOLEAN /\ mode = "search"
        /\ toVisit = {} /\ trailRecord = 0
    BY StartsAssumption DEF LInit
  <2> QED BY <2>1, <2>2, <2>3, <2>4 DEF LTypeOK
<1> QED BY <1>1, <1>2, <1>3, <1>4 DEF InLcm

\* With vivification the search stays in order, and a clause being vivified leaves facts,
\* assumptions and what follows from them on the trail.
THEOREM VivificationHolds == LSpec => []InLcm
<1>1. LInit => InLcm
  BY LInitHolds
<1>2. InLcm /\ [LNext]_allVars => InLcm'
  BY LNextKeeps
<1> QED BY <1>1, <1>2, PTL DEF LSpec

\* When vivification is over, or between two clauses, no clause is false or about to be.
THEOREM VivificationResumes == LSpec => []ResumesPropagated
<1>1. InLcm => ResumesPropagated
  BY NothingMissed DEF InLcm, ResumesPropagated
<1> QED BY <1>1, VivificationHolds, PTL

\* Reasons stay above level 0, with vivification too.
THEOREM VivificationKeepsReasons == LSpec => []ReasonsImply
<1>1. InLcm => ReasonsImply
  BY DEF InLcm, InSearch
<1> QED BY <1>1, VivificationHolds, PTL

-----------------------------------------------------------------------------
\* Why a shortened clause follows: an assignment that satisfies the clauses, and makes the
\* facts true and the assumptions' literals false, makes true all that simpleAnalyze comes to.
Agrees(A) == /\ A \in Assignments
             /\ \A r \in DOMAIN db : Satisfies(A, LitsOf(db[r]))
             /\ \A l \in Facts0 : Holds(A, l)

LEMMA ReachedHolds ==
  ASSUME InLcm, mode = "vivify", NEW A, Agrees(A), NEW S,
         \A l \in LitsKept \cap Back(S) : ~Holds(A, l)
  PROVE  \A i \in Reached(S) : Holds(A, trail[i])
<1> DEFINE T == {i \in Reached(S) : ~Holds(A, trail[i])}
<1> SUFFICES ASSUME T # {} PROVE FALSE
  OBVIOUS
<1>1. /\ Reached(S) \subseteq Places
      /\ \A i \in Places : i \in Reached(S) <=> ComesTo(S, i, Reached(S))
  BY Vivid, ReachedIs DEF Places
<1>2. PICK m \in T : \A k \in T : m <= k
  <2>1. T \subseteq Nat
    BY <1>1 DEF Places
  <2> QED BY <2>1, LeastNumber
<1>3. m \in Behind /\ m \in Places /\ m \in Reached(S) /\ trail[m] \in Lits /\ ~Holds(A, trail[m])
  BY <1>1, <1>2, Vivid DEF ComesTo, Behind, Places
<1>4. ASSUME Assumed(m) PROVE FALSE
  <2>1. Neg(trail[m]) \in LitsKept \cap Back(S)
    BY <1>3, <1>4 DEF Assumed, Back
  <2> QED BY <1>3, <2>1, HoldsNeg DEF Agrees
<1>5. ASSUME ByReason(m) PROVE FALSE
  <2>1. PICK r : r = reason[Var(trail[m])]
    OBVIOUS
  <2>2. /\ r \in DOMAIN db /\ r # Undef /\ trail[m] \in LitsOf(db[r])
        /\ \A l \in LitsOf(db[r]) \ {trail[m]} : \E j \in 1 .. m - 1 : trail[j] = Neg(l)
    BY <1>5, <2>1, Vivid DEF ByReason
  <2>3. PICK l \in LitsOf(db[r]) : Holds(A, l)
    BY <2>2 DEF Agrees, Satisfies
  <2>4. l # trail[m] /\ l \in Lits
    BY <1>3, <2>2, <2>3, Vivid
  <2>5. PICK j \in 1 .. m - 1 : trail[j] = Neg(l)
    BY <2>2, <2>4
  <2>6. j \in Places /\ Neg(trail[j]) = l /\ m \in j + 1 .. Len(trail) /\ j < m
    BY <1>3, <2>4, <2>5, NegLit, Vivid DEF Places
  <2>7. Holds(A, trail[j])
    <3>1. CASE j \in Prefix
      BY <3>1 DEF Agrees, Facts0
    <3>2. CASE j \notin Prefix
      <4>1. j \in Behind /\ trailRecord < j
        BY <2>6, <3>2, Vivid DEF Behind
      <4>2. j \in Reached(S)
        BY <1>1, <1>3, <2>1, <2>2, <2>4, <2>6, <4>1 DEF ComesTo
      <4>3. ~(m <= j)
        BY <1>3, <2>6 DEF Places
      <4> QED BY <1>2, <4>2, <4>3
    <3> QED BY <3>1, <3>2
  <2> QED BY <2>3, <2>4, <2>5, <2>7, HoldsNeg DEF Agrees
<1> QED BY <1>3, <1>4, <1>5, Vivid DEF Vivifying

\* So it makes false the literals S that are false, ...
LEMMA FalseBehind ==
  ASSUME InLcm, mode = "vivify", NEW A, Agrees(A), NEW S, NEW l \in S, l \in Lits, IsFalse(l),
         \A m \in LitsKept \cap Back(S) : ~Holds(A, m)
  PROVE  ~Holds(A, l)
<1>1. PICK j \in Places : trail[j] = Neg(l)
  BY DEF IsFalse, TrueLits, Places
<1>2. Holds(A, trail[j])
  <2>1. CASE j \in Prefix
    BY <2>1 DEF Agrees, Facts0
  <2>2. CASE j \notin Prefix
    <3>1. j \in Behind
      BY <2>2, Vivid
    <3>2. j \in Reached(S)
      BY <1>1, <3>1, ReachedFrom
    <3> QED BY <3>2, ReachedHolds
  <2> QED BY <2>1, <2>2
<1> QED BY <1>1, <1>2, HoldsNeg DEF Agrees

\* ... which it cannot do for a clause: of the assumptions behind a conflict one is wrong.
LEMMA ConflictFollows ==
  ASSUME InLcm, mode = "vivify", pc = "conflict", NEW A, Agrees(A)
  PROVE  Satisfies(A, LitsKept \cap Back(LitsOf(db[confl])))
<1>1. /\ confl \in DOMAIN db /\ \A l \in LitsOf(db[confl]) : IsFalse(l) /\ l \in Lits
  BY ConflictReached, Vivid
<1>2. PICK l \in LitsOf(db[confl]) : Holds(A, l)
  BY <1>1 DEF Agrees, Satisfies
<1> QED BY <1>1, <1>2, FalseBehind DEF Satisfies

\* A literal of the clause that has become true, or an assumption behind it is wrong.
LEMMA TrueFollows ==
  ASSUME InLcm, mode = "vivify", NEW A, Agrees(A), NEW l \in clause.lits, IsTrue(l),
         NEW S, S = LitsOf(db[reason[Var(l)]]) \ {l}
  PROVE  Satisfies(A, (LitsKept \cap Back(S)) \cup {l})
<1> SUFFICES ASSUME \A m \in LitsKept \cap Back(S) : ~Holds(A, m)
             PROVE  Holds(A, l)
  BY DEF Satisfies
<1>1. PICK i \in Places : trail[i] = l
  BY DEF IsTrue, TrueLits, Places
<1>2. i \in Behind
  BY <1>1, Vivid DEF ClauseOK, Facts0
<1>3. ~Assumed(i)
  BY <1>1, Vivid DEF Assumed, ClauseOK, NoTautology
<1>4. ByReason(i)
  BY <1>2, <1>3, Vivid DEF Vivifying
<1>5. PICK r : r = reason[Var(l)]
  OBVIOUS
<1>6. /\ r \in DOMAIN db /\ S = LitsOf(db[r]) \ {l}
      /\ \A m \in S : \E j \in 1 .. i - 1 : trail[j] = Neg(m)
  BY <1>1, <1>4, <1>5 DEF ByReason
<1>7. ASSUME NEW m \in S PROVE m \in Lits /\ IsFalse(m)
  <2>1. PICK j \in 1 .. i - 1 : trail[j] = Neg(m)
    BY <1>6
  <2>2. j \in Places
    BY Vivid DEF Places
  <2> QED BY <1>6, <2>1, <2>2, Vivid DEF IsFalse
<1>8. \A m \in S : ~Holds(A, m)
  BY <1>7, FalseBehind
<1> QED BY <1>6, <1>8 DEF Agrees, Satisfies

\* When every literal was tried, the literals dropped are false by the assumptions.
LEMMA TriedFollows ==
  ASSUME InLcm, mode = "vivify", LitsToDo = {}, NEW A, Agrees(A), Satisfies(A, clause.lits)
  PROVE  Satisfies(A, LitsKept)
<1> SUFFICES ASSUME \A m \in LitsKept : ~Holds(A, m) PROVE FALSE
  BY DEF Satisfies
<1>1. PICK l \in clause.lits : Holds(A, l)
  BY DEF Satisfies
<1>2. l \in Lits /\ IsFalse(l)
  BY Vivid DEF TriedFalse
<1> QED BY <1>1, <1>2, FalseBehind

\* The file's assignments agree with what is known.
LEMMA ModelsAgree ==
  ASSUME InLcm, mode = "vivify", LEntailed, NEW A \in Assignments, Models(A, Input)
  PROVE  Agrees(A) /\ Satisfies(A, clause.lits)
<1>1. Known = Facts0
  BY DEF Known, Facts0, Prefix
<1>2. \A l \in Facts0 : LevelOf(l) = 0
  <2>1. \A l \in Facts0 : l \in Lits /\ IsTrue(l)
    <3>1. \A l \in Facts0 : \E i \in Places : trail[i] = l
      BY Vivid DEF Facts0
    <3> QED BY <3>1, Vivid DEF IsTrue
  <2>2. \A l \in Lits : IsTrue(l) \/ IsFalse(l) => LevelOf(l) \in 0 .. DecisionLevel
    BY Vivid, Literals
  <2> QED BY <2>1, <2>2, Vivid
<1> QED BY <1>1, <1>2 DEF Agrees, LEntailed

\* What replaces the clause follows from the file.
LEMMA LeftFollows ==
  ASSUME InLcm, LEntailed, TrueLiteral \/ VivifyConflict \/ Tried
  PROVE  \E D : Leaves(D) /\ Entails(Input, SetOf(D))
<1>1. mode = "vivify"
  BY DEF TrueLiteral, VivifyConflict, Tried
<1>2. \A A \in Assignments : Models(A, Input) => Agrees(A) /\ Satisfies(A, clause.lits)
  BY <1>1, ModelsAgree
<1>3. CASE TrueLiteral
  <2>1. PICK l, S, D : /\ l = Head(clause.todo) /\ S = LitsOf(db[reason[Var(l)]]) \ {l}
                       /\ l \in clause.lits /\ IsTrue(l) /\ Leaves(D)
                       /\ SetOf(D) = (LitsKept \cap Back(S)) \cup {l} \/ SetOf(D) = LitsKept \cup {l}
    BY <1>3, TrueLiteralLeaves
  <2>2. ASSUME NEW A \in Assignments, Models(A, Input) PROVE Satisfies(A, SetOf(D))
    <3>1. Satisfies(A, (LitsKept \cap Back(S)) \cup {l})
      BY <1>1, <1>2, <2>1, <2>2, TrueFollows
    <3> QED BY <2>1, <3>1 DEF Satisfies
  <2> QED BY <2>1, <2>2 DEF Entails
<1>4. CASE VivifyConflict
  <2>1. PICK D : /\ Leaves(D)
                 /\ SetOf(D) = LitsKept \cap Back(LitsOf(db[confl])) \/ SetOf(D) = LitsKept
    BY <1>4, VivifyConflictLeaves
  <2>2. ASSUME NEW A \in Assignments, Models(A, Input) PROVE Satisfies(A, SetOf(D))
    <3>1. Satisfies(A, LitsKept \cap Back(LitsOf(db[confl])))
      BY <1>1, <1>2, <1>4, <2>2, ConflictFollows DEF VivifyConflict
    <3> QED BY <2>1, <3>1 DEF Satisfies
  <2> QED BY <2>1, <2>2 DEF Entails
<1>5. CASE Tried
  <2>1. PICK D : LitsToDo = {} /\ Leaves(D) /\ SetOf(D) = LitsKept
    BY <1>5, TriedLeaves
  <2>2. ASSUME NEW A \in Assignments, Models(A, Input) PROVE Satisfies(A, SetOf(D))
    BY <1>1, <1>2, <2>1, <2>2, TriedFollows
  <2> QED BY <2>1, <2>2 DEF Entails
<1> QED BY <1>3, <1>4, <1>5

-----------------------------------------------------------------------------
\* The search with vivification implements the rules too.  What the rules see of it, ...
LKept == {LitsOf(db[r]) : r \in DOMAIN db} \cup (IF mode = "vivify" THEN {clause.lits} ELSE {})
LLev  == [v \in Vars |-> IF \E l \in Known : Var(l) = v THEN level[v] ELSE 0]

LRulesStep == LRules!Next \/ UNCHANGED LRules!rulesVars

\* ... which is what they see of the search as long as no clause is vivified.
LEMMA SeenOutside ==
  ASSUME TypeOK, mode # "vivify"
  PROVE  /\ Known = TrueLits /\ LKept = Kept /\ LLev = Lev
         /\ LEntailed <=> Entailed
         /\ LStored <=> Stored
<1>1. Known = TrueLits
  BY DEF Known
<1>2. LKept = Kept
  BY DEF LKept, Kept
<1>3. LLev = Lev
  <2>1. \A v \in Vars : (\E l \in Known : Var(l) = v) <=> v \in DOMAIN level
    BY <1>1 DEF TypeOK
  <2> QED BY <2>1 DEF LLev, Lev
<1>4. LEntailed <=> Entailed
  BY <1>1 DEF LEntailed, Entailed
<1>5. ASSUME NEW i PROVE LStoredAt(i) <=> StoredAt(i)
  BY <1>1 DEF LStoredAt, StoredAt, IsTrue
<1> QED BY <1>1, <1>2, <1>3, <1>4, <1>5 DEF LStored, Stored

LEMMA SeenOutsideNext ==
  ASSUME TypeOK', mode' # "vivify"
  PROVE  /\ Known' = TrueLits' /\ LKept' = Kept' /\ LLev' = Lev'
         /\ LEntailed' <=> Entailed'
         /\ LStored' <=> Stored'
<1>1. Known' = TrueLits'
  BY DEF Known
<1>2. LKept' = Kept'
  BY DEF LKept, Kept
<1>3. LLev' = Lev'
  <2>1. \A v \in Vars : (\E l \in Known' : Var(l) = v) <=> v \in DOMAIN level'
    BY <1>1 DEF TypeOK
  <2> QED BY <2>1 DEF LLev, Lev
<1>4. LEntailed' <=> Entailed'
  BY <1>1 DEF LEntailed, Entailed
<1>5. ASSUME NEW i PROVE LStoredAt(i)' <=> StoredAt(i)'
  BY <1>1 DEF LStoredAt, StoredAt, IsTrue
<1> QED BY <1>1, <1>2, <1>3, <1>4, <1>5 DEF LStored, Stored

\* The rules mean the same by literals and clauses.
LEMMA LSameMeaning ==
  /\ LRules!Lits = Lits
  /\ \A x : LRules!Var(x) = Var(x) /\ LRules!Neg(x) = Neg(x)
  /\ \A F, C : LRules!Entails(F, C) <=> Entails(F, C)
  BY DEF LRules!Lits, Lits, LRules!Var, Var, LRules!Neg, Neg, LRules!Entails, Entails,
         LRules!Models, Models, LRules!Satisfies, Satisfies,
         LRules!Holds, Holds, LRules!Assignments, Assignments

LEMMA LSeenAs ==
  /\ LRules!Level = Len(Decided)
  /\ UNCHANGED <<Input, LKept, Known, LLev, Decided, status>> => LRulesStep
  BY DEF LRules!Level, LRules!rulesVars, LRulesStep, LKept, LLev, Decided

\* A step of the rules is one for both.
LEMMA RulesAgree ==
  ASSUME Known = TrueLits, LKept = Kept, LLev = Lev,
         Known' = TrueLits', LKept' = Kept', LLev' = Lev', RulesStep
  PROVE  LRulesStep
<1>1. CASE UNCHANGED Rules!rulesVars
  BY <1>1, LSeenAs DEF Rules!rulesVars, Kept, Lev, Decided
<1>2. CASE Rules!Forget
  <2>1. LRules!Forget
    BY <1>2 DEF Rules!Forget, LRules!Forget, Kept, Lev, LKept, LLev
  <2> QED BY <2>1 DEF LRulesStep, LRules!Next
<1>3. CASE Rules!Keep
  <2>1. LRules!Keep
    BY <1>3, SameMeaning, LSameMeaning DEF Rules!Keep, LRules!Keep, Kept, Lev, LKept, LLev
  <2> QED BY <2>1 DEF LRulesStep, LRules!Next
<1>4. CASE Rules!Fact
  <2>1. LRules!Fact
    BY <1>4, SameMeaning, LSameMeaning DEF Rules!Fact, LRules!Fact, Kept, Lev, LKept, LLev,
       Rules!Assign, LRules!Assign, Rules!Assigned, LRules!Assigned
  <2> QED BY <2>1 DEF LRulesStep, LRules!Next
<1>5. CASE Rules!Restart
  <2>1. LRules!Restart
    BY <1>5, SameMeaning, LSameMeaning DEF Rules!Restart, LRules!Restart, Kept, Lev, LKept, LLev,
       Rules!Below, LRules!Below
  <2> QED BY <2>1 DEF LRulesStep, LRules!Next
<1>6. CASE Rules!AnswerUnsat
  <2>1. LRules!AnswerUnsat
    BY <1>6, SameMeaning, LSameMeaning DEF Rules!AnswerUnsat, LRules!AnswerUnsat, Kept, Lev, LKept, LLev,
       Rules!Falsified, LRules!Falsified
  <2> QED BY <2>1 DEF LRulesStep, LRules!Next
<1>7. CASE Rules!AnswerSat
  <2>1. LRules!AnswerSat
    BY <1>7 DEF Rules!AnswerSat, LRules!AnswerSat, Kept, Lev, LKept, LLev
  <2> QED BY <2>1 DEF LRulesStep, LRules!Next
<1>8. ASSUME NEW k \in 0 .. Rules!Level, Rules!Learn(k) PROVE LRulesStep
  <2>1. Rules!Below(k) = LRules!Below(k)
    BY SameMeaning, LSameMeaning DEF Rules!Below, LRules!Below, Lev, LLev
  <2>2. Rules!FalseBelow(k) = LRules!FalseBelow(k)
    BY <2>1, SameMeaning, LSameMeaning DEF Rules!FalseBelow, LRules!FalseBelow
  <2>3. /\ Rules!Level = LRules!Level /\ status = "none" /\ k < Rules!Level
        /\ Decided' = SubSeq(Decided, 1, k)
        /\ UNCHANGED <<Input, status>>
    BY <1>8 DEF Rules!Learn, Rules!Level, LRules!Level, Decided
  <2>4. PICK l \in Lits, F \in SUBSET Rules!FalseBelow(k) : Rules!LearnClause(l, F, k)
    BY <1>8, SameMeaning DEF Rules!Learn
  <2>5. LRules!LearnClause(l, F, k)
    BY <2>1, <2>4, SameMeaning, LSameMeaning
    DEF Rules!LearnClause, LRules!LearnClause, Kept, Lev, LKept, LLev
  <2>6. LRules!Learn(k)
    BY <2>2, <2>3, <2>4, <2>5, LSameMeaning DEF LRules!Learn, Decided
  <2> QED BY <1>8, <2>3, <2>6 DEF LRulesStep, LRules!Next
<1>9. ASSUME NEW l \in Rules!Lits, Rules!Decide(l) PROVE LRulesStep
  <2>1. LRules!Decide(l)
    BY <1>9, SameMeaning, LSameMeaning DEF Rules!Decide, LRules!Decide, Kept, Lev, LKept, LLev,
       Rules!Assign, LRules!Assign, Rules!Assigned, LRules!Assigned, Rules!Level, LRules!Level
  <2> QED BY <1>9, <2>1, SameMeaning, LSameMeaning DEF LRulesStep, LRules!Next
<1>10. ASSUME NEW C \in Kept \cup Input, NEW l \in C, Rules!Propagate(l, C) PROVE LRulesStep
  <2>1. LRules!Propagate(l, C)
    BY <1>10, SameMeaning, LSameMeaning DEF Rules!Propagate, LRules!Propagate, Kept, Lev, LKept, LLev,
       Rules!Assign, LRules!Assign, Rules!Assigned, LRules!Assigned, Rules!Level, LRules!Level,
       Rules!UnitIn, LRules!UnitIn, Rules!Falsified, LRules!Falsified
  <2> QED BY <1>10, <2>1 DEF LRulesStep, LRules!Next, LKept
<1> QED BY <1>1, <1>2, <1>3, <1>4, <1>5, <1>6, <1>7, <1>8, <1>9, <1>10 DEF RulesStep, Rules!Next, Kept

\* What the steps of vivification are to the rules: a clause gives way to a part of it, ...
LEMMA StepShortens ==
  ASSUME status = "none", Decided = <<>>, UNCHANGED <<Input, Known, LLev, Decided, status>>,
         NEW X, NEW D \in SUBSET Lits, NEW C \in SUBSET D, LKept = X \cup {D}, LKept' = X \cup {C},
         Entails(Input, C)
  PROVE  LRulesStep
<1>1. /\ D \in Input \cup LKept
      /\ LKept' \in {LKept \cup {C}, (LKept \ {D}) \cup {C}}
  OBVIOUS
<1>2. Entails(Input \cup LKept, C)
  BY EntailsMore
<1>3. LRules!Keep
  BY <1>1, <1>2, LSameMeaning DEF LRules!Keep, LKept, LLev, Decided
<1> QED BY <1>3 DEF LRulesStep, LRules!Next

\* ... or to a fact.
LEMMA StepToFact ==
  ASSUME status = "none", Decided = <<>>, UNCHANGED <<Input, Decided, status>>,
         NEW X, NEW D \in SUBSET Lits, NEW l \in D, LKept = X \cup {D}, LKept' = X,
         \A m \in Known : Var(m) # Var(l),
         Known' = Known \cup {l}, LLev' = [LLev EXCEPT ![Var(l)] = 0],
         Entails(Input, {l})
  PROVE  LRulesStep
<1>1. D \in LKept /\ LKept' \in {LKept, LKept \ {D}}
  OBVIOUS
<1>2. Entails(Input \cup LKept, {l})
  BY EntailsMore
<1>3. LRules!Assign(l, 0) /\ ~LRules!Assigned(Var(l))
  BY LSameMeaning DEF LRules!Assign, LRules!Assigned, LLev
<1>4. LRules!Fact
  BY <1>1, <1>2, <1>3, LSameMeaning DEF LRules!Fact, LKept, Decided
<1> QED BY <1>4 DEF LRulesStep, LRules!Next

\* All this happens at level 0.
LEMMA ZeroSeen ==
  ASSUME TypeOK, DecisionLevel = 0, Known \subseteq TrueLits
  PROVE  /\ Decided = <<>>
         /\ LLev = [v \in Vars |-> 0]
         /\ \A l \in Known : LevelOf(l) = 0
<1>1. \A v \in DOMAIN level : level[v] = 0
  BY DEF TypeOK
<1>2. \A l \in Known : Var(l) \in DOMAIN level
  BY DEF TypeOK
<1>3. \A v \in Vars : (\E l \in Known : Var(l) = v) => level[v] = 0
  BY <1>1, <1>2
<1> QED BY <1>1, <1>2, <1>3 DEF Decided, LLev, LevelOf

LEMMA ZeroSeenNext ==
  ASSUME TypeOK', DecisionLevel' = 0, Known' \subseteq TrueLits'
  PROVE  /\ Decided' = <<>>
         /\ LLev' = [v \in Vars |-> 0]
         /\ \A l \in Known' : level'[Var(l)] = 0
<1>1. \A v \in DOMAIN level' : level'[v] = 0
  BY DEF TypeOK
<1>2. \A l \in Known' : Var(l) \in DOMAIN level'
  BY DEF TypeOK
<1>3. \A v \in Vars : (\E l \in Known' : Var(l) = v) => level'[v] = 0
  BY <1>1, <1>2
<1> QED BY <1>1, <1>2, <1>3 DEF Decided, LLev, LevelOf

\* The search's answers rest on the same.
LEMMA Outside ==
  ASSUME InLRules, mode # "vivify"
  PROVE  InRules
<1>1. InSearch /\ TypeOK
  BY InLcmIs DEF InLRules
<1> QED BY <1>1, SeenOutside DEF InLRules, InRules

LEMMA OutsideStep ==
  ASSUME InLRules, mode # "vivify", mode' # "vivify", InLcm', (toVisit \subseteq Learnts)',
         RulesStep, Sure', AnswerRight'
  PROVE  LRulesStep /\ InLRules'
<1>1. TypeOK /\ TypeOK'
  BY DEF InLRules, InLcm, LTypeOK
<1>2. LRulesStep
  BY <1>1, SeenOutside, SeenOutsideNext, RulesAgree
<1>3. InLRules'
  BY <1>1, SeenOutsideNext DEF InLRules, Sure
<1> QED BY <1>2, <1>3

\* The lists of learnt clauses.
LEMMA VisitsLearnts ==
  ASSUME InLRules, [LNext]_allVars
  PROVE  toVisit' \subseteq Learnts'
<1>1. /\ InLcm /\ InSearch /\ toVisit \subseteq Learnts
      /\ (mode = "search" /\ pc # "done" => toVisit = {})
  BY InLcmIs DEF InLRules
<1>2. ASSUME toVisit' \subseteq toVisit, UNCHANGED db PROVE toVisit' \subseteq Learnts'
  BY <1>1, <1>2 DEF Learnts
<1>3. CASE CallSearch \/ ReduceAndAsk \/ Searching
  <2>1. mode = "search" /\ UNCHANGED toVisit
    BY <1>3 DEF CallSearch, ReduceAndAsk, Searching, lcmVars
  <2>2. CASE pc # "done"
    BY <1>1, <2>1, <2>2
  <2>3. CASE pc = "done"
    <3>1. Done
      BY <1>3, <2>3 DEF CallSearch, ReduceAndAsk, Searching, Solve, Restart, Adapt, ReduceDB,
                        AddClause, ConflictAtZero, Conflict, Simplify, Decide, ModelFound
    <3> QED BY <1>2, <2>1, <3>1 DEF Done, vars
  <2> QED BY <2>2, <2>3
<1>4. CASE Propagating
  <2>1. UNCHANGED toVisit /\ SameClauses
    BY <1>1, <1>4, PropagationStep DEF Propagating, lcmVars, Propagates
  <2> QED BY <1>1, <2>1 DEF SameClauses, Learnts
<1>5. CASE EnterLcm
  <2>1. PICK S : toVisit' \subseteq Learnts /\ S \cap Learnts = {} /\ db' = Only(db, DOMAIN db \ S)
    BY <1>5 DEF EnterLcm, RemoveClauses
  <2> QED BY <2>1 DEF Only, Learnts
<1>6. CASE LcmUnsat \/ LeaveLcm \/ Assume \/ UNCHANGED allVars
  BY <1>2, <1>6 DEF LcmUnsat, LeaveLcm, Assume, allVars, lcmVars, vars
<1>7. ASSUME NEW r \in Refs, NextLearnt(r) PROVE toVisit' \subseteq Learnts'
  <2>1. r \in DOMAIN db /\ toVisit' = toVisit \ {r}
    BY <1>1, <1>7 DEF NextLearnt, Others, Learnts
  <2>2. CASE db' = [db EXCEPT ![r] = NoFalse(@)]
    BY <1>1, <2>1, <2>2 DEF Learnts
  <2>3. CASE db' = Only(db, DOMAIN db \ {r})
    BY <1>1, <2>1, <2>3 DEF Learnts, Only
  <2> QED BY <1>7, <2>2, <2>3 DEF NextLearnt, RemoveClauses
<1>8. CASE TrueLiteral \/ VivifyConflict \/ Tried
  <2>1. PICK D : Leaves(D)
    BY <1>1, <1>8, TrueLiteralLeaves, VivifyConflictLeaves, TriedLeaves
  <2>2. UNCHANGED toVisit /\ Replaces(D) /\ clause.ref \notin DOMAIN db
    BY <1>1, <2>1, ReplaceKeeps, Vivid DEF Leaves, Replace
  <2> QED BY <1>1, <2>2 DEF Replaces, Learnts
<1> QED BY <1>3, <1>4, <1>5, <1>6, <1>7, <1>8 DEF LNext

\* The steps of the search itself.
LEMMA SearchAnswers ==
  ASSUME InLRules, [Next]_vars, mode # "vivify", mode' # "vivify", InLcm',
         (toVisit \subseteq Learnts)'
  PROVE  LRulesStep /\ InLRules'
<1>1. InRules
  BY Outside
<1>2. RulesStep /\ InRules'
  BY <1>1, RulesKept, NextAnswers, StutterAnswers
<1> QED BY <1>2, OutsideStep DEF InRules, Sure

\* Propagation and assumptions, behind the facts.
LEMMA BehindAnswers ==
  ASSUME InLRules, mode = "vivify", mode' = "vivify", InLcm', (toVisit \subseteq Learnts)',
         clause'.lits = clause.lits, Facts0' = Facts0, SameClauses,
         UNCHANGED <<input, nextClause, trailLim, status>>
  PROVE  LRulesStep /\ InLRules'
<1>1. /\ InLcm /\ LEntailed /\ LStored /\ TypeOK /\ TypeOK' /\ DecisionLevel = 0
      /\ Known = Facts0 /\ Known' = Facts0 /\ Known \subseteq TrueLits
      /\ pc # "done" /\ status = "none"
  BY Vivid DEF InLRules, InLcm, LTypeOK, Known, Facts0, Prefix, Undecided
<1>2. pc' # "done" /\ Known' \subseteq TrueLits'
  <2>1. /\ (mode # "search" => pc \in {"propagate", "conflict", "decide"})'
        /\ (trailRecord \in 0 .. Len(trail))' /\ (Len(trail) \in Nat)'
    BY <1>1 DEF InLcm, Resting, LTypeOK, TypeOK
  <2>2. pc' # "done"
    BY <2>1
  <2>3. trailRecord' \in 0 .. Len(trail') /\ Len(trail') \in Nat
    BY <2>1
  <2>4. Facts0' \subseteq TrueLits'
    BY <2>3 DEF Facts0, Prefix, TrueLits
  <2> QED BY <1>1, <2>2, <2>4
<1>3. DecisionLevel' = 0
  BY <1>1 DEF DecisionLevel
<1>4. /\ UNCHANGED <<Input, Known, LLev, Decided>>
      /\ \A l \in Known : LevelOf(l) = 0 /\ level'[Var(l)] = 0
  BY <1>1, <1>2, <1>3, ZeroSeen, ZeroSeenNext DEF Input
<1>5. UNCHANGED LKept
  BY SameKept DEF LKept, Kept
<1>6. LRulesStep
  BY <1>4, <1>5, LSeenAs
<1>7. LEntailed'
  BY <1>1, <1>4 DEF LEntailed, SameClauses, LevelOf
<1>8. LStored'
  <2>1. ASSUME NEW i, LStoredAt(i) PROVE LStoredAt(i)'
    BY <1>4, <2>1 DEF LStoredAt, SameClauses, LevelOf
  <2> QED BY <1>1, <2>1 DEF LStored
<1> QED BY <1>1, <1>2, <1>6, <1>7, <1>8 DEF InLRules, Undecided, AnswerRight

\* Clauses are removed before the first clause is visited, ...
LEMMA EnterAnswers ==
  ASSUME InLRules, EnterLcm, InLcm', (toVisit \subseteq Learnts)'
  PROVE  LRulesStep /\ InLRules'
<1>1. /\ mode = "enter" /\ mode' = "each" /\ pc = "decide" /\ pc' = "decide"
      /\ UNCHANGED <<input, nextClause, trail, trailLim, level, status>>
  BY DEF EnterLcm
<1>2. InRules /\ InSearch /\ DecisionLevel = 0
  BY <1>1, Outside, InLcmIs DEF InLRules
<1>3. FewerClauses
  <2>1. PICK S : /\ \A r \in S : r \in DOMAIN db /\ \E l \in LitsOf(db[r]) : IsTrue(l)
                 /\ db' = Only(db, DOMAIN db \ S)
    BY DEF EnterLcm, RemoveClauses
  <2>2. \A r \in DOMAIN db : \A l \in LitsOf(db[r]) : IsTrue(l) => LevelOf(l) = 0
    BY <1>1, <1>2, DoneAtZero
  <2> QED BY <2>1, <2>2 DEF FewerClauses, Only
<1>4. RulesStep /\ Sure'
  BY <1>1, <1>2, <1>3, RemoveAnswers
<1>5. AnswerRight'
  BY <1>1, <1>2 DEF InRules, Undecided, AnswerRight
<1> QED BY <1>1, <1>4, <1>5, OutsideStep

\* A set with another member.
LEMMA OneElse ==
  ASSUME NEW r \in DOMAIN db
  PROVE  Kept = {LitsOf(db[q]) : q \in DOMAIN db \ {r}} \cup {LitsOf(db[r])}
  BY DEF Kept

\* ... and afterwards; a clause may lose its false literals, or be taken out to be vivified.
LEMMA NextLearntAnswers ==
  ASSUME InLRules, NEW r, NextLearnt(r), InLcm', (toVisit \subseteq Learnts)'
  PROVE  LRulesStep /\ InLRules'
<1>1. /\ mode = "each" /\ pc = "decide" /\ pc' = "decide" /\ r \in toVisit
      /\ UNCHANGED <<input, nextClause, trail, trailLim, level, status>>
  BY DEF NextLearnt
<1>2. /\ InRules /\ InSearch /\ TypeOK /\ DecisionLevel = 0 /\ DecisionLevel' = 0 /\ Entailed /\ Stored
      /\ r \in DOMAIN db /\ db[r].learnt /\ status = "none"
      /\ Known = TrueLits /\ LKept = Kept
  BY <1>1, Outside, InLcmIs, SeenOutside DEF InLRules, Learnts, DecisionLevel, Undecided, InRules
<1>3. AnswerRight' /\ Undecided'
  BY <1>1, <1>2 DEF AnswerRight, Undecided
<1>4. PICK X : X = {LitsOf(db[q]) : q \in DOMAIN db \ {r}}
  OBVIOUS
<1>5. Kept = X \cup {LitsOf(db[r])} /\ LitsOf(db[r]) \in SUBSET Lits /\ Entails(Input, LitsOf(db[r]))
  BY <1>1, <1>2, <1>4, OneElse, KeptFollows, DoneAtZero
<1>6. CASE UNCHANGED mode /\ \E first : RemoveClauses({r}, first, DOMAIN reason)
  <2>1. FewerClauses
    BY <1>2, <1>6 DEF RemoveClauses, FewerClauses, Only
  <2>2. RulesStep /\ Sure'
    BY <1>1, <1>2, <2>1, RemoveAnswers
  <2> QED BY <1>1, <1>3, <1>6, <2>2, OutsideStep
<1>7. ASSUME ~\E l \in LitsOf(db[r]) : IsTrue(l),
             NEW d, d = NoFalse(db[r])
      PROVE  LitsOf(d) \in SUBSET LitsOf(db[r]) /\ Entails(Input, LitsOf(d)) /\ d.learnt
  <2>1. /\ LitsOf(d) \in SUBSET LitsOf(db[r]) /\ d.learnt
        /\ \A l \in LitsOf(db[r]) \ LitsOf(d) : IsFalse(l)
    BY <1>1, <1>2, <1>7, Thinned
  <2>2. \A l \in LitsOf(db[r]) \ LitsOf(d) : LevelOf(l) = 0
    BY <1>1, <1>2, <1>5, <2>1, DoneAtZero
  <2> QED BY <1>2, <1>5, <2>1, <2>2, Trimmed
<1>8. CASE /\ ~\E l \in LitsOf(db[r]) : IsTrue(l)
           /\ db' = [db EXCEPT ![r] = NoFalse(@)]
           /\ UNCHANGED mode
  <2>1. PICK d : d = NoFalse(db[r])
    OBVIOUS
  <2>2. LitsOf(d) \in SUBSET LitsOf(db[r]) /\ Entails(Input, LitsOf(d)) /\ d.learnt
    BY <1>7, <1>8, <2>1
  <2>3. db' = [db EXCEPT ![r] = d]
    BY <1>8, <2>1
  <2>4. FactsStay /\ NewFacts({})
    BY <1>1, Facts
  <2>5. Entailed'
    <3>1. \A q \in DOMAIN db' : \/ \E p \in DOMAIN db : LitsOf(db'[q]) = LitsOf(db[p])
                                \/ Entails(Input, LitsOf(db'[q]))
      BY <2>2, <2>3
    <3> QED BY <1>1, <1>2, <2>4, <3>1, EntailedStep
  <2>6. Stored'
    BY <1>1, <1>2, <2>3, <2>4, StoredStep
  <2>7. Kept' = X \cup {LitsOf(d)}
    BY <1>2, <1>4, <2>3 DEF Kept
  <2>8. mode' # "vivify" /\ TypeOK'
    BY <1>1, <1>8 DEF InLcm, LTypeOK
  <2>9. LKept' = Kept' /\ Known' = TrueLits' /\ TrueLits' = TrueLits
    BY <1>1, <2>8, SeenOutsideNext DEF TrueLits
  <2>10. UNCHANGED <<Input, Known, LLev, Decided, status>> /\ Decided = <<>>
    BY <1>1, <1>2, <2>8, <2>9, ZeroSeen, ZeroSeenNext DEF Input
  <2>11. LRulesStep
    BY <1>2, <1>5, <2>2, <2>7, <2>9, <2>10, StepShortens
  <2>12. InLRules'
    BY <1>3, <2>5, <2>6, <2>8, SeenOutsideNext DEF InLRules
  <2> QED BY <2>11, <2>12
<1>9. CASE /\ ~\E l \in LitsOf(db[r]) : IsTrue(l)
           /\ db' = Only(db, DOMAIN db \ {r})
           /\ mode' = "vivify"
           /\ LET c == NoFalse(db[r]) IN
                \E s \in SetToSeqs(c.rest) :
                  clause' = [ref |-> r, lits |-> LitsOf(c), todo |-> c.w \o s, kept |-> <<>>]
           /\ trailRecord' = Len(trail)
  <2>1. PICK d : d = NoFalse(db[r])
    OBVIOUS
  <2>2. LitsOf(d) \in SUBSET LitsOf(db[r]) /\ Entails(Input, LitsOf(d))
    BY <1>7, <1>9, <2>1
  <2>3. clause'.lits = LitsOf(d)
    BY <1>9, <2>1
  <2>4. DOMAIN db' = DOMAIN db \ {r} /\ \A q \in DOMAIN db' : q \in DOMAIN db /\ db'[q] = db[q]
    BY <1>9 DEF Only
  <2>5. Known' = TrueLits /\ TrueLits' = TrueLits
    BY <1>1, <1>9 DEF Known, TrueLits
  <2>6. LKept' = X \cup {LitsOf(d)}
    BY <1>4, <1>9, <2>3, <2>4 DEF LKept
  <2>7. TypeOK'
    BY DEF InLcm, LTypeOK
  <2>8. UNCHANGED <<Input, Known, LLev, Decided, status>> /\ Decided = <<>>
    BY <1>1, <1>2, <2>5, <2>7, ZeroSeen, ZeroSeenNext DEF Input
  <2>9. LRulesStep
    BY <1>2, <1>5, <2>2, <2>6, <2>8, StepShortens
  <2>10. LEntailed'
    <3> SUFFICES ASSUME NEW A \in Assignments, Models(A, Input)
                 PROVE  /\ \A q \in DOMAIN db' : Satisfies(A, LitsOf(db'[q]))
                        /\ Satisfies(A, clause'.lits)
                        /\ \A l \in TrueLits : level[Var(l)] = 0 => Holds(A, l)
      BY <1>1, <2>5, <2>8 DEF LEntailed, LevelOf
    <3>1. Satisfies(A, clause'.lits)
      BY <2>2, <2>3 DEF Entails
    <3> QED BY <1>2, <2>4, <3>1 DEF Entailed, LevelOf
  <2>11. LStored'
    <3>1. ASSUME NEW i, StoredAt(i) PROVE LStoredAt(i)'
      <4>1. ASSUME NEW q \in DOMAIN db, ~db[q].learnt PROVE q \in DOMAIN db' /\ db'[q] = db[q]
        BY <1>2, <2>4, <4>1
      <4> QED BY <1>1, <2>5, <3>1, <4>1 DEF StoredAt, LStoredAt, IsTrue, LevelOf
    <3> QED BY <1>1, <1>2, <3>1 DEF Stored, LStored
  <2> QED BY <1>3, <2>9, <2>10, <2>11 DEF InLRules
<1> QED BY <1>6, <1>8, <1>9 DEF NextLearnt

\* What is left of a vivified clause is attached, or becomes a fact.
LEMMA ReplaceAnswers ==
  ASSUME InLRules, NEW D, Leaves(D), Entails(Input, SetOf(D)), InLcm', (toVisit \subseteq Learnts)'
  PROVE  LRulesStep /\ InLRules'
<1>1. /\ mode = "vivify" /\ Shortened(D) /\ Replace(D) /\ mode' = "each" /\ pc' # "done"
      /\ UNCHANGED <<input, nextClause, trailLim, status>>
  BY DEF Leaves, Replace
<1>2. /\ InLcm /\ LEntailed /\ LStored /\ TypeOK /\ TypeOK' /\ DecisionLevel = 0 /\ DecisionLevel' = 0
      /\ Known = Facts0 /\ Known \subseteq TrueLits /\ Facts0 \subseteq Lits
      /\ ClauseOK /\ clause.ref \notin DOMAIN db /\ clause.lits \in SUBSET Lits
      /\ nextClause > Len(input) /\ pc # "done" /\ status = "none" /\ Replaces(D)
  <2>1. Facts0 \subseteq Lits
    BY <1>1, Vivid DEF InLRules, Facts0
  <2> QED BY <1>1, <2>1, Vivid, ReplaceKeeps
          DEF InLRules, InLcm, LTypeOK, Known, Facts0, Prefix, Undecided, Replaces
<1>3. Known' = TrueLits' /\ LKept' = Kept' /\ Known' \subseteq TrueLits'
  BY <1>1, <1>2, SeenOutsideNext
<1>4. /\ UNCHANGED <<Input, LLev, Decided, status>> /\ Decided = <<>>
      /\ LLev = [v \in Vars |-> 0]
      /\ \A l \in Known : LevelOf(l) = 0
      /\ \A l \in Known' : level'[Var(l)] = 0
  BY <1>1, <1>2, <1>3, ZeroSeen, ZeroSeenNext DEF Input
<1>5. LKept = Kept \cup {clause.lits}
  BY <1>1 DEF LKept, Kept
<1>6. \A l \in SetOf(D) : l \in clause.lits
  BY <1>1 DEF Shortened, SetOf
<1>7. AnswerRight' /\ Undecided'
  BY <1>1, <1>2 DEF AnswerRight, Undecided
<1>8. ASSUME Len(D) = 1
      PROVE  /\ LRulesStep
             /\ Known' = Known \cup {D[1]} /\ db' = db /\ Entails(Input, {D[1]})
  <2>1. /\ SetOf(D) = {D[1]} /\ D[1] \in clause.lits
    BY <1>6, <1>8 DEF SetOf
  <2>2. Known' = Known \cup {D[1]} /\ db' = db /\ Kept' = Kept
    BY <1>2, <1>3, <1>8 DEF Replaces, Kept
  <2>3. \A m \in Known : Var(m) # Var(D[1])
    BY <1>2, <2>1, SameVar DEF ClauseOK
  <2>4. LLev' = [LLev EXCEPT ![Var(D[1])] = 0]
    BY <1>4
  <2>5. Entails(Input, {D[1]}) /\ D[1] \in SetOf(D) /\ D[1] \in clause.lits
    BY <2>1
  <2>6. PICK m, C : m = D[1] /\ C = clause.lits
    OBVIOUS
  <2>7. /\ status = "none" /\ Decided = <<>> /\ UNCHANGED <<Input, Decided, status>>
        /\ C \in SUBSET Lits /\ m \in C /\ LKept = Kept \cup {C} /\ LKept' = Kept
        /\ \A n \in Known : Var(n) # Var(m)
        /\ Known' = Known \cup {m} /\ LLev' = [LLev EXCEPT ![Var(m)] = 0]
        /\ Entails(Input, {m})
    BY <1>2, <1>3, <1>4, <1>5, <2>2, <2>3, <2>4, <2>5, <2>6
  <2>8. LRulesStep
    BY <2>7, StepToFact
  <2> QED BY <2>2, <2>5, <2>8
<1>9. ASSUME Len(D) # 1
      PROVE  /\ LRulesStep
             /\ Known' = Known
             /\ \A q \in DOMAIN db : q \in DOMAIN db' /\ db'[q] = db[q]
             /\ \A q \in DOMAIN db' : q \in DOMAIN db \/ LitsOf(db'[q]) = SetOf(D)
  <2>1. /\ TrueLits' = Facts0
        /\ DOMAIN db' = DOMAIN db \cup {clause.ref}
        /\ LitsOf(db'[clause.ref]) = SetOf(D)
        /\ \A q \in DOMAIN db : db'[q] = db[q]
    BY <1>2, <1>9 DEF Replaces
  <2>2. Kept' = Kept \cup {SetOf(D)}
    BY <1>2, <2>1 DEF Kept
  <2>3. SetOf(D) \in SUBSET clause.lits /\ UNCHANGED Known
    BY <1>2, <1>3, <1>6, <2>1
  <2> QED BY <1>2, <1>3, <1>4, <1>5, <2>1, <2>2, <2>3, StepShortens
<1>10. LEntailed'
  <2> SUFFICES ASSUME NEW A \in Assignments, Models(A, Input)
               PROVE  /\ \A q \in DOMAIN db' : Satisfies(A, LitsOf(db'[q]))
                      /\ \A l \in Known' : Holds(A, l)
    BY <1>1, <1>4 DEF LEntailed
  <2>1. /\ \A q \in DOMAIN db : Satisfies(A, LitsOf(db[q]))
        /\ \A l \in Known : Holds(A, l)
        /\ Satisfies(A, SetOf(D))
    BY <1>2, <1>4 DEF LEntailed, Entails
  <2>2. CASE Len(D) = 1
    <3>1. Holds(A, D[1])
      BY <1>8, <2>2 DEF Entails, Satisfies
    <3> QED BY <1>8, <2>1, <2>2, <3>1
  <2>3. CASE Len(D) # 1
    <3> QED BY <1>9, <2>1, <2>3
  <2> QED BY <2>2, <2>3
<1>11. LStored'
  <2>1. /\ \A q \in DOMAIN db : q \in DOMAIN db' /\ db'[q] = db[q]
        /\ Known \subseteq Known'
    BY <1>8, <1>9
  <2>2. ASSUME NEW i, LStoredAt(i) PROVE LStoredAt(i)'
    BY <1>1, <1>4, <2>1, <2>2 DEF LStoredAt, LevelOf
  <2> QED BY <1>1, <1>2, <2>2 DEF LStored
<1> QED BY <1>7, <1>8, <1>9, <1>10, <1>11 DEF InLRules

-----------------------------------------------------------------------------
LEMMA LNextAnswers ==
  ASSUME InLRules, [LNext]_allVars
  PROVE  LRulesStep /\ InLRules'
<1>1. /\ InLcm /\ InSearch /\ InLcm' /\ (toVisit \subseteq Learnts)' /\ LEntailed
      /\ (mode # "search" => DecisionLevel = 0)
  BY LNextKeeps, VisitsLearnts, InLcmIs DEF InLRules
<1>2. ASSUME [Next]_vars, mode # "vivify", mode' # "vivify" PROVE LRulesStep /\ InLRules'
  BY <1>1, <1>2, SearchAnswers
<1>3. CASE CallSearch \/ ReduceAndAsk \/ Searching
  BY <1>2, <1>3 DEF CallSearch, ReduceAndAsk, Searching, lcmVars, Next
<1>4. CASE Propagating
  <2>1. /\ Dequeue \/ \E r \in Refs : VisitBinary(r) \/ VisitLong(r)
        /\ UNCHANGED <<mode, clause, trailRecord>>
    BY <1>4 DEF Propagating, lcmVars
  <2>2. CASE mode # "vivify"
    BY <1>2, <2>1, <2>2 DEF Next
  <2>3. CASE mode = "vivify"
    <3>1. PICK r : Propagates(r)
      BY <1>1, <2>1, PropagationStep
    <3>2. \A i \in Prefix : i \in Places /\ trail'[i] = trail[i]
      <4>1. \A i \in Places : trail'[i] = trail[i]
        BY <3>1 DEF Propagates, Implies, Grows
      <4> QED BY <1>1, <2>3, <4>1, Vivid
    <3>3. Facts0' = Facts0
      BY <2>1, <3>2 DEF Facts0, Prefix
    <3> QED BY <1>1, <2>1, <2>3, <3>1, <3>3, BehindAnswers DEF Propagates
  <2> QED BY <2>2, <2>3
<1>5. CASE EnterLcm
  BY <1>1, <1>5, EnterAnswers
<1>6. CASE LcmUnsat
  <2>1. ConflictAtZero /\ mode # "vivify" /\ mode' # "vivify"
    BY <1>1, <1>6 DEF LcmUnsat, ConflictAtZero
  <2> QED BY <1>2, <2>1 DEF Next
<1>7. CASE LeaveLcm
  BY <1>2, <1>7 DEF LeaveLcm
<1>8. ASSUME NEW r \in Refs, NextLearnt(r) PROVE LRulesStep /\ InLRules'
  BY <1>1, <1>8, NextLearntAnswers
<1>9. CASE Assume
  <2>1. /\ mode = "vivify" /\ UNCHANGED <<input, nextClause, db, trailLim, status, mode, trailRecord>>
        /\ clause'.lits = clause.lits
        /\ trail' = trail \/ \E l : trail' = Append(trail, l)
    <3>1. PICK l : \/ UncheckedEnqueue(l, Undef)
                   \/ UNCHANGED trail
      BY <1>9 DEF Assume
    <3>2. clause \in [ref : Refs \ DOMAIN db, lits : SUBSET Lits, todo : Seq(Lits), kept : Seq(Lits)]
      BY <1>1, <1>9, Vivid DEF Assume
    <3> QED BY <1>9, <3>1, <3>2 DEF Assume, UncheckedEnqueue
  <2>2. \A i \in Prefix : trail'[i] = trail[i]
    <3>1. /\ Prefix \subseteq 1 .. Len(trail) /\ trail \in Seq(Lits)
      BY <1>1, <2>1, Vivid DEF Places, TypeOK
    <3> QED BY <2>1, <3>1
  <2>3. Facts0' = Facts0
    BY <2>1, <2>2 DEF Facts0, Prefix
  <2>4. SameClauses
    BY <2>1 DEF SameClauses
  <2> QED BY <1>1, <2>1, <2>3, <2>4, BehindAnswers
<1>10. CASE TrueLiteral \/ VivifyConflict \/ Tried
  <2>1. PICK D : Leaves(D) /\ Entails(Input, SetOf(D))
    BY <1>1, <1>10, LeftFollows
  <2> QED BY <1>1, <2>1, ReplaceAnswers
<1>11. CASE UNCHANGED allVars
  <2>1. UNCHANGED vars /\ UNCHANGED lcmVars
    BY <1>11 DEF allVars
  <2>2. UNCHANGED <<mode, clause, trailRecord>>
    BY <2>1 DEF lcmVars
  <2>3. CASE mode # "vivify"
    BY <1>2, <2>1, <2>2, <2>3
  <2>4. CASE mode = "vivify"
    <3>1. SameClauses /\ Facts0' = Facts0 /\ UNCHANGED <<input, nextClause, trailLim, status>>
      BY <2>1, <2>2 DEF vars, SameClauses, Facts0, Prefix
    <3> QED BY <1>1, <2>2, <2>4, <3>1, BehindAnswers
  <2> QED BY <2>3, <2>4
<1> QED BY <1>3, <1>4, <1>5, <1>6, <1>7, <1>8, <1>9, <1>10, <1>11 DEF LNext

LEMMA LInitAnswers ==
  ASSUME LInit
  PROVE  InLRules /\ LRules!Init
<1>1. Init /\ mode = "search" /\ toVisit = {}
  BY DEF LInit
<1>2. InLcm /\ InRules
  BY <1>1, LInitHolds, InitAnswers
<1>3. TypeOK /\ mode # "vivify"
  BY <1>1, <1>2 DEF InLcm, LTypeOK
<1>4. InLRules
  BY <1>1, <1>2, <1>3, SeenOutside DEF InLRules, InRules
<1>5. /\ status = "none" /\ DOMAIN db = {} /\ TrueLits = {} /\ DecisionLevel = 0 /\ DOMAIN level = {}
      /\ input \in Formulas
  BY <1>1 DEF Init, TrueLits, DecisionLevel
<1>6. LKept = {} /\ LLev = [v \in Vars |-> 0] /\ Decided = <<>> /\ Known = {}
  BY <1>3, <1>5, SeenOutside DEF Kept, Lev, Decided
<1>7. Input \in {{F[i] : i \in 1 .. Len(F)} : F \in Formulas}
  BY <1>5 DEF Input
<1>8. LRules!Init
  BY <1>5, <1>6, <1>7 DEF LRules!Init, LKept, LLev, Decided
<1> QED BY <1>4, <1>8

\* All that the answers rest on holds, whatever is vivified.
THEOREM VivificationJustified == LSpec => []InLRules
<1>1. LInit => InLRules
  BY LInitAnswers
<1>2. InLRules /\ [LNext]_allVars => InLRules'
  BY LNextAnswers
<1> QED BY <1>1, <1>2, PTL DEF LSpec

\* The search with vivification implements the rules of CDCL: what is left of a clause
\* when literals were assumed false follows from the clauses and the facts, and the assumptions,
\* which lie on the trail like facts, are never taken for facts.
THEOREM VivificationImplemented == LSpec => LImplementsRules
<1>1. LInit => LRules!Init
  BY LInitAnswers
<1>2. InLRules /\ [LNext]_allVars => [LRules!Next]_(LRules!rulesVars)
  BY LNextAnswers DEF LRulesStep
<1> QED BY <1>1, <1>2, VivificationJustified, PTL DEF LSpec, LImplementsRules, LRules!Spec

\* With vivification too, the solver answers SAT only of files that have a model, and
\* UNSAT only of files that have none.
THEOREM VivificationSound == LSpec => []AnswerRight
<1>1. InLRules => AnswerRight
  BY DEF InLRules
<1> QED BY <1>1, VivificationJustified, PTL
================================================================================

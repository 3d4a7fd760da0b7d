-------------------------- MODULE MultiSolvers_proofs --------------------------
(***************************************************************************)
(* A parallel run answers rightly, for any number of threads, any formula  *)
(* and any interleaving.  What the threads know and exchange holds in      *)
(* every model of the formula (Known), so a thread that finishes is right  *)
(* (Verdicts); the first to finish leaves its answer before it exits (Job),*)
(* and the main thread reads it after all have exited (Collected).         *)
(***************************************************************************)
EXTENDS MultiSolvers, TLAPS

PCs == {"created", "between", "importUnits", "importClauses", "propagate", "search",
        "exportUnit", "exportClause", "finishing", "report", "signal", "exited"}

Types ==
  /\ formula \in Formulas
  /\ facts \in [Threads -> SUBSET Lits]
  /\ learnts \in [Threads -> SUBSET SUBSET Lits]
  /\ toExport \in [Threads -> SUBSET Lits]
  /\ pc \in [Threads -> PCs]
  /\ status \in [Threads -> {"none", "SAT", "UNSAT"}]
  /\ unitLit \in Seq(Lits)
  /\ nextUnit \in [Threads -> Nat \ {0}]
  /\ unread \in [Threads -> Seq(SUBSET Lits)]
  /\ launched \in Nat

\* What holds in a model A of the formula.
KnownBy(A) ==
  /\ \A t \in Threads : \A l \in facts[t] : Holds(A, l)
  /\ \A t \in Threads : \A C \in learnts[t] : Satisfies(A, C)
  /\ \A t \in Threads : /\ pc[t] = "exportUnit" => \A l \in toExport[t] : Holds(A, l)
                        /\ pc[t] = "exportClause" => Satisfies(A, toExport[t])
  /\ \A i \in 1 .. Len(unitLit) : Holds(A, unitLit[i])
  /\ \A t \in Threads : \A i \in 1 .. Len(unread[t]) : Satisfies(A, unread[t][i])

Known == \A A \in Assignments : Models(A, formula) => KnownBy(A)

Verdicts ==
  \A t \in Threads :
    /\ status[t] = "SAT" => Satisfiable(formula)
    /\ status[t] = "UNSAT" => ~Satisfiable(formula)

Job ==
  /\ \A t \in Threads :
       /\ pc[t] = "finishing" => status[t] # "none"
       /\ pc[t] = "report" => bjobFinished /\ jobFinishedBy = t
       /\ pc[t] \in {"signal", "exited"} => bjobFinished
       /\ t >= launched => pc[t] = "created"
  /\ bjobFinished => /\ jobFinishedBy \in Threads
                     /\ status[jobFinishedBy] # "none"
                     /\ \/ pc[jobFinishedBy] = "report"
                        \/ /\ pc[jobFinishedBy] \in {"signal", "exited"}
                           /\ jobStatus = status[jobFinishedBy]

Collected == main = "returned" => AllJoined /\ result = jobStatus

IInv == Types /\ Known /\ FactsConsistent /\ Verdicts /\ Job /\ Collected

-----------------------------------------------------------------------------
\* A clause all of whose literals but l are false can only be true by l.
LEMMA UnitHolds ==
  ASSUME NEW A \in Assignments, NEW S \in SUBSET Lits, NEW C \in SUBSET Lits, NEW l,
         \A m \in S : Holds(A, m), Satisfies(A, C), UnitIn(l, C, S)
  PROVE  Holds(A, l)
<1>1. PICK m \in C : Holds(A, m)
  BY DEF Satisfies
<1>2. ASSUME m # l PROVE FALSE
  <2>1. Neg(m) \in S
    BY <1>1, <1>2 DEF UnitIn, Falsified
  <2>2. Holds(A, Neg(m))
    BY <2>1
  <2>3. m[2] \in BOOLEAN /\ A[m[1]] = m[2] /\ A[m[1]] = ~m[2]
    BY <1>1, <2>2 DEF Holds, Neg, Lits
  <2> QED BY <2>3
<1> QED BY <1>1, <1>2

\* A clause with every literal false holds in no assignment in which the literals do.
LEMMA NotFalsified ==
  ASSUME NEW A \in Assignments, NEW S \in SUBSET Lits, NEW C \in SUBSET Lits,
         \A m \in S : Holds(A, m), Satisfies(A, C)
  PROVE  ~Falsified(S, C)
<1> SUFFICES ASSUME Falsified(S, C) PROVE FALSE
  OBVIOUS
<1>1. PICK m \in C : Holds(A, m)
  BY DEF Satisfies
<1>2. Holds(A, Neg(m))
  BY DEF Falsified
<1>3. m[2] \in BOOLEAN /\ A[m[1]] = m[2] /\ A[m[1]] = ~m[2]
  BY <1>1, <1>2 DEF Holds, Neg, Lits
<1> QED BY <1>3

\* What a conflict teaches holds where all the thread has holds.
LEMMA LearnableHolds ==
  ASSUME NEW A \in Assignments, NEW t \in Threads, NEW C,
         Types, Models(A, formula), KnownBy(A), Learnable(t, C)
  PROVE  Satisfies(A, C)
<1>1. Models(A, Database(t) \cup {{l} : l \in facts[t]})
  <2> SUFFICES ASSUME NEW D \in Database(t) \cup {{l} : l \in facts[t]}
               PROVE  Satisfies(A, D)
    BY DEF Models
  <2>1. CASE D \in formula
    BY <2>1 DEF Models
  <2>2. CASE D \in learnts[t]
    BY <2>2 DEF KnownBy
  <2>3. CASE \E l \in facts[t] : D = {l}
    BY <2>3 DEF KnownBy, Satisfies
  <2> QED BY <2>1, <2>2, <2>3 DEF Database
<1> QED BY <1>1 DEF Learnable, Entails

LEMMA FormulaType ==
  ASSUME Types, NEW t \in Threads, NEW C \in Database(t)
  PROVE  C \in SUBSET Lits
BY FormulasAssumption DEF Types, Database

LEMMA LitNeg ==
  ASSUME NEW l \in Lits
  PROVE  /\ Neg(l) \in Lits
         /\ Neg(Neg(l)) = l
         /\ Neg(l) # l
         /\ Var(Neg(l)) = Var(l)
<1>1. PICK v \in Vars, b \in BOOLEAN : l = <<v, b>>
  BY DEF Lits
<1>2. Neg(l) = <<v, ~b>> /\ Var(l) = v
  BY <1>1 DEF Neg, Var
<1>3. Neg(l) \in Lits /\ Var(Neg(l)) = v /\ Neg(Neg(l)) = <<v, ~(~b)>>
  BY <1>2 DEF Neg, Var, Lits
<1> QED BY <1>1, <1>2, <1>3

\* A literal of a variable without a value brings no contradiction.
LEMMA AddFact ==
  ASSUME NEW S \in SUBSET Lits, NEW l \in Lits, ~Assigned(S, Var(l)),
         \A m \in S : Neg(m) \notin S
  PROVE  \A m \in S \cup {l} : Neg(m) \notin S \cup {l}
<1>1. l \notin S /\ Neg(l) \notin S
  BY LitNeg DEF Assigned
<1>2. \A m \in S : Neg(m) # l
  BY <1>1, LitNeg
<1> QED BY <1>1, <1>2, LitNeg

-----------------------------------------------------------------------------
\* The lists of clauses not read hold nothing but what was put into them.
LEMMA RestsOf ==
  ASSUME Types, NEW u \in Threads, NEW q \in Board!Rests(unread[u])
  PROVE  /\ q \in Seq(SUBSET Lits)
         /\ \A i \in 1 .. Len(q) : \E j \in 1 .. Len(unread[u]) : q[i] = unread[u][j]
<1>1. unread[u] \in Seq(SUBSET Lits)
  BY DEF Types
<1>2. CASE ~lossy
  <2>1. q = unread[u]
    BY <1>2 DEF Board!Rests
  <2> QED BY <1>1, <2>1
<1>3. CASE lossy
  <2>1. PICK n \in 0 .. Len(unread[u]) : q = SubSeq(unread[u], n + 1, Len(unread[u]))
    BY <1>3 DEF Board!Rests
  <2>2. q \in Seq(SUBSET Lits) /\ Len(q) = Len(unread[u]) - n
    BY <1>1, <2>1
  <2>3. \A i \in 1 .. Len(q) : q[i] = unread[u][n + i] /\ n + i \in 1 .. Len(unread[u])
    BY <1>1, <2>1, <2>2
  <2> QED BY <2>2, <2>3
<1> QED BY <1>2, <1>3

LEMMA PutClause ==
  ASSUME Types, NEW t \in Threads, NEW C \in SUBSET Lits, Board!Put(t, C),
         NEW u \in Threads
  PROVE  /\ unread'[u] \in Seq(SUBSET Lits)
         /\ \A i \in 1 .. Len(unread'[u]) :
              \/ unread'[u][i] = C
              \/ \E j \in 1 .. Len(unread[u]) : unread'[u][i] = unread[u][j]
<1>1. unread'[u] \in Board!Lists(u, t, C)
  BY DEF Board!Put
<1>2. CASE u = t
  <2>1. unread'[u] \in Board!Rests(unread[u])
    BY <1>1, <1>2 DEF Board!Lists
  <2> QED BY <2>1, RestsOf
<1>3. CASE u # t
  <2>1. PICK q \in Board!Rests(unread[u]) : unread'[u] = Append(q, C)
    BY <1>1, <1>3 DEF Board!Lists
  <2>2. q \in Seq(SUBSET Lits)
        /\ \A i \in 1 .. Len(q) : \E j \in 1 .. Len(unread[u]) : q[i] = unread[u][j]
    BY <2>1, RestsOf
  <2>3. /\ unread'[u] \in Seq(SUBSET Lits)
        /\ Len(unread'[u]) = Len(q) + 1
        /\ \A i \in 1 .. Len(q) : unread'[u][i] = q[i]
        /\ unread'[u][Len(q) + 1] = C
    BY <2>1, <2>2
  <2>4. \A i \in 1 .. Len(unread'[u]) : i \in 1 .. Len(q) \/ i = Len(q) + 1
    BY <2>2, <2>3
  <2> QED BY <2>2, <2>3, <2>4
<1> QED BY <1>2, <1>3

LEMMA TakeClause ==
  ASSUME Types, NEW t \in Threads, NEW C, Board!Take(t, C), NEW u \in Threads
  PROVE  /\ unread'[u] \in Seq(SUBSET Lits)
         /\ 1 \in 1 .. Len(unread[t]) /\ C = unread[t][1] /\ C \in SUBSET Lits
         /\ \A i \in 1 .. Len(unread'[u]) :
              \E j \in 1 .. Len(unread[u]) : unread'[u][i] = unread[u][j]
<1>1. unread[u] \in Seq(SUBSET Lits) /\ unread[t] \in Seq(SUBSET Lits)
  BY DEF Types
<1>2. 1 \in 1 .. Len(unread[t]) /\ C = unread[t][1] /\ C \in SUBSET Lits
  BY <1>1 DEF Board!Take
<1>3. CASE u = t
  <2>1. unread'[u] = Tail(unread[u]) /\ unread[u] # <<>>
    BY <1>3 DEF Board!Take, Types
  <2>2. /\ unread'[u] \in Seq(SUBSET Lits)
        /\ \A i \in 1 .. Len(unread'[u]) : /\ unread'[u][i] = unread[u][i + 1]
                                           /\ i + 1 \in 1 .. Len(unread[u])
    BY <1>1, <2>1
  <2> QED BY <1>2, <2>2
<1>4. CASE u # t
  <2>1. unread'[u] = unread[u]
    BY <1>4 DEF Board!Take, Types
  <2> QED BY <1>1, <1>2, <2>1
<1> QED BY <1>3, <1>4

LEMMA TypesNext ==
  ASSUME IInv, [Next]_vars
  PROVE  Types'
<1> USE DEF IInv
<1>1. ASSUME NEW t \in Threads, Loop(t) PROVE Types'
  BY <1>1 DEF Loop, Goto, Types, PCs, search, units, board, job, boss
<1>2. ASSUME NEW t \in Threads, ImportUnit(t) PROVE Types'
  <2>0. nextUnit[t] \in Nat \ {0} /\ Len(unitLit) \in Nat
    BY DEF Types
  <2>1. CASE nextUnit[t] <= Len(unitLit)
    <3>1. unitLit[nextUnit[t]] \in Lits /\ nextUnit[t] + 1 \in Nat \ {0}
      BY <2>1 DEF Types
    <3>2. Taken(t, unitLit[nextUnit[t]]) \in SUBSET Lits
      BY <3>1 DEF Taken, Types
    <3>3. /\ facts' = [facts EXCEPT ![t] = Taken(t, unitLit[nextUnit[t]])]
          /\ nextUnit' = [nextUnit EXCEPT ![t] = @ + 1]
      BY <1>2, <2>0, <2>1 DEF ImportUnit, Types
    <3>4. /\ facts' \in [Threads -> SUBSET Lits]
          /\ nextUnit' \in [Threads -> Nat \ {0}]
      BY <3>1, <3>2, <3>3 DEF Types
    <3>5. UNCHANGED <<formula, learnts, toExport, pc, status, unitLit, unread, launched>>
      BY <1>2, <2>0, <2>1 DEF ImportUnit, Types, board, job, boss
    <3> QED BY <3>4, <3>5 DEF Types
  <2>2. CASE nextUnit[t] > Len(unitLit)
    <3>1. /\ UNCHANGED <<formula, facts, learnts, toExport, status, unitLit, nextUnit, unread,
                       launched>>
          /\ Goto(t, "importClauses")
      BY <1>2, <2>0, <2>2 DEF ImportUnit, board, job, boss
    <3> QED BY <3>1 DEF Types, PCs, Goto
  <2> QED BY <2>0, <2>1, <2>2
<1>3. ASSUME NEW t \in Threads, ImportClause(t) PROVE Types'
  <2>1. ASSUME NEW C \in Clauses, Board!Take(t, C),
               learnts' = [learnts EXCEPT ![t] = @ \cup {C}], UNCHANGED pc
        PROVE  Types'
    <3>1. \A u \in Threads : unread'[u] \in Seq(SUBSET Lits)
      BY <2>1, TakeClause
    <3>2. unread' \in [Threads -> Seq(SUBSET Lits)]
      BY <2>1, <3>1 DEF Board!Take, Types
    <3>3. learnts' \in [Threads -> SUBSET SUBSET Lits]
      BY <2>1 DEF Types, Clauses
    <3> QED BY <1>3, <2>1, <3>2, <3>3 DEF ImportClause, Types, units, job, boss
  <2>2. CASE UNCHANGED board /\ Goto(t, "propagate") /\ UNCHANGED learnts
    BY <1>3, <2>2 DEF ImportClause, Goto, Types, PCs, units, board, job, boss
  <2> QED BY <1>3, <2>1, <2>2 DEF ImportClause
<1>4. ASSUME NEW t \in Threads, NEW l \in Lits, PropagateFact(t, l) PROVE Types'
  BY <1>4 DEF PropagateFact, Types, PCs, search, units, board, job, boss
<1>5. ASSUME NEW t \in Threads, ConflictOfFacts(t) PROVE Types'
  BY <1>5 DEF ConflictOfFacts, Return, Goto, Types, PCs, search, units, board, job, boss
<1>6. ASSUME NEW t \in Threads, Propagated(t) PROVE Types'
  BY <1>6 DEF Propagated, Goto, Types, PCs, search, units, board, job, boss
<1>7. ASSUME NEW t \in Threads, GiveUp(t) PROVE Types'
  BY <1>7 DEF GiveUp, Return, Goto, Types, PCs, search, units, board, job, boss
<1>8. ASSUME NEW t \in Threads, NEW l \in Lits, LearnUnit(t, l) PROVE Types'
  BY <1>8 DEF LearnUnit, Goto, Types, PCs, search, units, board, job, boss
<1>9. ASSUME NEW t \in Threads, ExportUnit(t) PROVE Types'
  <2>1. PICK l \in toExport[t] : unitLit' = Listed(l)
    BY <1>9 DEF ExportUnit
  <2>2. unitLit' \in Seq(Lits)
    BY <2>1 DEF Listed, Types
  <2>3. toExport' \in [Threads -> SUBSET Lits] /\ pc' \in [Threads -> PCs]
    BY <1>9 DEF ExportUnit, Goto, Types, PCs
  <2> QED BY <1>9, <2>2, <2>3 DEF ExportUnit, Types, board, job, boss
<1>10. ASSUME NEW t \in Threads, NEW C \in Clauses, LearnClause(t, C) PROVE Types'
  <2>1. C \in SUBSET Lits
    BY DEF Clauses
  <2>2. learnts' \in [Threads -> SUBSET SUBSET Lits]
    BY <1>10, <2>1 DEF LearnClause, Types
  <2>3. toExport' \in [Threads -> SUBSET Lits] /\ pc' \in [Threads -> PCs]
    BY <1>10, <2>1 DEF LearnClause, Goto, Types, PCs
  <2> QED BY <1>10, <2>2, <2>3 DEF LearnClause, Types, units, board, job, boss
<1>11. ASSUME NEW t \in Threads, ExportClause(t) PROVE Types'
  <2>1. toExport' \in [Threads -> SUBSET Lits] /\ pc' \in [Threads -> PCs]
    BY <1>11 DEF ExportClause, Goto, Types, PCs
  <2>2. unread' \in [Threads -> Seq(SUBSET Lits)]
    <3>1. CASE Board!Put(t, toExport[t])
      <4>1. toExport[t] \in SUBSET Lits
        BY DEF Types
      <4>2. \A u \in Threads : unread'[u] \in Seq(SUBSET Lits)
        BY <3>1, <4>1, PutClause
      <4>3. unread' \in [Threads -> UNION {Board!Lists(u, t, toExport[t]) : u \in Threads}]
        BY <3>1 DEF Board!Put
      <4> QED BY <4>2, <4>3
    <3>2. CASE UNCHANGED board
      BY <3>2 DEF board, Types
    <3> QED BY <1>11, <3>1, <3>2 DEF ExportClause
  <2> QED BY <1>11, <2>1, <2>2 DEF ExportClause, Types, units, job, boss
<1>12. ASSUME NEW t \in Threads, Restart(t) PROVE Types'
  BY <1>12 DEF Restart, Return, Goto, Types, PCs, search, units, board, job, boss
<1>13. ASSUME NEW t \in Threads, FindModel(t) PROVE Types'
  BY <1>13 DEF FindModel, Return, Goto, Types, PCs, search, units, board, job, boss
<1>14. ASSUME NEW t \in Threads, IFinished(t) PROVE Types'
  BY <1>14 DEF IFinished, Goto, Types, PCs, search, units, board, job, boss
<1>15. ASSUME NEW t \in Threads, Report(t) PROVE Types'
  BY <1>15 DEF Report, Goto, Types, PCs, search, units, board, job, boss
<1>16. ASSUME NEW t \in Threads, Signal(t) PROVE Types'
  BY <1>16 DEF Signal, Goto, Types, PCs, search, units, board, job, boss
<1>17. ASSUME Launch PROVE Types'
  <2>1. launched < NbSolvers => launched \in Threads
    BY NbSolversAssumption DEF Types, Threads
  <2>2. pc' \in [Threads -> PCs]
    BY <1>17, <2>1 DEF Launch, Types, PCs
  <2>3. launched' \in Nat
    BY <1>17 DEF Launch, Types
  <2> QED BY <1>17, <2>2, <2>3 DEF Launch, Types, search, units, board
<1>18. ASSUME Wait PROVE Types'
  BY <1>18 DEF Wait, Types, PCs, search, units, board, job, boss
<1>19. ASSUME Timeout PROVE Types'
  BY <1>19 DEF Timeout, Types, PCs, search, units, board, job, boss
<1>20. ASSUME SpuriousWakeup PROVE Types'
  BY <1>20 DEF SpuriousWakeup, Types, PCs, search, units, board, job, boss
<1>21. ASSUME Collect PROVE Types'
  BY <1>21 DEF Collect, Types, PCs, search, units, board, job, boss
<1>22. CASE UNCHANGED vars
  BY <1>22 DEF vars, Types, PCs, search, units, board, job, boss
<1> QED
  BY <1>1, <1>2, <1>3, <1>4, <1>5, <1>6, <1>7, <1>8, <1>9, <1>10, <1>11, <1>12,
     <1>13, <1>14, <1>15, <1>16, <1>17, <1>18, <1>19, <1>20, <1>21, <1>22
  DEF Next, Thread, Main

\* What is known changes where something is learnt, imported or exported.
LEMMA KnownNext ==
  ASSUME IInv, [Next]_vars
  PROVE  Known'
<1> USE DEF IInv
<1>0. /\ UNCHANGED <<formula, facts, learnts, toExport, unitLit, unread>>
      /\ \A t \in Threads : pc'[t] = pc[t] \/ pc'[t] \notin {"exportUnit", "exportClause"}
      => Known'
  BY DEF Known, KnownBy
<1>1. ASSUME NEW t \in Threads, Loop(t) PROVE Known'
  BY <1>0, <1>1 DEF Loop, Goto, search, units, board, job, boss, Types
<1>2. ASSUME NEW t \in Threads, ImportUnit(t) PROVE Known'
  <2> SUFFICES ASSUME NEW A \in Assignments, Models(A, formula) PROVE KnownBy(A)'
    BY <1>2 DEF ImportUnit, Known
  <2> USE DEF Types
  <2>0. KnownBy(A)
    BY DEF Known
  <2>3. nextUnit[t] \in Nat \ {0} /\ Len(unitLit) \in Nat
    OBVIOUS
  <2>1. CASE nextUnit[t] <= Len(unitLit)
    <3>1. nextUnit[t] \in 1 .. Len(unitLit)
      BY <2>1, <2>3
    <3>2. Holds(A, unitLit[nextUnit[t]])
      BY <2>0, <3>1 DEF KnownBy
    <3>3. \A u \in Threads : \A l \in facts'[u] : Holds(A, l)
      <4>1. facts' = [facts EXCEPT ![t] = Taken(t, unitLit[nextUnit[t]])]
        BY <1>2, <2>1, <2>3 DEF ImportUnit
      <4>2. \A l \in Taken(t, unitLit[nextUnit[t]]) : Holds(A, l)
        BY <2>0, <3>2 DEF Taken, KnownBy
      <4> QED BY <2>0, <4>1, <4>2 DEF KnownBy
    <3>4. UNCHANGED <<learnts, toExport, pc, unitLit, unread>>
      BY <1>2, <2>1, <2>3 DEF ImportUnit, board
    <3> QED BY <2>0, <3>3, <3>4 DEF KnownBy
  <2>2. CASE nextUnit[t] > Len(unitLit)
    <3>1. UNCHANGED <<facts, learnts, toExport, unitLit, unread>> /\ Goto(t, "importClauses")
      BY <1>2, <2>2, <2>3 DEF ImportUnit, board
    <3> QED BY <2>0, <3>1 DEF KnownBy, Goto
  <2> QED BY <2>1, <2>2, <2>3
<1>3. ASSUME NEW t \in Threads, ImportClause(t) PROVE Known'
  <2> SUFFICES ASSUME NEW A \in Assignments, Models(A, formula) PROVE KnownBy(A)'
    BY <1>3 DEF ImportClause, Known
  <2> USE DEF Types
  <2>0. KnownBy(A)
    BY DEF Known
  <2>1. ASSUME NEW C \in Clauses, Board!Take(t, C),
               learnts' = [learnts EXCEPT ![t] = @ \cup {C}]
        PROVE  KnownBy(A)'
    <3>1. Satisfies(A, C)
      <4>1. 1 \in 1 .. Len(unread[t]) /\ C = unread[t][1]
        BY <2>1, TakeClause
      <4> QED BY <2>0, <4>1 DEF KnownBy
    <3>2. \A u \in Threads : \A D \in learnts'[u] : Satisfies(A, D)
      BY <2>0, <2>1, <3>1 DEF KnownBy
    <3>3. \A u \in Threads : \A i \in 1 .. Len(unread'[u]) : Satisfies(A, unread'[u][i])
      <4> TAKE u \in Threads
      <4> TAKE i \in 1 .. Len(unread'[u])
      <4>1. PICK j \in 1 .. Len(unread[u]) : unread'[u][i] = unread[u][j]
        BY <2>1, TakeClause
      <4>2. Satisfies(A, unread[u][j])
        BY <2>0 DEF KnownBy
      <4> QED BY <4>1, <4>2
    <3> QED BY <1>3, <2>0, <3>2, <3>3 DEF ImportClause, Goto, KnownBy, units
  <2>2. CASE UNCHANGED board /\ UNCHANGED learnts
    BY <1>3, <2>0, <2>2 DEF ImportClause, Goto, KnownBy, units, board
  <2> QED BY <1>3, <2>1, <2>2 DEF ImportClause
<1>4. ASSUME NEW t \in Threads, NEW l \in Lits, PropagateFact(t, l) PROVE Known'
  <2> SUFFICES ASSUME NEW A \in Assignments, Models(A, formula) PROVE KnownBy(A)'
    BY <1>4 DEF PropagateFact, Known
  <2> USE DEF Types
  <2>0. KnownBy(A)
    BY DEF Known
  <2>1. PICK C \in Database(t) : UnitIn(l, C, facts[t])
    BY <1>4 DEF PropagateFact
  <2>2. Satisfies(A, C) /\ C \in SUBSET Lits
    BY <2>0, <2>1, FormulaType DEF KnownBy, Database, Models
  <2>3. Holds(A, l)
    BY <2>0, <2>1, <2>2, UnitHolds DEF KnownBy
  <2>4. \A u \in Threads : \A m \in facts'[u] : Holds(A, m)
    BY <1>4, <2>0, <2>3 DEF PropagateFact, KnownBy
  <2> QED BY <1>4, <2>0, <2>4 DEF PropagateFact, KnownBy, units, board
<1>5. ASSUME NEW t \in Threads, ConflictOfFacts(t) PROVE Known'
  BY <1>0, <1>5 DEF ConflictOfFacts, Return, Goto, search, units, board, job, boss, Types
<1>6. ASSUME NEW t \in Threads, Propagated(t) PROVE Known'
  BY <1>0, <1>6 DEF Propagated, Goto, search, units, board, job, boss, Types
<1>7. ASSUME NEW t \in Threads, GiveUp(t) PROVE Known'
  BY <1>0, <1>7 DEF GiveUp, Return, Goto, search, units, board, job, boss, Types
<1>8. ASSUME NEW t \in Threads, NEW l \in Lits, LearnUnit(t, l) PROVE Known'
  <2> SUFFICES ASSUME NEW A \in Assignments, Models(A, formula) PROVE KnownBy(A)'
    BY <1>8 DEF LearnUnit, Known
  <2> USE DEF Types
  <2>0. KnownBy(A)
    BY DEF Known
  <2>1. Satisfies(A, {l})
    BY <1>8, <2>0, LearnableHolds DEF LearnUnit
  <2>2. Holds(A, l)
    BY <2>1 DEF Satisfies
  <2>3. \A u \in Threads : \A m \in facts'[u] : Holds(A, m)
    BY <1>8, <2>0, <2>2 DEF LearnUnit, KnownBy
  <2>4. \A u \in Threads : /\ pc'[u] = "exportUnit" => \A m \in toExport'[u] : Holds(A, m)
                           /\ pc'[u] = "exportClause" => Satisfies(A, toExport'[u])
    <3> TAKE u \in Threads
    <3>1. CASE u = t
      BY <1>8, <2>2, <3>1 DEF LearnUnit, Goto
    <3>2. CASE u # t
      <4>1. pc'[u] = pc[u] /\ toExport'[u] = toExport[u]
        BY <1>8, <3>2 DEF LearnUnit, Goto
      <4> QED BY <2>0, <4>1 DEF KnownBy
    <3> QED BY <3>1, <3>2
  <2>5. UNCHANGED <<learnts, unitLit, unread>>
    BY <1>8 DEF LearnUnit, units, board
  <2> QED BY <2>0, <2>3, <2>4, <2>5 DEF KnownBy
<1>9. ASSUME NEW t \in Threads, ExportUnit(t) PROVE Known'
  <2> SUFFICES ASSUME NEW A \in Assignments, Models(A, formula) PROVE KnownBy(A)'
    BY <1>9 DEF ExportUnit, Known
  <2> USE DEF Types
  <2>0. KnownBy(A)
    BY DEF Known
  <2>1. PICK l \in toExport[t] : unitLit' = Listed(l)
    BY <1>9 DEF ExportUnit
  <2>2. l \in Lits
    BY <2>1
  <2>3. Holds(A, l)
    BY <1>9, <2>0, <2>1 DEF ExportUnit, KnownBy
  <2>4. \A i \in 1 .. Len(unitLit') : Holds(A, unitLit'[i])
    <3>1. CASE unitLit' = unitLit
      BY <2>0, <3>1 DEF KnownBy
    <3>2. CASE unitLit' = Append(unitLit, l)
      <4> TAKE i \in 1 .. Len(unitLit')
      <4>1. \/ i \in 1 .. Len(unitLit) /\ unitLit'[i] = unitLit[i]
            \/ unitLit'[i] = l
        BY <2>2, <3>2
      <4> QED BY <2>0, <2>3, <4>1 DEF KnownBy
    <3> QED BY <2>1, <3>1, <3>2 DEF Listed
  <2>5. \A u \in Threads : /\ pc'[u] = "exportUnit" => \A m \in toExport'[u] : Holds(A, m)
                           /\ pc'[u] = "exportClause" => Satisfies(A, toExport'[u])
    <3> TAKE u \in Threads
    <3>1. CASE u = t
      BY <1>9, <3>1 DEF ExportUnit, Goto
    <3>2. CASE u # t
      <4>1. pc'[u] = pc[u] /\ toExport'[u] = toExport[u]
        BY <1>9, <3>2 DEF ExportUnit, Goto
      <4> QED BY <2>0, <4>1 DEF KnownBy
    <3> QED BY <3>1, <3>2
  <2>6. UNCHANGED <<facts, learnts, unread>>
    BY <1>9 DEF ExportUnit, board
  <2> QED BY <2>0, <2>4, <2>5, <2>6 DEF KnownBy
<1>10. ASSUME NEW t \in Threads, NEW C \in Clauses, LearnClause(t, C) PROVE Known'
  <2> SUFFICES ASSUME NEW A \in Assignments, Models(A, formula) PROVE KnownBy(A)'
    BY <1>10 DEF LearnClause, Known
  <2> USE DEF Types
  <2>0. KnownBy(A)
    BY DEF Known
  <2>1. Satisfies(A, C)
    BY <1>10, <2>0, LearnableHolds DEF LearnClause
  <2>2. \A u \in Threads : \A D \in learnts'[u] : Satisfies(A, D)
    BY <1>10, <2>0, <2>1 DEF LearnClause, KnownBy
  <2>3. \A u \in Threads : /\ pc'[u] = "exportUnit" => \A m \in toExport'[u] : Holds(A, m)
                           /\ pc'[u] = "exportClause" => Satisfies(A, toExport'[u])
    <3> TAKE u \in Threads
    <3>1. CASE u = t
      BY <1>10, <2>1, <3>1 DEF LearnClause, Goto
    <3>2. CASE u # t
      <4>1. pc'[u] = pc[u] /\ toExport'[u] = toExport[u]
        BY <1>10, <3>2 DEF LearnClause, Goto
      <4> QED BY <2>0, <4>1 DEF KnownBy
    <3> QED BY <3>1, <3>2
  <2>4. UNCHANGED <<facts, unitLit, unread>>
    BY <1>10 DEF LearnClause, units, board
  <2> QED BY <2>0, <2>2, <2>3, <2>4 DEF KnownBy
<1>11. ASSUME NEW t \in Threads, ExportClause(t) PROVE Known'
  <2> SUFFICES ASSUME NEW A \in Assignments, Models(A, formula) PROVE KnownBy(A)'
    BY <1>11 DEF ExportClause, Known
  <2> USE DEF Types
  <2>0. KnownBy(A)
    BY DEF Known
  <2>1. \A u \in Threads : /\ pc'[u] = "exportUnit" => \A m \in toExport'[u] : Holds(A, m)
                           /\ pc'[u] = "exportClause" => Satisfies(A, toExport'[u])
    BY <1>11, <2>0 DEF ExportClause, Goto, KnownBy
  <2>2. \A u \in Threads : \A i \in 1 .. Len(unread'[u]) : Satisfies(A, unread'[u][i])
    <3>0. Board!Put(t, toExport[t]) \/ UNCHANGED board
      BY <1>11 DEF ExportClause
    <3>1. ASSUME Board!Put(t, toExport[t])
          PROVE  \A u \in Threads : \A i \in 1 .. Len(unread'[u]) : Satisfies(A, unread'[u][i])
      <4>0. toExport[t] \in SUBSET Lits
        OBVIOUS
      <4> TAKE u \in Threads
      <4> TAKE i \in 1 .. Len(unread'[u])
      <4>1. \/ unread'[u][i] = toExport[t]
            \/ \E j \in 1 .. Len(unread[u]) : unread'[u][i] = unread[u][j]
        BY <3>1, <4>0, PutClause
      <4>2. Satisfies(A, toExport[t])
        BY <1>11, <2>0 DEF KnownBy, ExportClause
      <4> QED BY <2>0, <4>1, <4>2 DEF KnownBy
    <3>2. CASE UNCHANGED board
      BY <2>0, <3>2 DEF board, KnownBy
    <3> QED BY <3>0, <3>1, <3>2
  <2>3. UNCHANGED <<facts, learnts, unitLit>>
    BY <1>11 DEF ExportClause, units
  <2> QED BY <2>0, <2>1, <2>2, <2>3 DEF KnownBy
<1>12. ASSUME NEW t \in Threads, Restart(t) PROVE Known'
  BY <1>0, <1>12 DEF Restart, Return, Goto, search, units, board, job, boss, Types
<1>13. ASSUME NEW t \in Threads, FindModel(t) PROVE Known'
  BY <1>0, <1>13 DEF FindModel, Return, Goto, search, units, board, job, boss, Types
<1>14. ASSUME NEW t \in Threads, IFinished(t) PROVE Known'
  BY <1>0, <1>14 DEF IFinished, Goto, search, units, board, job, boss, Types
<1>15. ASSUME NEW t \in Threads, Report(t) PROVE Known'
  BY <1>0, <1>15 DEF Report, Goto, search, units, board, job, boss, Types
<1>16. ASSUME NEW t \in Threads, Signal(t) PROVE Known'
  BY <1>0, <1>16 DEF Signal, Goto, search, units, board, job, boss, Types
<1>17. ASSUME Launch PROVE Known'
  BY <1>0, <1>17 DEF Launch, search, units, board, job, boss, Types
<1>18. ASSUME Wait PROVE Known'
  BY <1>0, <1>18 DEF Wait, search, units, board, job, boss, Types
<1>19. ASSUME Timeout PROVE Known'
  BY <1>0, <1>19 DEF Timeout, search, units, board, job, boss, Types
<1>20. ASSUME SpuriousWakeup PROVE Known'
  BY <1>0, <1>20 DEF SpuriousWakeup, search, units, board, job, boss, Types
<1>21. ASSUME Collect PROVE Known'
  BY <1>0, <1>21 DEF Collect, search, units, board, job, boss, Types
<1>22. CASE UNCHANGED vars
  BY <1>0, <1>22 DEF vars, search, units, board, job, boss
<1> QED
  BY <1>1, <1>2, <1>3, <1>4, <1>5, <1>6, <1>7, <1>8, <1>9, <1>10, <1>11, <1>12,
     <1>13, <1>14, <1>15, <1>16, <1>17, <1>18, <1>19, <1>20, <1>21, <1>22
  DEF Next, Thread, Main

LEMMA FactsNext ==
  ASSUME IInv, [Next]_vars
  PROVE  FactsConsistent'
<1> USE DEF IInv
<1>0. UNCHANGED facts => FactsConsistent'
  BY DEF FactsConsistent
<1>1. ASSUME NEW t \in Threads, Loop(t) PROVE FactsConsistent'
  BY <1>0, <1>1 DEF Loop, Goto, search, units, board, job, boss
<1>2. ASSUME NEW t \in Threads, ImportUnit(t) PROVE FactsConsistent'
  <2> USE DEF Types
  <2>0. nextUnit[t] \in Nat \ {0} /\ Len(unitLit) \in Nat
    OBVIOUS
  <2>1. CASE nextUnit[t] <= Len(unitLit)
    <3>1. unitLit[nextUnit[t]] \in Lits
      BY <2>0, <2>1
    <3>2. facts' = [facts EXCEPT ![t] = Taken(t, unitLit[nextUnit[t]])]
      BY <1>2, <2>0, <2>1 DEF ImportUnit
    <3>3. \A m \in Taken(t, unitLit[nextUnit[t]]) : Neg(m) \notin Taken(t, unitLit[nextUnit[t]])
      BY <3>1, AddFact DEF Taken, FactsConsistent
    <3> QED BY <3>2, <3>3 DEF FactsConsistent
  <2>2. CASE nextUnit[t] > Len(unitLit)
    BY <1>2, <2>0, <2>2 DEF ImportUnit, FactsConsistent
  <2> QED BY <2>0, <2>1, <2>2
<1>3. ASSUME NEW t \in Threads, ImportClause(t) PROVE FactsConsistent'
  BY <1>0, <1>3 DEF ImportClause, Goto, search, units, board, job, boss
<1>4. ASSUME NEW t \in Threads, NEW l \in Lits, PropagateFact(t, l) PROVE FactsConsistent'
  <2> USE DEF Types
  <2>1. ~Assigned(facts[t], Var(l))
    BY <1>4 DEF PropagateFact, UnitIn
  <2>2. \A m \in facts[t] \cup {l} : Neg(m) \notin facts[t] \cup {l}
    BY <2>1, AddFact DEF FactsConsistent
  <2> QED BY <1>4, <2>2 DEF PropagateFact, FactsConsistent
<1>5. ASSUME NEW t \in Threads, ConflictOfFacts(t) PROVE FactsConsistent'
  BY <1>0, <1>5 DEF ConflictOfFacts, Return, Goto, search, units, board, job, boss
<1>6. ASSUME NEW t \in Threads, Propagated(t) PROVE FactsConsistent'
  BY <1>0, <1>6 DEF Propagated, Goto, search, units, board, job, boss
<1>7. ASSUME NEW t \in Threads, GiveUp(t) PROVE FactsConsistent'
  BY <1>0, <1>7 DEF GiveUp, Return, Goto, search, units, board, job, boss
<1>8. ASSUME NEW t \in Threads, NEW l \in Lits, LearnUnit(t, l) PROVE FactsConsistent'
  <2> USE DEF Types
  <2>1. ~Assigned(facts[t], Var(l))
    BY <1>8 DEF LearnUnit, Learnable, IsNew
  <2>2. \A m \in facts[t] \cup {l} : Neg(m) \notin facts[t] \cup {l}
    BY <2>1, AddFact DEF FactsConsistent
  <2> QED BY <1>8, <2>2 DEF LearnUnit, FactsConsistent
<1>9. ASSUME NEW t \in Threads, ExportUnit(t) PROVE FactsConsistent'
  BY <1>0, <1>9 DEF ExportUnit, Goto, search, units, board, job, boss
<1>10. ASSUME NEW t \in Threads, NEW C \in Clauses, LearnClause(t, C) PROVE FactsConsistent'
  BY <1>0, <1>10 DEF LearnClause, Goto, search, units, board, job, boss
<1>11. ASSUME NEW t \in Threads, ExportClause(t) PROVE FactsConsistent'
  BY <1>0, <1>11 DEF ExportClause, Goto, search, units, board, job, boss
<1>12. ASSUME NEW t \in Threads, Restart(t) PROVE FactsConsistent'
  BY <1>0, <1>12 DEF Restart, Return, Goto, search, units, board, job, boss
<1>13. ASSUME NEW t \in Threads, FindModel(t) PROVE FactsConsistent'
  BY <1>0, <1>13 DEF FindModel, Return, Goto, search, units, board, job, boss
<1>14. ASSUME NEW t \in Threads, IFinished(t) PROVE FactsConsistent'
  BY <1>0, <1>14 DEF IFinished, Goto, search, units, board, job, boss
<1>15. ASSUME NEW t \in Threads, Report(t) PROVE FactsConsistent'
  BY <1>0, <1>15 DEF Report, Goto, search, units, board, job, boss
<1>16. ASSUME NEW t \in Threads, Signal(t) PROVE FactsConsistent'
  BY <1>0, <1>16 DEF Signal, Goto, search, units, board, job, boss
<1>17. ASSUME Launch PROVE FactsConsistent'
  BY <1>0, <1>17 DEF Launch, search, units, board, job, boss
<1>18. ASSUME Wait PROVE FactsConsistent'
  BY <1>0, <1>18 DEF Wait, search, units, board, job, boss
<1>19. ASSUME Timeout PROVE FactsConsistent'
  BY <1>0, <1>19 DEF Timeout, search, units, board, job, boss
<1>20. ASSUME SpuriousWakeup PROVE FactsConsistent'
  BY <1>0, <1>20 DEF SpuriousWakeup, search, units, board, job, boss
<1>21. ASSUME Collect PROVE FactsConsistent'
  BY <1>0, <1>21 DEF Collect, search, units, board, job, boss
<1>22. CASE UNCHANGED vars
  BY <1>0, <1>22 DEF vars, search, units, board, job, boss
<1> QED
  BY <1>1, <1>2, <1>3, <1>4, <1>5, <1>6, <1>7, <1>8, <1>9, <1>10, <1>11, <1>12,
     <1>13, <1>14, <1>15, <1>16, <1>17, <1>18, <1>19, <1>20, <1>21, <1>22
  DEF Next, Thread, Main

LEMMA VerdictsNext ==
  ASSUME IInv, [Next]_vars
  PROVE  Verdicts'
<1> USE DEF IInv
<1>0. UNCHANGED <<formula, status>> => Verdicts'
  BY DEF Verdicts
<1>1. ASSUME NEW t \in Threads, Loop(t) PROVE Verdicts'
  BY <1>0, <1>1 DEF Loop, Goto, search, units, board, job, boss
<1>2. ASSUME NEW t \in Threads, ImportUnit(t) PROVE Verdicts'
  BY <1>0, <1>2 DEF ImportUnit, Goto, search, units, board, job, boss
<1>3. ASSUME NEW t \in Threads, ImportClause(t) PROVE Verdicts'
  BY <1>0, <1>3 DEF ImportClause, Goto, search, units, board, job, boss
<1>4. ASSUME NEW t \in Threads, NEW l \in Lits, PropagateFact(t, l) PROVE Verdicts'
  BY <1>0, <1>4 DEF PropagateFact, search, units, board, job, boss
<1>5. ASSUME NEW t \in Threads, ConflictOfFacts(t) PROVE Verdicts'
  <2>1. PICK C \in Database(t) : Falsified(facts[t], C)
    BY <1>5 DEF ConflictOfFacts
  <2>2. C \in SUBSET Lits /\ facts[t] \in SUBSET Lits
    BY <2>1, FormulaType DEF Types
  <2>3. ~Satisfiable(formula)
    <3> SUFFICES ASSUME NEW A \in Assignments, Models(A, formula) PROVE FALSE
      BY DEF Satisfiable
    <3>1. KnownBy(A)
      BY DEF Known
    <3>2. Satisfies(A, C)
      BY <2>1, <3>1 DEF KnownBy, Database, Models
    <3>3. \A m \in facts[t] : Holds(A, m)
      BY <3>1 DEF KnownBy
    <3> QED BY <2>1, <2>2, <3>2, <3>3, NotFalsified
  <2>4. PICK v \in {"none", "UNSAT"} : status' = [status EXCEPT ![t] = v]
    BY <1>5 DEF ConflictOfFacts, Return
  <2>5. UNCHANGED formula
    BY <1>5 DEF ConflictOfFacts
  <2> QED BY <2>3, <2>4, <2>5 DEF Verdicts, Types
<1>6. ASSUME NEW t \in Threads, Propagated(t) PROVE Verdicts'
  BY <1>0, <1>6 DEF Propagated, Goto, search, units, board, job, boss
<1>7. ASSUME NEW t \in Threads, GiveUp(t) PROVE Verdicts'
  <2>1. status' = [status EXCEPT ![t] = "none"] /\ UNCHANGED formula
    BY <1>7 DEF GiveUp, Return
  <2> QED BY <2>1 DEF Verdicts, Types
<1>8. ASSUME NEW t \in Threads, NEW l \in Lits, LearnUnit(t, l) PROVE Verdicts'
  BY <1>0, <1>8 DEF LearnUnit, Goto, search, units, board, job, boss
<1>9. ASSUME NEW t \in Threads, ExportUnit(t) PROVE Verdicts'
  BY <1>0, <1>9 DEF ExportUnit, Goto, search, units, board, job, boss
<1>10. ASSUME NEW t \in Threads, NEW C \in Clauses, LearnClause(t, C) PROVE Verdicts'
  BY <1>0, <1>10 DEF LearnClause, Goto, search, units, board, job, boss
<1>11. ASSUME NEW t \in Threads, ExportClause(t) PROVE Verdicts'
  BY <1>0, <1>11 DEF ExportClause, Goto, search, units, board, job, boss
<1>12. ASSUME NEW t \in Threads, Restart(t) PROVE Verdicts'
  <2>1. status' = [status EXCEPT ![t] = "none"] /\ UNCHANGED formula
    BY <1>12 DEF Restart, Return
  <2> QED BY <2>1 DEF Verdicts, Types
<1>13. ASSUME NEW t \in Threads, FindModel(t) PROVE Verdicts'
  <2>1. Satisfiable(formula)
    BY <1>13 DEF FindModel, Satisfiable, Database, Models
  <2>2. status' = [status EXCEPT ![t] = "SAT"] /\ UNCHANGED formula
    BY <1>13 DEF FindModel, Return
  <2> QED BY <2>1, <2>2 DEF Verdicts, Types
<1>14. ASSUME NEW t \in Threads, IFinished(t) PROVE Verdicts'
  BY <1>0, <1>14 DEF IFinished, Goto, search, units, board, job, boss
<1>15. ASSUME NEW t \in Threads, Report(t) PROVE Verdicts'
  BY <1>0, <1>15 DEF Report, Goto, search, units, board, job, boss
<1>16. ASSUME NEW t \in Threads, Signal(t) PROVE Verdicts'
  BY <1>0, <1>16 DEF Signal, Goto, search, units, board, job, boss
<1>17. ASSUME Launch PROVE Verdicts'
  BY <1>0, <1>17 DEF Launch, search, units, board, job, boss
<1>18. ASSUME Wait PROVE Verdicts'
  BY <1>0, <1>18 DEF Wait, search, units, board, job, boss
<1>19. ASSUME Timeout PROVE Verdicts'
  BY <1>0, <1>19 DEF Timeout, search, units, board, job, boss
<1>20. ASSUME SpuriousWakeup PROVE Verdicts'
  BY <1>0, <1>20 DEF SpuriousWakeup, search, units, board, job, boss
<1>21. ASSUME Collect PROVE Verdicts'
  BY <1>0, <1>21 DEF Collect, search, units, board, job, boss
<1>22. CASE UNCHANGED vars
  BY <1>0, <1>22 DEF vars, search, units, board, job, boss
<1> QED
  BY <1>1, <1>2, <1>3, <1>4, <1>5, <1>6, <1>7, <1>8, <1>9, <1>10, <1>11, <1>12,
     <1>13, <1>14, <1>15, <1>16, <1>17, <1>18, <1>19, <1>20, <1>21, <1>22
  DEF Next, Thread, Main

LEMMA JobNext ==
  ASSUME IInv, [Next]_vars
  PROVE  Job'
<1> USE DEF IInv
<1>1. ASSUME NEW t \in Threads, Loop(t) PROVE Job'
  BY <1>1 DEF Loop, Goto, Job, Types, search, units, board, job, boss
<1>2. ASSUME NEW t \in Threads, ImportUnit(t) PROVE Job'
  BY <1>2 DEF ImportUnit, Goto, Job, Types, search, units, board, job, boss
<1>3. ASSUME NEW t \in Threads, ImportClause(t) PROVE Job'
  BY <1>3 DEF ImportClause, Goto, Job, Types, search, units, board, job, boss
<1>4. ASSUME NEW t \in Threads, NEW l \in Lits, PropagateFact(t, l) PROVE Job'
  BY <1>4 DEF PropagateFact, Job, Types, search, units, board, job, boss
<1>5. ASSUME NEW t \in Threads, ConflictOfFacts(t) PROVE Job'
  BY <1>5 DEF ConflictOfFacts, Return, Goto, Job, Types, search, units, board, job, boss
<1>6. ASSUME NEW t \in Threads, Propagated(t) PROVE Job'
  BY <1>6 DEF Propagated, Goto, Job, Types, search, units, board, job, boss
<1>7. ASSUME NEW t \in Threads, GiveUp(t) PROVE Job'
  BY <1>7 DEF GiveUp, Return, Goto, Job, Types, search, units, board, job, boss
<1>8. ASSUME NEW t \in Threads, NEW l \in Lits, LearnUnit(t, l) PROVE Job'
  BY <1>8 DEF LearnUnit, Goto, Job, Types, search, units, board, job, boss
<1>9. ASSUME NEW t \in Threads, ExportUnit(t) PROVE Job'
  BY <1>9 DEF ExportUnit, Goto, Job, Types, search, units, board, job, boss
<1>10. ASSUME NEW t \in Threads, NEW C \in Clauses, LearnClause(t, C) PROVE Job'
  BY <1>10 DEF LearnClause, Goto, Job, Types, search, units, board, job, boss
<1>11. ASSUME NEW t \in Threads, ExportClause(t) PROVE Job'
  BY <1>11 DEF ExportClause, Goto, Job, Types, search, units, board, job, boss
<1>12. ASSUME NEW t \in Threads, Restart(t) PROVE Job'
  BY <1>12 DEF Restart, Return, Goto, Job, Types, search, units, board, job, boss
<1>13. ASSUME NEW t \in Threads, FindModel(t) PROVE Job'
  BY <1>13 DEF FindModel, Return, Goto, Job, Types, search, units, board, job, boss
<1>14. ASSUME NEW t \in Threads, IFinished(t) PROVE Job'
  BY <1>14 DEF IFinished, Goto, Job, Types, search, units, board, job, boss
<1>15. ASSUME NEW t \in Threads, Report(t) PROVE Job'
  BY <1>15 DEF Report, Goto, Job, Types, search, units, board, job, boss
<1>16. ASSUME NEW t \in Threads, Signal(t) PROVE Job'
  BY <1>16 DEF Signal, Goto, Job, Types, search, units, board, job, boss
<1>17. ASSUME Launch PROVE Job'
  <2>1. launched < NbSolvers => launched \in Threads
    BY NbSolversAssumption DEF Types, Threads
  <2>2. \A t \in Threads : t \in Nat
    BY DEF Threads
  <2>3. CASE launched < NbSolvers
    <3>1. /\ pc' = [pc EXCEPT ![launched] = "between"]
          /\ launched' = launched + 1
          /\ UNCHANGED <<status, bjobFinished, jobFinishedBy, jobStatus>>
      BY <1>17, <2>3 DEF Launch, job
    <3>2. pc[launched] = "created" /\ launched \in Nat
      BY <2>1, <2>3 DEF Job, Types
    <3> QED BY <2>1, <2>2, <2>3, <3>1, <3>2 DEF Job, Types
  <2>4. CASE ~(launched < NbSolvers)
    BY <1>17, <2>4 DEF Launch, Job, job
  <2> QED BY <2>3, <2>4
<1>18. ASSUME Wait PROVE Job'
  BY <1>18 DEF Wait, Job, Types, search, units, board, job, boss
<1>19. ASSUME Timeout PROVE Job'
  BY <1>19 DEF Timeout, Job, Types, search, units, board, job, boss
<1>20. ASSUME SpuriousWakeup PROVE Job'
  BY <1>20 DEF SpuriousWakeup, Job, Types, search, units, board, job, boss
<1>21. ASSUME Collect PROVE Job'
  BY <1>21 DEF Collect, Job, Types, search, units, board, job, boss
<1>22. CASE UNCHANGED vars
  BY <1>22 DEF vars, Job, Types, search, units, board, job, boss
<1> QED
  BY <1>1, <1>2, <1>3, <1>4, <1>5, <1>6, <1>7, <1>8, <1>9, <1>10, <1>11, <1>12,
     <1>13, <1>14, <1>15, <1>16, <1>17, <1>18, <1>19, <1>20, <1>21, <1>22
  DEF Next, Thread, Main

LEMMA CollectedNext ==
  ASSUME IInv, [Next]_vars
  PROVE  Collected'
<1> USE DEF IInv
<1>1. ASSUME NEW t \in Threads, Loop(t) PROVE Collected'
  BY <1>1 DEF Loop, Goto, Collected, AllJoined, Types, search, units, board, job, boss
<1>2. ASSUME NEW t \in Threads, ImportUnit(t) PROVE Collected'
  BY <1>2 DEF ImportUnit, Goto, Collected, AllJoined, Types, search, units, board, job, boss
<1>3. ASSUME NEW t \in Threads, ImportClause(t) PROVE Collected'
  BY <1>3 DEF ImportClause, Goto, Collected, AllJoined, Types, search, units, board, job, boss
<1>4. ASSUME NEW t \in Threads, NEW l \in Lits, PropagateFact(t, l) PROVE Collected'
  BY <1>4 DEF PropagateFact, Collected, AllJoined, Types, search, units, board, job, boss
<1>5. ASSUME NEW t \in Threads, ConflictOfFacts(t) PROVE Collected'
  BY <1>5 DEF ConflictOfFacts, Return, Goto, Collected, AllJoined, Types, search, units, board, job, boss
<1>6. ASSUME NEW t \in Threads, Propagated(t) PROVE Collected'
  BY <1>6 DEF Propagated, Goto, Collected, AllJoined, Types, search, units, board, job, boss
<1>7. ASSUME NEW t \in Threads, GiveUp(t) PROVE Collected'
  BY <1>7 DEF GiveUp, Return, Goto, Collected, AllJoined, Types, search, units, board, job, boss
<1>8. ASSUME NEW t \in Threads, NEW l \in Lits, LearnUnit(t, l) PROVE Collected'
  BY <1>8 DEF LearnUnit, Goto, Collected, AllJoined, Types, search, units, board, job, boss
<1>9. ASSUME NEW t \in Threads, ExportUnit(t) PROVE Collected'
  BY <1>9 DEF ExportUnit, Goto, Collected, AllJoined, Types, search, units, board, job, boss
<1>10. ASSUME NEW t \in Threads, NEW C \in Clauses, LearnClause(t, C) PROVE Collected'
  BY <1>10 DEF LearnClause, Goto, Collected, AllJoined, Types, search, units, board, job, boss
<1>11. ASSUME NEW t \in Threads, ExportClause(t) PROVE Collected'
  BY <1>11 DEF ExportClause, Goto, Collected, AllJoined, Types, search, units, board, job, boss
<1>12. ASSUME NEW t \in Threads, Restart(t) PROVE Collected'
  BY <1>12 DEF Restart, Return, Goto, Collected, AllJoined, Types, search, units, board, job, boss
<1>13. ASSUME NEW t \in Threads, FindModel(t) PROVE Collected'
  BY <1>13 DEF FindModel, Return, Goto, Collected, AllJoined, Types, search, units, board, job, boss
<1>14. ASSUME NEW t \in Threads, IFinished(t) PROVE Collected'
  BY <1>14 DEF IFinished, Goto, Collected, AllJoined, Types, search, units, board, job, boss
<1>15. ASSUME NEW t \in Threads, Report(t) PROVE Collected'
  BY <1>15 DEF Report, Goto, Collected, AllJoined, Types, search, units, board, job, boss
<1>16. ASSUME NEW t \in Threads, Signal(t) PROVE Collected'
  BY <1>16 DEF Signal, Goto, Collected, AllJoined, Types, search, units, board, job, boss
<1>17. ASSUME Launch PROVE Collected'
  BY <1>17 DEF Launch, Collected, AllJoined, Types, search, units, board, job, boss
<1>18. ASSUME Wait PROVE Collected'
  BY <1>18 DEF Wait, Collected, AllJoined, Types, search, units, board, job, boss
<1>19. ASSUME Timeout PROVE Collected'
  BY <1>19 DEF Timeout, Collected, AllJoined, Types, search, units, board, job, boss
<1>20. ASSUME SpuriousWakeup PROVE Collected'
  BY <1>20 DEF SpuriousWakeup, Collected, AllJoined, Types, search, units, board, job, boss
<1>21. ASSUME Collect PROVE Collected'
  BY <1>21 DEF Collect, Collected, AllJoined, Types, search, units, board, job, boss
<1>22. CASE UNCHANGED vars
  BY <1>22 DEF vars, Collected, AllJoined, Types, search, units, board, job, boss
<1> QED
  BY <1>1, <1>2, <1>3, <1>4, <1>5, <1>6, <1>7, <1>8, <1>9, <1>10, <1>11, <1>12,
     <1>13, <1>14, <1>15, <1>16, <1>17, <1>18, <1>19, <1>20, <1>21, <1>22
  DEF Next, Thread, Main

LEMMA Start == Init => IInv
<1> SUFFICES ASSUME Init PROVE IInv
  OBVIOUS
<1> USE DEF Init
<1>1. Types
  BY FormulasAssumption DEF Types, PCs, Board!Clear
<1>2. Known
  <2> SUFFICES ASSUME NEW A \in Assignments, Models(A, formula) PROVE KnownBy(A)
    BY DEF Known
  <2>1. \A t \in Threads : \A l \in facts[t] : Holds(A, l)
    <3> TAKE t \in Threads
    <3> TAKE l \in facts[t]
    <3>1. {l} \in formula
      OBVIOUS
    <3> QED BY <3>1 DEF Models, Satisfies
  <2> QED BY <2>1 DEF KnownBy, Board!Clear
<1>3. FactsConsistent
  BY FormulasAssumption DEF FactsConsistent
<1>4. Verdicts /\ Job /\ Collected
  BY DEF Verdicts, Job, Collected
<1> QED BY <1>1, <1>2, <1>3, <1>4 DEF IInv

LEMMA Step == IInv /\ [Next]_vars => IInv'
<1> SUFFICES ASSUME IInv, [Next]_vars PROVE IInv'
  OBVIOUS
<1>1. Types' /\ Known' /\ FactsConsistent'
  BY TypesNext, KnownNext, FactsNext
<1>2. Verdicts' /\ Job' /\ Collected'
  BY VerdictsNext, JobNext, CollectedNext
<1> QED BY <1>1, <1>2 DEF IInv

\* The answer collected is the one the first thread to finish found, and right.
LEMMA Answer == IInv => ResultRight
<1> SUFFICES ASSUME IInv, main = "returned" PROVE
      /\ bjobFinished
      /\ result = status[jobFinishedBy]
      /\ result = IF Satisfiable(formula) THEN "SAT" ELSE "UNSAT"
  BY DEF ResultRight
<1>1. AllJoined /\ result = jobStatus
  BY DEF IInv, Collected
<1>2. bjobFinished
  <2>1. 0 \in Threads
    BY NbSolversAssumption DEF Threads
  <2> QED BY <1>1, <2>1 DEF IInv, Job, AllJoined
<1>3. jobFinishedBy \in Threads /\ status[jobFinishedBy] # "none"
  BY <1>2 DEF IInv, Job
<1>4. pc[jobFinishedBy] = "exited"
  BY <1>1, <1>3 DEF AllJoined
<1>5. jobStatus = status[jobFinishedBy]
  BY <1>2, <1>4 DEF IInv, Job
<1>6. status[jobFinishedBy] \in {"SAT", "UNSAT"}
  BY <1>3 DEF IInv, Types
<1> QED BY <1>1, <1>2, <1>3, <1>5, <1>6 DEF IInv, Verdicts

LEMMA Entailment == IInv => KnownEntailed
BY DEF IInv, Known, KnownBy, KnownEntailed, Entails, Satisfies

LEMMA Invariance == Spec => []IInv
  BY Start, Step, PTL DEF Spec

\* What a thread knows, believes, exports and has still to import keeps its type
\* through every exchange (SharedCompanion.h:97-106, ParallelSolver.cc:317-419).
THEOREM ParallelTypes == Spec => []Types
<1>1. IInv => Types
  BY DEF IInv
<1> QED BY Invariance, <1>1, PTL

\* However many threads there are and however they interleave, what solve returns is
\* the answer of the first thread to finish, and it is the right one
\* (MultiSolvers.cc:604-690, ParallelSolver.cc:437-510).
THEOREM ParallelAnswer == Spec => []ResultRight
  BY Invariance, Answer, PTL

\* All that a thread knows, whether it learnt or imported it, follows from the
\* formula (ParallelSolver.cc:317-419, SharedCompanion.h:97-106).
THEOREM ParallelKnowledge == Spec => []KnownEntailed
  BY Invariance, Entailment, PTL

\* No thread holds contradictory facts, although two threads may prove and export
\* them: a literal whose variable has a value is passed over, also when that value
\* is the opposite one (ParallelSolver.cc:394).
THEOREM ParallelConsistent == Spec => []FactsConsistent
<1>1. IInv => FactsConsistent
  BY DEF IInv
<1> QED BY Invariance, <1>1, PTL
================================================================================

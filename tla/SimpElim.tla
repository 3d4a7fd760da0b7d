------------------------------- MODULE SimpElim -------------------------------
(***************************************************************************)
(* The preprocessor of simp/SimpSolver.cc: reading the clauses             *)
(* (addClause_), backward subsumption and subsumption resolution,          *)
(* asymmetric branching, variable elimination, and the extension of a      *)
(* model to the variables eliminated.                                      *)
(*                                                                         *)
(* Clauses are sets of literals.  The subsumption queue and the heap of    *)
(* candidates are sets: the order of the one, and the costs that order the *)
(* other, are left open.  Everything happens at level 0, where propagate   *)
(* runs to the end after each enqueue: the trail is the set of its         *)
(* literals, closed under propagation.  A clause that is removed leaves    *)
(* the occurrence lists and the queue at once; the code marks it and skips *)
(* what is marked.                                                         *)
(***************************************************************************)
EXTENDS Propositional, Integers, Sequences, FiniteSets

CONSTANTS Formulas,   \* the input files: sequences of clauses
          MaxClauses, \* bound: clauses in the database at a time
          Options     \* what -asymm, -rcheck, -grow and -cl-lim may be

ASSUME VarsAssumption == Vars \subseteq Nat \ {0} /\ IsFiniteSet(Vars)
ASSUME BoundAssumption == MaxClauses \in Nat
ASSUME FormulasAssumption == \A F \in Formulas : F \in Seq(SUBSET Lits)
ASSUME OptionsAssumption ==
  Options \subseteq [asymm : BOOLEAN, rcheck : BOOLEAN, grow : Int, clauseLim : Int]

Refs == 1 .. MaxClauses

VARIABLES
  option,     \* use_asymm, use_rcheck, grow, clause_lim
  input,      \* the file: the clauses in their order
  nextClause, \* how many of them addClause_ has been given, plus one
  db,         \* the clauses that are not marked as removed, by their CRef
  occurs,     \* occurs[v]
  facts,      \* the literals on the trail
  pending,    \* those from bwdsub_assigns on
  queue,      \* subsumption_queue
  touched,    \* touched
  heap,       \* elim_heap
  eliminated, \* eliminated
  elimclauses,\* elimclauses: the literal to set and the rest of the clause
  interrupt,  \* asynch_interrupt
  cur,        \* the clause backwardSubsumptionCheck compares with the others
  elim,       \* the variable eliminate has taken from the heap
  todo,       \* what is left of the innermost loop: clauses, or pairs of clauses
  caller,     \* where backwardSubsumptionCheck returns to
  pc, ok

vars == <<option, input, nextClause, db, occurs, facts, pending, queue, touched, heap,
          eliminated, elimclauses, interrupt, cur, elim, todo, caller, pc, ok>>

file  == <<option, input, nextClause>>
store == <<db, occurs, facts, pending, queue, heap>>
loops == <<cur, elim, todo, caller>>
gone  == <<eliminated, elimclauses>>

-----------------------------------------------------------------------------
VarsOf(C)  == {Var(l) : l \in C}
Clauses    == {db[r] : r \in DOMAIN db}
IsTrue(l)  == l \in facts
IsFalse(l) == Neg(l) \in facts
Assigned(v) == <<v, TRUE>> \in facts \/ <<v, FALSE>> \in facts
NewRef == CHOOSE r \in Refs \ DOMAIN db : \A q \in Refs \ DOMAIN db : r <= q

Extend(f, x, y) == [z \in DOMAIN f \cup {x} |-> IF z = x THEN y ELSE f[z]]
Only(f, S) == [z \in DOMAIN f \cap S |-> f[z]]

\* propagate: the literals that are true in the end; both a literal and its
\* negation if there is a conflict.
Units(S, D) == {l \in UNION D : \E C \in D : l \in C /\ \A m \in C \ {l} : Neg(m) \in S}
Propagated(S, D) ==
  LET round == [T \in SUBSET Lits |-> T \cup Units(T, D)]
      after[n \in 0 .. Cardinality(Lits)] == IF n = 0 THEN S ELSE round[after[n - 1]]
  IN after[Cardinality(Lits)]
Conflicting(S) == \E l \in S : Neg(l) \in S

\* enqueue and propagate.  Nothing is looked at after a conflict.
Enqueue(l, D) ==
  LET S == Propagated(facts \cup {l}, D) IN
    /\ facts' = IF Conflicting(S) THEN facts ELSE S
    /\ pending' = IF Conflicting(S) THEN pending ELSE pending \cup (S \ facts)
    /\ ok' = ~Conflicting(S)

\* The variables updateElimHeap puts into the heap; asymmVar's is frozen.
Frozen == IF pc = "asymm" \/ caller = "asymm" THEN {elim} ELSE {}
Candidates(V) ==
  {v \in V : v \notin Frozen /\ v \notin eliminated /\ ~Assigned(v)}

-----------------------------------------------------------------------------
Init ==
  /\ option \in Options
  /\ input \in Formulas
  /\ nextClause = 1
  /\ db = <<>>
  /\ occurs = [v \in Vars |-> {}]
  /\ facts = {}
  /\ pending = {}
  /\ queue = {}
  /\ touched = {}
  /\ heap = Vars
  /\ eliminated = {}
  /\ elimclauses = <<>>
  /\ interrupt = FALSE
  /\ cur = [ref |-> 0, lits |-> {}]
  /\ elim = 0
  /\ todo = {}
  /\ caller = "none"
  /\ pc = "load"
  /\ ok = TRUE

\* implied: the clause is false only if propagation runs into a conflict.
Implied(ps) ==
  /\ ~\E l \in ps : IsTrue(l) \/ Neg(l) \in ps
  /\ Conflicting(Propagated(facts \cup {Neg(l) : l \in ps}, Clauses))

\* addClause_, Solver's and SimpSolver's.
AddClause_(ps) ==
  LET C == {l \in ps : ~IsFalse(l)}
      skip == \/ \E l \in ps : IsTrue(l) \/ Neg(l) \in ps
              \/ option.rcheck /\ Implied(ps)
  IN \/ /\ skip
        /\ UNCHANGED <<store, touched, ok>>
     \/ /\ ~skip /\ C = {}
        /\ ok' = FALSE
        /\ UNCHANGED <<store, touched>>
     \/ /\ ~skip /\ Cardinality(C) = 1
        /\ \E l \in C : Enqueue(l, Clauses)
        /\ UNCHANGED <<db, occurs, queue, touched, heap>>
     \/ /\ ~skip /\ Cardinality(C) > 1
        /\ DOMAIN db # Refs
        /\ db' = Extend(db, NewRef, C)
        /\ occurs' = [v \in Vars |-> IF v \in VarsOf(C) THEN occurs[v] \cup {NewRef}
                                     ELSE occurs[v]]
        /\ queue' = queue \cup {NewRef}
        /\ touched' = touched \cup VarsOf(C)
        /\ UNCHANGED <<facts, pending, heap, ok>>

\* removeClause.
RemoveClauses(S) ==
  /\ db' = Only(db, DOMAIN db \ S)
  /\ occurs' = [v \in Vars |-> occurs[v] \ S]
  /\ queue' = queue \ S
  /\ heap' = heap \cup Candidates(UNION {VarsOf(db[r]) : r \in S})

\* Mutant: the clause stays in the literal's occurrence list.
StrengthenOnly(r, l) ==
  LET C == db[r] \ {l} IN
    IF Cardinality(C) = 1
    THEN /\ RemoveClauses({r})
         /\ \E u \in C : Enqueue(u, Clauses \ {db[r]})
    ELSE /\ db' = [db EXCEPT ![r] = C]
         /\ queue' = queue \cup {r}
         /\ heap' = heap \cup Candidates({Var(l)})
         /\ UNCHANGED <<occurs, facts, pending, ok>>

\* strengthenClause: a clause of two literals is removed and becomes a fact.
StrengthenClause(r, l) ==
  LET C == db[r] \ {l} IN
    IF Cardinality(C) = 1
    THEN /\ RemoveClauses({r})
         /\ \E u \in C : Enqueue(u, {db[q] : q \in DOMAIN db \ {r}})
    ELSE /\ db' = [db EXCEPT ![r] = C]
         /\ occurs' = [occurs EXCEPT ![Var(l)] = @ \ {r}]
         /\ queue' = queue \cup {r}
         /\ heap' = heap \cup Candidates({Var(l)})
         /\ UNCHANGED <<facts, pending, ok>>

-----------------------------------------------------------------------------
Load ==
  /\ pc = "load"
  /\ nextClause <= Len(input)
  /\ nextClause' = nextClause + 1
  /\ AddClause_(input[nextClause])
  /\ pc' = IF ok' THEN "load" ELSE "done"
  /\ UNCHANGED <<option, input, gone, interrupt, loops>>

\* eliminate begins: simplify has nothing to do, the trail being propagated and
\* remove_satisfied off.
Eliminate ==
  /\ pc = "load"
  /\ nextClause > Len(input)
  /\ pc' = "main"
  /\ UNCHANGED <<file, store, touched, gone, interrupt, loops, ok>>

\* The signal handler.
Interrupt ==
  /\ pc \notin {"load", "done"}
  /\ ~interrupt
  /\ interrupt' = TRUE
  /\ UNCHANGED <<file, store, touched, gone, loops, pc, ok>>

\* Mutant: only what was queued when it changed is checked.
GatherNothing ==
  /\ pc = "main"
  /\ touched # {} \/ pending # {} \/ heap # {}
  /\ touched' = {}
  /\ pc' = "check"
  /\ caller' = "main"
  /\ UNCHANGED <<file, store, gone, interrupt, cur, elim, todo, ok>>

\* The main loop: gatherTouchedClauses, then backwardSubsumptionCheck if there is
\* anything to check.
GatherTouchedClauses ==
  /\ pc = "main"
  /\ touched # {} \/ pending # {} \/ heap # {}
  /\ queue' = queue \cup UNION {occurs[v] : v \in touched}
  /\ touched' = {}
  /\ pc' = "check"
  /\ caller' = "main"
  /\ UNCHANGED <<file, db, occurs, facts, pending, heap, gone, interrupt, cur,
                 elim, todo, ok>>

Cleanup ==
  /\ pc = "main"
  /\ touched = {} /\ pending = {} /\ heap = {}
  /\ pc' = "done"
  /\ UNCHANGED <<file, store, touched, gone, interrupt, loops, ok>>

\* backwardSubsumptionCheck, between two clauses.  If the queue is empty the next
\* fact is put into it.
NextInQueue ==
  /\ pc = "check"
  /\ ~interrupt
  /\ \/ \E r \in queue :
          /\ cur' = [ref |-> r, lits |-> db[r]]
          /\ queue' = queue \ {r}
          /\ UNCHANGED pending
     \/ /\ queue = {}
        /\ \E l \in pending :
             /\ cur' = [ref |-> 0, lits |-> {l}]
             /\ pending' = pending \ {l}
        /\ UNCHANGED queue
  /\ \E best \in VarsOf(cur'.lits) : todo' = occurs[best] \ {cur'.ref}
  /\ pc' = "scan"
  /\ UNCHANGED <<file, db, occurs, facts, touched, heap, gone, interrupt, elim,
                 caller, ok>>

\* Clause::subsumes, for two clauses that are no tautologies: C is D, or part of
\* it, but for literals of C whose negations are in D.
Flipped(C, D) == {l \in C : l \notin D /\ Neg(l) \in D}
Subsumes(C, D) == C \subseteq D
\* Mutant: any literal, though more than one is negated.
StrengthensAnyway(C, D) == /\ Flipped(C, D) # {}
                           /\ C \ Flipped(C, D) \subseteq D
Strengthens(C, D) == /\ Cardinality(Flipped(C, D)) = 1
                     /\ C \ Flipped(C, D) \subseteq D

\* One candidate.
Compare ==
  /\ pc = "scan"
  /\ \E r \in todo :
       /\ todo' = todo \ {r}
       /\ \/ /\ Subsumes(cur.lits, db[r])
             /\ RemoveClauses({r})
             /\ UNCHANGED <<facts, pending, ok>>
          \/ /\ Strengthens(cur.lits, db[r])
             /\ \E l \in Flipped(cur.lits, db[r]) : StrengthenClause(r, Neg(l))
          \/ /\ ~Subsumes(cur.lits, db[r]) /\ ~Strengthens(cur.lits, db[r])
             /\ UNCHANGED <<store, ok>>
  /\ pc' = IF ~ok' THEN "done" ELSE IF todo' = {} THEN "check" ELSE "scan"
  /\ UNCHANGED <<file, touched, gone, interrupt, cur, elim, caller>>

NoCandidates ==
  /\ pc = "scan"
  /\ todo = {}
  /\ pc' = "check"
  /\ UNCHANGED <<file, store, touched, gone, interrupt, loops, ok>>

\* backwardSubsumptionCheck returns.  On an interrupt it empties the queue, and
\* eliminate its heap.
CheckDone ==
  /\ pc = "check"
  /\ interrupt \/ (queue = {} /\ pending = {})
  /\ queue' = {}
  /\ pending' = {}
  /\ IF caller = "main" /\ interrupt
     THEN pc' = "done" /\ heap' = {}
     ELSE pc' = (IF caller = "asymm" THEN "elim" ELSE "pick") /\ UNCHANGED heap
  /\ caller' = "none"
  /\ UNCHANGED <<file, db, occurs, facts, touched, gone, interrupt, cur, elim,
                 todo, ok>>

-----------------------------------------------------------------------------
\* The inner loop of eliminate.
Pick ==
  /\ pc = "pick"
  /\ \E v \in heap :
       /\ heap' = heap \ {v}
       /\ IF interrupt \/ v \in eliminated \/ Assigned(v)
          THEN /\ pc' = IF interrupt THEN "main" ELSE "pick"
               /\ UNCHANGED <<elim, todo>>
          ELSE /\ elim' = v
               /\ IF option.asymm /\ occurs[v] # {}
                  THEN pc' = "asymm" /\ todo' = occurs[v]
                  ELSE pc' = "elim" /\ UNCHANGED todo
  /\ UNCHANGED <<file, db, occurs, facts, pending, queue, touched, gone, interrupt,
                 cur, caller, ok>>

HeapEmpty ==
  /\ pc = "pick"
  /\ heap = {}
  /\ pc' = "main"
  /\ UNCHANGED <<file, store, touched, gone, interrupt, loops, ok>>

\* asymm, for one of the clauses of elim: if the others of its literals cannot all
\* be false, the one of elim is dropped, or a false one that comes after it.  When
\* the clause leaves the list asymmVar goes through, the next one is skipped.
AsymmVar ==
  /\ pc = "asymm"
  /\ \E r \in todo :
       LET c == db[r]
           others == {l \in c : Var(l) # elim /\ ~IsFalse(l)}
       IN \/ /\ \/ r \notin DOMAIN db
                \/ \E l \in c : IsTrue(l)
                \/ ~Conflicting(Propagated(facts \cup {Neg(l) : l \in others}, Clauses))
             /\ todo' = todo \ {r}
             /\ UNCHANGED <<store, ok>>
          \/ /\ r \in DOMAIN db /\ ~\E l \in c : IsTrue(l)
             /\ Conflicting(Propagated(facts \cup {Neg(l) : l \in others}, Clauses))
             /\ \E l \in c \ others :
                  /\ StrengthenClause(r, l)
                  /\ IF Var(l) = elim /\ Cardinality(c) > 2
                     THEN \E S \in SUBSET (todo \ {r}) :
                            /\ Cardinality(S) = (IF todo = {r} THEN 0 ELSE 1)
                            /\ todo' = (todo \ {r}) \ S
                     ELSE todo' = todo \ {r}
  /\ pc' = IF ok' THEN "asymm" ELSE "done"
  /\ UNCHANGED <<file, touched, gone, interrupt, cur, elim, caller>>

AsymmDone ==
  /\ pc = "asymm"
  /\ todo = {}
  /\ pc' = "check"
  /\ caller' = "asymm"
  /\ UNCHANGED <<file, store, touched, gone, interrupt, cur, elim, todo, ok>>

-----------------------------------------------------------------------------
OccurrencesOf(l) == {r \in occurs[Var(l)] : l \in db[r]}

\* merge: no resolvent that is always true.
Merge(r, s, v) == (db[r] \ {<<v, TRUE>>}) \cup (db[s] \ {<<v, FALSE>>})
Merging(v) == {p \in OccurrencesOf(<<v, TRUE>>) \X OccurrencesOf(<<v, FALSE>>) :
                 ~\E l \in Merge(p[1], p[2], v) : Neg(l) \in Merge(p[1], p[2], v)}

\* mkElimClause: the clause, v's literal apart.
MkElimClause(l, r) == [lit |-> l, rest |-> db[r] \ {l}]

\* Mutant: the clauses of the other side are kept.
StoredOther(v) ==
  LET pos == OccurrencesOf(<<v, TRUE>>)
      neg == OccurrencesOf(<<v, FALSE>>)
      positive == Cardinality(pos) > Cardinality(neg)
      l == <<v, ~positive>>
  IN [lit |-> l, clauses |-> {MkElimClause(l, r) : r \in IF positive THEN pos ELSE neg}]

\* The clauses kept to set v by, and before them on the way back the value that
\* satisfies all the others.
Stored(v) ==
  LET pos == OccurrencesOf(<<v, TRUE>>)
      neg == OccurrencesOf(<<v, FALSE>>)
      positive == Cardinality(pos) > Cardinality(neg)
      l == <<v, ~positive>>
  IN [lit |-> l, clauses |-> {MkElimClause(l, r) : r \in IF positive THEN neg ELSE pos}]

\* Mutant: a variable not worth eliminating goes back into the heap.
PutBack ==
  /\ pc = "elim"
  /\ Assigned(elim) \/ Cardinality(Merging(elim)) > Cardinality(occurs[elim])
  /\ heap' = heap \cup {elim}
  /\ pc' = "pick"
  /\ UNCHANGED <<file, db, occurs, facts, pending, queue, touched, gone, interrupt,
                 loops, ok>>

EliminateVar ==
  /\ pc = "elim"
  /\ IF \/ Assigned(elim)
        \/ Cardinality(Merging(elim)) > Cardinality(occurs[elim]) + option.grow
        \/ /\ option.clauseLim # -1
           /\ \E p \in Merging(elim) : Cardinality(Merge(p[1], p[2], elim)) > option.clauseLim
     THEN pc' = "pick" /\ UNCHANGED <<gone, todo>>
     ELSE /\ eliminated' = eliminated \cup {elim}
          /\ elimclauses' = Append(elimclauses, Stored(elim))
          /\ todo' = Merging(elim)
          /\ pc' = "resolve"
  /\ UNCHANGED <<file, store, touched, interrupt, cur, elim, caller, ok>>

AddResolvent ==
  /\ pc = "resolve"
  /\ \E p \in todo :
       /\ AddClause_(Merge(p[1], p[2], elim))
       /\ todo' = todo \ {p}
  /\ pc' = IF ok' THEN "resolve" ELSE "done"
  /\ UNCHANGED <<file, gone, interrupt, cur, elim, caller>>

\* Mutant: one side of the resolution stays.
RemovePositive ==
  /\ pc = "resolve"
  /\ todo = {}
  /\ RemoveClauses(OccurrencesOf(<<elim, TRUE>>))
  /\ pc' = "check"
  /\ caller' = "elim"
  /\ UNCHANGED <<file, facts, pending, touched, gone, interrupt, cur, elim, todo, ok>>

RemoveOccurrences ==
  /\ pc = "resolve"
  /\ todo = {}
  /\ RemoveClauses(occurs[elim])
  /\ pc' = "check"
  /\ caller' = "elim"
  /\ UNCHANGED <<file, facts, pending, touched, gone, interrupt, cur, elim, todo, ok>>

Step ==
  \/ Load \/ Eliminate \/ GatherTouchedClauses \/ Cleanup
  \/ NextInQueue \/ Compare \/ NoCandidates \/ CheckDone
  \/ Pick \/ HeapEmpty \/ AsymmVar \/ AsymmDone
  \/ EliminateVar \/ AddResolvent \/ RemoveOccurrences

Next == Step \/ Interrupt

Spec == Init /\ [][Next]_vars

\* One thread: every step but the signal's is taken.
FairSpec == Spec /\ WF_vars(Step)

-----------------------------------------------------------------------------
\* extendModel: from the variable eliminated last to the first, its value is the
\* stored one unless one of its clauses needs the other.
Forced(e, A)   == \E c \in e.clauses : \A l \in c.rest : ~Holds(A, l)
SetByOne(e, A) == [A EXCEPT ![Var(e.lit)] = IF Forced(e, A) THEN e.lit[2] ELSE ~e.lit[2]]
ExtendedBy(stored, A) ==
  LET after[n \in 0 .. Len(stored)] ==
        IF n = Len(stored) THEN A ELSE SetByOne(stored[n + 1], after[n + 1])
  IN after[0]
ExtendModel(A) == ExtendedBy(elimclauses, A)

-----------------------------------------------------------------------------
TypeOK ==
  /\ option \in Options /\ input \in Formulas /\ nextClause \in 1 .. Len(input) + 1
  /\ DOMAIN db \subseteq Refs
  /\ \A r \in DOMAIN db : db[r] \in SUBSET Lits /\ Cardinality(db[r]) > 1
  /\ occurs \in [Vars -> SUBSET Refs]
  /\ facts \in SUBSET Lits /\ pending \in SUBSET facts
  /\ queue \in SUBSET DOMAIN db
  /\ touched \in SUBSET Vars /\ heap \in SUBSET Vars /\ eliminated \in SUBSET Vars
  /\ Len(elimclauses) = Cardinality(eliminated)
  /\ interrupt \in BOOLEAN /\ ok \in BOOLEAN
  /\ cur.lits \in SUBSET Lits /\ elim \in Vars \cup {0}
  /\ caller \in {"none", "main", "asymm", "elim"}
  /\ pc \in {"load", "main", "check", "scan", "pick", "asymm", "elim", "resolve", "done"}

\* What eliminateVar takes for all the clauses of a variable are all of them
\* (strengthenClause and removeClause keep the occurrence lists).
OccursComplete ==
  /\ TypeOK
  /\ \A v \in Vars : occurs[v] = {r \in DOMAIN db : v \in VarsOf(db[r])}

\* A variable once eliminated never comes back with a resolvent or a strengthened
\* clause (eliminate frees its lists and makes it no decision variable).
EliminatedGone ==
  \A v \in eliminated : (pc = "resolve" /\ v = elim) \/ ~ok \/ occurs[v] = {}

\* When eliminate returns, having not been interrupted, no clause subsumes or
\* strengthens another, and none has a literal whose value is known: every clause
\* was in the queue after its last change, though resolvents and strengthened
\* clauses come while it is worked off (gatherTouchedClauses).
Reduced ==
  (pc = "done" /\ ok /\ ~interrupt) =>
    /\ \A r, s \in DOMAIN db :
         r # s => ~Subsumes(db[r], db[s]) /\ ~Strengthens(db[r], db[s])
    /\ \A r \in DOMAIN db : \A v \in VarsOf(db[r]) : ~Assigned(v)

\* Whatever model the search finds of the clauses that are left, extendModel makes
\* it a model of the file.
Remaining == Clauses \cup {{l} : l \in {m \in facts : Var(m) \notin eliminated}}
ModelExtends ==
  (pc = "done" /\ ok) =>
    \A A \in Assignments :
      Models(A, Remaining) => \A i \in 1 .. Len(input) : Satisfies(ExtendModel(A), input[i])

\* eliminate returns.
Terminates == <>(pc = "done")

-----------------------------------------------------------------------------
\* The rules it implements.  While the resolvents are added the variable is not
\* gone yet.
ReallyGone == IF pc = "resolve" \/ (~ok /\ caller = "none")
              THEN eliminated \ {elim} ELSE eliminated
Unread == {input[i] : i \in nextClause .. Len(input)}

Rules == INSTANCE ElimRules
           WITH formula  <- {input[i] : i \in 1 .. Len(input)},
                clauses  <- IF ok
                            THEN Clauses \cup Unread \cup
                                 {{l} : l \in {m \in facts : Var(m) \notin ReallyGone}}
                            ELSE {{}},
                gone     <- ReallyGone,
                answer   <- IF ok THEN "none" ELSE "UNSAT"

\* Every step replaces the clauses by ones with the same models, eliminates a
\* variable whose resolvents all follow from the clauses that stay, or reports a
\* contradiction that is there.
ImplementsRules == Rules!Spec
==============================================================================

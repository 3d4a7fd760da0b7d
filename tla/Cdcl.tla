--------------------------------- MODULE Cdcl ---------------------------------
(***************************************************************************)
(* The search of core/Solver.cc: reading the clauses (addClause_), unit    *)
(* propagation over two watched literals and over binary clauses           *)
(* (propagate), conflict analysis, clause minimisation, backjumping and    *)
(* learning (analyze, litRedundant, minimisationWithBinaryResolution,      *)
(* cancelUntil, search), restarts, reduceDB, simplify and adaptSolver.   *)
(*                                                                         *)
(* A watcher list is the set of the clauses whose first or second literal  *)
(* is the negation of the list's literal, so a clause is its two watched   *)
(* literals, in order, and the set of the others: propagate may move the   *)
(* watch to any of those that is not false, and a watcher's blocker may be *)
(* any literal of the clause.  Activities, phases, LBDs and the counters   *)
(* that time restarts and reductions are not kept: what they select is     *)
(* chosen freely.                                                          *)
(***************************************************************************)
EXTENDS Propositional, Integers, Sequences, FiniteSets

CONSTANTS Formulas,      \* the input files: sequences of clauses
          Decidable(_),  \* bound: the literals a decision may make true, by file
          MaxClauses,    \* bound: clauses in the database at a time
          MaxReductions(_), \* bound: how often reduceDB runs, by file
          Adapts(_)      \* whether -adapt is set and the search on the file
                         \* comes to its 100000th conflict

ASSUME VarsAssumption == Vars \subseteq Nat \ {0} /\ IsFiniteSet(Vars)
ASSUME BoundsAssumption ==
  /\ MaxClauses \in Nat
  /\ \A F \in Formulas : MaxReductions(F) \in Nat
ASSUME FormulasAssumption == \A F \in Formulas : F \in Seq(SUBSET Lits)

ASSUME OptionAssumption == \A F \in Formulas : Adapts(F) \in BOOLEAN

ASSUME DecidableAssumption ==
  \A F \in Formulas : /\ Decidable(F) \subseteq Lits
                      /\ \A v \in Vars : \E l \in Decidable(F) : Var(l) = v

Refs == 1 .. MaxClauses
Undef == 0              \* CRef_Undef

VARIABLES
  input,      \* the file: the clauses in their order
  nextClause, \* how many of them addClause_ has been given, plus one
  db,         \* the clauses allocated in ca and attached, by their CRef
  trail,      \* trail
  trailLim,   \* trail_lim: the length of the trail below each decision
  reason,     \* vardata[v].reason, for the assigned variables
  level,      \* vardata[v].level, for the assigned variables
  qhead,      \* how much of the trail propagate has dequeued
  visit,      \* watchers of the literal dequeued last not looked at yet
  confl,      \* the clause propagate returned
  conflictC,  \* there was a conflict since the last restart
  simpAssigns,\* simpDB_assigns
  reductions, \* how often reduceDB ran
  adapt,      \* adaptStrategies
  pc, status

vars == <<input, nextClause, db, trail, trailLim, reason, level, qhead, visit,
          confl, conflictC, simpAssigns, reductions, adapt, pc, status>>

-----------------------------------------------------------------------------
LitsOf(c)  == {c.w[1], c.w[2]} \cup c.rest
IsBin(c)   == c.rest = {}
TrueLits   == {trail[i] : i \in 1 .. Len(trail)}
IsTrue(l)  == l \in TrueLits
IsFalse(l) == Neg(l) \in TrueLits
IsOpen(l)  == ~IsTrue(l) /\ ~IsFalse(l)
DecisionLevel == Len(trailLim)

\* newVar is called for every variable up to the largest that occurs in the file.
Variables == {v \in Vars : \E i \in 1 .. Len(input) : \E l \in input[i] : v <= Var(l)}
LevelOf(l) == level[Var(l)]
Learnts == {r \in DOMAIN db : db[r].learnt}

\* Lit's order, by variable and then by sign.
Key(l) == 2 * Var(l) + (IF l[2] THEN 0 ELSE 1)
Least(S) == CHOOSE l \in S : \A m \in S : Key(l) <= Key(m)

\* A freed clause that is still somebody's reason is not allocated anew.
FreeRefs == Refs \ (DOMAIN db \cup {reason[v] : v \in DOMAIN reason})
NewRef == CHOOSE r \in FreeRefs : \A q \in FreeRefs : r <= q

Extend(f, x, y) == [z \in DOMAIN f \cup {x} |-> IF z = x THEN y ELSE f[z]]
Only(f, S) == [z \in DOMAIN f \cap S |-> f[z]]

UncheckedEnqueue(l, from) ==
  /\ trail' = Append(trail, l)
  /\ reason' = Extend(reason, Var(l), from)
  /\ level' = Extend(level, Var(l), DecisionLevel)

-----------------------------------------------------------------------------
Init ==
  /\ input \in Formulas
  /\ nextClause = 1
  /\ db = <<>>
  /\ trail = <<>>
  /\ trailLim = <<>>
  /\ reason = <<>>
  /\ level = <<>>
  /\ qhead = 0
  /\ visit = {}
  /\ confl = Undef
  /\ conflictC = FALSE
  /\ simpAssigns = -1
  /\ reductions = 0
  /\ adapt = Adapts(input)
  /\ pc = "load"
  /\ status = "none"

Answer(s) == status' = s /\ pc' = "done"

\* addClause_: a clause that is true or contains a literal and its negation is
\* dropped, as are the literals that are false; a single literal is enqueued and
\* propagated at once.
AddClause ==
  /\ pc = "load"
  /\ nextClause <= Len(input)
  /\ nextClause' = nextClause + 1
  /\ LET ps == input[nextClause]
         C  == {l \in ps : ~IsFalse(l)}
         satisfied == \E l \in ps : IsTrue(l) \/ Neg(l) \in ps
     IN \/ /\ satisfied
           /\ UNCHANGED <<db, trail, reason, level, pc, status>>
        \/ /\ ~satisfied /\ C = {}
           /\ Answer("UNSAT")
           /\ UNCHANGED <<db, trail, reason, level>>
        \/ /\ ~satisfied /\ Cardinality(C) = 1
           /\ \E l \in C : UncheckedEnqueue(l, Undef)
           /\ pc' = "propagate"
           /\ UNCHANGED <<db, status>>
        \/ /\ ~satisfied /\ Cardinality(C) > 1
           /\ FreeRefs # {}
           /\ LET a == Least(C)
                  b == Least(C \ {a})
              IN db' = Extend(db, NewRef,
                              [w |-> <<a, b>>, rest |-> C \ {a, b}, learnt |-> FALSE])
           /\ UNCHANGED <<trail, reason, level, pc, status>>
  /\ UNCHANGED <<input, trailLim, qhead, visit, confl, conflictC, simpAssigns,
                 reductions, adapt>>

\* All clauses are read; solve_ starts the search.
Solve ==
  /\ pc = "load"
  /\ nextClause > Len(input)
  /\ pc' = "propagate"
  /\ UNCHANGED <<input, nextClause, db, trail, trailLim, reason, level, qhead,
                 visit, confl, conflictC, simpAssigns, reductions, adapt, status>>

-----------------------------------------------------------------------------
\* The watchers looked at when l becomes true: watches[l] and watchesBin[l].
WatchersOfFirst(l) == {r \in DOMAIN db : db[r].w[1] = Neg(l)}            \* mutant
Watchers(l) == {r \in DOMAIN db : \E i \in {1, 2} : db[r].w[i] = Neg(l)}

\* propagate, one literal at a time, one watcher at a time.
Dequeue ==
  /\ pc = "propagate"
  /\ visit = {}
  /\ IF qhead < Len(trail)
     THEN /\ qhead' = qhead + 1
          /\ visit' = Watchers(trail[qhead + 1])
          /\ UNCHANGED pc
     ELSE /\ pc' = IF nextClause <= Len(input) THEN "load" ELSE "decide"
          /\ UNCHANGED <<qhead, visit>>
  /\ UNCHANGED <<input, nextClause, db, trail, trailLim, reason, level, confl,
                 conflictC, simpAssigns, reductions, adapt, status>>

FalseLit == Neg(trail[qhead])
OtherWatch(c) == IF c.w[1] = FalseLit THEN c.w[2] ELSE c.w[1]

\* A binary clause: its conflict is returned as it is found, with the rest of the
\* queue not propagated.
VisitBinary(r) ==
  /\ pc = "propagate"
  /\ r \in visit /\ IsBin(db[r])
  /\ LET imp == OtherWatch(db[r]) IN
       \/ /\ IsFalse(imp)
          /\ confl' = r /\ pc' = "conflict" /\ visit' = {}
          /\ UNCHANGED <<trail, reason, level>>
       \/ /\ IsOpen(imp)
          /\ UncheckedEnqueue(imp, r)
          /\ visit' = visit \ {r}
          /\ UNCHANGED <<confl, pc>>
       \/ /\ IsTrue(imp)
          /\ visit' = visit \ {r}
          /\ UNCHANGED <<trail, reason, level, confl, pc>>
  /\ UNCHANGED <<input, nextClause, db, trailLim, qhead, conflictC, simpAssigns,
                 reductions, adapt, status>>

\* Where a watch may move.
TrueReplacements(c) == {l \in c.rest : IsTrue(l)}                        \* mutant
Replacements(c) == {l \in c.rest : ~IsFalse(l)}

\* The other clauses: skip if the blocker is true; otherwise put the false
\* literal second, and keep, move the watch, enqueue or report a conflict.
VisitLong(r) ==
  /\ pc = "propagate"
  /\ r \in visit /\ ~IsBin(db[r])
  /\ \A q \in visit : ~IsBin(db[q])
  /\ LET c == db[r]
         first == OtherWatch(c)
         turned == [c EXCEPT !.w = <<first, FalseLit>>]
         others == Replacements(c)
     IN \/ /\ \E blocker \in LitsOf(c) : IsTrue(blocker)
           /\ visit' = visit \ {r}
           /\ UNCHANGED <<db, trail, reason, level, qhead, confl, pc>>
        \/ /\ IsTrue(first)
           /\ db' = [db EXCEPT ![r] = turned]
           /\ visit' = visit \ {r}
           /\ UNCHANGED <<trail, reason, level, qhead, confl, pc>>
        \/ /\ ~IsTrue(first)
           /\ \E l \in others :
                db' = [db EXCEPT ![r].w = <<first, l>>,
                                 ![r].rest = (@ \ {l}) \cup {FalseLit}]
           /\ visit' = visit \ {r}
           /\ UNCHANGED <<trail, reason, level, qhead, confl, pc>>
        \/ /\ IsFalse(first) /\ others = {}
           /\ db' = [db EXCEPT ![r] = turned]
           /\ confl' = r /\ pc' = "conflict" /\ visit' = {}
           /\ qhead' = Len(trail)
           /\ UNCHANGED <<trail, reason, level>>
        \/ /\ IsOpen(first) /\ others = {}
           /\ db' = [db EXCEPT ![r] = turned]
           /\ UncheckedEnqueue(first, r)
           /\ visit' = visit \ {r}
           /\ UNCHANGED <<qhead, confl, pc>>
  /\ UNCHANGED <<input, nextClause, trailLim, conflictC, simpAssigns, reductions,
                 adapt, status>>

-----------------------------------------------------------------------------
\* analyze: resolve the conflict clause with the reasons of its literals, in the
\* order opposite to the trail's, until one literal of the current level is left.
\* Literals of level 0 are dropped.  Resolvent[i] is the clause once the
\* literals above trail[i] have been considered.
AboveZero(S) == {l \in S : LevelOf(l) > 0}
Current(S)   == {l \in S : LevelOf(l) = DecisionLevel}

Resolvent[i \in 0 .. Len(trail)] ==
  IF i = Len(trail)
  THEN AboveZero(LitsOf(db[confl]))
  ELSE LET S == Resolvent[i + 1]
           p == trail[i + 1]
       IN IF Cardinality(Current(S)) = 1 \/ Neg(p) \notin S
          THEN S
          ELSE (S \ {Neg(p)}) \cup
                 (AboveZero(LitsOf(db[reason[Var(p)]])) \ {p})

\* Mutant: having a reason is enough.
Implied(S) == {Neg(trail[i]) : i \in {j \in 1 .. Len(trail) :
                                         reason[Var(trail[j])] # Undef}}

\* litRedundant: a false literal whose reason leads, by way of other reasons, to
\* literals of S and of level 0 only.
Redundant(S) ==
  LET implied[i \in 1 .. Len(trail)] ==
        LET r == reason[Var(trail[i])] IN
          /\ r # Undef /\ LevelOf(trail[i]) > 0
          /\ \A q \in LitsOf(db[r]) \ {trail[i]} :
               \/ LevelOf(q) = 0
               \/ q \in S
               \/ \E j \in 1 .. i - 1 : trail[j] = Neg(q) /\ implied[j]
  IN {Neg(trail[i]) : i \in {j \in 1 .. Len(trail) : implied[j]}}

\* minimisationWithBinaryResolution: literals that a binary clause with the
\* asserting literal resolves away.
BinaryRedundant(uip) ==
  {l \in Lits : \E r \in DOMAIN db : IsBin(db[r]) /\ LitsOf(db[r]) = {uip, Neg(l)}}

\* The clauses analyze may return: size and LBD decide whether the second
\* minimisation is tried.
LearntClauses(uip) ==
  LET S == Resolvent[0] \ {uip}
      M == S \ Redundant(S)
  IN {{uip} \cup M, {uip} \cup (M \ BinaryRedundant(uip))}

BacktrackLevel(C, uip) ==
  CHOOSE k \in {LevelOf(l) : l \in C \ {uip}} : \A l \in C \ {uip} : LevelOf(l) <= k

\* The literals analyze may put second, to be watched: those of the backtrack level.
AnyOther(C, uip) == C \ {uip}                                            \* mutant
SecondWatches(C, uip) ==
  {l \in C \ {uip} : \A m \in C \ {uip} : LevelOf(m) <= LevelOf(l)}

\* cancelUntil, for the variables it changes; k < DecisionLevel.
KeptTrail(k) == SubSeq(trail, 1, trailLim[k + 1])
KeptVars(k)  == {Var(trail[i]) : i \in 1 .. trailLim[k + 1]}

CancelUntil(k) ==
  /\ trail' = KeptTrail(k)
  /\ reason' = Only(reason, KeptVars(k))
  /\ level' = Only(level, KeptVars(k))
  /\ trailLim' = SubSeq(trailLim, 1, k)
  /\ qhead' = trailLim[k + 1]

\* Mutant: the literal counts as propagated.
CancelAndForget(k, l, from) ==
  /\ trail' = Append(KeptTrail(k), l)
  /\ reason' = Extend(Only(reason, KeptVars(k)), Var(l), from)
  /\ level' = Extend(Only(level, KeptVars(k)), Var(l), k)
  /\ trailLim' = SubSeq(trailLim, 1, k)
  /\ qhead' = trailLim[k + 1] + 1

\* cancelUntil followed by uncheckedEnqueue.
CancelAndEnqueue(k, l, from) ==
  /\ trail' = Append(KeptTrail(k), l)
  /\ reason' = Extend(Only(reason, KeptVars(k)), Var(l), from)
  /\ level' = Extend(Only(level, KeptVars(k)), Var(l), k)
  /\ trailLim' = SubSeq(trailLim, 1, k)
  /\ qhead' = trailLim[k + 1]

\* A conflict below the first decision settles the formula.
ConflictAtZero ==
  /\ pc = "conflict"
  /\ DecisionLevel = 0
  /\ Answer("UNSAT")
  /\ UNCHANGED <<input, nextClause, db, trail, trailLim, reason, level, qhead,
                 visit, confl, conflictC, simpAssigns, reductions, adapt>>

\* The conflict branch of search: learn, jump back, assert.  The second watched
\* literal is one of the backtrack level.
Conflict ==
  /\ pc = "conflict"
  /\ DecisionLevel > 0
  /\ \E uip \in Current(Resolvent[0]) : \E C \in LearntClauses(uip) :
         \/ /\ C = {uip}
            /\ CancelAndEnqueue(0, uip, Undef)
            /\ UNCHANGED db
         \/ \E second \in SecondWatches(C, uip) :
              /\ FreeRefs # {}
              /\ db' = Extend(db, NewRef, [w |-> <<uip, second>>,
                                           rest |-> C \ {uip, second},
                                           learnt |-> TRUE])
              /\ CancelAndEnqueue(BacktrackLevel(C, uip), uip, NewRef)
  /\ confl' = Undef
  /\ conflictC' = TRUE
  /\ pc' = "propagate"
  /\ UNCHANGED <<input, nextClause, visit, simpAssigns, reductions, adapt, status>>

-----------------------------------------------------------------------------
\* The branch of search without a conflict.  The counters and averages that call
\* for a restart, for simplify and for reduceDB are not kept, so each may or may
\* not happen before the decision.
RestartAtWill ==                                                         \* mutant
  /\ pc = "decide"
  /\ pc' = "propagate"
  /\ IF DecisionLevel > 0 THEN CancelUntil(0)
     ELSE UNCHANGED <<trail, reason, level, trailLim, qhead>>
  /\ UNCHANGED <<input, nextClause, db, visit, confl, conflictC, simpAssigns,
                 reductions, adapt, status>>

Restart ==
  /\ pc = "decide"
  /\ conflictC
  /\ conflictC' = FALSE
  /\ pc' = "propagate"
  /\ IF DecisionLevel > 0 THEN CancelUntil(0)
     ELSE UNCHANGED <<trail, reason, level, trailLim, qhead>>
  /\ UNCHANGED <<input, nextClause, db, visit, confl, simpAssigns, reductions,
                 adapt, status>>

NeverLocked(r, V) == FALSE                                               \* mutant
\* locked, when of the variables those of V are assigned: a binary clause may be
\* the reason of either literal, another one of its first.
LockedIn(r, V) ==
  \E i \in IF IsBin(db[r]) THEN {1, 2} ELSE {1} :
    LET l == db[r].w[i] IN /\ IsTrue(l)
                           /\ Var(l) \in V
                           /\ reason[Var(l)] = r
Locked(r) == LockedIn(r, DOMAIN reason)

\* removeClause: the reason of the clause's first literal is forgotten if the
\* clause is locked.  Which literal of a binary clause is the first depends on the
\* conflicts it took part in: analyze and litRedundant swap the two.
RemoveClauses(S, first, V) ==
  /\ db' = Only(db, DOMAIN db \ S)
  /\ reason' = [v \in V |->
                  IF \E r \in S : LockedIn(r, V) /\ v = Var(db[r].w[first[r]])
                  THEN Undef ELSE reason[v]]

Firsts(S) == {f \in [S -> {1, 2}] : \A r \in S : ~IsBin(db[r]) => f[r] = 1}

\* simplify, at level 0 and with the queue empty: the satisfied clauses go.
Simplify ==
  /\ pc = "decide"
  /\ DecisionLevel = 0
  /\ Len(trail) # simpAssigns
  /\ simpAssigns' = Len(trail)
  /\ LET S == {r \in DOMAIN db : \E l \in LitsOf(db[r]) : IsTrue(l)}
     IN \E first \in Firsts(S) : RemoveClauses(S, first, DOMAIN reason)
  /\ UNCHANGED <<input, nextClause, trail, trailLim, level, qhead, visit, confl,
                 conflictC, reductions, adapt, pc, status>>

\* reduceDB: learnt clauses of more than two literals that are not locked; LBD,
\* activity and the flag canBeDel choose among them.
ReduceDB ==
  /\ pc = "decide"
  /\ reductions < MaxReductions(input)
  /\ reductions' = reductions + 1
  /\ Learnts # {}
  /\ \E S \in SUBSET {r \in Learnts : ~IsBin(db[r]) /\ ~Locked(r)} :
       RemoveClauses(S, [r \in S |-> 1], DOMAIN reason)
  /\ UNCHANGED <<input, nextClause, trail, trailLim, level, qhead, visit, confl,
                 conflictC, simpAssigns, adapt, pc, status>>

\* The end of the 100000th conflict, once: no clause is learnt, the search starts
\* again at level 0, and adaptSolver may throw learnt clauses away, those with the
\* larger LBDs.
Adapt ==
  /\ pc = "conflict"
  /\ DecisionLevel > 0
  /\ adapt
  /\ adapt' = FALSE
  /\ trail' = KeptTrail(0)
  /\ level' = Only(level, KeptVars(0))
  /\ trailLim' = <<>>
  /\ qhead' = trailLim[1]
  /\ \E S \in SUBSET Learnts : \E first \in Firsts(S) :
       RemoveClauses(S, first, KeptVars(0))
  /\ confl' = Undef
  /\ conflictC' = FALSE
  /\ pc' = "propagate"
  /\ UNCHANGED <<input, nextClause, visit, simpAssigns, reductions, status>>

Decide ==
  /\ pc = "decide"
  /\ \E l \in Decidable(input) :
       /\ Var(l) \in Variables
       /\ IsOpen(l)
       /\ trail' = Append(trail, l)
       /\ reason' = Extend(reason, Var(l), Undef)
       /\ level' = Extend(level, Var(l), DecisionLevel + 1)
  /\ trailLim' = Append(trailLim, Len(trail))
  /\ pc' = "propagate"
  /\ UNCHANGED <<input, nextClause, db, qhead, visit, confl, conflictC,
                 simpAssigns, reductions, adapt, status>>

\* pickBranchLit finds no variable: the assignment is the model.
ModelFound ==
  /\ pc = "decide"
  /\ \A v \in Variables : ~IsOpen(<<v, TRUE>>)
  /\ Answer("SAT")
  /\ UNCHANGED <<input, nextClause, db, trail, trailLim, reason, level, qhead,
                 visit, confl, conflictC, simpAssigns, reductions, adapt>>

Done == pc = "done" /\ UNCHANGED vars

Next == \/ AddClause \/ Solve \/ Dequeue
        \/ \E r \in Refs : VisitBinary(r) \/ VisitLong(r)
        \/ ConflictAtZero \/ Conflict
        \/ Adapt \/ Restart \/ Simplify \/ ReduceDB \/ Decide \/ ModelFound
        \/ Done

Spec == Init /\ [][Next]_vars

\* The search is a loop that nothing outside can stop for ever.
FairSpec == Spec /\ WF_vars(Next)

-----------------------------------------------------------------------------
Clauses == [w : Lits \X Lits, rest : SUBSET Lits, learnt : BOOLEAN]
PCs == {"load", "propagate", "conflict", "decide", "done"}

TypeOK ==
  /\ input \in Formulas
  /\ nextClause \in 1 .. Len(input) + 1
  /\ DOMAIN db \subseteq Refs /\ \A r \in DOMAIN db : db[r] \in Clauses
  /\ trail \in Seq(Lits) /\ Len(trail) <= Cardinality(Vars)
  /\ trailLim \in Seq(0 .. Len(trail))
  /\ DOMAIN reason = {Var(l) : l \in TrueLits}
  /\ \A v \in DOMAIN reason : reason[v] \in Refs \cup {Undef}
  /\ DOMAIN level = DOMAIN reason
  /\ \A v \in DOMAIN level : level[v] \in 0 .. DecisionLevel
  /\ qhead \in 0 .. Len(trail)
  /\ visit \subseteq DOMAIN db
  /\ confl \in Refs \cup {Undef}
  /\ conflictC \in BOOLEAN
  /\ simpAssigns \in -1 .. Cardinality(Vars)
  /\ reductions \in 0 .. MaxReductions(input)
  /\ adapt \in BOOLEAN
  /\ pc \in PCs
  /\ status \in {"none", "SAT", "UNSAT"}

Input == {input[i] : i \in 1 .. Len(input)}

\* When propagate reports no conflict it has missed nothing: no clause of the
\* database is false or has a single open literal and no true one.  This is what
\* the choice of the second watched literal and the lazily moved watches are for.
PropagationComplete ==
  pc = "decide" => \A r \in DOMAIN db :
    \/ \E l \in LitsOf(db[r]) : IsTrue(l)
    \/ Cardinality({l \in LitsOf(db[r]) : IsOpen(l)}) >= 2

\* Above level 0 a literal without a reason is the decision of its level, and the
\* reason of any other is a clause that is still allocated, watches the literal,
\* and whose other literals were false before it on the trail; analyze and
\* litRedundant take this for granted.  (At level 0, where they do not look, the
\* reason may be gone: removeClause takes it from the first variable of the clause
\* only, while locked accepts a binary clause through its second.)
Before(l, v) == \E i, j \in 1 .. Len(trail) :
                  i < j /\ trail[i] = Neg(l) /\ Var(trail[j]) = v

ReasonsImply ==
  \A v \in DOMAIN reason : level[v] > 0 =>
    \/ reason[v] = Undef /\ Var(trail[trailLim[level[v]] + 1]) = v
    \/ /\ reason[v] \in DOMAIN db
       /\ LET c == db[reason[v]] IN
            \E i \in IF IsBin(c) THEN {1, 2} ELSE {1} :
              /\ Var(c.w[i]) = v /\ IsTrue(c.w[i])
              /\ \A l \in LitsOf(c) \ {c.w[i]} : Before(l, v)

\* analyze's loop ends at a literal of the current level: the conflict clause is
\* false and, above level 0, has one.  Its first-UIP clause is false too.
ConflictAnalysable ==
  pc = "conflict" =>
    /\ \A l \in LitsOf(db[confl]) : IsFalse(l)
    /\ DecisionLevel > 0 => /\ Current(LitsOf(db[confl])) # {}
                            /\ Cardinality(Current(Resolvent[0])) = 1

\* A learnt clause is news: no clause of the database is contained in it.  A
\* missed propagation, a wrong backjump or a wrong minimisation shows here, and
\* termination rests on it.
LearntIsNew ==
  [][\A r \in DOMAIN db' \ DOMAIN db : db'[r].learnt =>
       \A q \in DOMAIN db : ~(LitsOf(db[q]) \subseteq LitsOf(db'[r]))]_vars

\* The search ends, whatever the heuristics choose.
Terminates == <>(pc = "done")

Rules == INSTANCE CdclRules
  WITH Formulas <- {{F[i] : i \in 1 .. Len(F)} : F \in Formulas},
       formula <- Input,
       kept <- {LitsOf(db[r]) : r \in DOMAIN db},
       true <- TrueLits,
       lev <- [v \in Vars |-> IF v \in DOMAIN level THEN level[v] ELSE 0],
       decided <- [k \in 1 .. DecisionLevel |-> trail[trailLim[k] + 1]],
       answer <- status

\* Watches, queue and conflict analysis implement the rules of CDCL, whose answers
\* are right (Rules_proofs).
ImplementsRules == Rules!Spec
==============================================================================

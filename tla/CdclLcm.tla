-------------------------------- MODULE CdclLcm --------------------------------
(***************************************************************************)
(* The search with its vivification of learnt clauses (core/lcm.cc): a     *)
(* search that starts after reduceDB has run first visits the learnt       *)
(* clauses, drops the satisfied ones and the false literals, and tries to  *)
(* shorten a clause by assuming its literals false one after the other.    *)
(*                                                                         *)
(* Everything happens at decision level 0, so that the assumptions and     *)
(* what follows from them lie on the trail as facts until                  *)
(* cancelUntilTrailRecord takes them off; simplePropagate is propagate.    *)
(* Which half of the sorted list is tried, and the flag simplified, are    *)
(* free choices.                                                           *)
(***************************************************************************)
EXTENDS Cdcl, SequencesExt

CONSTANT MaxStarts   \* bound: how often search is called

ASSUME StartsAssumption == MaxStarts \in Nat

VARIABLES
  starts,     \* how often search was called
  performLCM,
  mode,       \* "search", or in simplifyAll: "enter" for its first propagate,
              \* "each" between two clauses, "vivify" in simplifyLearnt
  toVisit,    \* the learnt clauses simplifyAll has not come to
  clause,     \* the clause being vivified: its CRef, its literals,
              \* those not tried yet and those kept, in order
  trailRecord

lcmVars  == <<starts, performLCM, mode, toVisit, clause, trailRecord>>
allVars  == <<vars, lcmVars>>
noClause == [ref |-> Undef, lits |-> {}, todo |-> <<>>, kept |-> <<>>]

LInit ==
  /\ Init
  /\ starts = 0
  /\ performLCM = TRUE
  /\ mode = "search"
  /\ toVisit = {}
  /\ clause = noClause
  /\ trailRecord = 0

\* search is called: by solve_ the first time, and again after each return.
CallSearch ==
  /\ mode = "search"
  /\ starts < MaxStarts
  /\ starts' = starts + 1
  /\ Solve \/ Restart \/ Adapt
  /\ mode' = IF performLCM THEN "enter" ELSE "search"
  /\ UNCHANGED <<performLCM, toVisit, clause, trailRecord>>

\* reduceDB is followed by performLCM = 1.
ReduceAndAsk ==
  /\ mode = "search"
  /\ ReduceDB
  /\ performLCM' = TRUE
  /\ UNCHANGED <<starts, mode, toVisit, clause, trailRecord>>

Searching ==
  /\ mode = "search"
  /\ AddClause \/ ConflictAtZero \/ Conflict \/ Simplify \/ Decide \/ ModelFound \/ Done
  /\ UNCHANGED lcmVars

\* propagate and simplePropagate.
Propagating ==
  /\ Dequeue \/ \E r \in Refs : VisitBinary(r) \/ VisitLong(r)
  /\ UNCHANGED lcmVars

\* simplifyAll, after propagate: the satisfied input clauses go.  Under
\* chanseokStrategy the learnt clauses are left alone.
EnterLcm ==
  /\ mode = "enter" /\ pc = "decide"
  /\ LET S == {r \in DOMAIN db \ Learnts : \E l \in LitsOf(db[r]) : IsTrue(l)}
     IN \E first \in Firsts(S) : RemoveClauses(S, first, DOMAIN reason)
  /\ mode' = "each"
  /\ toVisit' \in {Learnts, {}}
  /\ UNCHANGED <<input, nextClause, trail, trailLim, level, qhead, visit, confl,
                 conflictC, simpAssigns, reductions, adapt, pc, status,
                 starts, performLCM, clause, trailRecord>>

\* propagate fails, before the first clause or after a clause became a fact.
LcmUnsat ==
  /\ mode \in {"enter", "each"} /\ pc = "conflict"
  /\ Answer("UNSAT")
  /\ mode' = "search"
  /\ UNCHANGED <<input, nextClause, db, trail, trailLim, reason, level, qhead,
                 visit, confl, conflictC, simpAssigns, reductions, adapt,
                 starts, performLCM, toVisit, clause, trailRecord>>

LeaveLcm ==
  /\ mode = "each" /\ pc = "decide"
  /\ toVisit = {}
  /\ mode' = "search"
  /\ performLCM' = FALSE
  /\ UNCHANGED <<vars, starts, toVisit, clause, trailRecord>>

NoFalse(c) == [c EXCEPT !.rest = {l \in @ : ~IsFalse(l)}]

Others(r) == toVisit \ {r}

\* The next learnt clause: removed if it is satisfied; otherwise it loses its
\* false literals and is kept, or is detached and vivified.
NextLearnt(r) ==
  /\ mode = "each" /\ pc = "decide"
  /\ r \in toVisit
  /\ toVisit' = Others(r)
  /\ IF \E l \in LitsOf(db[r]) : IsTrue(l)
     THEN /\ \E first \in Firsts({r}) : RemoveClauses({r}, first, DOMAIN reason)
          /\ UNCHANGED <<mode, clause, trailRecord>>
     ELSE \/ /\ db' = [db EXCEPT ![r] = NoFalse(@)]
             /\ UNCHANGED <<reason, mode, clause, trailRecord>>
          \/ /\ db' = Only(db, DOMAIN db \ {r})
             /\ mode' = "vivify"
             /\ LET c == NoFalse(db[r]) IN
                  \E s \in SetToSeqs(c.rest) :
                    clause' = [ref |-> r, lits |-> LitsOf(c), todo |-> c.w \o s,
                               kept |-> <<>>]
             /\ trailRecord' = Len(trail)
             /\ UNCHANGED reason
  /\ UNCHANGED <<input, nextClause, trail, trailLim, level, qhead, visit, confl,
                 conflictC, simpAssigns, reductions, adapt, pc, status, starts,
                 performLCM>>

-----------------------------------------------------------------------------
\* simplifyLearnt.  The loop over the clause: a literal that is open is kept and
\* assumed false; one that is false by now is dropped.
Assume ==
  /\ mode = "vivify" /\ pc = "decide"
  /\ clause.todo # <<>>
  /\ LET l == Head(clause.todo) IN
       \/ /\ IsOpen(l)
          /\ UncheckedEnqueue(Neg(l), Undef)
          /\ clause' = [clause EXCEPT !.todo = Tail(@), !.kept = Append(@, l)]
          /\ pc' = "propagate"
       \/ /\ IsFalse(l)
          /\ clause' = [clause EXCEPT !.todo = Tail(@)]
          /\ UNCHANGED <<trail, reason, level, pc>>
  /\ UNCHANGED <<input, nextClause, db, trailLim, qhead, visit, confl, conflictC,
                 simpAssigns, reductions, adapt, status, starts, performLCM, mode, toVisit,
                 trailRecord>>

\* Mutant: the walk ends at the first reasons.
DirectlyReached(S) == {i \in trailRecord + 1 .. Len(trail) : Neg(trail[i]) \in S}

\* simpleAnalyze: the trail positions above trailRecord from which the literals of
\* S became false, by way of reasons.  The first loop of the walk takes S, the
\* others the reasons.
Reached(S) ==
  LET from[i \in 1 .. Len(trail)] ==
        /\ trailRecord < i
        /\ \/ Neg(trail[i]) \in S
           \/ \E j \in i + 1 .. Len(trail) :
                /\ from[j]
                /\ reason[Var(trail[j])] # Undef
                /\ Neg(trail[i]) \in LitsOf(db[reason[Var(trail[j])]]) \ {trail[j]}
  IN {i \in 1 .. Len(trail) : from[i]}

\* The assumptions behind S, from the last one to the first, as clause literals.
Assumptions(S) ==
  LET back == {Neg(trail[i]) : i \in {j \in Reached(S) : reason[Var(trail[j])] = Undef}}
      from[n \in 0 .. Len(clause.kept)] ==
        IF n = 0 THEN <<>>
        ELSE IF clause.kept[n] \in back THEN <<clause.kept[n]>> \o from[n - 1]
        ELSE from[n - 1]
  IN from[Len(clause.kept)]

Shorter(D, E) == IF Len(D) < Len(E) THEN D ELSE E

\* cancelUntilTrailRecord, and what simplifyAll does with the clause that is left,
\* D: a single literal is a fact, to be propagated; anything else is attached.
Replace(D) ==
  LET old == SubSeq(trail, 1, trailRecord)
      assigned == {Var(old[i]) : i \in DOMAIN old}
      fact == Len(D) = 1
  IN /\ trail' = IF fact THEN Append(old, D[1]) ELSE old
     /\ reason' = IF fact THEN Extend(Only(reason, assigned), Var(D[1]), Undef)
                  ELSE Only(reason, assigned)
     /\ level' = IF fact THEN Extend(Only(level, assigned), Var(D[1]), 0)
                 ELSE Only(level, assigned)
     /\ db' = IF fact THEN db
              ELSE Extend(db, clause.ref,
                          [w |-> <<D[1], D[2]>>, learnt |-> TRUE,
                           rest |-> {D[i] : i \in 3 .. Len(D)}])
     /\ pc' = IF fact THEN "propagate" ELSE "decide"
     /\ qhead' = trailRecord
     /\ visit' = {}
     /\ confl' = Undef
     /\ mode' = "each"
     /\ clause' = noClause
     /\ trailRecord' = 0
     /\ UNCHANGED <<input, nextClause, trailLim, conflictC, simpAssigns, reductions,
                    adapt, status, starts, performLCM, toVisit>>

\* The next literal is true: it and the assumptions behind it are a clause.
TrueLiteral ==
  /\ mode = "vivify" /\ pc = "decide"
  /\ clause.todo # <<>>
  /\ LET l == Head(clause.todo) IN
       /\ IsTrue(l)
       /\ Replace(Shorter(<<l>> \o Assumptions(LitsOf(db[reason[Var(l)]]) \ {l}),
                          Append(clause.kept, l)))

\* propagate fails: the assumptions behind the conflict are a clause.
VivifyConflict ==
  /\ mode = "vivify" /\ pc = "conflict"
  /\ Replace(Shorter(Assumptions(LitsOf(db[confl])), clause.kept))

\* Every literal was tried.
Tried ==
  /\ mode = "vivify" /\ pc = "decide"
  /\ clause.todo = <<>>
  /\ Replace(clause.kept)

LNext == \/ CallSearch \/ ReduceAndAsk \/ Searching \/ Propagating
         \/ EnterLcm \/ LcmUnsat \/ LeaveLcm
         \/ \E r \in Refs : NextLearnt(r)
         \/ Assume \/ TrueLiteral \/ VivifyConflict \/ Tried

LSpec == LInit /\ [][LNext]_allVars

-----------------------------------------------------------------------------
LTypeOK ==
  /\ TypeOK
  /\ starts \in 0 .. MaxStarts
  /\ performLCM \in BOOLEAN
  /\ mode \in {"search", "enter", "each", "vivify"}
  /\ toVisit \subseteq DOMAIN db
  /\ trailRecord \in 0 .. Len(trail)
  /\ clause \in [ref : (Refs \ DOMAIN db) \cup {Undef}, lits : SUBSET Lits,
                  todo : Seq(Lits), kept : Seq(Lits)]
  /\ \A l \in ToSet(clause.todo) \cup ToSet(clause.kept) : l \in clause.lits

\* Vivification leaves nothing behind that the search could trip over: when it
\* goes on, the trail holds facts only, nothing is left to propagate, and no clause
\* is false or about to be (simplifyAll attaches clauses anew, with watches chosen
\* by their place in the array).
ResumesPropagated ==
  /\ LTypeOK
  /\ mode \in {"each", "search"} /\ pc = "decide" => PropagationComplete

\* While a clause is vivified it is out of the database but not forgotten, and the
\* assumptions are not facts.
Known == IF mode = "vivify" THEN {trail[i] : i \in 1 .. trailRecord} ELSE TrueLits

LRules == INSTANCE CdclRules
  WITH Formulas <- {{F[i] : i \in 1 .. Len(F)} : F \in Formulas},
       formula <- Input,
       kept <- {LitsOf(db[r]) : r \in DOMAIN db}
                 \cup (IF mode = "vivify" THEN {clause.lits} ELSE {}),
       true <- Known,
       lev <- [v \in Vars |-> IF \E l \in Known : Var(l) = v THEN level[v] ELSE 0],
       decided <- [k \in 1 .. DecisionLevel |-> trail[trailLim[k] + 1]],
       answer <- status

\* The search with vivification implements the rules of CDCL: a shortened clause
\* follows from the others and from the clause it replaces.
LImplementsRules == LRules!Spec
==============================================================================

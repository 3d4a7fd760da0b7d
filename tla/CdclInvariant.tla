----------------------------- MODULE CdclInvariant -----------------------------
(***************************************************************************)
(* Why propagation misses nothing and every conflict can be analysed: the  *)
(* inductive invariant of Cdcl.  The trail is cut into levels, what lies   *)
(* before the current level has been propagated, and a watched literal     *)
(* that is false, and was looked at, has a true literal beside it in its   *)
(* clause that backjumping undoes no sooner.                               *)
(***************************************************************************)
EXTENDS Cdcl

Places == 1 .. Len(trail)

\* A variable is on the trail once; trailLim cuts it where the levels begin, and
\* every level holds a decision at least.
TrailOK ==
  /\ \A i, j \in Places : Var(trail[i]) = Var(trail[j]) => i = j
  /\ \A k \in 1 .. DecisionLevel : trailLim[k] \in 0 .. Len(trail) - 1
  /\ \A k, m \in 1 .. DecisionLevel : k < m => trailLim[k] < trailLim[m]
  /\ \A i \in Places : \A k \in 1 .. DecisionLevel :
       k <= LevelOf(trail[i]) <=> trailLim[k] < i

\* Two literals of a clause are watched, and are not among the others.
ClausesOK ==
  \A r \in DOMAIN db : /\ db[r].w[1] # db[r].w[2]
                       /\ db[r].w[1] \notin db[r].rest
                       /\ db[r].w[2] \notin db[r].rest

\* While clauses are read there are no decisions; levels below the current one are
\* propagated, and all levels when the next is to begin; the clauses still to be
\* visited watch the literal dequeued last.
QueueOK ==
  /\ nextClause <= Len(input) \/ pc = "load" => DecisionLevel = 0
  /\ DecisionLevel > 0 => trailLim[DecisionLevel] <= qhead
  /\ pc = "decide" => qhead = Len(trail) /\ nextClause > Len(input)
  /\ visit # {} => /\ pc = "propagate"
                   /\ qhead > 0
                   /\ DecisionLevel > 0 => trailLim[DecisionLevel] < qhead
                   /\ visit \subseteq Watchers(trail[qhead])

\* The clauses have been looked at since the literal at j became true.
Settled(r, j) ==
  \/ LevelOf(trail[j]) < DecisionLevel
  \/ /\ pc \notin {"conflict", "done"}
     /\ j < qhead \/ (j = qhead /\ r \notin visit)

\* A false watched literal is harmless as long as another literal of the clause is
\* true, and was so at the level of the false one or below.
Watches(c) == {c.w[1], c.w[2]}
Held(r, j) == \E l \in LitsOf(db[r]) : IsTrue(l) /\ LevelOf(l) <= LevelOf(trail[j])

Watched == \A r \in DOMAIN db : \A j \in Places :
             Neg(trail[j]) \in Watches(db[r]) /\ Settled(r, j) => Held(r, j)

\* Why v is assigned: as the decision of its level, or by a clause.
Justified(v) ==
  \/ reason[v] = Undef /\ Var(trail[trailLim[level[v]] + 1]) = v
  \/ /\ reason[v] \in DOMAIN db
     /\ LET c == db[reason[v]] IN
          \E i \in IF IsBin(c) THEN {1, 2} ELSE {1} :
            /\ Var(c.w[i]) = v /\ IsTrue(c.w[i])
            /\ \A l \in LitsOf(c) \ {c.w[i]} : Before(l, v)

\* The conflict clause is false, and some of it was made so at the current level.
ConflictFalse ==
  pc = "conflict" => /\ confl \in DOMAIN db
                     /\ \A l \in LitsOf(db[confl]) : IsFalse(l)
                     /\ Current(LitsOf(db[confl])) # {}

InSearch == /\ TypeOK
            /\ TrailOK
            /\ ClausesOK
            /\ QueueOK
            /\ Watched
            /\ ReasonsImply
            /\ ConflictFalse

-----------------------------------------------------------------------------
\* What the answers rest on: there is none before the end, ...
Undecided == pc # "done" => status = "none"

\* ... clauses and facts follow from the file, ...
Entailed ==
  \A A \in Assignments : Models(A, Input) =>
    /\ \A r \in DOMAIN db : Satisfies(A, LitsOf(db[r]))
    /\ \A l \in TrueLits : LevelOf(l) = 0 => Holds(A, l)

\* ... and of every clause read that is not a tautology a part is stored, for good,
\* unless a fact satisfies it.
StoredAt(i) ==
  \/ \E l \in input[i] : Neg(l) \in input[i]
  \/ \E l \in input[i] : IsTrue(l) /\ LevelOf(l) = 0
  \/ \E r \in DOMAIN db : ~db[r].learnt /\ LitsOf(db[r]) \subseteq input[i]

Stored == pc # "done" => \A i \in 1 .. nextClause - 1 : StoredAt(i)

\* So the answer, when it is given, is right.
AnswerRight == /\ status = "UNSAT" => ~Satisfiable(Input)
               /\ status = "SAT" => Satisfiable(Input)

InRules == /\ InSearch
           /\ Undecided
           /\ Entailed
           /\ Stored
           /\ AnswerRight
================================================================================

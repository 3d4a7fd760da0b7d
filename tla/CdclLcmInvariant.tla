---------------------------- MODULE CdclLcmInvariant ----------------------------
(***************************************************************************)
(* Why vivification is sound and leaves nothing behind: the inductive      *)
(* invariant of CdclLcm.  Up to trailRecord the trail holds facts, and a   *)
(* clause with a watch false by them holds one of them; behind it lie the  *)
(* negations of the literals kept and what follows from them by reasons.   *)
(***************************************************************************)
EXTENDS CdclLcm, CdclInvariant

\* Where simplifyAll and simplifyLearnt run, and what the search leaves them.
Resting ==
  /\ mode # "search" => /\ DecisionLevel = 0
                        /\ nextClause > Len(input)
                        /\ pc \in {"propagate", "conflict", "decide"}
  /\ mode # "vivify" => clause = noClause /\ trailRecord = 0
  /\ mode = "enter" \/ (mode = "search" /\ pc # "done") => toVisit = {}

\* addClause_ drops tautologies, and what is learnt is false.
NoTautology(C) == \A l \in C : Neg(l) \notin C
Plain == \A r \in DOMAIN db : NoTautology(LitsOf(db[r]))

Prefix  == 1 .. trailRecord
Behind  == trailRecord + 1 .. Len(trail)
Facts0  == {trail[i] : i \in Prefix}
LitsKept == ToSet(clause.kept)
LitsToDo == ToSet(clause.todo)

\* The clause that is vivified: in order, without repetition and open before the first
\* of its literals is tried.
ClauseOK ==
  /\ clause.ref # Undef
  /\ clause.todo \in Seq(clause.lits) /\ clause.kept \in Seq(clause.lits)
  /\ \A i, j \in DOMAIN clause.todo : clause.todo[i] = clause.todo[j] => i = j
  /\ \A i, j \in DOMAIN clause.kept : clause.kept[i] = clause.kept[j] => i = j
  /\ LitsKept \cap LitsToDo = {}
  /\ NoTautology(clause.lits)
  /\ \A l \in clause.lits : l \notin Facts0 /\ Neg(l) \notin Facts0
  /\ clause.kept = <<>> => clause.todo # <<>>

\* Its literals that were tried are false.
TriedFalse == /\ \A l \in LitsKept : IsFalse(l)
              /\ \A l \in clause.lits \ (LitsKept \cup LitsToDo) : IsFalse(l)

\* The facts have been propagated.
FactsWatched ==
  \A r \in DOMAIN db : \A i \in Prefix :
    Neg(trail[i]) \in Watches(db[r]) => LitsOf(db[r]) \cap Facts0 # {}

\* What lies behind them are assumptions and their consequences.
ByReason(i) ==
  LET r == reason[Var(trail[i])] IN
    /\ r \in DOMAIN db
    /\ trail[i] \in LitsOf(db[r])
    /\ \A l \in LitsOf(db[r]) \ {trail[i]} : \E j \in 1 .. i - 1 : trail[j] = Neg(l)
Assumed(i) == reason[Var(trail[i])] = Undef /\ Neg(trail[i]) \in LitsKept

Vivifying == /\ ClauseOK
             /\ TriedFalse
             /\ FactsWatched
             /\ \A i \in Behind : Assumed(i) \/ ByReason(i)

InLcm == /\ LTypeOK
         /\ InSearch
         /\ Resting
         /\ Plain
         /\ mode = "vivify" => Vivifying

-----------------------------------------------------------------------------
\* What the answers rest on, the assumptions being no facts.
LEntailed ==
  \A A \in Assignments : Models(A, Input) =>
    /\ \A r \in DOMAIN db : Satisfies(A, LitsOf(db[r]))
    /\ mode = "vivify" => Satisfies(A, clause.lits)
    /\ \A l \in Known : LevelOf(l) = 0 => Holds(A, l)

LStoredAt(i) ==
  \/ \E l \in input[i] : Neg(l) \in input[i]
  \/ \E l \in input[i] : l \in Known /\ LevelOf(l) = 0
  \/ \E r \in DOMAIN db : ~db[r].learnt /\ LitsOf(db[r]) \subseteq input[i]
LStored == pc # "done" => \A i \in 1 .. nextClause - 1 : LStoredAt(i)

\* simplifyAll visits learnt clauses only.
InLRules == /\ InLcm
            /\ toVisit \subseteq Learnts
            /\ Undecided
            /\ LEntailed
            /\ LStored
            /\ AnswerRight
================================================================================

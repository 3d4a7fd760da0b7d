---------------------------- MODULE SimpElimInvariant ----------------------------
(***************************************************************************)
(* Why preprocessing is right: what its lists hold at each point of its    *)
(* loops, which pairs of clauses have still to be compared, and what the   *)
(* models of the clauses that are left have to do with the file.           *)
(***************************************************************************)
EXTENDS SimpElim

\* What is kept to set a variable by.
Entries == [lit : Lits, clauses : SUBSET [lit : Lits, rest : SUBSET Lits]]

Occurring(v) == {r \in DOMAIN db : v \in VarsOf(db[r])}

\* The clauses, none of them always true, and what is kept about them.
ClausesOK ==
  /\ DOMAIN db \subseteq Refs
  /\ db \in [DOMAIN db -> SUBSET Lits]
  /\ \A r \in DOMAIN db :
       Cardinality(db[r]) > 1 /\ \A l \in db[r] : Neg(l) \notin db[r]
  /\ occurs = [v \in Vars |-> Occurring(v)]
  /\ facts \subseteq Lits /\ ~Conflicting(facts) /\ pending \subseteq facts
  /\ queue \subseteq DOMAIN db

\* The other variables.
TypesOK ==
  /\ option \in Options /\ input \in Formulas /\ nextClause \in 1 .. Len(input) + 1
  /\ touched \subseteq Vars /\ heap \subseteq Vars /\ eliminated \subseteq Vars
  /\ elimclauses \in Seq(Entries) /\ Len(elimclauses) = Cardinality(eliminated)
  /\ interrupt \in BOOLEAN /\ ok \in BOOLEAN
  /\ cur.lits \subseteq Lits /\ elim \in Vars \cup {0}

\* The clause being compared: one of the database, or a fact.
CurOK ==
  \/ cur.ref \in DOMAIN db /\ cur.lits = db[cur.ref] /\ todo \subseteq DOMAIN db \ {cur.ref}
  \/ /\ cur.ref = 0 /\ todo \subseteq DOMAIN db
     /\ \E l \in facts : cur.lits = {l}

\* Where the loops are.
LoopOK ==
  /\ pc \in {"load", "main", "check", "scan", "pick", "asymm", "elim", "resolve", "done"}
  /\ caller \in {"none", "main", "asymm", "elim"}
  /\ pc \in {"load", "main", "pick", "asymm", "elim", "resolve"} => caller = "none"
  /\ pc \in {"check", "scan"} => caller # "none"
  /\ pc = "load" => eliminated = {}
  /\ pc # "load" => nextClause = Len(input) + 1 \/ ~ok
  /\ ~ok => pc = "done"
  /\ pc = "scan" => CurOK
  /\ pc = "asymm" => todo \subseteq Refs
  /\ pc \in {"asymm", "elim"} \/ caller = "asymm" => elim \in Vars \ eliminated
  /\ pc = "resolve" => elim \in eliminated /\ todo \subseteq Merging(elim)
  /\ pc \in {"pick", "elim"} => queue = {}
  /\ pc = "main" => queue = {} \/ touched # {}
  /\ pc = "done" => ~ok \/ interrupt \/ (queue = {} /\ touched = {} /\ pending = {})

\* Everything behind an eliminated variable is gone.
GoneOK == \A v \in eliminated : (pc = "resolve" /\ v = elim) \/ ~ok \/ occurs[v] = {}

\* Two clauses that could shorten or remove each other will still be compared, and so
\* will a clause and a fact about one of its variables.
Shrinks(C, D) == Subsumes(C, D) \/ Strengthens(C, D)
PairsOK ==
  \A r, s \in DOMAIN db : r # s /\ Shrinks(db[r], db[s]) =>
    \/ r \in queue
    \/ VarsOf(db[r]) \cap touched # {}
    \/ pc = "scan" /\ cur.ref = r /\ s \in todo
FactsOK ==
  \A r \in DOMAIN db : \A l \in facts : Var(l) \in VarsOf(db[r]) =>
    l \in pending \/ (pc = "scan" /\ cur = [ref |-> 0, lits |-> {l}] /\ r \in todo)
LoadOK == pc = "load" => \A r \in DOMAIN db : VarsOf(db[r]) \subseteq touched
QueueOK == interrupt \/ ~ok \/ (PairsOK /\ FactsOK)

InLists == ClausesOK /\ TypesOK /\ LoopOK /\ GoneOK /\ LoadOK /\ QueueOK

-----------------------------------------------------------------------------
\* The facts about other variables than those of V, as clauses; what is left of the file.
FactsBut(V) == {{l} : l \in {m \in facts : Var(m) \notin V}}
Left == Clauses \cup Unread \cup FactsBut(ReallyGone)
File == {input[i] : i \in 1 .. Len(input)}

\* A model of what is left, extended to the variables that are gone, is one of the file.
Before == IF pc = "resolve" THEN SubSeq(elimclauses, 1, Len(elimclauses) - 1) ELSE elimclauses
Extensible ==
  ok => \A A \in Assignments : Models(A, Left) => Models(ExtendedBy(Before, A), File)

\* While the resolvents on elim are added: one that is no longer to be added follows from
\* what has nothing to do with elim, and a fact about elim comes from a clause with it.
WithoutElim == {C \in Clauses : elim \notin VarsOf(C)} \cup FactsBut(eliminated)
Resolving ==
  pc = "resolve" =>
    /\ elimclauses # <<>> /\ elimclauses[Len(elimclauses)] = Stored(elim)
    /\ \A r \in OccurrencesOf(<<elim, TRUE>>), s \in OccurrencesOf(<<elim, FALSE>>) :
         <<r, s>> \notin todo => Entails(WithoutElim, Merge(r, s, elim))
    /\ \A l \in facts : Var(l) = elim =>
         \E r \in DOMAIN db : l \in db[r] /\ \A m \in db[r] \ {l} : IsFalse(m)

InPreprocessing == InLists /\ (option.rcheck \/ (Extensible /\ Resolving))
==================================================================================

----------------------------- MODULE MultiSolvers -----------------------------
(***************************************************************************)
(* A parallel run: the threads of ParallelSolver::solve_, the unary clauses*)
(* and the end of the job they share through SharedCompanion, the clauses  *)
(* they exchange (SharedClauses, which ClausesBuffer implements), and      *)
(* MultiSolvers::solve, which launches them, sleeps on the condition       *)
(* cfinished and collects the answer.                                      *)
(*                                                                         *)
(* A thread's search (Cdcl) is reduced to its calls of the shared parts and*)
(* what it knows between them: the literals that are true at level 0 and   *)
(* the clauses learnt or imported.  A conflict above level 0 learns a      *)
(* clause that follows from what the thread has and that it did not have.  *)
(***************************************************************************)
EXTENDS Propositional, Naturals, Sequences, FiniteSets

CONSTANTS NbSolvers,   \* -nthreads
          Formulas,    \* the formulas after preprocessing, with the facts as clauses
          MaxLearnts   \* bound: the clauses of two or more literals a thread keeps

ASSUME NbSolversAssumption == NbSolvers \in Nat \ {0}
ASSUME FormulasAssumption ==
  \A F \in Formulas : /\ F \subseteq SUBSET Lits
                      /\ \A l \in Lits : ~({l} \in F /\ {Neg(l)} \in F)

Threads == 0 .. NbSolvers - 1
Nobody  == NbSolvers

VARIABLES
  formula,
  facts,         \* facts[t]: the literals true at level 0
  learnts,       \* learnts[t]: the clauses learnt and imported
  conflictC,     \* conflictC[t]: there was a conflict since the last restart
  pc, status,    \* of each thread
  toExport,      \* toExport[t]: the clause learnt last, if it is still to be shared
  unitLit, nextUnit,                        \* SharedCompanion, unary clauses
  unread, lossy,                            \* SharedCompanion, clausesBuffer
  bjobFinished, jobFinishedBy, jobStatus,   \* SharedCompanion, the end of the job
  main, launched, result

board  == <<unread, lossy>>
units  == <<unitLit, nextUnit>>
job    == <<bjobFinished, jobFinishedBy, jobStatus>>
search == <<facts, learnts, conflictC, toExport>>
boss   == <<main, launched, result>>
vars   == <<formula, search, pc, status, units, board, job, boss>>

Clauses == {C \in SUBSET Lits : Cardinality(C) > 1 /\ \A l \in C : Neg(l) \notin C}

\* The answers of its calls are not kept.
Board == INSTANCE SharedClauses WITH answer <- 0

-----------------------------------------------------------------------------
Falsified(S, C) == \A l \in C : Neg(l) \in S
Assigned(S, v)  == \E l \in S : Var(l) = v

\* The clause says nothing new of the literals S but that l is true.
UnitIn(l, C, S) == l \in C /\ ~Assigned(S, Var(l)) /\ Falsified(S, C \ {l})

Database(t) == formula \cup learnts[t]

\* The clause says something the thread does not have yet.
IsNew(t, C) == /\ \A l \in C : ~Assigned(facts[t], Var(l))
               /\ \A D \in Database(t) : ~(D \subseteq C)

Learnable(t, C) == /\ C \subseteq UNION formula
                   /\ IsNew(t, C)
                   /\ Entails(Database(t) \cup {{l} : l \in facts[t]}, C)

-----------------------------------------------------------------------------
\* The clones start from solver 0, which has read and simplified the formula.
Init ==
  /\ formula \in Formulas
  /\ facts = [t \in Threads |-> {l \in Lits : {l} \in formula}]
  /\ learnts = [t \in Threads |-> {}]
  /\ conflictC = [t \in Threads |-> FALSE]
  /\ pc = [t \in Threads |-> "created"]
  /\ status = [t \in Threads |-> "none"]
  /\ toExport = [t \in Threads |-> {}]
  /\ unitLit = <<>>
  /\ nextUnit = [t \in Threads |-> 1]
  /\ Board!Clear
  /\ bjobFinished = FALSE
  /\ jobFinishedBy = Nobody
  /\ jobStatus = "none"
  /\ main = "launching"
  /\ launched = 0
  /\ result = "none"

Goto(t, p) == pc' = [pc EXCEPT ![t] = p]

\* search returns s: solve_ calls it again, or finishes.
Return(t, s) ==
  /\ status' = [status EXCEPT ![t] = s]
  /\ Goto(t, IF s = "none" THEN "between" ELSE "finishing")

SearchAnew(t) ==                                                        \* mutant
  /\ pc[t] = "between"
  /\ Goto(t, "importUnits")
  /\ UNCHANGED <<formula, search, status, units, board, job, boss>>

\* The loop of solve_ between two calls of search.
Loop(t) ==
  /\ pc[t] = "between"
  /\ Goto(t, IF bjobFinished THEN "signal" ELSE "importUnits")
  /\ UNCHANGED <<formula, search, status, units, board, job, boss>>

\* parallelImportUnaryClauses, once round its loop (getUnary holds the lock of the
\* list): a literal whose variable has a value, even the opposite one, is passed over.
TakeAnyway(t, l) == facts[t] \cup {l}                                   \* mutant
SignLost(t, l) ==                                                       \* mutant
  IF Assigned(facts[t], Var(l)) THEN facts[t] ELSE facts[t] \cup {Neg(l)}
Taken(t, l) == IF Assigned(facts[t], Var(l)) THEN facts[t] ELSE facts[t] \cup {l}

ImportUnit(t) ==
  /\ pc[t] = "importUnits"
  /\ \/ /\ nextUnit[t] <= Len(unitLit)
        /\ facts' = [facts EXCEPT ![t] = Taken(t, unitLit[nextUnit[t]])]
        /\ nextUnit' = [nextUnit EXCEPT ![t] = @ + 1]
        /\ UNCHANGED pc
     \/ /\ nextUnit[t] > Len(unitLit)
        /\ Goto(t, "importClauses")
        /\ UNCHANGED <<facts, nextUnit>>
  /\ UNCHANGED <<formula, learnts, conflictC, toExport, status, unitLit, board,
                 job, boss>>

\* parallelImportClauses, once round its loop.
ImportClause(t) ==
  /\ pc[t] = "importClauses"
  /\ \/ \E C \in Clauses : /\ Board!Take(t, C)
                           /\ learnts' = [learnts EXCEPT ![t] = @ \cup {C}]
                           /\ UNCHANGED pc
     \/ /\ unread[t] = <<>>
        /\ UNCHANGED board
        /\ Goto(t, "propagate")
        /\ UNCHANGED learnts
  /\ UNCHANGED <<formula, facts, conflictC, toExport, status, units, job, boss>>

\* propagate at level 0, one literal at a time.  A conflict ends the search, with no
\* answer if another thread has finished.
PropagateFact(t, l) ==
  /\ pc[t] = "propagate"
  /\ \E C \in Database(t) : UnitIn(l, C, facts[t])
  /\ facts' = [facts EXCEPT ![t] = @ \cup {l}]
  /\ UNCHANGED <<formula, learnts, conflictC, toExport, pc, status, units, board, job, boss>>

ConflictOfFacts(t) ==
  /\ pc[t] = "propagate"
  /\ \E C \in Database(t) : Falsified(facts[t], C)
  /\ Return(t, IF bjobFinished THEN "none" ELSE "UNSAT")
  /\ UNCHANGED <<formula, search, units, board, job, boss>>

\* Nothing is left to propagate.  A clause imported when the literals it is watched by
\* were false already may have been missed: attachClause looks at no values.
Propagated(t) ==
  /\ pc[t] = "propagate"
  /\ \A C \in formula : /\ ~Falsified(facts[t], C)
                        /\ \A l \in C : ~UnitIn(l, C, facts[t])
  /\ Goto(t, "search")
  /\ UNCHANGED <<formula, search, status, units, board, job, boss>>

\* A conflict above level 0 when another thread has finished.
GiveUp(t) ==
  /\ pc[t] = "search"
  /\ bjobFinished
  /\ Return(t, "none")
  /\ UNCHANGED <<formula, search, units, board, job, boss>>

\* A conflict that learns the unary clause l: the search is back at level 0.
LearnUnit(t, l) ==
  /\ pc[t] = "search"
  /\ ~bjobFinished
  /\ Learnable(t, {l})
  /\ facts' = [facts EXCEPT ![t] = @ \cup {l}]
  /\ conflictC' = [conflictC EXCEPT ![t] = TRUE]
  /\ toExport' = [toExport EXCEPT ![t] = {l}]
  /\ Goto(t, "exportUnit")
  /\ UNCHANGED <<formula, learnts, status, units, board, job, boss>>

\* SharedCompanion::addLearnt: the list has at most one literal of a variable.
Listed(l) == IF \E i \in DOMAIN unitLit : Var(unitLit[i]) = Var(l) THEN unitLit
             ELSE Append(unitLit, l)

\* parallelExportUnaryClause
ExportUnit(t) ==
  /\ pc[t] = "exportUnit"
  /\ \E l \in toExport[t] : unitLit' = Listed(l)
  /\ toExport' = [toExport EXCEPT ![t] = {}]
  /\ Goto(t, "importUnits")
  /\ UNCHANGED <<formula, facts, learnts, conflictC, status, nextUnit, board, job,
                 boss>>

\* A conflict that learns a longer clause, which may be good enough to be exported.
LearnClause(t, C) ==
  /\ pc[t] = "search"
  /\ ~bjobFinished
  /\ Cardinality(learnts[t]) < MaxLearnts
  /\ Learnable(t, C)
  /\ learnts' = [learnts EXCEPT ![t] = @ \cup {C}]
  /\ conflictC' = [conflictC EXCEPT ![t] = TRUE]
  /\ \/ /\ toExport' = [toExport EXCEPT ![t] = C]
        /\ Goto(t, "exportClause")
     \/ UNCHANGED <<toExport, pc>>
  /\ UNCHANGED <<formula, facts, status, units, board, job, boss>>

\* parallelExportClauseDuringSearch, shareClause.
ExportClause(t) ==
  /\ pc[t] = "exportClause"
  /\ \/ Board!Put(t, toExport[t])
     \/ ~lossy /\ UNCHANGED board
  /\ toExport' = [toExport EXCEPT ![t] = {}]
  /\ Goto(t, "search")
  /\ UNCHANGED <<formula, facts, learnts, conflictC, status, units, job, boss>>

\* A restart, at the earliest at the first conflict since the last.
Restart(t) ==
  /\ pc[t] = "search"
  /\ conflictC[t]
  /\ conflictC' = [conflictC EXCEPT ![t] = FALSE]
  /\ Return(t, "none")
  /\ UNCHANGED <<formula, facts, learnts, toExport, units, board, job, boss>>

\* Every variable has a value and no clause is false.
FindModel(t) ==
  /\ pc[t] = "search"
  /\ \E A \in Assignments : Models(A, Database(t)) /\ \A l \in facts[t] : Holds(A, l)
  /\ Return(t, "SAT")
  /\ UNCHANGED <<formula, search, units, board, job, boss>>

\* IFinished
IFinished(t) ==
  /\ pc[t] = "finishing"
  /\ IF bjobFinished
     THEN Goto(t, "signal") /\ UNCHANGED <<bjobFinished, jobFinishedBy>>
     ELSE /\ bjobFinished' = TRUE
          /\ jobFinishedBy' = t
          /\ Goto(t, "report")
  /\ UNCHANGED <<formula, search, status, units, board, jobStatus, boss>>

\* The first to finish notes its answer, without a lock.
Report(t) ==
  /\ pc[t] = "report"
  /\ jobStatus' = status[t]
  /\ Goto(t, "signal")
  /\ UNCHANGED <<formula, search, status, units, board, bjobFinished, jobFinishedBy, boss>>

\* pthread_cond_signal, again without a lock, and the end of the thread.
Signal(t) ==
  /\ pc[t] = "signal"
  /\ Goto(t, "exited")
  /\ main' = IF main = "waiting" THEN "joining" ELSE main
  /\ UNCHANGED <<formula, search, status, units, board, job, launched, result>>

Thread(t) ==
  \/ Loop(t) \/ ImportUnit(t) \/ ImportClause(t)
  \/ (\E l \in Lits : PropagateFact(t, l)) \/ ConflictOfFacts(t) \/ Propagated(t)
  \/ GiveUp(t) \/ ExportUnit(t) \/ ExportClause(t) \/ Restart(t)
  \/ \E l \in Lits : LearnUnit(t, l)
  \/ \E C \in Clauses : LearnClause(t, C)
  \/ FindModel(t) \/ IFinished(t) \/ Report(t) \/ Signal(t)

-----------------------------------------------------------------------------
\* MultiSolvers::solve starts the threads one by one ...
Launch ==
  /\ main = "launching"
  /\ IF launched < NbSolvers
     THEN /\ pc' = [pc EXCEPT ![launched] = "between"]
          /\ launched' = launched + 1
          /\ UNCHANGED main
     ELSE main' = "awake" /\ UNCHANGED <<pc, launched>>
  /\ UNCHANGED <<formula, search, status, units, board, job, result>>

\* ... and sleeps until cfinished is signalled or five seconds have passed.
Wait ==
  /\ main = "awake"
  /\ main' = "waiting"
  /\ UNCHANGED <<formula, search, pc, status, units, board, job, launched, result>>

Timeout ==
  /\ main = "waiting"
  /\ main' = "awake"
  /\ UNCHANGED <<formula, search, pc, status, units, board, job, launched, result>>

\* pthread_cond_timedwait may return without a signal.
SpuriousWakeup ==
  /\ main = "waiting"
  /\ main' = "joining"
  /\ UNCHANGED <<formula, search, pc, status, units, board, job, launched, result>>

SomeJoined == \E t \in Threads : pc[t] = "exited"                       \* mutant
AllJoined  == \A t \in Threads : pc[t] = "exited"

\* All threads are joined and the answer is read.
Collect ==
  /\ main = "joining"
  /\ AllJoined
  /\ main' = "returned"
  /\ result' = jobStatus
  /\ UNCHANGED <<formula, search, pc, status, units, board, job, launched>>

Main == Launch \/ Wait \/ Timeout \/ Collect

Next == (\E t \in Threads : Thread(t)) \/ Main \/ SpuriousWakeup

Spec == Init /\ [][Next]_vars

\* The threads and the main thread are scheduled.
Fairness == /\ \A t \in Threads : WF_vars(Thread(t))
            /\ WF_vars(Main)
FairSpec == Spec /\ Fairness

-----------------------------------------------------------------------------
\* Whatever order the threads learn, share and import in, all they know follows from
\* the formula, so that facts of two threads contradict each other only when there
\* is no model (the contradiction of which ParallelSolver.cc:394 warns).
KnownEntailed ==
  \A t \in Threads : /\ \A l \in facts[t] : Entails(formula, {l})
                     /\ \A C \in learnts[t] : Entails(formula, C)

\* No thread believes a literal and its negation, whatever it has imported.
FactsConsistent == \A t \in Threads : \A l \in facts[t] : Neg(l) \notin facts[t]

\* What solve returns is the answer of the first thread to finish, and it is right.
ResultRight ==
  main = "returned" =>
    /\ bjobFinished
    /\ result = status[jobFinishedBy]
    /\ result = IF Satisfiable(formula) THEN "SAT" ELSE "UNSAT"

\* Every thread comes to its end.
WorkersStop == <>(\A t \in Threads : pc[t] = "exited")

\* solve gets an answer: "Wait for all threads to finish" (MultiSolvers.cc:675).
SolveReturns == <>(main = "returned")
==============================================================================

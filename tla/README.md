# A TLA+ model of RL-crypto-sat

RL-crypto-sat couples a modified Glucose 4.2.1 SAT solver (C++, `glucose_modified/`)
with reinforcement-learning and evolution-strategies training (Python, `python/`).
A Python `SolverController` starts one solver process after the other, talks to it
in lines over its standard input and output, and reads its clause graph from
POSIX shared memory.  After a given number of decisions the solver reports a
reward and its clauses, and waits for new activity scores.

This directory holds TLA+ modules for the parts of the program where order,
failure and invariants matter, TLC configurations that check them on small
instances, and proofs checked by TLAPS.

    tlc -workers 2 -config SolverProtocol_safety.cfg SolverDialogue
    tlc -workers 2 -config Cdcl_safety.cfg MCCdcl
    tlc -workers 2 -config SimpElim_safety.cfg MCSimpElim
    tlapm Rules_proofs.tla

## 1. The system

| part | code | state | operations | what makes it correct |
|---|---|---|---|---|
| controller | `python/solver_interface.py` | process, pipes, `_stop`, name of the last shared segment; per call: csr, reward | `start`, `step`, `stop`, reading a graph | a call returns; graph and reward belong together and to the solver as it stands; a step covers the decisions asked for |
| solver's side of the protocol | `simp/Main.cc`, `SimpSolver::solve_`, `Solver::search` (report block), `writeCSRToSharedMem`, `waitForActivityScores` | decision counters, `forward`, `asynch_interrupt`, the segment | report, ask, publish, wait, verdict | the two programs stay in step; no segment is left; nobody outlives the other |
| CDCL search | `core/Solver.cc`, `core/Solver.h` | clause database, trail, levels, reasons, watches | propagate, analyze, backjump, learn, restart, reduceDB, simplify, adaptSolver | answers are right; no propagation is missed; reasons are intact; it ends |
| hybrid scores | `core/Solver.cc` 1596-1600, 2198-2257, `core/Solver.h` 529-543 | activity and its copy, `var_inc` and its copy, order heap | bump, rescale, take scores, restore | what the comments promise about restoring; the heap yields a best variable |
| LCM | `core/lcm.cc` | learnt clauses, the trail above the facts | simplifyAll, simplifyLearnt | shortened clauses still follow; trail and watches are left as the search expects them |
| clause storage | `core/SolverTypes.h`, `mtl/Alloc.h`, relocAll | region, references, watcher lists | alloc, free, relocate | no reference dangles after collection |
| preprocessing | `simp/SimpSolver.cc` | occurrence lists, touched variables, subsumption queue, elimination heap, eliminated clauses | addClause_, eliminate, extendModel | satisfiability is kept, models extend, it ends with nothing left to subsume |
| parallel solver | `parallel/*` | ring of shared clauses, list of facts, finish flag, a condition | export, import, finish, wait | every thread sees each clause once; what threads tell each other follows from the formula; the first answer ends all and is returned |
| environments | `python/solver_environment.py` | episode counters | reset, advance, step | step only in an open session |
| training | `python/train.py`, `es_optimizer.py` | worker pool, seeds, parameters | evaluate, gradient step | each seed is evaluated once per generation |
| networks, PPO, plots | `python/gnn.py`, `ppo.py`, `util.py`, `viz.py` | tensors | floating-point computation | (not a subject for TLA+) |

How they interact: environments and scripts call the controller; the controller
and one solver process at a time exchange lines and segments; inside the solver
the report block of `search` runs between two decisions, so the protocol sees the
search only as a decision counter and the search sees the protocol only as a
change of activities.  Preprocessing runs once, before the search, and rewrites the
clauses the search gets; `extendModel` runs once after it.  LCM runs at the start of a
call of `search`, when `reduceDB` has asked for it, on the search's own clauses and
trail.  In the parallel solver each thread runs that search and calls the companion
at fixed points of it: between two searches, at level 0, and after a conflict.

What is hard: two sequential programs that wait for each other; output that is
buffered until a flush; a process that is killed in the middle of an exchange; a
shared-memory name that somebody must remove; a timeout that is looked at only at
certain points; lazily moved watches; reasons that deletion must not touch;
heuristics that must not matter for the answer; a queue that is refilled while it is
worked off; threads that learn contradictory facts; a ring whose readers are at
different places when it overflows; a signal that comes before the wait.

## 2. Modules

### The protocol

`SolverPipes` declares what both programs share: where each process is in its
program, the two pipes of each (sequences of lines, a line being a tag and a
number), the segments under `/dev/shm`, and who has been sent SIGTERM.

`SolverProcess` has one action per point of the solver where it prints or reads:
`Boot` (main up to the search), `AskCsr`, `AwaitCsr`, `CreateShm`, `Publish`,
`AwaitAck` (`writeCSRToSharedMem`), `StepDone`, `AskScores`, `AwaitScores`,
`AwaitForward` (`waitForActivityScores`), `Report` (the block's guard and reward),
`Decide`, `Finish` (the verdict), and `CpuSignal`, `Terminated`, `Crash` for what
happens to it.  Lines that the code prints without a flush appear with the next
flush.  Writing to a closed pipe kills the process, as SIGPIPE does.

`SolverController` has one action per line that `start` and `step` read, with all
the code does about it, and `Start`, `Step`, `StopCall` for the callers, `OnEof` for
the end of the output, `Die` for the death of Python.  Reading a graph is two
actions, `OnCsrWritten` (open and copy) and `Ack`: between them the solver may be
killed.

`SolverProtocol` joins the two and states the properties.  `SolverSession` is the
abstract specification: a session is open or closed, and a step that leaves it open
reports exactly the larger of the decision limit and `go_ahead`.
`SolverProtocol` implements it under the mapping at its end.

`SolverDialogue` says why the two programs stay in step: for each point the solver can
be at, what the pipes hold and how far the call in progress has come (`InStep`).

### The search

`Propositional` defines literals, clauses and entailment.  `CdclRules` states what
the search promises without its data structures: rules to keep a clause, propagate,
decide, learn and jump back, restart, forget and answer.

`Cdcl` is the search itself: clause order and watched literals, the propagation
queue one literal and one watcher at a time, binary clauses before the others,
first-UIP analysis as a recursive function over the trail, both minimisations, the
choice of the second watch, backjumping, `removeClause` and `locked`, `simplify`,
`reduceDB`, `adaptSolver`.  A watcher list is not a variable: it is the set of clauses
that watch the literal, which the code maintains, and the order within a list and
the blockers are any.  Activities, phases, LBDs and counters only choose among
actions, so they are left out and every choice is allowed.
`Cdcl` implements `CdclRules` under the mapping at its end.
`CdclInvariant` says why: how the trail is cut into levels, what has been propagated,
what the watched literals guarantee and what the answers rest on (`InRules`).

Not in `Cdcl`: assumptions and the incremental mode (no caller passes any), DRAT
output, unary watches (the parallel solver's).

`CdclLcm` extends `Cdcl` with the calls of `search` one after the other and, at the
start of one, `simplifyAll`: it takes the learnt clauses one by one (`NextLearnt`),
removes the satisfied ones, assumes the negations of the literals of the others
(`Assume`), and stops at a conflict (`VivifyConflict`), at a literal that became true
(`TrueLiteral`) or at the end (`Tried`).  The clause is out of the database meanwhile,
and `Replace` puts what is left of it back, as a clause, as a fact, or unchanged.  Its
own propagation is that of `Cdcl` without decisions; its analysis (`Reached`) walks the
reasons down to the assumptions.  Left out: the branch for core clauses, which the code
disables (`if (0 && ...)`), lines 134-180, which nothing calls, and LBDs.
`CdclLcmInvariant` says why vivification is right: what of the search's invariant holds
while one runs (`InLcm`) and what its answers and the clauses it shortens rest on
(`InLRules`).

### Preprocessing

`ElimRules` says what preprocessing promises: clauses may be rewritten into others
with the same models, a variable may be eliminated if all its resolvents follow from
the clauses that stay, and UNSAT may be answered if there is no model.  `SimpElim` is
`SimpSolver.cc`: `Load` reads a file through `AddClause_`; `Eliminate` begins;
`GatherTouchedClauses`, then `NextInQueue`, `Compare`, `NoCandidates` and `CheckDone` are
`backwardSubsumptionCheck`, one candidate at a time; `Pick` and `HeapEmpty` are the loop
over the heap; `AsymmVar` and `AsymmDone` asymmetric branching; `EliminateVar`,
`AddResolvent` (one at a time, each through `AddClause_` with its propagation) and
`RemoveOccurrences` the elimination of a variable; `Interrupt` may come at any time;
`ExtendModel` is a function of the final state.  The heap is a set from which any
variable is taken, and the queue a set from which any clause is taken, which covers
every order.  `MaxClauses` bounds the database: a clause is stored only while a reference
is free.  `SimpElimInvariant` says why it is right: what the occurrence lists, the queue
and the touched variables hold at each point of the loops (`InLists`), and what the models
of the clauses that are left have to do with the file (`InPreprocessing`).
Left out: `substitute` (never called), `-sub-lim`, `-no-elim` and the limit
of 4,800,000 clauses (each skips what may be skipped), frozen assumptions, DRAT output.

### The parallel solver

`SharedClauses` is what the solvers may expect of the blackboard they exchange clauses
on: per thread, the list of clauses it has still to get.  `ClausesBuffer` is the ring of
words that implements it: a clause is a header of three words and its literals, every
position wraps, each thread has a cursor, and each clause counts the readers it still
has; `Push` makes room by dropping clauses, under `-removeolder`, read or not,
`Get` passes over a thread's own clauses.  The code goes from clause to clause by their
sizes; `Places` is the set of what it reaches that way, counted from `last`, and a loop
goes to the least place that ends it (`RemoveLastClause`, `MakeRoom`, `NextForeign`).  A
literal of a clause is not told apart from another.  The branch for a cursor that "is
behind" (192-197) is never taken (`RingConsistent`); with a single thread nothing would
ever be freed, and a clause longer than the ring is not offered.

`MultiSolvers` composes the threads (`ParallelSolver::solve_`), the companion's list of
facts, the end of the job, and `MultiSolvers::solve`.  It takes the exchange of longer
clauses from `SharedClauses`.  A thread's search is reduced to what it knows at level 0
and the clauses it has learnt or imported: any fact or clause that follows from them
and is new may be learnt.  An imported clause may be missed by propagation, because
`attachClause` looks at no values.  Every access that the code guards with a lock is one
step; the status of the first thread and its signal, which it does not guard, are
steps of their own, and a wait may end without a signal.  The formulas are those left
after preprocessing, with the facts as clauses.  `parallel/` does not build at this
commit: `ParallelSolver::solve_` (470) calls `search` with one argument, and
`Solver::search` (Solver.h:430) takes eight since the modification; the model follows
the code with that call as it was meant.

### Scores and the order heap

`OrderHeap` is `mtl/Heap.h`: percolation up and down, insertion, removal of the first
and rebuilding, on a record of the heap's sequence and index.  `HybridScores` has the
activities, the increment, their copies, and the steps of `search` that touch them:
bumps of a conflict with the insertions of its backjump (`Conflict`), the end of a
static phase (`NoConflict`), the boundary (`Report`, with all of
`waitForActivityScores` in `TakeScores`), `Restart`, `Simplify`, and `Decide` with the
variables it takes off the heap.  What is propagated and which variables a conflict
meets is chosen freely.  `MCHybridScores` remembers what static scores replaced.

## 3. Runs

| run | shows | bounds |
|---|---|---|
| `protocol_safety` | `InStep`, the invariant of the dialogue; `RequestsExpected`: no line is read by a loop that is not made for it; `ResultIsCurrent`; `SegmentsAccounted`; `RaisesOnlyOnCrash`; `ImplementsSession`, the refinement | two processes, three decisions, limit 1, go_ahead None or 2 |
| `protocol_live` | `CallsReturn`, `OrphansEnd` under fairness, with crashes, both timeouts and the death of Python | two processes, three decisions, go_ahead 2 |
| `protocol_timedout` | a violation: solved formulas are reported as timed out | one process |
| `rules` | the inductive invariant `Inv` and `Sound` of the rules | five formulas over two variables |
| `cdcl_safety` | `InRules`, the invariant of the search, with the rightness of its answers; `PropagationComplete`; `ConflictAnalysable`; `LearntIsNew`; `ImplementsRules`, the refinement; `Terminates` | eleven formulas over two to four variables, one reduceDB up to three variables |
| `cdcl_lcm` | `InLRules`, the invariant of the search with vivification; `ResumesPropagated` after it; `LImplementsRules`, the refinement | three formulas over four variables, two calls of search, the second up to its first decision, one reduceDB |
| `scores` | `HeapIndexed`; `OpenInHeap`; `OrderKept`; `IncrementAlive`; `HeldForPeriod`; `Restored`; `StaticScoresStay` | three variables, five decisions, one conflict, limit 2, four kinds of request |
| `simp` | `InPreprocessing`, the invariant of preprocessing; `OccursComplete`; `Reduced`; `ModelExtends`; `Terminates`; `ImplementsRules`, the refinement | twelve formulas over four variables, six settings of the options, never more than twelve clauses |
| `simp_rcheck` | a violation of `ModelExtends` with `-rcheck` | the same formulas |
| `buffer` | `RingConsistent`; `CountsReaders`; `OldestWanted`; `ImplementsShared`, the refinement | three threads, fifteen words, clauses of 2, 3 and 7 literals |
| `parallel` | `KnownEntailed`; `FactsConsistent`; `ResultRight`; `WorkersStop` under fairness | two threads, three formulas over three variables, one longer clause per thread |
| `parallel_wakeup` | a violation of `SolveReturns` | two threads, one formula |

The type invariants are conjuncts of `InStep`, `InRules`, `HeapIndexed`, `OccursComplete`,
`RingConsistent` and `InLRules`; that of `MultiSolvers` is proved (section 4).

Two processes suffice for the protocol because a process is only ever disturbed by its
successor: the controller drops its pipes and signals it.  Three decisions with limit
1 give a first exchange without a graph, one with, and one after a forward of two.
The formulas of `MCCdcl` are chosen so that each branch of `propagate`, `analyze` and
`search` is taken: learnt facts, learnt clauses whose literals come from several
levels, redundant literals, both kinds of conflict, facts at level 0, tautologies,
unsatisfiable input.  Three levels, where the second watched literal of a learnt
clause matters, are reached in `MCCdclLcm` (`Deep`), with a formula that only
vivification refutes and one whose learnt clauses have lost what they came from. Over
four variables, and for the formula of all eight clauses over three, decisions only
make literals true.  `adaptSolver` runs once, but for the two formulas with the most
conflicts.  `MaxClauses` is never reached.  Three variables are the least for which a
heap has a right child, and five decisions with limit 2 give a static phase, bumps
after it, and another.  The formulas of `MCSimpElim` make every branch of
preprocessing happen, with a small `-cl-lim` and a negative `-grow` so that both
limits bite.  In the ring a clause of seven literals leaves no room for another, and
fifteen words are not a multiple of any clause's length, so that every part of a
clause comes to lie across the end.  Two threads are enough for opposite facts, for a
second finisher and for a lost signal.

Fairness.  The protocol assumes that the operating system runs each live process
and delivers SIGTERM, and that the Python thread goes on with the call it is in;
it assumes nothing about callers, crashes, signals or timeouts.  The search is a
sequential loop, so `WF_vars(Next)` says only that it is run.  `Terminates` holds
with a bounded number of clause deletions; the code makes deletions rarer (every
`nbclausesbeforereduce` conflicts, increased each time), which is what the bound
stands for.  Preprocessing is a sequential loop too.  In the parallel run every thread
and the main thread are scheduled; a time-out of the wait counts as a step of the
main thread.  `WorkersStop` holds because a learnt clause is new and there are finitely
many; nothing is assumed about which thread is faster or about wake-ups.

Deadlock checking is off where the system may rest: between calls for the protocol,
after the answer for the rules, preprocessing and the parallel run, at a model or a
bound for the scores.

## 4. Proofs

All theorems hold for every value of the constants that satisfies the assumptions of
the modules.  Those of `Cdcl` say that the variables are finitely many positive numbers,
that a file is a sequence of sets of literals, and that of every variable one literal
can be decided.  Its bound `MaxClauses` is the number of references that name clauses:
an action that needs one is guarded by `FreeRefs # {}`.

### The protocol: `SolverDialogue_proofs`

`DialogueHolds` is `Spec => []InStep`; from it come `RequestsAreExpected`,
`ResultsAreCurrent`, `SegmentsAreAccounted`, `RaisesAreCrashes` and, with one lemma per
action, `SessionImplemented` (`Spec => ImplementsSession`), for any number of processes
and decisions, any limit, any go-ahead arguments, and with crashes, both timeouts and
the death of Python at any step.

Types alone say nothing about who speaks next, and none of the properties is inductive.
`InDialogue` is: for each point of the solver it writes down the lines in both
pipes, and where in `start` or `step` the controller then is.  The argument is that the
two take turns: every line in the solver's output was printed since its last decision,
because a decision is only taken when the controller has read everything and
answered; so the graph, the reward and the segment's name a call collects carry the
same decision count.  What a process that is gone may leave behind is listed too
(`AtExited`, `AtKilled`), since the controller reads that as well.  Processes that
were dropped keep their own small invariant (`InOrder`): their input still holds
an answer to what they asked for.

The proof has lemmas for the types and one lemma per action for the dialogue
(`PublishKeeps`, `OnRewardKeeps`, ..., over `TalkFrame`: an action of another process does not disturb the
dialogue of the current one).  The invariant was checked by TLC first: run
`protocol_safety` has `InStep` among its invariants (1.9 million states).

### The search: `Cdcl_proofs`

`SearchHolds` is `Spec => []InSearch`, and `SearchTyped`, `ReasonsStay`
(`ReasonsImply`), `PropagationMissesNothing` (`PropagationComplete`), `ConflictsAnalysable`
(`ConflictAnalysable`) and `LearntIsNews` (`LearntIsNew`) follow, for any variables, files,
decisions, and deletions of clauses.

* `TrailOK`: a variable is on the trail once, and `trailLim` cuts it where the levels
  begin.
* `Watched`: a watched literal that is false, and whose visit is over, has a true
  literal beside it that was true no later than its own level.  This "no later" is what
  makes it survive `cancelUntil`, which does not touch the watches; it holds of a learnt
  clause only because `analyze` puts a literal of the backtrack level second.
* `ReasonsImply`: above level 0 a reason is allocated, watches the literal it implied,
  and its other literals are false and earlier on the trail.
* `QueueOK` and `ConflictFalse` say what is settled at each point of the loop.

`PropagationComplete` and `ConflictAnalysable` are consequences, by no step of their
own: a false clause would have a watched literal that is false, settled and not held.

`analyze` and `litRedundant` are recursive functions over the trail.  `RecursionTheorems`
proves recursion and induction on `0 .. n` for *sets* and *functions*, where no operator
parameter is needed (`UpInduction`, `UpRecursion`, `DownRecursion`, ...), from the library's
well-foundedness of `<`.  So `Resolvent` is known to start with the conflict clause, to
resolve at each place of the trail that it contains, and to stop at the first unique
implication point, and what `litRedundant` removes is known to lead back to what stays,
whatever the length of the trail.

The second half of the module adds what the answers rest on: `Entailed` (clauses and literals
of level 0 follow from the file) and `Stored` (of each clause read a part is kept, not
as a learnt clause, or a literal of level 0 satisfies it).  `AnswersJustified` is
`Spec => []InRules`; `RulesImplemented` is the refinement `Spec => ImplementsRules`: each
step of `Cdcl` is a step of `CdclRules` or one they do not see; `SearchSound` says that SAT
is answered only of files with a model and UNSAT only of files without.  Here
`ResolventFollows` and `RedundantFollows` carry the argument: a resolvent of clauses that
follow, follows, although `analyze` leaves out the literals that are false at level 0,
and a literal that `litRedundant` removes is false wherever the rest of the clause is.
There is one lemma per rule (`StepLearns`, `StepPropagates`, ...) that says what a step
must do to the trail to be that rule, and one per action (`ConflictAnswers`,
`DecideAnswers`, ...) that shows it does.  The invariant was checked by TLC first: run
`cdcl_safety` has `InRules` among its invariants.

The third part is about `CdclLcm`.  `VivificationHolds` is `LSpec => []InLcm`; from it come
`VivificationResumes` (`ResumesPropagated`) and `VivificationKeepsReasons` (`ReasonsImply`);
`VivificationJustified` is `LSpec => []InLRules`, `VivificationImplemented` the refinement
`LSpec => LImplementsRules`, and `VivificationSound` that the answers stay right.  Between
vivifications `InLcm` is the invariant of the search, and the lemmas about its steps are used
as they stand.  A vivification stays at decision level 0, so that its assumptions and what
follows from them lie on the trail like facts; `Vivifying` tells them apart.  Up to
`trailRecord` everything has been propagated (`FactsWatched`), which is what the jump back
relies on; behind it a literal is the negation of one that was kept (`Assumed`) or follows
by its reason from earlier ones (`ByReason`).  So what `Reached` leads back to are
assumptions which together are refuted, or force the literal found true, and the clause that
`Replace` stores follows from the clauses, the one under work among them although it has left
the database (`LEntailed`).  As simplifyAll visits learnt clauses only, the parts kept of
the clauses of the file (`LStored`) stay what they were.

### The rules: `Rules_proofs`

Of `CdclRules`: `Invariant` (`Spec => []Inv`) and `Soundness` (`Spec => []Sound`),
for every set of variables and every set of formulas.  `Sound` is not inductive.
The invariant adds that every clause kept follows from the formula, that the
literals true at levels up to k follow from the formula and the first k decisions,
for every k, and that no literal is true together with its negation.  The middle
part is the argument: backjumping to level k keeps what followed from k decisions,
and a learnt clause, which follows from the formula, then implies its literal.  With
no decision left, a false clause contradicts the formula.  TLC checks the same
invariant in run `rules`; `RulesImplemented` connects it with the search for every
instance, `VivificationImplemented` with vivification.

Of `ElimRules`: `Preserves` (`Elim!Spec => []Elim!Inv`), for every set of variables and every
formula over them: every model of what is left extends to a model of the input, no model
is lost, and UNSAT is answered only when there is none.  The step that eliminates v
chooses the value of v in a model A of the rest: true if the clauses with v need it;
if those with -v needed the other value too, one clause of each side would be false
but for v, and so would be their resolvent, which A satisfies.  The preprocessor
implements these rules, as is proved next.

### Preprocessing: `SimpElim_proofs`

For any finite set of variables, any files and any bound.  First what the lists hold,
with every option:
`ListsHold` (`Spec => []InLists`) and from it `ListsComplete` (`OccursComplete`),
`GoneForGood` (`EliminatedGone`) and `NothingToSubsume` (`Reduced`).  `Reduced` speaks of the
end only.  Its invariant is a debt: of two clauses of which one subsumes or strengthens the
other, the first is in the queue, or has a variable in `touched`, or is being compared and
the second has still to come (`PairsOK`); the same for a clause with a variable that is
known, and the fact (`FactsOK`).  A clause that is shortened goes into the queue, which
pays for what it may now subsume; that other clauses may now shorten it is a debt they had
before (`ShrunkPairs`): what was too short for D and fits D without a literal was one
negated literal away from D.  A resolvent does not go into the queue alone: its variables
are touched, so that older clauses which subsume it are queued again (`GrownPairs`).
When `occurs` is complete, the candidates that `backwardSubsumptionCheck` takes from the
list of one variable are all there are.

Then what the clauses mean, for the program without `-rcheck` (which is off by default,
and with which the properties fail: run `simp_rcheck`).  `PreprocessingHolds` is
`Spec => []InPreprocessing`, `ModelsExtend` that `extendModel` makes every model of what is
left a model of the file, interrupted or not.  Each step but one leaves the models of the
remaining clauses, unread clauses and facts as they are, or finds that there are none
(`StepRewrites`); the lemmas under it are one per handler: `AddFits` (a false literal
left out, a satisfied clause skipped), `StrengthenFits` and `CompareFits` (a resolvent of
two clauses replaces one of them), `AsymmFits` (what propagation refutes does not hold),
over `PropagatedFacts` (what propagation finds follows).  The exception is
`RemoveOccurrences`, where models are gained.  While the resolvents are added their
own propagation may remove false literals of the very clauses they come from, and may find a
value of the variable that is being eliminated.  `Resolving` says what holds then: a
resolvent that is no longer to be added follows from the clauses and facts without the variable
(`AddResolventResolving`), and a fact about the variable has a reason among the clauses
that go, all other literals of which are false.  From this `StoredSatisfies` gets
that the clauses kept in `elimclauses`, of the side with fewer of them, suffice to choose
the value (`EliminationSets`), and `ExtendedIs` and `LastFirst` carry it through the
recursive `ExtendedBy`.

`RulesImplemented` is the refinement `Spec /\ ~option.rcheck => ImplementsRules`: a step that
rewrites is `Rewrite`, one that finds a contradiction `AnswerUnsat`, and `RemoveOccurrences`
is `Eliminate`, whose guard (`ResolventsFollow`) has a case that the code never looks at:
a fact about the variable resolved with a clause.  `ContradictionsReal` adds that
`eliminate` and `addClause_` report a contradiction only of files that have no model.

### The parallel run: `MultiSolvers_proofs`

For any number of threads, any formula and any bound: `ParallelTypes` (types),
`ParallelKnowledge` (`[]KnownEntailed`), `ParallelConsistent` (`[]FactsConsistent`) and
`ParallelAnswer` (`[]ResultRight`).  The invariant says that whatever is known, being
exported, listed or still unread holds in every model of the formula (`Known`), that a
thread's status is right (`Verdicts`), that from the moment the job is finished exactly
the first finisher's status is what `jobStatus` will be when that thread has exited
(`Job`), and that the main thread returns after all have exited (`Collected`).
Entailment alone would not be inductive: a clause in the buffer has to be covered while
no thread has it.  Consistency does not follow from it: an unsatisfiable formula entails
everything, and two threads do come to export opposite facts.

### The ring: `ClausesBuffer_proofs`

For any number of threads, any `-fifosize` and clauses of any sizes: `RingHolds` (the
invariant `RingInv`) and from it `RingIsConsistent`, `ReadersCounted` (`CountsReaders`),
`OldestIsWanted` (`OldestWanted`) and the refinement `RingIsShared`
(`Spec => ImplementsShared`).  `ReadersCounted` assumes more than one thread, as does the
count itself: alone, a thread writes 1 (line 175) and nobody ever decreases it.

`RingInv` says that the clauses are whole (`LaidOut`: walking by sizes ends exactly at
the last cell in use, and every header on the way is one), that each cursor stands at one
of the places so reached (`Standing`), that the counts are right (`Counted`), and that
`first` is the next cell.  What makes it hard is that places are found by reading
the very words that a push overwrites and a removal gives up, round a ring of which both
ends move.  `ReachesExists` and `BeginsChain` turn the recursive walk into a property of
the set of places (`Chain`), `ChainUnique` says that there is only one such set, and
`Apart` that no place lies inside a clause.  `Moves` is the central lemma: when the clauses
before place x go and perhaps one comes behind the rest, the walk reaches what it
reached from x on, and the new end.  `RemoveKeeps`, `AppendKeeps` and `ReadKeeps` use it
for `removeLastClause`, `pushClause` and the decrement in `getClause`; `MovedStands` says
where a cursor is after its clause was dropped.

The list of clauses a thread has still to get is a recursive function over the places
(`UnreadFrom`).  `UnreadMoves` is for it what `Moves` is for the places; `UnreadSkips`
says that passing over its own clauses a thread misses nothing, and `UnreadRests` that
what it gets from a later place is the end of what it would have got from an earlier
one, so that a thread whose clauses were dropped loses the oldest ones only.  From these
each call is a step of `SharedClauses` (`PushAdds`, `GetTakes`, `GetNothingTakesNothing`).

### Scores: `HybridScores_proofs`

`Alive` (`Spec => []IncrementAlive`), `ScoresComeBack` (`Restored`) and `HeldAsAsked`
(`[]HeldForPeriod`), for every set of variables, limit and requests.  They assume
`OnTime`: each static request gives a score and holds for no more decisions than there
are before the next request; `HeldAsAsked` also `PeriodsAsked`: a static request asks for
at least one decision.  The requests of the run `scores` are of this kind.
`IncrementAlive` is not inductive: it needs that the copy is positive while static
scores are in force, that a static phase is over when `search` comes to a boundary
(so that no request finds one in force), and that nothing is static before the first
decision.  `ScoresComeBack` adds that the copy is what it was when the phase began
(`Saved`), `HeldAsAsked` that no more decisions than the period have been taken since
then (`PeriodKept`).  Without the assumption they fail: a static request without scores does
not save the increment, and one that lasts beyond the next request is never over.

The order heap needs no such assumption, only that the variables are finitely many
(`nVars()` counts them).  `IndicesRight` (`[]HeapIndexed`), `NoneMissing`
(`[]OpenInHeap`) and `StaysOrdered` (`MCSpec => OrderKept`) hold for any number of
variables; `StaticScoresAreLeft` (`StaticScoresStay`) assumes `OnTime` again, since an
increment of zero comes with a score only.

The work is in the heap's operations.  `percolateUp` and `percolateDown` are one
thing: along a chain of places (`Chain`) each variable takes the place of the next and
the first one takes the last place.  `MovedAgrees` shows of any such chain that the
indices the code writes are right and no variable is lost; `UpMoves` and `DownMoves`
that the two loops go along one.  `UpOrders` and `DownOrders` are about order: what may
be wrong at one place before is wrong nowhere after.  From these follow `DecreaseKeeps`,
`DecreaseOrders`, `InsertKeeps`, `RemoveMinKeeps` and `BuildKeeps`, and from those, by
induction along the sequences the code walks, what the bumps of a conflict
(`BumpedKeeps`), the insertions of a jump back (`ReleasedKeeps`) and the removals of a
decision (`PoppedKeeps`) leave.  The loops are recursive functions over places;
`EarlierRecursion` and `LaterRecursion` of `RecursionTheorems` say that such a function
exists when each value is made of values at earlier, or at later, places.

`HeapInv` is the inductive invariant: the types, `Levels` (a variable is on the trail
once, and the levels begin one after the other, without which a literal asserted after
a jump back might be on the trail already), and `HeapRight`: indices right, and each
variable assigned or in the heap.  `StaysOrdered` is a fact about steps (`StepKeeps`):
the order itself is no invariant, since the end of a static phase brings activities
back and leaves the heap.

### What is only model-checked

Liveness (`Terminates`, `CallsReturn`, `OrphansEnd`, `WorkersStop`), which the prover does
not reach.  Every safety property and refinement of the passing runs is also proved,
under the assumptions named above.

## 5. Findings

* `step()` reports every verdict as timed out (`protocol_timedout`).
* With `-rcheck`, `eliminateVar` asks whether a resolvent is implied while the clauses
  it comes from are still there; every resolvent is, so none is kept, and the model
  of the rest need not extend (`simp_rcheck`).  The option is off by default.
* `MultiSolvers::solve` waits for a signal that may have come before, and its loop looks
  at nothing else, so it may never return (`parallel_wakeup`).

Seen while reading or modelling, without a run: `removeClause` may leave a removed
binary clause as the reason of its second literal, at level 0, where nothing looks at
it; the order heap is not rebuilt when activities are restored, so that the decisions
after a static phase need not take a largest activity (`OrderKept` shows that no other
step disorders the heap); a static request without scores (`env.step([])` with "hybrid")
sets the increment to an old copy when it is over; static scores asked for longer than
the distance of two requests never end; `propagate` leaves its queue non-empty on a
binary conflict, against its header (997-998), which no caller minds;
`start(get_csr=False)` with a decision limit waits for ever; a wall-clock timeout returns
a reward of None that `SolverEnv.step` adds to a number; `fitness_fn` may step a closed
session; `adaptSolver` and `analyze` may both list a clause as permanent;
`ClauseAllocator::free` counts one word less than `alloc` took for an imported clause;
`ParallelSolver.cc` 470 calls `search` with the parameters it had before the
modification.

## 6. Plan

Done: the protocol with its session; the search with its rules; vivification; scores
and the order heap; preprocessing with its rules; the ring with its blackboard; the
parallel run.  Proved: the safety properties and refinements of the protocol and of the
search with and without vivification, the rules, the parallel run, the ring with its
refinement, the hybrid scores with the order heap, preprocessing with its refinement.  What
a next step would be: the parallel solver's purgatory and its `reduceDB`, and the
relocation of clauses.

## 7. Not modelled

* Clause storage and garbage collection (`mtl/Alloc.h`, `ClauseAllocator`, `relocAll`): the
  modules take a reference for a name that stays valid, which is what relocation has
  to preserve; the copying and the count of wasted words are not checked.
* Of the parallel solver: panic mode, purgatory and unary watches, its `reduceDB`,
  clauses exported on probation (`ParallelSolver.cc` 241-254), options and statistics.
* Environments and training: sequential callers of `start` and `step` (the protocol lets
  callers make any legal sequence of calls), a pool of processes that share nothing,
  and floating-point arithmetic.
* Instance generation, evaluation scripts, options, process statistics, parsing, data
  structures other than the heap: input and output, or used as sequences and sets.
* Networks, PPO, plots: floating-point tensors.

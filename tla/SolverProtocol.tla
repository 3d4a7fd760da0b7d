---------------------------- MODULE SolverProtocol ----------------------------
(***************************************************************************)
(* The controller and the solver processes it starts, joined by their      *)
(* pipes and by shared memory.                                             *)
(***************************************************************************)
EXTENDS SolverProcess, SolverController

vars == <<pipeVars, solverVars, ctlVars>>

Init == PipesInit /\ SolverInit /\ ControllerInit

Next == \/ \E p \in Procs : SolverNext(p) /\ UNCHANGED ctlVars
        \/ ControllerNext /\ UNCHANGED solverVars

Spec == Init /\ [][Next]_vars

\* The operating system runs every process and delivers SIGTERM; the Python
\* thread executes the call it is in.  Nothing obliges the caller to make
\* another call, and no crash, signal or timeout is ever obliged to happen.
FairSpec == /\ Spec
            /\ \A p \in Procs : /\ WF_vars(Runs(p) /\ UNCHANGED ctlVars)
                                /\ WF_vars(Terminated(p) /\ UNCHANGED ctlVars)
            /\ WF_vars(Works /\ UNCHANGED solverVars)

TypeOK ==
  /\ pc \in [Procs -> SolverPCs]
  /\ stdin \in [Procs -> Seq(Requests)]
  /\ stdout \in [Procs -> Seq(Lines)]
  /\ shm \in SUBSET Segments
  /\ term \in SUBSET Procs
  /\ cur \in 0 .. MaxProcs
  /\ gone \in BOOLEAN
  /\ decisions \in [Procs -> Count]
  /\ lastDecisions \in [Procs -> Count]
  /\ forward \in [Procs -> Nat]
  /\ interrupted \in SUBSET Procs
  /\ call \in {"none", "start", "step"}
  /\ attached \in SUBSET Segments
  /\ getCsr \in BOOLEAN
  /\ goAhead \in Nat
  /\ shmName \in Segments \cup {NoSegment}
  /\ csr \in MaybeCount
  /\ reward \in MaybeCount
  /\ stopped \in BOOLEAN
  /\ ret \in Results

-----------------------------------------------------------------------------
\* The two programs stay in step: a solver that waits for input finds at the
\* head of its pipe a line of the kind its loop at that point is written for,
\* so neither a "throw" of Solver.cc is reached nor a line silently skipped.
Expected == [awaitCsr |-> {"csrYes", "csrNo"}, awaitAck |-> {"ack"},
             awaitScores |-> {"scores", "activityDone"},
             awaitForward |-> {"continue", "forward"}]

RequestsExpected ==
  \A p \in Procs : pc[p] \in DOMAIN Expected /\ stdin[p] # <<>>
                     => Head(stdin[p]).tag \in Expected[pc[p]]

\* What a caller holds between two calls describes the solver as it stands: the
\* solver has taken no decision since the graph was written and the reward
\* computed, and graph and reward are of the same boundary.
ResultIsCurrent ==
  ret.kind = "open" /\ call = "none" /\ ~gone
    => /\ ret.csr \in {ret.reward, NoCount}
       /\ Alive(cur) => decisions[cur] = ret.reward

\* The graph being copied by read_from_shared_mem is not removed under the
\* reader, and a name outlives the exchange only if its process was killed in
\* the middle of it.
SegmentsAccounted ==
  /\ attached \subseteq shm
  /\ \A s \in shm : /\ s.at = decisions[s.pid]
                    /\ pc[s.pid] \in {"publish", "awaitAck", "killed"}

\* An exception leaves start() or step() only because the solver was killed by
\* something else than the controller.
RaisesOnlyOnCrash == ret.kind = "raised" /\ call = "none" => pc[cur] = "killed"

\* step()'s docstring calls the fourth component of its result "timed out": a
\* formula the solver decided was not given up.
TimedOutMeansUndecided ==
  ret.timedOut => ret.verdict \notin {"s SATISFIABLE", "s UNSATISFIABLE"}

\* Every call comes back, unless Python dies in it: controller and solver never
\* both wait for the other's next line.  (start() called with get_csr=False breaks
\* this: it has no branch for the score request; every caller in the repository
\* leaves get_csr at True.)
CallsReturn == call # "none" ~> call = "none" \/ gone

\* No solver outlives its controller: once nobody holds the other ends of its
\* pipes the process ends, whatever it was doing.
Orphans == {p \in Procs : Alive(p) /\ Dropped(p)}
OrphansEnd == Orphans # {} ~> Orphans = {}

-----------------------------------------------------------------------------
\* The session seen through the results of the calls.
SessionOpen == ret.kind = "open" /\ call # "start" /\ ~stopped /\ ~gone
Session == INSTANCE SolverSession
             WITH open <- SessionOpen,
                  reported <- IF SessionOpen THEN ret.reward ELSE 0,
                  asked <- IF SessionOpen /\ call = "step" THEN {goAhead} ELSE {}

\* Every step that leaves the session open reports exactly the decisions it
\* asked for, through all interleavings, timeouts and failures.
ImplementsSession == Session!Spec
==============================================================================

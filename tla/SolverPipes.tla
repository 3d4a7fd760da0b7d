----------------------------- MODULE SolverPipes -----------------------------
(***************************************************************************)
(* What the Python controller and a solver process share: the process      *)
(* itself, its two pipes, and the POSIX shared-memory segments that carry  *)
(* the clause graph.  python/solver_interface.py opens one process per     *)
(* call of start(); a line of either pipe is a record with a tag and a     *)
(* number (the solver's decision count when it printed the line, or the    *)
(* argument of a request).                                                 *)
(***************************************************************************)
EXTENDS Naturals, Sequences, FiniteSets

CONSTANTS MaxProcs,     \* bound: how many times start() is called
          MaxDecisions, \* bound: decisions one solver run takes
          Limit,        \* -decisions=N, the option decision_limit (0: none)
          GoAheads      \* go_ahead arguments of step(); 0 stands for None

ASSUME BoundsAssumption == /\ MaxProcs \in Nat
                           /\ MaxDecisions \in Nat
ASSUME LimitAssumption == /\ Limit \in Nat
                          /\ GoAheads \subseteq Nat

Procs == 1 .. MaxProcs
Count == 0 .. MaxDecisions

VARIABLES
  pc,      \* pc[p]: the point of its program the solver process is at
  stdin,   \* stdin[p]: lines the controller wrote and the solver has not read
  stdout,  \* stdout[p]: lines the solver flushed and the controller has not read
  shm,     \* names under /dev/shm; a name is the process and the write it is for
  term,    \* processes SIGTERM was sent to
  cur,     \* the process self.proc refers to; 0 before the first start()
  gone     \* the Python process has died

pipeVars == <<pc, stdin, stdout, shm, term, cur, gone>>

Segments == [pid : Procs, at : Count]

RequestTags == {"csrYes", "csrNo", "ack", "scores", "activityDone",
                "continue", "forward"}
LineTags == {"csrReady", "shmName", "csrWritten", "reward", "stepDone",
             "activityStart", "s SATISFIABLE", "s UNSATISFIABLE",
             "s INDETERMINATE", "v"}
Verdicts == {"s SATISFIABLE", "s UNSATISFIABLE", "s INDETERMINATE"}

Requests == [tag : RequestTags, n : Nat]
Lines    == [tag : LineTags, at : Count]

SolverPCs == {"unborn", "boot", "askCsr", "awaitCsr", "createShm", "publish",
              "awaitAck", "stepDone", "askScores", "awaitScores",
              "awaitForward", "resume", "search",
              "exited", "killed", "aborted"}

Dead(p)  == pc[p] \in {"exited", "killed", "aborted"}
Alive(p) == pc[p] \notin {"unborn", "exited", "killed", "aborted"}

\* The controller's ends of p's pipes are closed: a later start() replaced the
\* Popen object, or the Python process died.
Dropped(p) == gone \/ p < cur

PipesInit ==
  /\ pc = [p \in Procs |-> "unborn"]
  /\ stdin = [p \in Procs |-> <<>>]
  /\ stdout = [p \in Procs |-> <<>>]
  /\ shm = {}
  /\ term = {}
  /\ cur = 0
  /\ gone = FALSE
==============================================================================

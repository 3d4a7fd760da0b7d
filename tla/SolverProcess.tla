---------------------------- MODULE SolverProcess ----------------------------
(***************************************************************************)
(* The solver's side of the controller protocol: simp/Main.cc,             *)
(* SimpSolver::solve_, and the blocks this repository adds to              *)
(* Solver::search, Solver::writeCSRToSharedMem and                         *)
(* Solver::waitForActivityScores.  The search itself is reduced to the     *)
(* counter the protocol looks at, decisions.                               *)
(*                                                                         *)
(* stdout is a pipe, so printf is buffered: a group of lines reaches the   *)
(* controller at the fflush that follows it, or at exit.                   *)
(***************************************************************************)
EXTENDS SolverPipes

CONSTANTS CpuLimit,   \* -cpu-lim is given: SIGXCPU may arrive
          CanCrash    \* the process may be killed from outside, or shm_open fail

VARIABLES
  decisions,      \* Solver::decisions
  lastDecisions,  \* last_decisions, local to solve_
  forward,        \* forward, local to solve_
  interrupted     \* asynch_interrupt

solverVars == <<decisions, lastDecisions, forward, interrupted>>

SolverInit ==
  /\ decisions = [p \in Procs |-> 0]
  /\ lastDecisions = [p \in Procs |-> 0]
  /\ forward = [p \in Procs |-> 0]
  /\ interrupted = {}

Goto(p, l) == pc' = [pc EXCEPT ![p] = l]
Line(p, t) == [tag |-> t, at |-> decisions[p]]
Segment(p) == [pid |-> p, at |-> decisions[p]]

\* fflush: SIGPIPE kills a process whose reader has closed the pipe.
PrintAndGoto(p, lines, l) ==
  IF Dropped(p)
  THEN Goto(p, "killed") /\ UNCHANGED stdout
  ELSE Goto(p, l) /\ stdout' = [stdout EXCEPT ![p] = @ \o lines]

Gets(p) == stdin[p] # <<>> /\ stdin' = [stdin EXCEPT ![p] = Tail(@)]
Got(p)  == Head(stdin[p]).tag
\* Mutant: another process still holds the writing end.
GetsEofOnce(p) == /\ stdin[p] = <<>>
                  /\ p < cur
                  /\ UNCHANGED stdin
GetsEof(p) == /\ stdin[p] = <<>>
              /\ Dropped(p)
              /\ UNCHANGED stdin

\* main() up to solveLimited: parsing and eliminate(true) may settle the
\* formula; otherwise SimpSolver::solve_ writes the clause graph first when a
\* decision limit is set.
Boot(p) ==
  /\ pc[p] = "boot"
  /\ \/ PrintAndGoto(p, <<Line(p, "s UNSATISFIABLE")>>, "exited")
     \/ /\ Goto(p, IF Limit # 0 THEN "askCsr" ELSE "search")
        /\ UNCHANGED stdout
  /\ UNCHANGED <<stdin, shm, term, cur, gone, solverVars>>

\* writeCSRToSharedMem, first line.
AskCsr(p) ==
  /\ pc[p] = "askCsr"
  /\ PrintAndGoto(p, <<Line(p, "csrReady")>>, "awaitCsr")
  /\ UNCHANGED <<stdin, shm, term, cur, gone, solverVars>>

\* Where writeCSRToSharedMem returns to: solve_ before the search, or the
\* report block of search.
AlwaysStepDone(p) == "stepDone"                                          \* mutant
AfterCsr(p) == IF decisions[p] = 0 THEN "search" ELSE "stepDone"

\* Any line but the two answers throws out of solve_ and of main; at the end of
\* the input the loop simply ends and the graph is written.
AwaitCsr(p) ==
  /\ pc[p] = "awaitCsr"
  /\ \/ /\ Gets(p)
        /\ Goto(p, CASE Got(p) = "csrNo"  -> AfterCsr(p)
                     [] Got(p) = "csrYes" -> "createShm"
                     [] OTHER             -> "aborted")
     \/ GetsEof(p) /\ Goto(p, "createShm")
  /\ UNCHANGED <<stdout, shm, term, cur, gone, solverVars>>

\* shm_open and the copy; a failing shm_open, ftruncate or mmap unlinks and
\* exits, and exit flushes the name line.
CreateShm(p) ==
  /\ pc[p] = "createShm"
  /\ \/ /\ shm' = shm \cup {Segment(p)}
        /\ Goto(p, "publish")
        /\ UNCHANGED stdout
     \/ /\ CanCrash
        /\ PrintAndGoto(p, <<Line(p, "shmName")>>, "exited")
        /\ UNCHANGED shm
  /\ UNCHANGED <<stdin, term, cur, gone, solverVars>>

PublishUnflushed(p) ==                                                   \* mutant
  /\ pc[p] = "publish"
  /\ PrintAndGoto(p, <<Line(p, "shmName")>>, "awaitAck")
  /\ UNCHANGED <<stdin, shm, term, cur, gone, solverVars>>

\* The name and the size reach the controller in one flush.
Publish(p) ==
  /\ pc[p] = "publish"
  /\ PrintAndGoto(p, <<Line(p, "shmName"), Line(p, "csrWritten")>>, "awaitAck")
  /\ UNCHANGED <<stdin, shm, term, cur, gone, solverVars>>

\* Mutant: the name is unlinked only once the reader has acknowledged.
AwaitAckThenUnlink(p) ==
  /\ pc[p] = "awaitAck"
  /\ \/ /\ Gets(p)
        /\ Goto(p, IF Got(p) = "ack" THEN AfterCsr(p) ELSE "exited")
        /\ shm' = shm \ {Segment(p)}
     \/ /\ GetsEof(p)
        /\ Goto(p, "exited")
        /\ UNCHANGED shm
  /\ UNCHANGED <<stdout, term, cur, gone, solverVars>>

\* The name is unlinked on every path that reads a line or the end of input.
AwaitAck(p) ==
  /\ pc[p] = "awaitAck"
  /\ \/ Gets(p) /\ Goto(p, IF Got(p) = "ack" THEN AfterCsr(p) ELSE "exited")
     \/ GetsEof(p) /\ Goto(p, "exited")
  /\ shm' = shm \ {Segment(p)}
  /\ UNCHANGED <<stdout, term, cur, gone, solverVars>>

StepDoneAndGoOn(p) ==                                                    \* mutant
  /\ pc[p] = "stepDone"
  /\ PrintAndGoto(p, <<Line(p, "stepDone")>>, "resume")
  /\ UNCHANGED <<stdin, shm, term, cur, gone, solverVars>>

StepDone(p) ==
  /\ pc[p] = "stepDone"
  /\ PrintAndGoto(p, <<Line(p, "stepDone")>>, "askScores")
  /\ UNCHANGED <<stdin, shm, term, cur, gone, solverVars>>

\* waitForActivityScores, first line.
AskScores(p) ==
  /\ pc[p] = "askScores"
  /\ PrintAndGoto(p, <<Line(p, "activityStart")>>, "awaitScores")
  /\ UNCHANGED <<stdin, shm, term, cur, gone, solverVars>>

\* The first loop skips every line that is neither a score nor the end marker;
\* at the end of input both loops end and the search resumes.
AwaitScores(p) ==
  /\ pc[p] = "awaitScores"
  /\ \/ /\ Gets(p)
        /\ Goto(p, IF Got(p) = "activityDone" THEN "awaitForward"
                                             ELSE "awaitScores")
     \/ GetsEof(p) /\ Goto(p, "resume")
  /\ UNCHANGED <<stdout, shm, term, cur, gone, solverVars>>

AwaitForward(p) ==
  /\ pc[p] = "awaitForward"
  /\ \/ /\ Gets(p)
        /\ Goto(p, IF Got(p) \in {"continue", "forward"} THEN "resume"
                                                        ELSE "aborted")
        /\ forward' = [forward EXCEPT ![p] =
                          CASE Got(p) = "continue" -> 0
                            [] Got(p) = "forward"  -> Head(stdin[p]).n
                            [] OTHER               -> @]
     \/ /\ GetsEof(p)
        /\ Goto(p, "resume")
        /\ UNCHANGED forward
  /\ UNCHANGED <<stdout, shm, term, cur, gone, decisions, lastDecisions,
                 interrupted>>

PeriodDecisions(p) == decisions[p] - lastDecisions[p]

AtLimit(p) == Limit # 0 /\ (decisions[p] = 0 \/ PeriodDecisions(p) >= Limit) \* mutant

\* The guard of the report block.
AtBoundary(p) ==
  /\ Limit # 0
  /\ \/ decisions[p] = 0
     \/ PeriodDecisions(p) >= Limit /\ PeriodDecisions(p) >= forward[p]

Report(p) ==
  /\ pc[p] = "search"
  /\ AtBoundary(p)
  /\ IF decisions[p] = 0
     THEN /\ Goto(p, "askScores")
          /\ UNCHANGED <<stdout, lastDecisions>>
     ELSE /\ PrintAndGoto(p, <<Line(p, "reward")>>, "askCsr")
          /\ lastDecisions' = [lastDecisions EXCEPT ![p] = decisions[p]]
  /\ UNCHANGED <<stdin, shm, term, cur, gone, decisions, forward, interrupted>>

\* Mutant: a decision is counted twice.
DecideTwice(p) ==
  /\ \/ pc[p] = "resume"
     \/ pc[p] = "search" /\ ~AtBoundary(p)
  /\ decisions[p] < MaxDecisions
  /\ decisions' = [decisions EXCEPT ![p] = @ + 2]
  /\ Goto(p, "search")
  /\ UNCHANGED <<stdin, stdout, shm, term, cur, gone, lastDecisions, forward,
                 interrupted>>

\* The rest of the iteration: one more decision.
Decide(p) ==
  /\ \/ pc[p] = "resume"
     \/ pc[p] = "search" /\ ~AtBoundary(p)
  /\ decisions[p] < MaxDecisions
  /\ decisions' = [decisions EXCEPT ![p] = @ + 1]
  /\ Goto(p, "search")
  /\ UNCHANGED <<stdin, stdout, shm, term, cur, gone, lastDecisions, forward,
                 interrupted>>

\* search() returns and main prints the verdict and, if there is one, the
\* model; both lines are flushed when the process exits.  A model is found past
\* the report block; the interrupt flag is looked at only when search() returned.
Finish(p) ==
  /\ pc[p] \in {"search", "resume"}
  /\ \E v \in Verdicts :
       /\ v = "s INDETERMINATE" => p \in interrupted
       /\ v = "s SATISFIABLE" => pc[p] = "resume" \/ ~AtBoundary(p)
       /\ PrintAndGoto(p, IF v = "s SATISFIABLE"
                          THEN <<Line(p, v), Line(p, "v")>>
                          ELSE <<Line(p, v)>>, "exited")
  /\ UNCHANGED <<stdin, shm, term, cur, gone, solverVars>>

\* SIGXCPU: the first handler leaves with _exit and flushes nothing, the second
\* only sets the flag.
CpuSignal(p) ==
  /\ CpuLimit
  /\ Alive(p)
  /\ p \notin interrupted
  /\ IF pc[p] = "boot"
     THEN Goto(p, "killed") /\ UNCHANGED interrupted
     ELSE interrupted' = interrupted \cup {p} /\ UNCHANGED pc
  /\ UNCHANGED <<stdin, stdout, shm, term, cur, gone, decisions, lastDecisions,
                 forward>>

\* SIGTERM has its default action.
Terminated(p) ==
  /\ p \in term
  /\ Alive(p)
  /\ Goto(p, "killed")
  /\ UNCHANGED <<stdin, stdout, shm, term, cur, gone, solverVars>>

\* Killed from outside (the kernel's memory killer, a batch system).
Crash(p) ==
  /\ CanCrash
  /\ Alive(p)
  /\ Goto(p, "killed")
  /\ UNCHANGED <<stdin, stdout, shm, term, cur, gone, solverVars>>

\* What the process does by itself, as opposed to what signals do to it.
Runs(p) == \/ Boot(p)     \/ AskCsr(p)    \/ AwaitCsr(p)
           \/ CreateShm(p) \/ Publish(p)  \/ AwaitAck(p)
           \/ StepDone(p) \/ AskScores(p) \/ AwaitScores(p)
           \/ AwaitForward(p) \/ Report(p) \/ Decide(p) \/ Finish(p)

SolverNext(p) == Runs(p) \/ CpuSignal(p) \/ Terminated(p) \/ Crash(p)
==============================================================================

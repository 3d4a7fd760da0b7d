---------------------------- MODULE SolverDialogue ----------------------------
(***************************************************************************)
(* The inductive invariant of the protocol: what the pipes hold and how far*)
(* the call in progress has come, at each point of the solver's program.   *)
(*                                                                         *)
(* Controller and solver take turns.  A line of the solver carries the     *)
(* decision count it was printed at, and all lines not read yet were       *)
(* printed since the last decision; so the contents of both pipes can be   *)
(* written down exactly.                                                   *)
(***************************************************************************)
EXTENDS SolverProtocol

\* The last line of the answer to a score request, for a go_ahead argument.
Advance(g) == IF g # 0 THEN Request("forward", g) ELSE Request("continue", 0)
Advances   == GoAheads \cup {0}

\* The answer, before and after the solver has read the scores.
Answer(g) == <<Request("scores", 0), Request("activityDone", 0), Advance(g)>>
Scored(g) == <<Request("activityDone", 0), Advance(g)>>

\* What may lie in the solver's input, whatever became of the controller: an
\* answer to what it has asked for, or nothing.
InOrder(p) ==
  /\ pc[p] # "aborted"
  /\ pc[p] = "awaitCsr" =>
       \/ stdin[p] = <<>>
       \/ \E t \in {"csrYes", "csrNo"} : stdin[p] = <<Request(t, 0)>>
  /\ pc[p] = "awaitAck" => stdin[p] = <<>> \/ stdin[p] = <<Request("ack", 0)>>
  /\ pc[p] = "awaitScores" =>
       \/ stdin[p] = <<>>
       \/ \E g \in Advances : stdin[p] = Answer(g) \/ stdin[p] = Scored(g)
  /\ pc[p] = "awaitForward" => \E g \in Advances : stdin[p] = <<Advance(g)>>
  /\ pc[p] \in {"unborn", "boot", "askCsr", "createShm", "publish", "stepDone",
                "askScores", "resume", "search"} => stdin[p] = <<>>

\* Processes are numbered in the order of their start.
Born(p) ==
  /\ p > cur <=> pc[p] = "unborn"
  /\ pc[p] = "unborn" => /\ stdout[p] = <<>>
                         /\ decisions[p] = 0
                         /\ lastDecisions[p] = 0
                         /\ forward[p] = 0

SegmentsOwned == \A s \in shm : /\ s.at = decisions[s.pid]
                                /\ pc[s.pid] \in {"publish", "awaitAck", "killed"}

-----------------------------------------------------------------------------
\* The controller's own state.
CallInOrder ==
  /\ goAhead \in Advances
  /\ call # "none" => ~stopped /\ cur \in Procs
  /\ call = "step" => ret.kind = "open"
  /\ ret.kind # "none" => cur \in Procs
  /\ ret.kind = "open" => ret.csr \in {ret.reward, NoCount} /\ ret.reward \in Count
  /\ RaisesOnlyOnCrash

Out == stdout[cur]
In  == stdin[cur]
Sent(t) == Line(cur, t)
Now == decisions[cur]

\* A mapped segment is the current process's, which waits for the acknowledgement.
AttachedInOrder ==
  attached # {} => /\ attached = {Segment(cur)}
                   /\ Segment(cur) \in shm
                   /\ call # "none" /\ ~gone
                   /\ csr = Now
                   /\ Out = <<>>
                   /\ \/ pc[cur] = "awaitAck" /\ In = <<>>
                      \/ pc[cur] = "killed"

\* How many decisions the step in progress asks for.
Asked == IF goAhead > Limit THEN goAhead ELSE Limit

\* The solver stands at the boundary that the call in progress waits for: start()
\* for the one before the first decision, step() for the one it asked for.
Starting == call = "start" /\ Now = 0
Stepped  == call = "step" /\ Now > 0 /\ Now = ret.reward + Asked
Reached  == lastDecisions[cur] = Now /\ (Starting \/ Stepped)

\* The same, and the reward has been read; and the graph has, if it was asked for.
Rewarded == Reached /\ (call = "step" => reward = Now)
Complete == Rewarded /\ call = "step" /\ csr = IF getCsr THEN Now ELSE NoCount

\* The call has returned, and nobody has answered the score request that follows;
\* or start() was called without a graph.
Idle == /\ lastDecisions[cur] = Now
        /\ ret.kind = "open" /\ call # "start" => ret.reward = Now
        /\ \/ call = "none"
           \/ call = "step" /\ csr = NoCount /\ reward = NoCount
           \/ Starting /\ ~getCsr

\* The solver has, or will find, the scores of the step in progress.
Running == /\ call = "step" /\ csr = NoCount /\ reward = NoCount
           /\ lastDecisions[cur] = ret.reward
Resumed == Running /\ Now = ret.reward

-----------------------------------------------------------------------------
\* The dialogue, by the point the solver is at.
AtBoot == Out = <<>> /\ Starting /\ csr = NoCount /\ lastDecisions[cur] = 0

AtAskCsr ==
  /\ csr = NoCount /\ Limit # 0
  /\ \/ Rewarded /\ Out = <<>>
     \/ Reached /\ Stepped /\ reward = NoCount /\ Out = <<Sent("reward")>>

AtAwaitCsr ==
  /\ csr = NoCount /\ Limit # 0
  /\ \/ Rewarded /\ Out = <<Sent("csrReady")>> /\ In = <<>>
     \/ /\ Reached /\ Stepped /\ reward = NoCount /\ In = <<>>
        /\ Out = <<Sent("reward"), Sent("csrReady")>>
     \/ Rewarded /\ Out = <<>> /\ In = <<Request(IF getCsr THEN "csrYes" ELSE "csrNo", 0)>>

AtCreateShm == csr = NoCount /\ Limit # 0 /\ Rewarded /\ getCsr /\ Out = <<>>

AtPublish == AtCreateShm /\ Segment(cur) \in shm

AtAwaitAck ==
  /\ Limit # 0
  /\ \/ /\ In = <<>> /\ Rewarded /\ getCsr /\ Segment(cur) \in shm
        /\ \/ csr = NoCount /\ Out = <<Sent("shmName"), Sent("csrWritten")>>
           \/ csr = NoCount /\ Out = <<Sent("csrWritten")>> /\ shmName = Segment(cur)
           \/ csr = Now /\ Out = <<>> /\ attached = {Segment(cur)}
     \/ /\ In = <<Request("ack", 0)>> /\ Out = <<>>
        /\ (Now = 0 /\ Idle) \/ Complete

AtStepDone == Limit # 0 /\ Complete /\ Out = <<>>

AtAskScores == Limit # 0 /\ \/ Complete /\ Out = <<Sent("stepDone")>>
                            \/ Idle /\ Out = <<>>

AtAwaitScores ==
  /\ Limit # 0
  /\ \/ In = <<>> /\ Complete /\ Out = <<Sent("stepDone"), Sent("activityStart")>>
     \/ In = <<>> /\ Idle /\ Out = <<Sent("activityStart")>>
     \/ In = <<>> /\ Idle /\ call = "start" /\ Out = <<>>
     \/ (In = Answer(goAhead) \/ In = Scored(goAhead)) /\ Resumed /\ Out = <<>>

AtAwaitForward == Limit # 0 /\ In = <<Advance(goAhead)>> /\ Resumed /\ Out = <<>>

AtResume == Limit # 0 /\ Resumed /\ Out = <<>> /\ forward[cur] = goAhead

AtSearch ==
  /\ Out = <<>>
  /\ \/ Limit = 0 /\ call = "start"
     \/ Limit # 0 /\ Now = 0 /\ Idle
     \/ /\ Limit # 0 /\ Running /\ forward[cur] = goAhead
        /\ ret.reward < Now /\ Now <= ret.reward + Asked

\* The process is gone; what it had flushed can still be read.
AtExited == \/ Out = <<>>
            \/ \E v \in Verdicts \cup {"v"} : Out = <<Sent(v)>>
            \/ Out = <<Sent("s SATISFIABLE"), Sent("v")>>
            \/ Out = <<Sent("shmName")>> /\ getCsr /\ call # "none"

AtKilled == \/ Out = <<>>
            \/ \E t \in {"reward", "csrReady", "activityStart"} : Out = <<Sent(t)>>
            \/ Out = <<Sent("reward"), Sent("csrReady")>>
            \/ /\ Out = <<Sent("shmName"), Sent("csrWritten")>>
               /\ getCsr /\ call # "none"
            \/ Out = <<Sent("csrWritten")>> /\ shmName = Segment(cur)
            \/ Complete /\ Out = <<Sent("stepDone")>>
            \/ Complete /\ Out = <<Sent("stepDone"), Sent("activityStart")>>

Dialogue == ~gone /\ cur # 0 =>
  /\ pc[cur] = "boot" => AtBoot
  /\ pc[cur] = "askCsr" => AtAskCsr
  /\ pc[cur] = "awaitCsr" => AtAwaitCsr
  /\ pc[cur] = "createShm" => AtCreateShm
  /\ pc[cur] = "publish" => AtPublish
  /\ pc[cur] = "awaitAck" => AtAwaitAck
  /\ pc[cur] = "stepDone" => AtStepDone
  /\ pc[cur] = "askScores" => AtAskScores
  /\ pc[cur] = "awaitScores" => AtAwaitScores
  /\ pc[cur] = "awaitForward" => AtAwaitForward
  /\ pc[cur] = "resume" => AtResume
  /\ pc[cur] = "search" => AtSearch
  /\ pc[cur] = "exited" => AtExited
  /\ pc[cur] = "killed" => AtKilled

InDialogue == /\ \A p \in Procs : InOrder(p) /\ Born(p)
              /\ SegmentsOwned
              /\ CallInOrder
              /\ AttachedInOrder
              /\ Dialogue

InStep == TypeOK /\ InDialogue
==============================================================================

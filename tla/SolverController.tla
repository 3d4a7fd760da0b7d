--------------------------- MODULE SolverController ---------------------------
(***************************************************************************)
(* The Python side of the protocol: class SolverController of              *)
(* python/solver_interface.py.  start(), step() and stop() run in one      *)
(* thread and block on the solver's stdout; an action is one line read,    *)
(* with everything the code does about it.  The caller may call start()    *)
(* and stop() at any time between calls, step() while the session is open. *)
(***************************************************************************)
EXTENDS SolverPipes

CONSTANTS StartCsr,   \* get_csr argument of start()
          StepCsr,    \* the get_csr arguments step() is called with
          WallLimit,  \* timeout_secs is finite: step() may find it exceeded
          CanDie      \* the Python process may die between any two actions

ASSUME CsrAssumption == StartCsr \in BOOLEAN /\ StepCsr \subseteq BOOLEAN

NoCount == MaxDecisions + 1    \* stands for None where a count is expected

VARIABLES
  call,     \* the method being executed
  attached, \* the segment read_from_shared_mem has mapped and not released
  getCsr,   \* get_csr argument of the call
  goAhead,  \* go_ahead argument of step(); 0 for None
  shmName,  \* self.shm_name, the segment named last
  csr,      \* the local csr: the decision count of the graph read; NoCount: None
  reward,   \* the local reward, likewise
  stopped,  \* self._stop
  ret       \* what the last call returned, or that it raised

ctlVars == <<call, attached, getCsr, goAhead, shmName, csr, reward, stopped, ret>>

NoSegment == [pid |-> 0, at |-> 0]
MaybeCount == Count \cup {NoCount}

Results == [kind : {"none", "open", "done", "raised"}, timedOut : BOOLEAN,
            csr : MaybeCount, reward : MaybeCount,
            verdict : Verdicts \cup {"v", "none"}]

Nothing == [kind |-> "none", timedOut |-> FALSE, csr |-> NoCount,
            reward |-> NoCount, verdict |-> "none"]

ControllerInit ==
  /\ call = "none"
  /\ attached = {}
  /\ getCsr = TRUE
  /\ goAhead = 0
  /\ shmName = NoSegment
  /\ csr = NoCount
  /\ reward = NoCount
  /\ stopped = FALSE
  /\ ret = Nothing

\* A call ends, and with it its arguments and local variables.
Return(r) == /\ call' = "none"
             /\ ret' = r
             /\ getCsr' = TRUE
             /\ goAhead' = 0
             /\ csr' = NoCount
             /\ reward' = NoCount
Raise == Return([Nothing EXCEPT !.kind = "raised"])
\* "0 if reward is None else reward"
OrZero(r) == IF r = NoCount THEN 0 ELSE r
\* A line of this call is handled and the loop goes on.
Continue == UNCHANGED <<call, ret, getCsr, goAhead, csr, reward>>

\* self.stop(): the flag is set even when there is no process to terminate.
Stop == /\ stopped' = TRUE
        /\ term' = IF cur = 0 THEN term ELSE term \cup {cur}

Reads(tags) == /\ ~gone
               /\ call # "none"
               /\ attached = {}
               /\ stdout[cur] # <<>>
               /\ Head(stdout[cur]).tag \in tags
               /\ stdout' = [stdout EXCEPT ![cur] = Tail(@)]

\* A write to a process that has exited raises BrokenPipeError.
Writes(requests) == /\ ~Dead(cur)
                    /\ stdin' = [stdin EXCEPT ![cur] = @ \o requests]
BrokenPipe == /\ Dead(cur)
              /\ Raise
              /\ UNCHANGED stdin

Request(t, n) == [tag |-> t, n |-> n]

-----------------------------------------------------------------------------
\* start() up to its loop: the previous process is told to stop, not waited
\* for, and its Popen object is dropped with the output not read yet.
Start ==
  /\ ~gone
  /\ call = "none"
  /\ cur < MaxProcs
  /\ term' = IF cur = 0 THEN term ELSE term \cup {cur}
  /\ stopped' = FALSE
  /\ cur' = cur + 1
  /\ pc' = [pc EXCEPT ![cur + 1] = "boot"]
  /\ call' = "start"
  /\ getCsr' = StartCsr
  /\ goAhead' = 0
  /\ csr' = NoCount
  /\ reward' = NoCount
  /\ stdout' = IF cur = 0 THEN stdout ELSE [stdout EXCEPT ![cur] = <<>>]
  /\ UNCHANGED <<stdin, shm, gone, attached, shmName, ret>>

\* step() up to its loop.
Step ==
  /\ ~gone
  /\ call = "none"
  /\ cur # 0
  /\ ~stopped
  /\ ret.kind = "open"
  /\ csr' = NoCount
  /\ reward' = NoCount
  /\ \/ /\ call' = "step"
        /\ getCsr' \in StepCsr
        /\ goAhead' \in GoAheads
        /\ UNCHANGED <<term, stopped, ret>>
     \/ /\ WallLimit
        /\ Stop
        /\ ret' = [Nothing EXCEPT !.kind = "done", !.timedOut = TRUE]
        /\ UNCHANGED <<call, getCsr, goAhead>>
  /\ UNCHANGED <<pc, stdin, stdout, shm, cur, gone, attached, shmName>>

\* The environments call stop() when they reset.
StopCall ==
  /\ ~gone
  /\ call = "none"
  /\ Stop
  /\ UNCHANGED <<pc, stdin, stdout, shm, cur, gone, call, attached, getCsr,
                 goAhead, shmName, csr, reward, ret>>

-----------------------------------------------------------------------------
OnCsrReady ==
  /\ Reads({"csrReady"})
  /\ \/ Writes(<<Request(IF getCsr THEN "csrYes" ELSE "csrNo", 0)>>) /\ Continue
     \/ BrokenPipe
  /\ UNCHANGED <<pc, shm, term, cur, gone, attached, shmName, stopped>>

OnShmName ==
  /\ Reads({"shmName"})
  /\ IF getCsr
     THEN /\ shmName' = [pid |-> cur, at |-> Head(stdout[cur]).at]
          /\ Continue
     ELSE Raise /\ UNCHANGED shmName
  /\ UNCHANGED <<pc, stdin, shm, term, cur, gone, attached, stopped>>

\* read_from_shared_mem, first half: the segment is opened by name, which also
\* registers it with the resource tracker, and its arrays are copied.
OnCsrWritten ==
  /\ Reads({"csrWritten"})
  /\ IF getCsr /\ shmName \in shm
     THEN /\ attached' = {shmName}
          /\ csr' = shmName.at
          /\ UNCHANGED <<call, ret, getCsr, goAhead, reward>>
     ELSE Raise /\ UNCHANGED attached
  /\ UNCHANGED <<pc, stdin, shm, term, cur, gone, shmName, stopped>>

\* Second half: acknowledge, forget the name.  start() returns the graph here.
Ack ==
  /\ ~gone
  /\ attached # {}
  /\ \/ /\ Writes(<<Request("ack", 0)>>)
        /\ IF call = "start"
           THEN Return([Nothing EXCEPT !.kind = "open", !.csr = csr, !.reward = 0])
           ELSE Continue
     \/ BrokenPipe
  /\ attached' = {}
  /\ UNCHANGED <<pc, stdout, shm, term, cur, gone, shmName, stopped>>

ForwardBeforeScores ==                                                   \* mutant
  <<IF goAhead # 0 THEN Request("forward", goAhead) ELSE Request("continue", 0),
    Request("scores", 0), Request("activityDone", 0)>>

\* The answer to a score request: the scores and how far to run.
ScoresAndForward ==
  <<Request("scores", 0), Request("activityDone", 0),
    IF goAhead # 0 THEN Request("forward", goAhead) ELSE Request("continue", 0)>>

OnActivityStart ==
  /\ call = "step"
  /\ Reads({"activityStart"})
  /\ \/ Writes(ScoresAndForward) /\ Continue
     \/ BrokenPipe
  /\ UNCHANGED <<pc, shm, term, cur, gone, attached, shmName, stopped>>

OnReward ==
  /\ call = "step"
  /\ Reads({"reward"})
  /\ reward' = Head(stdout[cur]).at
  /\ UNCHANGED <<pc, stdin, shm, term, cur, gone, call, ret, attached, getCsr,
                 goAhead, shmName, csr, stopped>>

\* step() asserts that it has what it is about to return.
OnStepDone ==
  /\ call = "step"
  /\ Reads({"stepDone"})
  /\ IF (csr # NoCount \/ ~getCsr) /\ reward # NoCount
     THEN Return([Nothing EXCEPT !.kind = "open", !.csr = csr, !.reward = reward])
     ELSE Raise
  /\ UNCHANGED <<pc, stdin, shm, term, cur, gone, attached, shmName, stopped>>

\* start() has no branch for these lines.
StartIgnores ==
  /\ call = "start"
  /\ Reads({"activityStart", "reward", "stepDone"})
  /\ Continue
  /\ UNCHANGED <<pc, stdin, shm, term, cur, gone, attached, shmName, stopped>>

\* The first line of the verdict ends the call; step() takes an "s" line for a
\* timeout and a "v" line for a model.
OnVerdict ==
  /\ Reads(Verdicts \cup {"v"})
  /\ LET tag == Head(stdout[cur]).tag IN
       Return([Nothing EXCEPT !.kind = "done", !.verdict = tag, !.reward = OrZero(reward),
                              !.timedOut = (call = "step" /\ tag # "v")])
  /\ Stop
  /\ UNCHANGED <<pc, stdin, shm, cur, gone, attached, shmName>>

\* The loop ends: the process is gone and everything it flushed was read.
OnEof ==
  /\ ~gone
  /\ call # "none"
  /\ attached = {}
  /\ stdout[cur] = <<>>
  /\ Dead(cur)
  /\ Return([Nothing EXCEPT !.kind = "done", !.reward = OrZero(reward),
                            !.timedOut = (call = "step")])
  /\ Stop
  /\ UNCHANGED <<pc, stdin, stdout, shm, cur, gone, attached, shmName>>

\* The Python process dies.  Its resource tracker unlinks the segments that are
\* still registered.
Die ==
  /\ CanDie
  /\ ~gone
  /\ gone' = TRUE
  /\ shm' = shm \ attached
  /\ attached' = {}
  /\ UNCHANGED <<pc, stdin, stdout, term, cur, call, getCsr, goAhead, shmName,
                 csr, reward, stopped, ret>>

\* Steps inside a call; the caller decides whether there is another call.
Works == \/ OnCsrReady \/ OnShmName \/ OnCsrWritten \/ Ack
         \/ OnActivityStart \/ OnReward \/ OnStepDone \/ StartIgnores
         \/ OnVerdict \/ OnEof

ControllerNext == Start \/ Step \/ StopCall \/ Works \/ Die
==============================================================================

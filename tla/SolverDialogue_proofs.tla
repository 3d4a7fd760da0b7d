------------------------- MODULE SolverDialogue_proofs -------------------------
(***************************************************************************)
(* The protocol for any number of processes, decisions and limits: first   *)
(* the types of its state, then InDialogue, and what follows from it.      *)
(***************************************************************************)
EXTENDS SolverDialogue, SequenceTheorems, TLAPS

-----------------------------------------------------------------------------
\* The types.  TypeOK alone is not inductive: a line is read from the process
\* self.proc refers to, so a call in progress has to have one.
CallHasProcess == /\ call # "none" => cur \in Procs
                  /\ attached # {} => call # "none"

TypeInv == TypeOK /\ CallHasProcess

USE BoundsAssumption, LimitAssumption, CsrAssumption

-----------------------------------------------------------------------------
\* The helpers of the solver's actions.
LEMMA LineType ==
  ASSUME TypeOK, NEW p \in Procs, NEW t \in LineTags
  PROVE  /\ Line(p, t) \in Lines
         /\ <<Line(p, t)>> \in Seq(Lines)
         /\ \A u \in LineTags : <<Line(p, t), Line(p, u)>> \in Seq(Lines)
<1>1. \A u \in LineTags : Line(p, u) \in Lines
  BY DEF Line, Lines, TypeOK
<1> QED BY <1>1

LEMMA GotoType ==
  ASSUME TypeOK, NEW p \in Procs, NEW l \in SolverPCs, Goto(p, l)
  PROVE  pc' \in [Procs -> SolverPCs]
  BY DEF TypeOK, Goto

LEMMA PrintType ==
  ASSUME TypeOK, NEW p \in Procs, NEW lines \in Seq(Lines), NEW l \in SolverPCs,
         PrintAndGoto(p, lines, l)
  PROVE  pc' \in [Procs -> SolverPCs] /\ stdout' \in [Procs -> Seq(Lines)]
<1>1. "killed" \in SolverPCs
  BY DEF SolverPCs
<1>2. stdout[p] \o lines \in Seq(Lines)
  BY ConcatProperties DEF TypeOK
<1> QED BY <1>1, <1>2, GotoType DEF PrintAndGoto, TypeOK

LEMMA GetsType ==
  ASSUME TypeOK, NEW p \in Procs, Gets(p)
  PROVE  stdin' \in [Procs -> Seq(Requests)] /\ Head(stdin[p]) \in Requests
<1>1. stdin[p] \in Seq(Requests) /\ stdin[p] # << >>
  BY DEF TypeOK, Gets
<1>2. Head(stdin[p]) \in Requests /\ Tail(stdin[p]) \in Seq(Requests)
  BY <1>1, HeadTailProperties
<1> QED BY <1>2 DEF TypeOK, Gets

LEMMA GetsEofType ==
  ASSUME TypeOK, NEW p \in Procs, GetsEof(p)
  PROVE  stdin' \in [Procs -> Seq(Requests)]
  BY DEF TypeOK, GetsEof

-----------------------------------------------------------------------------
\* Every step of a solver process keeps the types.
LEMMA SolverType ==
  ASSUME TypeOK, NEW p \in Procs, SolverNext(p), UNCHANGED ctlVars
  PROVE  TypeOK' /\ UNCHANGED <<cur, call, attached>>
<1> USE DEF ctlVars, solverVars
<1>1. CASE Boot(p)
  <2>1. pc' \in [Procs -> SolverPCs] /\ stdout' \in [Procs -> Seq(Lines)]
    <3>1. CASE PrintAndGoto(p, <<Line(p, "s UNSATISFIABLE")>>, "exited")
      BY <3>1, PrintType, LineType DEF SolverPCs, LineTags
    <3>2. CASE /\ Goto(p, IF Limit # 0 THEN "askCsr" ELSE "search")
               /\ UNCHANGED stdout
      BY <3>2, GotoType DEF SolverPCs, TypeOK
    <3> QED BY <1>1, <3>1, <3>2 DEF Boot
  <2> QED BY <1>1, <2>1 DEF Boot, TypeOK
<1>2. CASE AskCsr(p)
  <2>1. pc' \in [Procs -> SolverPCs] /\ stdout' \in [Procs -> Seq(Lines)]
    BY <1>2, PrintType, LineType DEF AskCsr, SolverPCs, LineTags
  <2> QED BY <1>2, <2>1 DEF AskCsr, TypeOK
<1>3. CASE AwaitCsr(p)
  <2>1. /\ pc' \in [Procs -> SolverPCs]
        /\ stdin' \in [Procs -> Seq(Requests)]
    BY <1>3, GotoType, GetsType, GetsEofType DEF AwaitCsr, AfterCsr, SolverPCs
  <2> QED BY <1>3, <2>1 DEF AwaitCsr, TypeOK
<1>4. CASE CreateShm(p)
  <2>1. Segment(p) \in Segments
    BY DEF Segment, Segments, TypeOK
  <2>2. CASE shm' = shm \cup {Segment(p)} /\ Goto(p, "publish") /\ UNCHANGED stdout
    BY <1>4, <2>1, <2>2, GotoType DEF CreateShm, SolverPCs, TypeOK
  <2>3. CASE PrintAndGoto(p, <<Line(p, "shmName")>>, "exited") /\ UNCHANGED shm
    <3>1. pc' \in [Procs -> SolverPCs] /\ stdout' \in [Procs -> Seq(Lines)]
      BY <2>3, PrintType, LineType DEF SolverPCs, LineTags
    <3> QED BY <1>4, <2>3, <3>1 DEF CreateShm, TypeOK
  <2> QED BY <1>4, <2>2, <2>3 DEF CreateShm
<1>5. CASE Publish(p)
  <2>1. pc' \in [Procs -> SolverPCs] /\ stdout' \in [Procs -> Seq(Lines)]
    BY <1>5, PrintType, LineType DEF Publish, SolverPCs, LineTags
  <2> QED BY <1>5, <2>1 DEF Publish, TypeOK
<1>6. CASE AwaitAck(p)
  <2>1. /\ pc' \in [Procs -> SolverPCs]
        /\ stdin' \in [Procs -> Seq(Requests)]
    BY <1>6, GotoType, GetsType, GetsEofType DEF AwaitAck, AfterCsr, SolverPCs
  <2> QED BY <1>6, <2>1 DEF AwaitAck, TypeOK
<1>7. CASE StepDone(p)
  <2>1. pc' \in [Procs -> SolverPCs] /\ stdout' \in [Procs -> Seq(Lines)]
    BY <1>7, PrintType, LineType DEF StepDone, SolverPCs, LineTags
  <2> QED BY <1>7, <2>1 DEF StepDone, TypeOK
<1>8. CASE AskScores(p)
  <2>1. pc' \in [Procs -> SolverPCs] /\ stdout' \in [Procs -> Seq(Lines)]
    BY <1>8, PrintType, LineType DEF AskScores, SolverPCs, LineTags
  <2> QED BY <1>8, <2>1 DEF AskScores, TypeOK
<1>9. CASE AwaitScores(p)
  <2>1. /\ pc' \in [Procs -> SolverPCs]
        /\ stdin' \in [Procs -> Seq(Requests)]
    BY <1>9, GotoType, GetsType, GetsEofType DEF AwaitScores, SolverPCs
  <2> QED BY <1>9, <2>1 DEF AwaitScores, TypeOK
<1>10. CASE AwaitForward(p)
  <2>1. /\ pc' \in [Procs -> SolverPCs]
        /\ stdin' \in [Procs -> Seq(Requests)]
    BY <1>10, GotoType, GetsType, GetsEofType DEF AwaitForward, SolverPCs
  <2>2. forward' \in [Procs -> Nat]
    <3>1. CASE GetsEof(p) /\ UNCHANGED forward
      BY <3>1 DEF TypeOK
    <3>2. CASE Gets(p) /\ forward' = [forward EXCEPT ![p] =
                                        CASE Got(p) = "continue" -> 0
                                          [] Got(p) = "forward"  -> Head(stdin[p]).n
                                          [] OTHER               -> @]
      <4>1. Head(stdin[p]).n \in Nat
        BY <3>2, GetsType DEF Requests
      <4> QED BY <3>2, <4>1 DEF TypeOK
    <3> QED BY <1>10, <3>1, <3>2 DEF AwaitForward
  <2> QED BY <1>10, <2>1, <2>2 DEF AwaitForward, TypeOK
<1>11. CASE Report(p)
  <2>1. CASE decisions[p] = 0
    BY <1>11, <2>1, GotoType DEF Report, SolverPCs, TypeOK
  <2>2. CASE decisions[p] # 0
    <3>1. pc' \in [Procs -> SolverPCs] /\ stdout' \in [Procs -> Seq(Lines)]
      BY <1>11, <2>2, PrintType, LineType DEF Report, SolverPCs, LineTags
    <3>2. lastDecisions' \in [Procs -> Count]
      BY <1>11, <2>2 DEF Report, TypeOK
    <3> QED BY <1>11, <3>1, <3>2 DEF Report, TypeOK
  <2> QED BY <2>1, <2>2
<1>12. CASE Decide(p)
  <2>1. pc' \in [Procs -> SolverPCs]
    BY <1>12, GotoType DEF Decide, SolverPCs
  <2>2. decisions' \in [Procs -> Count]
    BY <1>12 DEF Decide, TypeOK, Count
  <2> QED BY <1>12, <2>1, <2>2 DEF Decide, TypeOK
<1>13. CASE Finish(p)
  <2>1. PICK v \in Verdicts :
          PrintAndGoto(p, IF v = "s SATISFIABLE" THEN <<Line(p, v), Line(p, "v")>>
                                                 ELSE <<Line(p, v)>>, "exited")
    BY <1>13 DEF Finish
  <2>2. pc' \in [Procs -> SolverPCs] /\ stdout' \in [Procs -> Seq(Lines)]
    <3>1. v \in LineTags /\ "v" \in LineTags /\ "exited" \in SolverPCs
      BY DEF Verdicts, LineTags, SolverPCs
    <3> QED BY <2>1, <3>1, PrintType, LineType
  <2> QED BY <1>13, <2>2 DEF Finish, TypeOK
<1>14. CASE CpuSignal(p)
  BY <1>14, GotoType DEF CpuSignal, SolverPCs, TypeOK
<1>15. CASE Terminated(p)
  BY <1>15, GotoType DEF Terminated, SolverPCs, TypeOK
<1>16. CASE Crash(p)
  BY <1>16, GotoType DEF Crash, SolverPCs, TypeOK
<1> QED BY <1>1, <1>2, <1>3, <1>4, <1>5, <1>6, <1>7, <1>8, <1>9, <1>10, <1>11,
           <1>12, <1>13, <1>14, <1>15, <1>16 DEF SolverNext, Runs

-----------------------------------------------------------------------------
\* The helpers of the controller's actions.
LEMMA ReturnType ==
  ASSUME NEW r \in Results, Return(r)
  PROVE  /\ call' = "none" /\ ret' \in Results /\ getCsr' \in BOOLEAN
         /\ goAhead' \in Nat /\ csr' \in MaybeCount /\ reward' \in MaybeCount
  BY DEF Return, MaybeCount, NoCount

LEMMA NothingType ==
  /\ \A t \in BOOLEAN : [Nothing EXCEPT !.kind = "done", !.timedOut = t] \in Results
  /\ [Nothing EXCEPT !.kind = "raised"] \in Results
  /\ \A c, w \in MaybeCount :
       [Nothing EXCEPT !.kind = "open", !.csr = c, !.reward = w] \in Results
  /\ \A w \in MaybeCount, t \in BOOLEAN :
       [Nothing EXCEPT !.kind = "done", !.reward = w, !.timedOut = t] \in Results
  /\ \A v \in Verdicts \cup {"v"}, w \in MaybeCount, t \in BOOLEAN :
       [Nothing EXCEPT !.kind = "done", !.verdict = v, !.reward = w, !.timedOut = t]
         \in Results
  BY DEF Nothing, Results, MaybeCount, NoCount

LEMMA RaiseType ==
  ASSUME Raise
  PROVE  /\ call' = "none" /\ ret' \in Results /\ getCsr' \in BOOLEAN
         /\ goAhead' \in Nat /\ csr' \in MaybeCount /\ reward' \in MaybeCount
  BY NothingType, ReturnType DEF Raise

LEMMA StopType ==
  ASSUME TypeOK, Stop
  PROVE  stopped' \in BOOLEAN /\ term' \in SUBSET Procs
  BY DEF TypeOK, Stop, Procs

LEMMA ReadsType ==
  ASSUME TypeInv, NEW tags, Reads(tags)
  PROVE  /\ cur \in Procs /\ call # "none" /\ attached = {}
         /\ Head(stdout[cur]) \in Lines /\ Head(stdout[cur]).tag \in tags
         /\ stdout' \in [Procs -> Seq(Lines)]
<1>1. cur \in Procs /\ stdout[cur] \in Seq(Lines) /\ stdout[cur] # << >>
  BY DEF TypeInv, TypeOK, CallHasProcess, Reads
<1>2. Head(stdout[cur]) \in Lines /\ Tail(stdout[cur]) \in Seq(Lines)
  BY <1>1, HeadTailProperties
<1> QED BY <1>1, <1>2 DEF Reads, TypeInv, TypeOK

LEMMA WritesType ==
  ASSUME TypeOK, cur \in Procs, NEW requests \in Seq(Requests), Writes(requests)
  PROVE  stdin' \in [Procs -> Seq(Requests)]
<1>1. stdin[cur] \o requests \in Seq(Requests)
  BY ConcatProperties DEF TypeOK
<1> QED BY <1>1 DEF Writes, TypeOK

LEMMA RequestType ==
  ASSUME NEW t \in RequestTags, NEW n \in Nat
  PROVE  Request(t, n) \in Requests
  BY DEF Request, Requests

-----------------------------------------------------------------------------
\* The caller's actions.
LEMMA StartType == TypeInv /\ Start /\ UNCHANGED solverVars => TypeInv'
<1> SUFFICES ASSUME TypeInv, Start, UNCHANGED solverVars PROVE TypeInv'
  OBVIOUS
<1> USE DEF TypeInv, solverVars
<1>1. cur + 1 \in Procs /\ cur' = cur + 1
  BY DEF Start, TypeOK, Procs
<1>2. pc' \in [Procs -> SolverPCs]
  BY DEF Start, TypeOK, SolverPCs
<1>3. stdout' \in [Procs -> Seq(Lines)]
  <2>1. << >> \in Seq(Lines)
    OBVIOUS
  <2> QED BY <2>1 DEF Start, TypeOK
<1>4. term' \in SUBSET Procs
  BY DEF Start, TypeOK, Procs
<1>5. /\ call' = "start" /\ getCsr' \in BOOLEAN /\ goAhead' \in Nat
      /\ csr' \in MaybeCount /\ reward' \in MaybeCount
  BY DEF Start, MaybeCount, NoCount
<1>6. cur' \in 0 .. MaxProcs
  BY <1>1 DEF Procs
<1>7. CallHasProcess'
  BY <1>1, <1>5 DEF CallHasProcess
<1>8. TypeOK'
  BY <1>2, <1>3, <1>4, <1>5, <1>6 DEF Start, TypeOK
<1> QED BY <1>7, <1>8

LEMMA StepType == TypeInv /\ Step /\ UNCHANGED solverVars => TypeInv'
<1> SUFFICES ASSUME TypeInv, Step, UNCHANGED solverVars PROVE TypeInv'
  OBVIOUS
<1> USE DEF TypeInv, solverVars
<1>1. cur \in Procs
  BY DEF Step, TypeOK, Procs
<1>2. csr' \in MaybeCount /\ reward' \in MaybeCount
  BY DEF Step, MaybeCount, NoCount
<1>3. CASE /\ call' = "step" /\ getCsr' \in StepCsr /\ goAhead' \in GoAheads
           /\ UNCHANGED <<term, stopped, ret>>
  BY <1>1, <1>2, <1>3 DEF Step, TypeOK, CallHasProcess
<1>4. CASE /\ Stop
           /\ ret' = [Nothing EXCEPT !.kind = "done", !.timedOut = TRUE]
           /\ UNCHANGED <<call, getCsr, goAhead>>
  BY <1>1, <1>2, <1>4, StopType, NothingType DEF Step, TypeOK, CallHasProcess
<1> QED BY <1>3, <1>4 DEF Step

LEMMA StopCallType == TypeInv /\ StopCall /\ UNCHANGED solverVars => TypeInv'
  BY StopType DEF TypeInv, StopCall, TypeOK, CallHasProcess, solverVars

LEMMA DieType == TypeInv /\ Die /\ UNCHANGED solverVars => TypeInv'
  BY DEF TypeInv, Die, TypeOK, CallHasProcess, solverVars

-----------------------------------------------------------------------------
\* The steps inside a call.
LEMMA WorksType == TypeInv /\ Works /\ UNCHANGED solverVars => TypeInv'
<1> SUFFICES ASSUME TypeInv, Works, UNCHANGED solverVars PROVE TypeInv'
  OBVIOUS
<1> USE DEF TypeInv, solverVars
<1>1. CASE OnCsrReady
  <2>1. cur \in Procs /\ attached = {} /\ stdout' \in [Procs -> Seq(Lines)]
    BY <1>1, ReadsType DEF OnCsrReady
  <2>2. CASE Writes(<<Request(IF getCsr THEN "csrYes" ELSE "csrNo", 0)>>) /\ Continue
    <3>1. Request(IF getCsr THEN "csrYes" ELSE "csrNo", 0) \in Requests
      BY RequestType DEF RequestTags
    <3>2. stdin' \in [Procs -> Seq(Requests)]
      <4>1. <<Request(IF getCsr THEN "csrYes" ELSE "csrNo", 0)>> \in Seq(Requests)
        BY <3>1
      <4> QED BY <2>1, <2>2, <4>1, WritesType
    <3> QED BY <1>1, <2>1, <2>2, <3>2 DEF OnCsrReady, Continue, TypeOK, CallHasProcess
  <2>3. CASE BrokenPipe
    BY <1>1, <2>1, <2>3, RaiseType DEF OnCsrReady, BrokenPipe, TypeOK, CallHasProcess
  <2> QED BY <1>1, <2>2, <2>3 DEF OnCsrReady
<1>2. CASE OnShmName
  <2>1. /\ cur \in Procs /\ attached = {} /\ stdout' \in [Procs -> Seq(Lines)]
        /\ Head(stdout[cur]) \in Lines
    BY <1>2, ReadsType DEF OnShmName
  <2>2. CASE getCsr
    <3>1. shmName' \in Segments
      BY <1>2, <2>1, <2>2 DEF OnShmName, Segments, Lines
    <3> QED BY <1>2, <2>1, <2>2, <3>1 DEF OnShmName, Continue, TypeOK, CallHasProcess
  <2>3. CASE ~getCsr
    BY <1>2, <2>1, <2>3, RaiseType DEF OnShmName, TypeOK, CallHasProcess
  <2> QED BY <2>2, <2>3
<1>3. CASE OnCsrWritten
  <2>1. /\ cur \in Procs /\ call # "none" /\ stdout' \in [Procs -> Seq(Lines)]
    BY <1>3, ReadsType DEF OnCsrWritten
  <2>2. CASE getCsr /\ shmName \in shm
    <3>1. shmName \in Segments /\ shmName.at \in MaybeCount
      BY <2>2 DEF TypeOK, Segments, MaybeCount
    <3> QED BY <1>3, <2>1, <2>2, <3>1 DEF OnCsrWritten, TypeOK, CallHasProcess
  <2>3. CASE ~(getCsr /\ shmName \in shm)
    <3>1. attached = {}
      BY <1>3, ReadsType DEF OnCsrWritten
    <3> QED BY <1>3, <2>1, <2>3, <3>1, RaiseType DEF OnCsrWritten, TypeOK, CallHasProcess
  <2> QED BY <2>2, <2>3
<1>4. CASE Ack
  <2>1. cur \in Procs /\ attached' = {}
    BY <1>4 DEF Ack, CallHasProcess
  <2>2. CASE BrokenPipe
    BY <1>4, <2>1, <2>2, RaiseType DEF Ack, BrokenPipe, TypeOK, CallHasProcess
  <2>3. CASE Writes(<<Request("ack", 0)>>)
    <3>1. stdin' \in [Procs -> Seq(Requests)]
      <4>1. Request("ack", 0) \in Requests
        BY RequestType DEF RequestTags
      <4>2. <<Request("ack", 0)>> \in Seq(Requests)
        BY <4>1
      <4> QED BY <2>1, <2>3, <4>2, WritesType
    <3>2. CASE Return([Nothing EXCEPT !.kind = "open", !.csr = csr, !.reward = 0])
      <4>1. [Nothing EXCEPT !.kind = "open", !.csr = csr, !.reward = 0] \in Results
        <5>1. csr \in MaybeCount /\ 0 \in MaybeCount
          BY DEF TypeOK, MaybeCount, Count
        <5> QED BY <5>1, NothingType
      <4> QED BY <1>4, <2>1, <3>1, <3>2, <4>1, ReturnType DEF Ack, TypeOK, CallHasProcess
    <3>3. CASE Continue
      BY <1>4, <2>1, <3>1, <3>3 DEF Ack, Continue, TypeOK, CallHasProcess
    <3> QED BY <1>4, <2>2, <3>2, <3>3 DEF Ack
  <2> QED BY <1>4, <2>2, <2>3 DEF Ack
<1>5. CASE OnActivityStart
  <2>1. cur \in Procs /\ attached = {} /\ stdout' \in [Procs -> Seq(Lines)]
    BY <1>5, ReadsType DEF OnActivityStart
  <2>2. CASE BrokenPipe
    BY <1>5, <2>1, <2>2, RaiseType DEF OnActivityStart, BrokenPipe, TypeOK, CallHasProcess
  <2>3. CASE Writes(ScoresAndForward) /\ Continue
    <3>1. ScoresAndForward \in Seq(Requests)
      <4> DEFINE last == IF goAhead # 0 THEN Request("forward", goAhead)
                                        ELSE Request("continue", 0)
      <4>1. /\ Request("scores", 0) \in Requests
            /\ Request("activityDone", 0) \in Requests
            /\ last \in Requests
        BY RequestType DEF RequestTags, TypeOK
      <4>2. ScoresAndForward = <<Request("scores", 0), Request("activityDone", 0), last>>
        BY DEF ScoresAndForward
      <4> HIDE DEF last
      <4> QED BY <4>1, <4>2
    <3>2. stdin' \in [Procs -> Seq(Requests)]
      BY <2>1, <2>3, <3>1, WritesType
    <3> QED BY <1>5, <2>1, <2>3, <3>2 DEF OnActivityStart, Continue, TypeOK, CallHasProcess
  <2> QED BY <1>5, <2>2, <2>3 DEF OnActivityStart
<1>6. CASE OnReward
  <2>1. /\ cur \in Procs /\ attached = {} /\ stdout' \in [Procs -> Seq(Lines)]
        /\ Head(stdout[cur]).at \in MaybeCount
    BY <1>6, ReadsType DEF OnReward, Lines, MaybeCount
  <2> QED BY <1>6, <2>1 DEF OnReward, TypeOK, CallHasProcess
<1>7. CASE OnStepDone
  <2>1. cur \in Procs /\ attached = {} /\ stdout' \in [Procs -> Seq(Lines)]
    BY <1>7, ReadsType DEF OnStepDone
  <2>2. CASE Raise
    BY <1>7, <2>1, <2>2, RaiseType DEF OnStepDone, TypeOK, CallHasProcess
  <2>3. CASE Return([Nothing EXCEPT !.kind = "open", !.csr = csr, !.reward = reward])
    BY <1>7, <2>1, <2>3, ReturnType, NothingType DEF OnStepDone, TypeOK, CallHasProcess
  <2> QED BY <1>7, <2>2, <2>3 DEF OnStepDone
<1>8. CASE StartIgnores
  <2>1. cur \in Procs /\ attached = {} /\ stdout' \in [Procs -> Seq(Lines)]
    BY <1>8, ReadsType DEF StartIgnores
  <2> QED BY <1>8, <2>1 DEF StartIgnores, Continue, TypeOK, CallHasProcess
<1> DEFINE answered == OrZero(reward)
<1>9. answered \in MaybeCount
  BY DEF OrZero, TypeOK, MaybeCount, Count
<1>10. CASE OnVerdict
  <2> DEFINE tag == Head(stdout[cur]).tag
  <2>1. /\ cur \in Procs /\ attached = {} /\ stdout' \in [Procs -> Seq(Lines)]
        /\ tag \in Verdicts \cup {"v"}
    BY <1>10, ReadsType DEF OnVerdict
  <2>2. PICK t \in BOOLEAN :
          Return([Nothing EXCEPT !.kind = "done", !.verdict = tag,
                                 !.reward = answered, !.timedOut = t])
    BY <1>10 DEF OnVerdict
  <2> HIDE DEF tag, answered
  <2>3. [Nothing EXCEPT !.kind = "done", !.verdict = tag, !.reward = answered,
                        !.timedOut = t] \in Results
    BY <1>9, <2>1, NothingType
  <2>4. stopped' \in BOOLEAN /\ term' \in SUBSET Procs
    BY <1>10, StopType DEF OnVerdict
  <2> QED BY <1>10, <2>1, <2>2, <2>3, <2>4, ReturnType
          DEF OnVerdict, TypeOK, CallHasProcess
<1>11. CASE OnEof
  <2>1. PICK t \in BOOLEAN :
          Return([Nothing EXCEPT !.kind = "done", !.reward = answered, !.timedOut = t])
    BY <1>11 DEF OnEof
  <2> HIDE DEF answered
  <2>2. [Nothing EXCEPT !.kind = "done", !.reward = answered, !.timedOut = t] \in Results
    BY <1>9, NothingType
  <2>3. stopped' \in BOOLEAN /\ term' \in SUBSET Procs
    BY <1>11, StopType DEF OnEof
  <2> QED BY <1>11, <2>1, <2>2, <2>3, ReturnType DEF OnEof, TypeOK, CallHasProcess
<1> QED BY <1>1, <1>2, <1>3, <1>4, <1>5, <1>6, <1>7, <1>8, <1>10, <1>11 DEF Works

-----------------------------------------------------------------------------
LEMMA InitType == Init => TypeInv
<1> SUFFICES ASSUME Init PROVE TypeInv
  OBVIOUS
<1>1. Nothing \in Results
  BY DEF Nothing, Results, MaybeCount, NoCount
<1>2. "unborn" \in SolverPCs /\ 0 \in Count /\ NoCount \in MaybeCount
  BY DEF SolverPCs, Count, MaybeCount
<1>3. << >> \in Seq(Lines) /\ << >> \in Seq(Requests)
  OBVIOUS
<1>4. CallHasProcess
  BY DEF Init, ControllerInit, CallHasProcess
<1>5. TypeOK
  <2>1. /\ pc \in [Procs -> SolverPCs]
        /\ shm \in SUBSET Segments /\ term \in SUBSET Procs
        /\ gone \in BOOLEAN
    BY <1>2 DEF Init, PipesInit
  <2>6. cur \in 0 .. MaxProcs
    BY DEF Init, PipesInit
  <2>4. stdin \in [Procs -> Seq(Requests)]
    BY <1>3 DEF Init, PipesInit
  <2>5. stdout \in [Procs -> Seq(Lines)]
    BY <1>3 DEF Init, PipesInit
  <2>2. /\ decisions \in [Procs -> Count]
        /\ lastDecisions \in [Procs -> Count]
        /\ forward \in [Procs -> Nat]
        /\ interrupted \in SUBSET Procs
    BY <1>2 DEF Init, SolverInit
  <2>3. /\ call \in {"none", "start", "step"} /\ attached \in SUBSET Segments
        /\ getCsr \in BOOLEAN /\ goAhead \in Nat
        /\ shmName \in Segments \cup {NoSegment}
        /\ csr \in MaybeCount /\ reward \in MaybeCount
        /\ stopped \in BOOLEAN /\ ret \in Results
    BY <1>1, <1>2 DEF Init, ControllerInit
  <2> QED BY <2>1, <2>2, <2>3, <2>4, <2>5, <2>6 DEF TypeOK
<1> QED BY <1>4, <1>5 DEF TypeInv

LEMMA NextType == TypeInv /\ [Next]_vars => TypeInv'
<1> SUFFICES ASSUME TypeInv, [Next]_vars PROVE TypeInv'
  OBVIOUS
<1>1. ASSUME NEW p \in Procs, SolverNext(p), UNCHANGED ctlVars PROVE TypeInv'
  BY <1>1, SolverType DEF TypeInv, CallHasProcess
<1>2. CASE ControllerNext /\ UNCHANGED solverVars
  BY <1>2, StartType, StepType, StopCallType, WorksType, DieType DEF ControllerNext
<1>3. CASE UNCHANGED vars
  BY <1>3 DEF vars, pipeVars, solverVars, ctlVars, TypeInv, TypeOK, CallHasProcess
<1> QED BY <1>1, <1>2, <1>3 DEF Next

\* The protocol's state keeps its types, and a call in progress has a process to
\* read from (SolverController: self.proc is not None).
THEOREM TypeCorrect == Spec => []TypeOK
<1>1. TypeInv => TypeOK
  BY DEF TypeInv
<1> QED BY InitType, NextType, <1>1, PTL DEF Spec

-----------------------------------------------------------------------------
\* Short sequences.
LEMMA OneLine == \A a : /\ <<a>> # <<>> /\ Head(<<a>>) = a /\ Tail(<<a>>) = <<>>
                        /\ <<>> \o <<a>> = <<a>>
  OBVIOUS

\* Two lines: the first, and what is left when it was read.
LEMMA TwoLines == \A a, b : /\ <<a, b>> # <<>> /\ Head(<<a, b>>) = a
                            /\ Tail(<<a, b>>) = <<b>>
  OBVIOUS

\* Three lines, likewise.
LEMMA ThreeLines == \A a, b, c : /\ <<a, b, c>> # <<>> /\ Head(<<a, b, c>>) = a
                                 /\ Tail(<<a, b, c>>) = <<b, c>>
  OBVIOUS

\* A group of lines is flushed behind what is unread.
LEMMA Joined == \A a, b, c : /\ <<>> \o <<a, b>> = <<a, b>>
                             /\ <<>> \o <<a, b, c>> = <<a, b, c>>
                             /\ <<a>> \o <<b>> = <<a, b>>
<1> TAKE a, b, c
<1> DEFINE s == <<a>> \o <<b>>
           t == <<a, b>>
<1>1. <<a>> \in Seq({a, b}) /\ <<b>> \in Seq({a, b}) /\ t \in Seq({a, b})
  OBVIOUS
<1>2. Len(s) = 2 /\ s[1] = a /\ s[2] = b /\ s \in Seq({a, b})
  BY <1>1, ConcatProperties
<1>3. Len(t) = 2 /\ t[1] = a /\ t[2] = b
  OBVIOUS
<1> HIDE DEF s, t
<1>4. \A i \in 1 .. Len(s) : s[i] = t[i]
  BY <1>2, <1>3
<1>5. s = t
  BY <1>1, <1>2, <1>3, <1>4, SeqEqual
<1>6. <<>> \o <<a, b>> = <<a, b>>
  OBVIOUS
<1>7. <<>> \o <<a, b, c>> = <<a, b, c>>
  OBVIOUS
<1> QED BY <1>5, <1>6, <1>7 DEF s, t

-----------------------------------------------------------------------------
\* A step of one process leaves what belongs to the others alone.
LEMMA SolverFrame ==
  ASSUME TypeOK, NEW p \in Procs, SolverNext(p)
  PROVE  /\ Alive(p) /\ UNCHANGED <<cur, gone, term>>
         /\ \A q \in Procs \ {p} :
              /\ pc'[q] = pc[q] /\ stdin'[q] = stdin[q] /\ stdout'[q] = stdout[q]
              /\ decisions'[q] = decisions[q] /\ lastDecisions'[q] = lastDecisions[q]
              /\ forward'[q] = forward[q]
         /\ \A s : s.pid # p => (s \in shm' <=> s \in shm)
<1> USE DEF TypeOK, solverVars, Goto, PrintAndGoto, Gets, GetsEof, Alive
<1>1. CASE Boot(p)
  BY <1>1 DEF Boot
<1>2. CASE AskCsr(p)
  BY <1>2 DEF AskCsr
<1>3. CASE AwaitCsr(p)
  BY <1>3 DEF AwaitCsr
<1>4. CASE CreateShm(p)
  BY <1>4 DEF CreateShm, Segment
<1>5. CASE Publish(p)
  BY <1>5 DEF Publish
<1>6. CASE AwaitAck(p)
  BY <1>6 DEF AwaitAck, Segment
<1>7. CASE StepDone(p)
  BY <1>7 DEF StepDone
<1>8. CASE AskScores(p)
  BY <1>8 DEF AskScores
<1>9. CASE AwaitScores(p)
  BY <1>9 DEF AwaitScores
<1>10. CASE AwaitForward(p)
  BY <1>10 DEF AwaitForward
<1>11. CASE Report(p)
  BY <1>11 DEF Report
<1>12. CASE Decide(p)
  BY <1>12 DEF Decide
<1>13. CASE Finish(p)
  BY <1>13 DEF Finish
<1>14. CASE CpuSignal(p)
  BY <1>14 DEF CpuSignal
<1>15. CASE Terminated(p)
  BY <1>15 DEF Terminated
<1>16. CASE Crash(p)
  BY <1>16 DEF Crash
<1> QED BY <1>1, <1>2, <1>3, <1>4, <1>5, <1>6, <1>7, <1>8, <1>9, <1>10, <1>11,
           <1>12, <1>13, <1>14, <1>15, <1>16 DEF SolverNext, Runs

-----------------------------------------------------------------------------
\* What a step of process p has to keep: its own part of the invariant, and the
\* dialogue if p is the process the controller talks to.
OwnSegments(p) == \A s \in shm : s.pid = p => /\ s.at = decisions[p]
                                             /\ pc[p] \in {"publish", "awaitAck", "killed"}
Own(p) == InOrder(p) /\ Born(p) /\ OwnSegments(p)
Talk   == AttachedInOrder /\ Dialogue

\* What InDialogue says of one process and of the dialogue.
LEMMA OwnParts ==
  ASSUME TypeOK, InDialogue, NEW p \in Procs
  PROVE  Own(p) /\ Talk /\ CallInOrder
  BY DEF TypeOK, InDialogue, Own, OwnSegments, SegmentsOwned, Talk

\* The lines of a process are those of its pipe, with its count.
LEMMA SentLine ==
  \A t : /\ Sent(t).tag = t /\ Sent(t).at = Now /\ Sent(t) = Line(cur, t)
  BY DEF Sent, Line, Now

\* The progress of the call depends on these variables only.
LEMMA ProgressFrame ==
  ASSUME UNCHANGED <<cur, call, goAhead, getCsr, ret, csr, reward>>,
         Now' = Now, lastDecisions'[cur] = lastDecisions[cur]
  PROVE  /\ (Starting' <=> Starting) /\ (Stepped' <=> Stepped) /\ (Reached' <=> Reached)
         /\ (Rewarded' <=> Rewarded) /\ (Complete' <=> Complete) /\ (Idle' <=> Idle)
         /\ (Running' <=> Running) /\ (Resumed' <=> Resumed)
  BY DEF Starting, Stepped, Asked, Reached, Rewarded, Complete, Idle, Running, Resumed

\* In particular a step that leaves all counts alone leaves the progress alone.
LEMMA SameProgress ==
  ASSUME UNCHANGED <<cur, decisions, lastDecisions, call, goAhead, getCsr, ret, csr, reward>>
  PROVE  /\ Now' = Now
         /\ (Starting' <=> Starting) /\ (Stepped' <=> Stepped) /\ (Reached' <=> Reached)
         /\ (Rewarded' <=> Rewarded) /\ (Complete' <=> Complete) /\ (Idle' <=> Idle)
         /\ (Running' <=> Running) /\ (Resumed' <=> Resumed)
<1>1. Now' = Now
  BY DEF Now
<1> QED BY <1>1, ProgressFrame

\* The dialogue depends on the current process only.
LEMMA TalkFrame ==
  ASSUME Talk, UNCHANGED <<cur, gone>>,
         UNCHANGED <<call, attached, getCsr, goAhead, shmName, csr, reward, ret>>,
         pc'[cur] = pc[cur], stdin'[cur] = stdin[cur], stdout'[cur] = stdout[cur],
         decisions'[cur] = decisions[cur], lastDecisions'[cur] = lastDecisions[cur],
         forward'[cur] = forward[cur], Segment(cur) \in shm' <=> Segment(cur) \in shm
  PROVE  Talk'
<1>1. /\ Out' = Out /\ In' = In /\ Asked' = Asked /\ Now' = Now
      /\ Segment(cur)' = Segment(cur)
  BY DEF Out, In, Asked, Now, Segment
<1>2. AttachedInOrder'
  BY <1>1 DEF Talk, AttachedInOrder
<1>3. /\ AtBoot => AtBoot'
      /\ AtCreateShm => AtCreateShm'
      /\ AtPublish => AtPublish'
      /\ AtStepDone => AtStepDone'
      /\ AtAwaitForward => AtAwaitForward'
      /\ AtResume => AtResume'
      /\ AtSearch => AtSearch'
  BY <1>1, ProgressFrame
     DEF AtBoot, AtCreateShm, AtPublish, AtStepDone, AtAwaitForward, AtResume, AtSearch
<1>4. AtAskCsr => AtAskCsr'
  BY <1>1, ProgressFrame DEF AtAskCsr, Sent, Line
<1>5. AtAwaitCsr => AtAwaitCsr'
  BY <1>1, ProgressFrame DEF AtAwaitCsr, Sent, Line
<1>6. AtAwaitAck => AtAwaitAck'
  BY <1>1, ProgressFrame DEF AtAwaitAck, Sent, Line
<1>7. AtAskScores => AtAskScores'
  BY <1>1, ProgressFrame DEF AtAskScores, Sent, Line
<1>8. AtAwaitScores => AtAwaitScores'
  BY <1>1, ProgressFrame DEF AtAwaitScores, Sent, Line
<1>9. AtExited => AtExited'
  BY <1>1 DEF AtExited, Sent, Line
<1>10. AtKilled => AtKilled'
  BY <1>1, ProgressFrame DEF AtKilled, Sent, Line
<1> QED BY <1>2, <1>3, <1>4, <1>5, <1>6, <1>7, <1>8, <1>9, <1>10 DEF Talk, Dialogue

\* What a request is asked for.
LEMMA RequestTag == \A t, n : Request(t, n).tag = t /\ Request(t, n).n = n
  BY DEF Request

\* What the helpers do to the process itself.
LEMMA Going ==
  ASSUME TypeOK, NEW p \in Procs, NEW l, Goto(p, l)
  PROVE  pc'[p] = l
  BY DEF TypeOK, Goto

\* A flush kills the process or delivers the lines; if the reader is there, the latter.
LEMMA Printing ==
  ASSUME TypeOK, NEW p \in Procs, NEW lines, NEW l, PrintAndGoto(p, lines, l)
  PROVE  /\ pc'[p] \in {l, "killed"}
         /\ ~Dropped(p) => pc'[p] = l /\ stdout'[p] = stdout[p] \o lines
  BY DEF TypeOK, Goto, PrintAndGoto

\* A line read is taken off the head of the input.
LEMMA Reading ==
  ASSUME TypeOK, NEW p \in Procs, Gets(p)
  PROVE  stdin[p] # <<>> /\ stdin'[p] = Tail(stdin[p])
  BY DEF TypeOK, Gets

\* The current process has its reader.
LEMMA CurrentProcess ==
  ASSUME TypeOK, cur \in Procs, ~gone
  PROVE  ~Dropped(cur) /\ cur # 0
  BY DEF TypeOK, Dropped, Procs

\* The formula is settled by preprocessing, or the first boundary lies ahead.
LEMMA BootKeeps ==
  ASSUME TypeOK, InDialogue, NEW p \in Procs, Boot(p), UNCHANGED ctlVars
  PROVE  Own(p)' /\ (p = cur /\ ~gone => Talk')
<1> USE DEF ctlVars, solverVars
<1>0. Own(p) /\ Talk /\ CallInOrder
  BY OwnParts
<1>1. Own(p)'
  <2>1. pc'[p] \in {"exited", "killed", "askCsr", "search"}
    BY Going, Printing DEF Boot
  <2> QED BY <1>0, <2>1 DEF Boot, Own, InOrder, Born, OwnSegments
<1>2. ASSUME p = cur, ~gone PROVE Talk'
  <2>1. AtBoot /\ attached = {} /\ ~Dropped(cur)
    BY <1>0, <1>2, CurrentProcess DEF Boot, Talk, Dialogue, AttachedInOrder
  <2>2. CASE PrintAndGoto(p, <<Line(p, "s UNSATISFIABLE")>>, "exited")
    <3>1. pc'[p] = "exited" /\ stdout'[p] = <<Sent("s UNSATISFIABLE")>>
      BY <1>2, <2>1, <2>2, Printing, OneLine, SentLine DEF AtBoot, Out
    <3>2. AtExited'
      BY <1>2, <3>1 DEF Boot, AtExited, Out, Sent, Line, Verdicts
    <3> QED BY <1>2, <2>1, <3>1, <3>2 DEF Boot, Talk, Dialogue, AttachedInOrder
  <2>3. CASE Goto(p, IF Limit # 0 THEN "askCsr" ELSE "search") /\ UNCHANGED stdout
    <3>1. pc'[p] = IF Limit # 0 THEN "askCsr" ELSE "search"
      BY <2>3, Going
    <3>2. AtAskCsr' \/ Limit = 0
      BY <1>2, <2>1, <2>3 DEF Boot, AtBoot, AtAskCsr, Rewarded, Reached, Starting, Out, Now
    <3>3. AtSearch' \/ Limit # 0
      BY <1>2, <2>1, <2>3 DEF Boot, AtBoot, AtSearch, Starting, Out, Now
    <3> QED BY <1>2, <2>1, <3>1, <3>2, <3>3 DEF Boot, Talk, Dialogue, AttachedInOrder
  <2> QED BY <2>2, <2>3 DEF Boot
<1> QED BY <1>1, <1>2

\* The graph is offered behind the reward, or alone before the first decision.
LEMMA AskCsrKeeps ==
  ASSUME TypeOK, InDialogue, NEW p \in Procs, AskCsr(p), UNCHANGED ctlVars
  PROVE  Own(p)' /\ (p = cur /\ ~gone => Talk')
<1> USE DEF ctlVars, solverVars
<1>0. Own(p) /\ Talk /\ CallInOrder
  BY OwnParts
<1>1. Own(p)'
  <2>1. pc'[p] \in {"awaitCsr", "killed"}
    BY Printing DEF AskCsr
  <2> QED BY <1>0, <2>1 DEF AskCsr, Own, InOrder, Born, OwnSegments
<1>2. ASSUME p = cur, ~gone PROVE Talk'
  <2>1. AtAskCsr /\ attached = {} /\ ~Dropped(cur) /\ In = <<>>
    BY <1>0, <1>2, CurrentProcess DEF AskCsr, Own, InOrder, Talk, Dialogue, AttachedInOrder, In
  <2>2. pc'[p] = "awaitCsr" /\ stdout'[p] = stdout[p] \o <<Sent("csrReady")>>
    BY <1>2, <2>1, Printing, SentLine DEF AskCsr
  <2>3. Out' = Out \o <<Sent("csrReady")>> /\ In' = <<>>
    BY <1>2, <2>1, <2>2 DEF AskCsr, Out, In
  <2>6. AtAwaitCsr'
    <3>1. CASE Rewarded /\ Out = <<>>
      <4>1. Out' = <<Sent("csrReady")>>
        BY <2>3, <3>1, OneLine
      <4> QED BY <1>2, <2>1, <2>3, <3>1, <4>1, SameProgress
              DEF AskCsr, AtAskCsr, AtAwaitCsr, Sent, Line
    <3>2. CASE Reached /\ Stepped /\ reward = NoCount /\ Out = <<Sent("reward")>>
      <4>1. Out' = <<Sent("reward"), Sent("csrReady")>>
        BY <2>3, <3>2, Joined
      <4> QED BY <1>2, <2>1, <2>3, <3>2, <4>1, SameProgress
              DEF AskCsr, AtAskCsr, AtAwaitCsr, Sent, Line
    <3> QED BY <2>1, <3>1, <3>2 DEF AtAskCsr
  <2> QED BY <1>2, <2>1, <2>2, <2>6 DEF AskCsr, Talk, Dialogue, AttachedInOrder
<1> QED BY <1>1, <1>2

\* The answer is the one for getCsr; after "csrNo" the call stands as Complete asks.
LEMMA AwaitCsrKeeps ==
  ASSUME TypeOK, InDialogue, NEW p \in Procs, AwaitCsr(p), UNCHANGED ctlVars
  PROVE  Own(p)' /\ (p = cur /\ ~gone => Talk')
<1> USE DEF ctlVars, solverVars
<1>0. Own(p) /\ Talk /\ CallInOrder
  BY OwnParts
<1>1. Own(p)'
  <2>1. CASE Gets(p) /\ Goto(p, CASE Got(p) = "csrNo"  -> AfterCsr(p)
                                  [] Got(p) = "csrYes" -> "createShm"
                                  [] OTHER             -> "aborted")
    <3>1. PICK t \in {"csrYes", "csrNo"} : stdin[p] = <<Request(t, 0)>>
      BY <1>0, <2>1, Reading DEF AwaitCsr, Own, InOrder
    <3>2. Got(p) = t /\ stdin'[p] = <<>>
      <4>1. Head(stdin[p]) = Request(t, 0) /\ Tail(stdin[p]) = <<>>
        BY <3>1, OneLine
      <4> QED BY <2>1, <4>1, Reading, RequestTag DEF Got
    <3>3. pc'[p] \in {"createShm", "search", "stepDone"}
      BY <2>1, <3>2, Going DEF AfterCsr
    <3> QED BY <1>0, <3>2, <3>3 DEF AwaitCsr, Own, InOrder, Born, OwnSegments
  <2>2. CASE GetsEof(p) /\ Goto(p, "createShm")
    BY <1>0, <2>2, Going DEF AwaitCsr, GetsEof, Own, InOrder, Born, OwnSegments
  <2> QED BY <2>1, <2>2 DEF AwaitCsr
<1>2. ASSUME p = cur, ~gone PROVE Talk'
  <2>1. AtAwaitCsr /\ attached = {} /\ ~Dropped(cur)
    BY <1>0, <1>2, CurrentProcess DEF AwaitCsr, Talk, Dialogue, AttachedInOrder
  <2>2. In # <<>> /\ In' = Tail(In)
    BY <1>2, <2>1, Reading DEF AwaitCsr, GetsEof, In
  <2>3. /\ Rewarded /\ Out = <<>> /\ csr = NoCount /\ Limit # 0
        /\ Got(p) = (IF getCsr THEN "csrYes" ELSE "csrNo")
    BY <1>2, <2>1, <2>2, OneLine DEF AtAwaitCsr, Got, Request, In
  <2>4. pc'[p] = IF getCsr THEN "createShm" ELSE AfterCsr(p)
    BY <1>2, <2>1, <2>3, Going DEF AwaitCsr, GetsEof
  <2>5. getCsr => AtCreateShm'
    BY <1>2, <2>3 DEF AwaitCsr, AtCreateShm, Rewarded, Reached, Starting, Stepped, Asked, Out, Now
  <2>6. ~getCsr /\ Now = 0 => AtSearch'
    BY <1>2, <2>3 DEF AwaitCsr, AtSearch, Rewarded, Reached, Starting, Stepped, Idle, Out, Now
  <2>7. ~getCsr /\ Now # 0 => AtStepDone'
    BY <1>2, <2>3 DEF AwaitCsr, AtStepDone, Complete, Rewarded, Reached, Starting, Stepped, Asked,
                      Out, Now
  <2> QED BY <1>2, <2>1, <2>4, <2>5, <2>6, <2>7
          DEF AwaitCsr, AfterCsr, Talk, Dialogue, AttachedInOrder, Now
<1> QED BY <1>1, <1>2

\* The only segment of a process is the one it is about to publish.
LEMMA CreateShmKeeps ==
  ASSUME TypeOK, InDialogue, NEW p \in Procs, CreateShm(p), UNCHANGED ctlVars
  PROVE  Own(p)' /\ (p = cur /\ ~gone => Talk')
<1> USE DEF ctlVars, solverVars
<1>0. Own(p) /\ Talk /\ CallInOrder
  BY OwnParts
<1>1. Own(p)'
  <2>1. \A s \in shm : s.pid # p
    BY <1>0 DEF CreateShm, Own, OwnSegments
  <2>2. CASE shm' = shm \cup {Segment(p)} /\ Goto(p, "publish")
    BY <1>0, <2>1, <2>2, Going DEF CreateShm, Own, InOrder, Born, OwnSegments, Segment
  <2>3. CASE PrintAndGoto(p, <<Line(p, "shmName")>>, "exited") /\ UNCHANGED shm
    <3>1. pc'[p] \in {"exited", "killed"}
      BY <2>3, Printing
    <3> QED BY <1>0, <2>1, <2>3, <3>1 DEF CreateShm, Own, InOrder, Born, OwnSegments
  <2> QED BY <2>2, <2>3 DEF CreateShm
<1>2. ASSUME p = cur, ~gone PROVE Talk'
  <2>1. AtCreateShm /\ attached = {} /\ ~Dropped(cur)
    BY <1>0, <1>2, CurrentProcess DEF CreateShm, Talk, Dialogue, AttachedInOrder
  <2>2. CASE shm' = shm \cup {Segment(p)} /\ Goto(p, "publish") /\ UNCHANGED stdout
    <3>1. pc'[p] = "publish"
      BY <2>2, Going
    <3>2. AtPublish'
      BY <1>2, <2>1, <2>2 DEF CreateShm, AtPublish, AtCreateShm, Rewarded, Reached, Starting,
                              Stepped, Asked, Segment, Out, Now
    <3> QED BY <1>2, <2>1, <3>1, <3>2 DEF CreateShm, Talk, Dialogue, AttachedInOrder
  <2>3. CASE PrintAndGoto(p, <<Line(p, "shmName")>>, "exited") /\ UNCHANGED shm
    <3>1. pc'[p] = "exited" /\ Out' = <<Sent("shmName")>>
      BY <1>2, <2>1, <2>3, Printing, SentLine, OneLine DEF CreateShm, AtCreateShm, Out
    <3>2. AtExited'
      BY <1>2, <2>1, <3>1 DEF CreateShm, AtExited, AtCreateShm, Rewarded, Reached, Starting,
                              Stepped, Sent, Line
    <3> QED BY <1>2, <2>1, <3>1, <3>2 DEF CreateShm, Talk, Dialogue, AttachedInOrder
  <2> QED BY <2>2, <2>3 DEF CreateShm
<1> QED BY <1>1, <1>2

\* Name and size lie in the pipe while the segment exists.
LEMMA PublishKeeps ==
  ASSUME TypeOK, InDialogue, NEW p \in Procs, Publish(p), UNCHANGED ctlVars
  PROVE  Own(p)' /\ (p = cur /\ ~gone => Talk')
<1> USE DEF ctlVars, solverVars
<1>0. Own(p) /\ Talk /\ CallInOrder
  BY OwnParts
<1>1. Own(p)'
  <2>1. pc'[p] \in {"awaitAck", "killed"}
    BY Printing DEF Publish
  <2> QED BY <1>0, <2>1 DEF Publish, Own, InOrder, Born, OwnSegments
<1>2. ASSUME p = cur, ~gone PROVE Talk'
  <2>1. AtPublish /\ attached = {} /\ ~Dropped(cur) /\ In = <<>>
    BY <1>0, <1>2, CurrentProcess
       DEF Publish, Own, InOrder, Talk, Dialogue, AttachedInOrder, In
  <2>2. pc'[p] = "awaitAck" /\ Out' = Out \o <<Sent("shmName"), Sent("csrWritten")>>
    BY <1>2, <2>1, Printing, SentLine DEF Publish, Out
  <2>3. Out' = <<Sent("shmName"), Sent("csrWritten")>>
    BY <2>1, <2>2, Joined DEF AtPublish, AtCreateShm
  <2>4. AtAwaitAck'
    BY <1>2, <2>1, <2>3 DEF Publish, AtPublish, AtCreateShm, AtAwaitAck, Rewarded, Reached,
                            Starting, Stepped, Asked, Segment, Sent, Line, In, Now
  <2> QED BY <1>2, <2>1, <2>2, <2>4 DEF Publish, Talk, Dialogue, AttachedInOrder
<1> QED BY <1>1, <1>2

\* An acknowledgement is read after the reader has released the segment.
LEMMA AwaitAckKeeps ==
  ASSUME TypeOK, InDialogue, NEW p \in Procs, AwaitAck(p), UNCHANGED ctlVars
  PROVE  Own(p)' /\ (p = cur /\ ~gone => Talk')
<1> USE DEF ctlVars, solverVars
<1>0. Own(p) /\ Talk /\ CallInOrder
  BY OwnParts
<1>1. Own(p)'
  <2>1. \A s \in shm' : s.pid # p
    BY <1>0 DEF AwaitAck, Own, OwnSegments, Segment, TypeOK, Segments
  <2>2. CASE Gets(p) /\ Goto(p, IF Got(p) = "ack" THEN AfterCsr(p) ELSE "exited")
    <3>1. Got(p) = "ack" /\ stdin'[p] = <<>>
      <4>1. stdin[p] = <<Request("ack", 0)>>
        BY <1>0, <2>2, Reading DEF AwaitAck, Own, InOrder
      <4>2. Head(stdin[p]) = Request("ack", 0) /\ Tail(stdin[p]) = <<>>
        BY <4>1, OneLine
      <4> QED BY <2>2, <4>2, Reading, RequestTag DEF Got
    <3>2. pc'[p] \in {"search", "stepDone"}
      BY <2>2, <3>1, Going DEF AfterCsr
    <3> QED BY <1>0, <2>1, <3>1, <3>2 DEF AwaitAck, Own, InOrder, Born, OwnSegments
  <2>3. CASE GetsEof(p) /\ Goto(p, "exited")
    BY <1>0, <2>1, <2>3, Going DEF AwaitAck, Own, InOrder, Born, OwnSegments
  <2> QED BY <2>2, <2>3 DEF AwaitAck
<1>2. ASSUME p = cur, ~gone PROVE Talk'
  <2>1. AtAwaitAck /\ ~Dropped(cur)
    BY <1>0, <1>2, CurrentProcess DEF AwaitAck, Talk, Dialogue
  <2>2. In # <<>> /\ In' = Tail(In)
    BY <1>2, <2>1, Reading DEF AwaitAck, GetsEof, In
  <2>3. attached = {}
    BY <1>0, <1>2, <2>2 DEF AwaitAck, Talk, AttachedInOrder
  <2>4. /\ Out = <<>> /\ Limit # 0
        /\ (Now = 0 /\ Idle) \/ Complete
        /\ Got(p) = "ack"
    BY <1>2, <2>1, <2>2, OneLine DEF AtAwaitAck, Got, Request, In
  <2>5. pc'[p] = AfterCsr(p)
    BY <1>2, <2>1, <2>4, Going DEF AwaitAck, GetsEof
  <2>6. Now = 0 => AtSearch'
    BY <1>2, <2>4 DEF AwaitAck, AtSearch, Complete, Rewarded, Reached, Starting, Stepped, Idle,
                      Out, Now
  <2>7. Now # 0 => AtStepDone'
    BY <1>2, <2>4 DEF AwaitAck, AtStepDone, Complete, Rewarded, Reached, Starting, Stepped,
                      Asked, Out, Now
  <2> QED BY <1>2, <2>3, <2>5, <2>6, <2>7
          DEF AwaitAck, AfterCsr, Talk, Dialogue, AttachedInOrder, Now
<1> QED BY <1>1, <1>2

\* The step is reported once reward and graph are with the controller.
LEMMA StepDoneKeeps ==
  ASSUME TypeOK, InDialogue, NEW p \in Procs, StepDone(p), UNCHANGED ctlVars
  PROVE  Own(p)' /\ (p = cur /\ ~gone => Talk')
<1> USE DEF ctlVars, solverVars
<1>0. Own(p) /\ Talk /\ CallInOrder
  BY OwnParts
<1>1. Own(p)'
  <2>1. pc'[p] \in {"askScores", "killed"}
    BY Printing DEF StepDone
  <2> QED BY <1>0, <2>1 DEF StepDone, Own, InOrder, Born, OwnSegments
<1>2. ASSUME p = cur, ~gone PROVE Talk'
  <2>1. AtStepDone /\ attached = {} /\ ~Dropped(cur) /\ In = <<>>
    BY <1>0, <1>2, CurrentProcess DEF StepDone, Own, InOrder, Talk, Dialogue, AttachedInOrder, In
  <2>2. pc'[p] = "askScores" /\ stdout'[p] = stdout[p] \o <<Sent("stepDone")>>
    BY <1>2, <2>1, Printing, SentLine DEF StepDone
  <2>3. AtAskScores'
    BY <1>2, <2>1, <2>2, OneLine, Joined
       DEF StepDone, AtStepDone, AtAskScores, Complete, Reached, Rewarded, Starting, Stepped,
           Asked, Out, In, Now, Sent, Line
  <2> QED BY <1>2, <2>1, <2>2, <2>3 DEF StepDone, Talk, Dialogue, AttachedInOrder
<1> QED BY <1>1, <1>2

\* The score request follows the report, unread or not.
LEMMA AskScoresKeeps ==
  ASSUME TypeOK, InDialogue, NEW p \in Procs, AskScores(p), UNCHANGED ctlVars
  PROVE  Own(p)' /\ (p = cur /\ ~gone => Talk')
<1> USE DEF ctlVars, solverVars
<1>0. Own(p) /\ Talk /\ CallInOrder
  BY OwnParts
<1>1. Own(p)'
  <2>1. pc'[p] \in {"awaitScores", "killed"}
    BY Printing DEF AskScores
  <2> QED BY <1>0, <2>1 DEF AskScores, Own, InOrder, Born, OwnSegments
<1>2. ASSUME p = cur, ~gone PROVE Talk'
  <2>1. AtAskScores /\ attached = {} /\ ~Dropped(cur) /\ In = <<>>
    BY <1>0, <1>2, CurrentProcess DEF AskScores, Own, InOrder, Talk, Dialogue, AttachedInOrder, In
  <2>2. pc'[p] = "awaitScores" /\ stdout'[p] = stdout[p] \o <<Sent("activityStart")>>
    BY <1>2, <2>1, Printing, SentLine DEF AskScores
  <2>3. Out' = Out \o <<Sent("activityStart")>> /\ In' = <<>>
    BY <1>2, <2>1, <2>2 DEF AskScores, Out, In
  <2>6. AtAwaitScores'
    <3>1. CASE Complete /\ Out = <<Sent("stepDone")>>
      <4>1. Out' = <<Sent("stepDone"), Sent("activityStart")>>
        BY <2>3, <3>1, Joined
      <4> QED BY <1>2, <2>1, <2>3, <3>1, <4>1, SameProgress
              DEF AskScores, AtAskScores, AtAwaitScores, Sent, Line
    <3>2. CASE Idle /\ Out = <<>>
      <4>1. Out' = <<Sent("activityStart")>>
        BY <2>3, <3>2, OneLine
      <4> QED BY <1>2, <2>1, <2>3, <3>2, <4>1, SameProgress
              DEF AskScores, AtAskScores, AtAwaitScores, Sent, Line
    <3> QED BY <2>1, <3>1, <3>2 DEF AtAskScores
  <2> QED BY <1>2, <2>1, <2>2, <2>6 DEF AskScores, Talk, Dialogue, AttachedInOrder
<1> QED BY <1>1, <1>2

\* The answer to a score request, line by line.
LEMMA Answers ==
  ASSUME NEW g
  PROVE  /\ Answer(g) # <<>> /\ Head(Answer(g)).tag = "scores" /\ Tail(Answer(g)) = Scored(g)
         /\ Scored(g) # <<>> /\ Head(Scored(g)).tag = "activityDone"
         /\ Tail(Scored(g)) = <<Advance(g)>>
         /\ <<Advance(g)>> # <<>> /\ Head(<<Advance(g)>>) = Advance(g)
         /\ Tail(<<Advance(g)>>) = <<>>
         /\ Advance(g).tag = (IF g # 0 THEN "forward" ELSE "continue")
         /\ g # 0 => Advance(g).n = g
<1>1. Head(Answer(g)) = Request("scores", 0) /\ Tail(Answer(g)) = Scored(g) /\ Answer(g) # <<>>
  BY ThreeLines DEF Answer, Scored
<1>2. /\ Head(Scored(g)) = Request("activityDone", 0) /\ Tail(Scored(g)) = <<Advance(g)>>
      /\ Scored(g) # <<>>
  BY TwoLines DEF Scored
<1>3. Advance(g).tag = (IF g # 0 THEN "forward" ELSE "continue") /\ (g # 0 => Advance(g).n = g)
  BY RequestTag DEF Advance
<1> QED BY <1>1, <1>2, <1>3, OneLine, RequestTag

\* The answer is consumed line by line.
LEMMA AwaitScoresKeeps ==
  ASSUME TypeOK, InDialogue, NEW p \in Procs, AwaitScores(p), UNCHANGED ctlVars
  PROVE  Own(p)' /\ (p = cur /\ ~gone => Talk')
<1> USE DEF ctlVars, solverVars
<1>0. Own(p) /\ Talk /\ CallInOrder
  BY OwnParts
<1>1. Own(p)'
  <2>1. CASE GetsEof(p) /\ Goto(p, "resume")
    BY <1>0, <2>1, Going DEF AwaitScores, GetsEof, Own, InOrder, Born, OwnSegments
  <2>2. CASE Gets(p) /\ Goto(p, IF Got(p) = "activityDone" THEN "awaitForward"
                                                            ELSE "awaitScores")
    <3>1. PICK g \in Advances : stdin[p] = Answer(g) \/ stdin[p] = Scored(g)
      BY <1>0, <2>2, Reading DEF AwaitScores, Own, InOrder
    <3>2. CASE stdin[p] = Answer(g)
      <4>1. pc'[p] = "awaitScores" /\ stdin'[p] = Scored(g)
        BY <2>2, <3>2, Answers, Reading, Going DEF Got
      <4> QED BY <1>0, <4>1 DEF AwaitScores, Own, InOrder, Born, OwnSegments
    <3>3. CASE stdin[p] = Scored(g)
      <4>1. pc'[p] = "awaitForward" /\ stdin'[p] = <<Advance(g)>>
        BY <2>2, <3>3, Answers, Reading, Going DEF Got
      <4> QED BY <1>0, <4>1 DEF AwaitScores, Own, InOrder, Born, OwnSegments
    <3> QED BY <3>1, <3>2, <3>3
  <2> QED BY <2>1, <2>2 DEF AwaitScores
<1>2. ASSUME p = cur, ~gone PROVE Talk'
  <2>1. AtAwaitScores /\ attached = {} /\ ~Dropped(cur)
    BY <1>0, <1>2, CurrentProcess DEF AwaitScores, Talk, Dialogue, AttachedInOrder
  <2>2. /\ In # <<>> /\ In' = Tail(In)
        /\ pc'[p] = IF Head(In).tag = "activityDone" THEN "awaitForward" ELSE "awaitScores"
    BY <1>2, <2>1, Reading, Going DEF AwaitScores, GetsEof, In, Got
  <2>3. /\ Limit # 0 /\ Resumed /\ Out = <<>>
        /\ In = Answer(goAhead) \/ In = Scored(goAhead)
    BY <2>1, <2>2 DEF AtAwaitScores
  <2>4. CASE In = Answer(goAhead)
    <3>1. pc'[p] = "awaitScores" /\ In' = Scored(goAhead)
      BY <2>2, <2>4, Answers
    <3>2. AtAwaitScores'
      BY <2>3, <3>1, SameProgress DEF AwaitScores, AtAwaitScores, Out
    <3> QED BY <1>2, <2>1, <3>1, <3>2 DEF AwaitScores, Talk, Dialogue, AttachedInOrder
  <2>5. CASE In = Scored(goAhead)
    <3>1. pc'[p] = "awaitForward" /\ In' = <<Advance(goAhead)>>
      BY <2>2, <2>5, Answers
    <3>2. AtAwaitForward'
      BY <2>3, <3>1, SameProgress DEF AwaitScores, AtAwaitForward, Out
    <3> QED BY <1>2, <2>1, <3>1, <3>2 DEF AwaitScores, Talk, Dialogue, AttachedInOrder
  <2> QED BY <2>3, <2>4, <2>5
<1> QED BY <1>1, <1>2

\* The loop that reads how far to run takes the line it is written for.
LEMMA ForwardRead ==
  ASSUME TypeOK, NEW p \in Procs, AwaitForward(p), NEW g, stdin[p] = <<Advance(g)>>
  PROVE  pc'[p] = "resume" /\ stdin'[p] = <<>> /\ forward'[p] = g
<1>1. /\ Gets(p)
      /\ Goto(p, IF Got(p) \in {"continue", "forward"} THEN "resume" ELSE "aborted")
      /\ forward' = [forward EXCEPT ![p] =
                        CASE Got(p) = "continue" -> 0
                          [] Got(p) = "forward"  -> Head(stdin[p]).n
                          [] OTHER               -> @]
  BY OneLine DEF AwaitForward, GetsEof
<1>2. Head(stdin[p]) = Advance(g) /\ stdin'[p] = <<>>
  BY <1>1, Reading, Answers
<1>3. /\ Got(p) = (IF g # 0 THEN "forward" ELSE "continue")
      /\ g # 0 => Head(stdin[p]).n = g
  BY <1>2, Answers DEF Got
<1>4. pc'[p] = "resume"
  BY <1>1, <1>3, Going
<1>5. forward'[p] = g
  BY <1>1, <1>3 DEF TypeOK
<1> QED BY <1>2, <1>4, <1>5

\* The solver runs as far as the step asked for.
LEMMA AwaitForwardKeeps ==
  ASSUME TypeOK, InDialogue, NEW p \in Procs, AwaitForward(p), UNCHANGED ctlVars
  PROVE  Own(p)' /\ (p = cur /\ ~gone => Talk')
<1> USE DEF ctlVars, solverVars
<1>0. Own(p) /\ Talk /\ CallInOrder
  BY OwnParts
<1>1. Own(p)'
  <2>1. PICK g \in Advances : stdin[p] = <<Advance(g)>>
    BY <1>0 DEF AwaitForward, Own, InOrder
  <2>2. pc'[p] = "resume" /\ stdin'[p] = <<>>
    BY <2>1, ForwardRead
  <2> QED BY <1>0, <2>2 DEF AwaitForward, Own, InOrder, Born, OwnSegments
<1>2. ASSUME p = cur, ~gone PROVE Talk'
  <2>1. AtAwaitForward /\ attached = {}
    BY <1>0, <1>2, CurrentProcess DEF AwaitForward, Talk, Dialogue, AttachedInOrder
  <2>2. pc'[p] = "resume" /\ In' = <<>> /\ forward'[p] = goAhead
    BY <1>2, <2>1, ForwardRead DEF AwaitForward, AtAwaitForward, In
  <2>3. AtResume'
    BY <1>2, <2>1, <2>2, SameProgress DEF AwaitForward, AtAwaitForward, AtResume, Out
  <2> QED BY <1>2, <2>1, <2>2, <2>3 DEF AwaitForward, Talk, Dialogue, AttachedInOrder
<1> QED BY <1>1, <1>2

\* During a step the session has a count to add to.
LEMMA Counted ==
  ASSUME TypeOK, CallInOrder, cur \in Procs
  PROVE  /\ Now \in Nat /\ lastDecisions[cur] \in Nat /\ goAhead \in Nat /\ Limit \in Nat
         /\ forward[cur] \in Nat /\ NoCount \notin Count /\ NoCount \in Nat
         /\ call = "step" => ret.kind = "open" /\ ret.reward \in Count /\ ret.reward \in Nat
         /\ Asked \in Nat /\ Asked >= Limit /\ Asked >= goAhead
         /\ Asked = goAhead \/ Asked = Limit
<1>1. Now \in Count /\ lastDecisions[cur] \in Count /\ goAhead \in Nat /\ forward[cur] \in Nat
  BY DEF TypeOK, Now
<1>2. Count \subseteq Nat /\ NoCount \notin Count /\ NoCount \in Nat
  BY BoundsAssumption DEF Count, NoCount
<1>3. /\ Asked \in Nat /\ Asked >= Limit /\ Asked >= goAhead
      /\ Asked = goAhead \/ Asked = Limit
  BY <1>1, LimitAssumption DEF Asked
<1>4. call = "step" => ret.kind = "open" /\ ret.reward \in Count
  BY DEF CallInOrder
<1> QED BY <1>1, <1>2, <1>3, <1>4, LimitAssumption

\* The boundary reported is the one the step in progress asked for.
LEMMA ReportKeeps ==
  ASSUME TypeOK, InDialogue, NEW p \in Procs, Report(p), UNCHANGED ctlVars
  PROVE  Own(p)' /\ (p = cur /\ ~gone => Talk')
<1> USE DEF ctlVars, solverVars
<1>0. Own(p) /\ Talk /\ CallInOrder
  BY OwnParts
<1>1. Own(p)'
  <2>1. pc'[p] \in {"askScores", "askCsr", "killed"}
    BY Going, Printing DEF Report
  <2> QED BY <1>0, <2>1 DEF Report, Own, InOrder, Born, OwnSegments
<1>2. ASSUME p = cur, ~gone PROVE Talk'
  <2>1. AtSearch /\ attached = {} /\ ~Dropped(cur) /\ Limit # 0 /\ Out = <<>>
    BY <1>0, <1>2, CurrentProcess
       DEF Report, AtBoundary, Talk, Dialogue, AttachedInOrder, AtSearch
  <2>2. CASE Now = 0
    <3>1. Idle
      BY <1>0, <1>2, <2>1, <2>2, Counted DEF AtSearch, Running
    <3>2. pc'[p] = "askScores" /\ UNCHANGED <<stdout, lastDecisions, decisions, cur>>
      BY <1>2, <2>2, Going DEF Report, Now
    <3>3. AtAskScores'
      BY <2>1, <3>1, <3>2, SameProgress DEF AtAskScores, Out
    <3> QED BY <1>2, <2>1, <3>2, <3>3 DEF Report, Talk, Dialogue, AttachedInOrder
  <2>3. CASE Now # 0
    <3>1. /\ Running /\ forward[cur] = goAhead /\ lastDecisions[cur] = ret.reward
          /\ ret.reward < Now /\ Now <= ret.reward + Asked
      BY <2>1, <2>3 DEF AtSearch, Running
    <3>2. Now - lastDecisions[cur] >= Limit /\ Now - lastDecisions[cur] >= forward[cur]
      BY <1>2, <2>3 DEF Report, AtBoundary, PeriodDecisions, Now
    <3>3. Now = ret.reward + Asked
      BY <1>0, <1>2, <3>1, <3>2, Counted DEF Running
    <3>4. /\ pc'[p] = "askCsr" /\ Out' = <<Sent("reward")>>
          /\ lastDecisions'[cur] = Now
      <4>1. /\ PrintAndGoto(p, <<Line(p, "reward")>>, "askCsr") /\ cur' = cur
            /\ lastDecisions' = [lastDecisions EXCEPT ![p] = decisions[p]]
        BY <1>2, <2>3 DEF Report, Now
      <4>2. pc'[p] = "askCsr" /\ stdout'[p] = <<>> \o <<Line(p, "reward")>>
        BY <1>2, <2>1, <4>1, Printing DEF Out
      <4> QED BY <1>2, <4>1, <4>2, OneLine DEF Now, Out, TypeOK, Sent
    <3>5. Now' = Now /\ Asked' = Asked /\ UNCHANGED <<call, ret, csr, reward, cur, decisions>>
      BY DEF Report, Now, Asked
    <3>6. Reached' /\ Stepped'
      BY <1>0, <1>2, <2>3, <3>1, <3>3, <3>4, <3>5, Counted DEF Reached, Stepped, Running
    <3>7. AtAskCsr'
      BY <2>1, <3>1, <3>4, <3>5, <3>6 DEF AtAskCsr, Running, Sent, Line
    <3> QED BY <1>2, <2>1, <3>4, <3>7 DEF Report, Talk, Dialogue, AttachedInOrder
  <2> QED BY <2>2, <2>3
<1> QED BY <1>1, <1>2

\* A decision is taken only short of that boundary.
LEMMA DecideKeeps ==
  ASSUME TypeOK, InDialogue, NEW p \in Procs, Decide(p), UNCHANGED ctlVars
  PROVE  Own(p)' /\ (p = cur /\ ~gone => Talk')
<1> USE DEF ctlVars, solverVars
<1>0. Own(p) /\ Talk /\ CallInOrder
  BY OwnParts
<1>3. pc'[p] = "search" /\ decisions'[p] = decisions[p] + 1
  BY Going DEF Decide, TypeOK
<1>1. Own(p)'
  BY <1>0, <1>3 DEF Decide, Own, InOrder, Born, OwnSegments
<1>2. ASSUME p = cur, ~gone PROVE Talk'
  <2>1. /\ (pc[p] = "resume" /\ AtResume) \/ (pc[p] = "search" /\ ~AtBoundary(p) /\ AtSearch)
        /\ attached = {}
    BY <1>0, <1>2, CurrentProcess DEF Decide, Talk, Dialogue, AttachedInOrder
  <2>2. /\ Out' = Out /\ Now' = Now + 1 /\ Asked' = Asked
        /\ UNCHANGED <<call, ret, csr, reward, cur, goAhead, forward, lastDecisions>>
    BY <1>2, <1>3 DEF Decide, Out, Now, Asked
  <2>3. Running' <=> Running
    BY <2>2 DEF Running
  <2>4. CASE AtResume
    <3>1. /\ Limit # 0 /\ Running /\ Now = ret.reward /\ Out = <<>>
          /\ forward[cur] = goAhead /\ call = "step"
      BY <2>4 DEF AtResume, Resumed, Running
    <3>2. ret.reward < Now + 1 /\ Now + 1 <= ret.reward + Asked
      BY <1>0, <1>2, <3>1, Counted
    <3>3. AtSearch'
      BY <2>2, <2>3, <3>1, <3>2 DEF AtSearch
    <3> QED BY <1>2, <1>3, <2>1, <2>2, <3>3 DEF Decide, Talk, Dialogue, AttachedInOrder
  <2>5. CASE AtSearch /\ ~AtBoundary(p)
    <3>1. AtSearch'
      <4>1. CASE Limit = 0
        BY <2>2, <2>5, <4>1 DEF AtSearch
      <4>2. CASE Limit # 0
        <5>1. /\ Now # 0
              /\ \/ Now - lastDecisions[cur] < Limit
                 \/ Now - lastDecisions[cur] < forward[cur]
          BY <1>0, <1>2, <2>5, <4>2, Counted DEF AtBoundary, PeriodDecisions, Now
        <5>2. /\ Running /\ forward[cur] = goAhead /\ lastDecisions[cur] = ret.reward
              /\ ret.reward < Now /\ Now <= ret.reward + Asked /\ Out = <<>> /\ call = "step"
          BY <2>5, <4>2, <5>1 DEF AtSearch, Running
        <5>3. ret.reward < Now + 1 /\ Now + 1 <= ret.reward + Asked
          BY <1>0, <1>2, <5>1, <5>2, Counted
        <5> QED BY <2>2, <2>3, <4>2, <5>2, <5>3 DEF AtSearch
      <4> QED BY <4>1, <4>2
    <3> QED BY <1>2, <1>3, <2>1, <2>2, <3>1 DEF Decide, Talk, Dialogue, AttachedInOrder
  <2> QED BY <2>1, <2>4, <2>5
<1> QED BY <1>1, <1>2

\* The verdict is printed when nothing else is unread.
LEMMA FinishKeeps ==
  ASSUME TypeOK, InDialogue, NEW p \in Procs, Finish(p), UNCHANGED ctlVars
  PROVE  Own(p)' /\ (p = cur /\ ~gone => Talk')
<1> USE DEF ctlVars, solverVars
<1>0. Own(p) /\ Talk /\ CallInOrder
  BY OwnParts
<1>3. PICK v \in Verdicts :
        PrintAndGoto(p, IF v = "s SATISFIABLE" THEN <<Line(p, v), Line(p, "v")>>
                                               ELSE <<Line(p, v)>>, "exited")
  BY DEF Finish
<1>1. Own(p)'
  <2>1. pc'[p] \in {"exited", "killed"}
    BY <1>3, Printing
  <2> QED BY <1>0, <2>1 DEF Finish, Own, InOrder, Born, OwnSegments
<1>2. ASSUME p = cur, ~gone PROVE Talk'
  <2>1. Out = <<>> /\ attached = {} /\ ~Dropped(cur)
    BY <1>0, <1>2, CurrentProcess
       DEF Finish, Talk, Dialogue, AttachedInOrder, AtSearch, AtResume
  <2>2. /\ pc'[p] = "exited"
        /\ Out' = Out \o (IF v = "s SATISFIABLE" THEN <<Line(p, v), Line(p, "v")>>
                                                  ELSE <<Line(p, v)>>)
    BY <1>2, <1>3, <2>1, Printing DEF Finish, Out
  <2>3. AtExited'
    <3>1. CASE v = "s SATISFIABLE"
      <4>1. Out' = <<Sent("s SATISFIABLE"), Sent("v")>>
        BY <1>2, <2>1, <2>2, <3>1, Joined DEF Sent
      <4> QED BY <4>1 DEF Finish, AtExited, Sent, Line
    <3>2. CASE v # "s SATISFIABLE"
      <4>1. Out' = <<Sent(v)>>
        BY <1>2, <2>1, <2>2, <3>2, OneLine DEF Sent
      <4> QED BY <4>1 DEF Finish, AtExited, Sent, Line
    <3> QED BY <3>1, <3>2
  <2> QED BY <1>2, <2>1, <2>2, <2>3 DEF Finish, Talk, Dialogue, AttachedInOrder
<1> QED BY <1>1, <1>2

\* A process may be killed at any point.
LEMMA KillKeeps ==
  ASSUME TypeOK, InDialogue, NEW p \in Procs, Alive(p), Goto(p, "killed"),
         UNCHANGED <<stdin, stdout, shm, term, cur, gone, decisions, lastDecisions, forward>>,
         UNCHANGED ctlVars
  PROVE  Own(p)' /\ (p = cur /\ ~gone => Talk')
<1> USE DEF ctlVars
<1>0. Own(p) /\ Talk /\ CallInOrder /\ pc'[p] = "killed"
  BY OwnParts, Going
<1>1. Own(p)'
  BY <1>0 DEF Alive, Own, InOrder, Born, OwnSegments
<1>2. ASSUME p = cur, ~gone PROVE Talk'
  <2>1. AtKilled
    <3>1. pc[cur] \in SolverPCs \ {"unborn", "exited", "killed", "aborted"} /\ Dialogue /\ cur # 0
      BY <1>0, <1>2, CurrentProcess DEF Alive, Talk, TypeOK
    <3>2. CASE Out = <<>>
      BY <3>2 DEF AtKilled
    <3>3. CASE pc[cur] = "askCsr"
      BY <1>2, <3>1, <3>3 DEF Dialogue, AtAskCsr, AtKilled
    <3>4. CASE pc[cur] = "awaitCsr"
      BY <1>2, <3>1, <3>4 DEF Dialogue, AtAwaitCsr, AtKilled
    <3>5. CASE pc[cur] = "awaitAck"
      BY <1>2, <3>1, <3>5
         DEF Dialogue, AtAwaitAck, AtKilled, Rewarded, Reached, Starting, Stepped
    <3>6. CASE pc[cur] = "askScores"
      BY <1>2, <3>1, <3>6 DEF Dialogue, AtAskScores, AtKilled
    <3>7. CASE pc[cur] = "awaitScores"
      BY <1>2, <3>1, <3>7 DEF Dialogue, AtAwaitScores, AtKilled
    <3>8. CASE pc[cur] \notin {"askCsr", "awaitCsr", "awaitAck", "askScores", "awaitScores"}
      <4>1. Out = <<>>
        BY <1>2, <3>1, <3>8
           DEF SolverPCs, Dialogue, AtBoot, AtCreateShm, AtPublish, AtStepDone, AtAwaitForward,
               AtResume, AtSearch
      <4> QED BY <3>2, <4>1
    <3> QED BY <3>3, <3>4, <3>5, <3>6, <3>7, <3>8
  <2>2. AtKilled'
    BY <2>1, SameProgress DEF AtKilled, Out, Sent, Line, Segment
  <2>3. AttachedInOrder'
    BY <1>0, <1>2, SameProgress DEF Talk, AttachedInOrder, In, Out, Segment, Now
  <2> QED BY <1>0, <1>2, <2>2, <2>3 DEF Talk, Dialogue
<1> QED BY <1>1, <1>2

\* SIGXCPU, SIGTERM and a kill from outside: the process dies, or only sets its flag.
LEMMA SignalKeeps ==
  ASSUME TypeOK, InDialogue, NEW p \in Procs,
         CpuSignal(p) \/ Terminated(p) \/ Crash(p), UNCHANGED ctlVars
  PROVE  Own(p)' /\ (p = cur /\ ~gone => Talk')
<1>1. CASE Goto(p, "killed")
  BY <1>1, KillKeeps DEF CpuSignal, Terminated, Crash, solverVars
<1>2. CASE UNCHANGED pc
  <2>1. UNCHANGED <<stdin, stdout, shm, cur, gone, decisions, lastDecisions, forward>>
    BY <1>2 DEF CpuSignal, Terminated, Crash, solverVars
  <2>2. Own(p)'
    BY <1>2, <2>1, OwnParts DEF Own, InOrder, Born, OwnSegments
  <2>3. Talk'
    BY <1>2, <2>1, OwnParts, TalkFrame DEF ctlVars
  <2> QED BY <2>2, <2>3
<1> QED BY <1>1, <1>2 DEF CpuSignal, Terminated, Crash

-----------------------------------------------------------------------------
\* No step of a solver process leaves the dialogue.
LEMMA SolverKeeps ==
  ASSUME TypeOK, InDialogue, NEW p \in Procs, SolverNext(p), UNCHANGED ctlVars
  PROVE  InDialogue'
<1> USE DEF ctlVars
<1>1. Own(p)' /\ (p = cur /\ ~gone => Talk')
  BY BootKeeps, AskCsrKeeps, AwaitCsrKeeps, CreateShmKeeps, PublishKeeps, AwaitAckKeeps,
     StepDoneKeeps, AskScoresKeeps, AwaitScoresKeeps, AwaitForwardKeeps, ReportKeeps,
     DecideKeeps, FinishKeeps, SignalKeeps
     DEF SolverNext, Runs
<1>2. /\ Alive(p) /\ UNCHANGED <<cur, gone, term>>
      /\ \A q \in Procs \ {p} :
           /\ pc'[q] = pc[q] /\ stdin'[q] = stdin[q] /\ stdout'[q] = stdout[q]
           /\ decisions'[q] = decisions[q] /\ lastDecisions'[q] = lastDecisions[q]
           /\ forward'[q] = forward[q]
      /\ \A s : s.pid # p => (s \in shm' <=> s \in shm)
  BY SolverFrame
<1>3. Talk /\ CallInOrder /\ SegmentsOwned /\ \A q \in Procs : InOrder(q) /\ Born(q)
  BY OwnParts DEF InDialogue
<1>4. ASSUME NEW q \in Procs PROVE InOrder(q)' /\ Born(q)'
  <2>1. CASE q = p
    BY <1>1, <2>1 DEF Own
  <2>2. CASE q # p
    BY <1>2, <1>3, <2>2 DEF InOrder, Born
  <2> QED BY <2>1, <2>2
<1>5. SegmentsOwned'
  <2> SUFFICES ASSUME NEW s \in shm'
               PROVE  /\ s.at = decisions'[s.pid]
                      /\ pc'[s.pid] \in {"publish", "awaitAck", "killed"}
    BY DEF SegmentsOwned
  <2>1. CASE s.pid = p
    BY <1>1, <2>1 DEF Own, OwnSegments
  <2>2. CASE s.pid # p
    <3>1. s \in shm /\ s.pid \in Procs \ {p}
      BY <1>2, <2>2 DEF TypeOK, Segments
    <3> QED BY <1>2, <1>3, <3>1 DEF SegmentsOwned
  <2> QED BY <2>1, <2>2
<1>6. CallInOrder'
  <2>1. RaisesOnlyOnCrash'
    BY <1>2, <1>3 DEF CallInOrder, RaisesOnlyOnCrash, Alive
  <2> QED BY <1>2, <1>3, <2>1 DEF CallInOrder
<1>7. Talk'
  <2>1. CASE p = cur /\ ~gone
    BY <1>1, <2>1
  <2>2. CASE p # cur /\ cur \in Procs
    <3>1. Segment(cur) \in shm' <=> Segment(cur) \in shm
      BY <1>2, <2>2 DEF Segment
    <3> QED BY <1>2, <1>3, <2>2, <3>1, TalkFrame
  <2>3. CASE gone
    <3>1. attached = {}
      BY <1>3, <2>3 DEF Talk, AttachedInOrder
    <3> QED BY <1>2, <2>3, <3>1 DEF Talk, AttachedInOrder, Dialogue
  <2>4. CASE cur = 0
    <3>1. attached = {}
      BY <1>3, <2>4 DEF Talk, AttachedInOrder, CallInOrder, Procs
    <3> QED BY <1>2, <2>4, <3>1 DEF Talk, AttachedInOrder, Dialogue
  <2> QED BY <2>1, <2>2, <2>3, <2>4 DEF TypeOK, Procs
<1> QED BY <1>4, <1>5, <1>6, <1>7 DEF InDialogue, Talk

-----------------------------------------------------------------------------
\* What the controller can hear, and where the solver then is.
CsrReadyHeard ==
  /\ Out = <<Sent("csrReady")>>
  /\ \/ pc[cur] = "awaitCsr" /\ csr = NoCount /\ Limit # 0 /\ Rewarded /\ In = <<>>
     \/ pc[cur] = "killed"

ShmNameHeard ==
  /\ getCsr
  /\ \/ /\ pc[cur] = "awaitAck" /\ csr = NoCount /\ Limit # 0 /\ Rewarded /\ In = <<>>
        /\ Segment(cur) \in shm /\ Out = <<Sent("shmName"), Sent("csrWritten")>>
     \/ pc[cur] = "killed" /\ Out = <<Sent("shmName"), Sent("csrWritten")>>
     \/ pc[cur] = "exited" /\ Out = <<Sent("shmName")>>

CsrWrittenHeard ==
  /\ shmName = Segment(cur)
  /\ Out = <<Sent("csrWritten")>>
  /\ \/ /\ pc[cur] = "awaitAck" /\ csr = NoCount /\ Limit # 0 /\ Rewarded /\ In = <<>>
        /\ Segment(cur) \in shm /\ getCsr
     \/ pc[cur] = "killed"

ActivityStartHeard ==
  /\ Out = <<Sent("activityStart")>>
  /\ \/ pc[cur] = "awaitScores" /\ Limit # 0 /\ In = <<>> /\ Idle
     \/ pc[cur] = "killed"

RewardHeard ==
  \/ /\ csr = NoCount /\ Limit # 0 /\ Reached /\ Stepped
     /\ \/ pc[cur] = "askCsr" /\ Out = <<Sent("reward")>>
        \/ /\ pc[cur] = "awaitCsr" /\ In = <<>>
           /\ Out = <<Sent("reward"), Sent("csrReady")>>
  \/ /\ pc[cur] = "killed"
     /\ Out = <<Sent("reward")>> \/ Out = <<Sent("reward"), Sent("csrReady")>>

StepDoneHeard ==
  /\ Complete
  /\ \/ Out = <<Sent("stepDone")>>
     \/ Out = <<Sent("stepDone"), Sent("activityStart")>>
  /\ \/ pc[cur] = "askScores" /\ Limit # 0 /\ Out = <<Sent("stepDone")>>
     \/ /\ pc[cur] = "awaitScores" /\ Limit # 0 /\ In = <<>>
        /\ Out = <<Sent("stepDone"), Sent("activityStart")>>
     \/ pc[cur] = "killed"

VerdictHeard ==
  /\ pc[cur] = "exited"
  /\ Tail(Out) = <<>> \/ Tail(Out) = <<Sent("v")>>

Heard(t) ==
  /\ t = "csrReady" => CsrReadyHeard
  /\ t = "shmName" => ShmNameHeard
  /\ t = "csrWritten" => CsrWrittenHeard
  /\ t = "activityStart" => ActivityStartHeard
  /\ t = "reward" => RewardHeard
  /\ t = "stepDone" => StepDoneHeard
  /\ t \in Verdicts \cup {"v"} => VerdictHeard

\* A tag determines which of these it is.
LEMMA HeardTags ==
  /\ CsrReadyHeard => Heard("csrReady")
  /\ ShmNameHeard => Heard("shmName")
  /\ CsrWrittenHeard => Heard("csrWritten")
  /\ ActivityStartHeard => Heard("activityStart")
  /\ RewardHeard => Heard("reward")
  /\ StepDoneHeard => Heard("stepDone")
  /\ VerdictHeard => \A v \in Verdicts \cup {"v"} : Heard(v)
  BY DEF Heard, Verdicts

\* The first unread line tells where the solver is, and carries its count.
LEMMA Heads ==
  ASSUME TypeOK, InDialogue, ~gone, cur \in Procs, Out # <<>>
  PROVE  Head(Out).at = Now /\ Heard(Head(Out).tag)
<1>1. /\ pc[cur] \in SolverPCs \ {"unborn", "aborted"}
      /\ Dialogue /\ cur # 0 /\ InOrder(cur)
  BY DEF TypeOK, InDialogue, Born, InOrder, Procs
<1> DEFINE Is(t) == Head(Out) = Sent(t)
<1>2. ASSUME NEW t, Is(t), Heard(t) PROVE Head(Out).at = Now /\ Heard(Head(Out).tag)
  <2>1. Head(Out).tag = t /\ Head(Out).at = Now
    BY <1>2, SentLine
  <2> QED BY <1>2, <2>1
<1>3. CASE pc[cur] = "askCsr"
  <2>1. AtAskCsr
    BY <1>1, <1>3 DEF Dialogue
  <2>2. Out = <<Sent("reward")>> /\ Reached /\ Stepped /\ csr = NoCount /\ Limit # 0
    BY <2>1 DEF AtAskCsr
  <2>3. Is("reward")
    BY <2>2, OneLine
  <2>4. RewardHeard
    BY <1>3, <2>2, <2>3 DEF RewardHeard
  <2> QED BY <1>2, <2>3, <2>4, HeardTags
<1>4. CASE pc[cur] = "awaitCsr"
  <2>1. AtAwaitCsr
    BY <1>1, <1>4 DEF Dialogue
  <2>2. CASE Rewarded /\ Out = <<Sent("csrReady")>> /\ In = <<>>
    <3>1. Is("csrReady")
      BY <2>2, OneLine
    <3>2. CsrReadyHeard
      BY <1>4, <2>1, <2>2, <3>1 DEF AtAwaitCsr, CsrReadyHeard
    <3> QED BY <1>2, <3>1, <3>2, HeardTags
  <2>3. CASE /\ Reached /\ Stepped /\ reward = NoCount /\ In = <<>>
             /\ Out = <<Sent("reward"), Sent("csrReady")>>
    <3>1. Is("reward")
      BY <2>3, TwoLines
    <3>2. RewardHeard
      BY <1>4, <2>1, <2>3, <3>1 DEF AtAwaitCsr, RewardHeard
    <3> QED BY <1>2, <3>1, <3>2, HeardTags
  <2> QED BY <2>1, <2>2, <2>3 DEF AtAwaitCsr
<1>5. CASE pc[cur] = "awaitAck"
  <2>1. AtAwaitAck
    BY <1>1, <1>5 DEF Dialogue
  <2>2. /\ In = <<>> /\ Rewarded /\ getCsr /\ Segment(cur) \in shm /\ Limit # 0 /\ csr = NoCount
        /\ \/ Out = <<Sent("shmName"), Sent("csrWritten")>>
           \/ Out = <<Sent("csrWritten")>> /\ shmName = Segment(cur)
    BY <2>1 DEF AtAwaitAck
  <2>3. CASE Out = <<Sent("shmName"), Sent("csrWritten")>>
    <3>1. Is("shmName")
      BY <2>3, TwoLines
    <3>2. ShmNameHeard
      BY <1>5, <2>2, <2>3, <3>1 DEF ShmNameHeard
    <3> QED BY <1>2, <3>1, <3>2, HeardTags
  <2>4. CASE Out = <<Sent("csrWritten")>> /\ shmName = Segment(cur)
    <3>1. Is("csrWritten")
      BY <2>4, OneLine
    <3>2. CsrWrittenHeard
      BY <1>5, <2>2, <2>4, <3>1 DEF CsrWrittenHeard
    <3> QED BY <1>2, <3>1, <3>2, HeardTags
  <2> QED BY <2>2, <2>3, <2>4
<1>6. CASE pc[cur] = "askScores"
  <2>1. AtAskScores
    BY <1>1, <1>6 DEF Dialogue
  <2>2. Complete /\ Out = <<Sent("stepDone")>> /\ Limit # 0
    BY <2>1 DEF AtAskScores
  <2>3. Is("stepDone")
    BY <2>2, OneLine
  <2>4. StepDoneHeard
    BY <1>6, <2>2, <2>3 DEF StepDoneHeard
  <2> QED BY <1>2, <2>3, <2>4, HeardTags
<1>7. CASE pc[cur] = "awaitScores"
  <2>1. AtAwaitScores
    BY <1>1, <1>7 DEF Dialogue
  <2>2. CASE Complete /\ Out = <<Sent("stepDone"), Sent("activityStart")>>
    <3>1. Is("stepDone")
      BY <2>2, TwoLines
    <3>2. StepDoneHeard
      BY <1>1, <1>7, <2>1, <2>2, <3>1 DEF AtAwaitScores, Resumed, Running, StepDoneHeard
    <3> QED BY <1>2, <3>1, <3>2, HeardTags
  <2>3. CASE Idle /\ Out = <<Sent("activityStart")>>
    <3>1. Is("activityStart")
      BY <2>3, OneLine
    <3>2. In = <<>> /\ Limit # 0
      BY <2>1, <2>3 DEF AtAwaitScores
    <3>3. ActivityStartHeard
      BY <1>7, <2>3, <3>1, <3>2 DEF ActivityStartHeard
    <3> QED BY <1>2, <3>1, <3>3, HeardTags
  <2> QED BY <2>1, <2>2, <2>3 DEF AtAwaitScores
<1>8. CASE pc[cur] = "exited"
  <2>1. AtExited
    BY <1>1, <1>8 DEF Dialogue
  <2>2. CASE \E v \in Verdicts \cup {"v"} : Out = <<Sent(v)>>
    <3>1. PICK v \in Verdicts \cup {"v"} : Out = <<Sent(v)>>
      BY <2>2
    <3>2. Is(v) /\ Tail(Out) = <<>>
      BY <3>1, OneLine
    <3>3. VerdictHeard
      BY <1>8, <3>1, <3>2 DEF VerdictHeard
    <3> QED BY <1>2, <3>2, <3>3, HeardTags
  <2>3. CASE Out = <<Sent("s SATISFIABLE"), Sent("v")>>
    <3>1. Is("s SATISFIABLE") /\ Tail(Out) = <<Sent("v")>>
      BY <2>3, TwoLines
    <3>2. VerdictHeard
      BY <1>8, <3>1 DEF VerdictHeard
    <3>3. Heard("s SATISFIABLE")
      BY <3>2, HeardTags DEF Verdicts
    <3> QED BY <1>2, <3>1, <3>3
  <2>4. CASE Out = <<Sent("shmName")>> /\ getCsr
    <3>1. Is("shmName")
      BY <2>4, OneLine
    <3>2. ShmNameHeard
      BY <1>8, <2>4, <3>1 DEF ShmNameHeard
    <3> QED BY <1>2, <3>1, <3>2, HeardTags
  <2> QED BY <2>1, <2>2, <2>3, <2>4 DEF AtExited
<1>9. CASE pc[cur] = "killed"
  <2>1. AtKilled
    BY <1>1, <1>9 DEF Dialogue
  <2>2. CASE Out = <<Sent("reward")>> \/ Out = <<Sent("reward"), Sent("csrReady")>>
    <3>1. Is("reward")
      BY <2>2, OneLine, TwoLines
    <3>2. RewardHeard
      BY <1>9, <2>2, <3>1 DEF RewardHeard
    <3> QED BY <1>2, <3>1, <3>2, HeardTags
  <2>3. CASE Out = <<Sent("csrReady")>>
    <3>1. Is("csrReady")
      BY <2>3, OneLine
    <3>2. CsrReadyHeard
      BY <1>9, <2>3, <3>1 DEF CsrReadyHeard
    <3> QED BY <1>2, <3>1, <3>2, HeardTags
  <2>4. CASE Out = <<Sent("activityStart")>>
    <3>1. Is("activityStart")
      BY <2>4, OneLine
    <3>2. ActivityStartHeard
      BY <1>9, <2>4, <3>1 DEF ActivityStartHeard
    <3> QED BY <1>2, <3>1, <3>2, HeardTags
  <2>5. CASE Out = <<Sent("shmName"), Sent("csrWritten")>> /\ getCsr
    <3>1. Is("shmName")
      BY <2>5, TwoLines
    <3>2. ShmNameHeard
      BY <1>9, <2>5, <3>1 DEF ShmNameHeard
    <3> QED BY <1>2, <3>1, <3>2, HeardTags
  <2>6. CASE Out = <<Sent("csrWritten")>> /\ shmName = Segment(cur)
    <3>1. Is("csrWritten")
      BY <2>6, OneLine
    <3>2. CsrWrittenHeard
      BY <1>9, <2>6, <3>1 DEF CsrWrittenHeard
    <3> QED BY <1>2, <3>1, <3>2, HeardTags
  <2>7. CASE /\ Complete
             /\ \/ Out = <<Sent("stepDone")>>
                \/ Out = <<Sent("stepDone"), Sent("activityStart")>>
    <3>1. Is("stepDone")
      BY <2>7, OneLine, TwoLines
    <3>2. StepDoneHeard
      BY <1>9, <2>7, <3>1 DEF StepDoneHeard
    <3> QED BY <1>2, <3>1, <3>2, HeardTags
  <2> QED BY <2>1, <2>2, <2>3, <2>4, <2>5, <2>6, <2>7 DEF AtKilled
<1>10. CASE pc[cur] \notin {"askCsr", "awaitCsr", "awaitAck", "askScores", "awaitScores",
                            "exited", "killed"}
  <2>1. Out = <<>>
    BY <1>1, <1>10
       DEF SolverPCs, Dialogue, AtBoot, AtCreateShm, AtPublish, AtStepDone, AtAwaitForward,
           AtResume, AtSearch
  <2> QED BY <2>1
<1> QED BY <1>3, <1>4, <1>5, <1>6, <1>7, <1>8, <1>9, <1>10

-----------------------------------------------------------------------------
\* A step inside a call touches the pipes of the current process only.
LEMMA WorksFrame ==
  ASSUME TypeOK, InDialogue, Works, UNCHANGED solverVars
  PROVE  /\ cur \in Procs /\ ~gone /\ call # "none" /\ pc[cur] # "unborn" /\ cur # 0
         /\ UNCHANGED <<pc, shm, cur, gone, decisions, lastDecisions, forward>>
         /\ Now' = Now
         /\ \A q \in Procs \ {cur} : stdin'[q] = stdin[q] /\ stdout'[q] = stdout[q]
         /\ Segment(cur)' = Segment(cur)
<1>1. ~gone /\ call # "none"
  <2>1. attached # {} => call # "none"
    BY DEF InDialogue, AttachedInOrder
  <2> QED BY <2>1 DEF Works, OnCsrReady, OnShmName, OnCsrWritten, Ack, OnActivityStart, OnReward,
                      OnStepDone, StartIgnores, OnVerdict, OnEof, Reads
<1>2. cur \in Procs /\ pc[cur] # "unborn" /\ cur # 0
  BY <1>1 DEF InDialogue, CallInOrder, Born, TypeOK, Procs
<1>3. UNCHANGED <<pc, shm, cur, gone, decisions, lastDecisions, forward>>
  BY DEF Works, OnCsrReady, OnShmName, OnCsrWritten, Ack, OnActivityStart, OnReward,
         OnStepDone, StartIgnores, OnVerdict, OnEof, solverVars
<1>4. Now' = Now /\ Segment(cur)' = Segment(cur)
  BY <1>3 DEF Now, Segment
<1>5. \A q \in Procs \ {cur} : stdout'[q] = stdout[q]
  BY <1>2 DEF TypeOK, Works, OnCsrReady, OnShmName, OnCsrWritten, Ack, OnActivityStart, OnReward,
              OnStepDone, StartIgnores, OnVerdict, OnEof, Reads
<1>6. \A q \in Procs \ {cur} : stdin'[q] = stdin[q]
  BY <1>2 DEF TypeOK, Works, OnCsrReady, OnShmName, OnCsrWritten, Ack, OnActivityStart, OnReward,
              OnStepDone, StartIgnores, OnVerdict, OnEof, Writes, BrokenPipe
<1> QED BY <1>1, <1>2, <1>3, <1>4, <1>5, <1>6

\* So it keeps the invariant if it keeps what concerns that process and the call.
LEMMA WorksOthers ==
  ASSUME TypeOK, InDialogue, Works, UNCHANGED solverVars, InOrder(cur)', CallInOrder', Talk'
  PROVE  InDialogue'
<1> USE WorksFrame
<1>1. \A p \in Procs : InOrder(p)'
  <2> TAKE p \in Procs
  <2>1. CASE p = cur
    BY <2>1 DEF InOrder
  <2>2. CASE p # cur
    BY <2>2 DEF InDialogue, InOrder
  <2> QED BY <2>1, <2>2
<1>2. \A p \in Procs : Born(p)'
  BY DEF InDialogue, Born
<1>3. SegmentsOwned'
  BY DEF InDialogue, SegmentsOwned
<1> QED BY <1>1, <1>2, <1>3 DEF InDialogue, Talk

\* A line is read: what Heads says of it, and what is left.
LEMMA Hearing ==
  ASSUME TypeOK, InDialogue, NEW tags, Reads(tags)
  PROVE  /\ Head(Out).tag \in tags /\ Heard(Head(Out).tag) /\ Head(Out).at = Now
         /\ cur \in Procs /\ ~gone /\ call # "none" /\ attached = {}
         /\ stdout'[cur] = Tail(Out)
         /\ Talk /\ CallInOrder /\ InOrder(cur) /\ ~stopped
<1>1. ~gone /\ call # "none" /\ attached = {} /\ Out # <<>> /\ Head(Out).tag \in tags
  BY DEF Reads, Out
<1>2. cur \in Procs /\ ~stopped
  BY <1>1 DEF InDialogue, CallInOrder
<1>3. stdout'[cur] = Tail(Out)
  BY <1>2 DEF Reads, Out, TypeOK
<1> QED BY <1>1, <1>2, <1>3, Heads DEF InDialogue, Talk

\* An exception: the call is over, and the solver had been killed.
LEMMA Raised ==
  ASSUME TypeOK, CallInOrder, cur \in Procs, pc[cur] = "killed", UNCHANGED <<pc, cur>>, Raise
  PROVE  CallInOrder'
  BY DEF CallInOrder, RaisesOnlyOnCrash, Raise, Return, Nothing, Advances

\* The call is over because the solver is.
LEMMA Closed ==
  ASSUME TypeOK, CallInOrder, cur \in Procs, UNCHANGED <<pc, cur>>,
         call' = "none", goAhead' = 0, ret'.kind = "done"
  PROVE  CallInOrder'
  BY DEF CallInOrder, RaisesOnlyOnCrash, Advances

\* The controller does nothing about a line but to go on.
LEMMA Continued ==
  ASSUME TypeOK, CallInOrder, UNCHANGED <<pc, cur, call, ret, goAhead, stopped>>
  PROVE  CallInOrder'
  BY DEF CallInOrder, RaisesOnlyOnCrash

\* With the process killed, what remains to be read is all that counts.
LEMMA KilledTalk ==
  ASSUME cur' \in Procs, pc'[cur'] = "killed", attached' = {}, AtKilled'
  PROVE  Talk'
  BY DEF Talk, AttachedInOrder, Dialogue

\* The solver waits for the answer that is written, or is dead.
LEMMA OnCsrReadyKeeps ==
  ASSUME TypeOK, InDialogue, OnCsrReady, UNCHANGED solverVars
  PROVE  InDialogue'
<1>1. /\ Head(Out).tag = "csrReady" /\ Heard(Head(Out).tag) /\ Out' = Tail(Out)
      /\ cur \in Procs /\ attached = {} /\ ~gone /\ cur # 0
      /\ Talk /\ CallInOrder /\ InOrder(cur)
      /\ UNCHANGED <<pc, shm, cur, gone, decisions, lastDecisions, forward, attached, shmName,
                     stopped>>
  BY Hearing, WorksFrame DEF Works, OnCsrReady, Out
<1>2. CsrReadyHeard
  BY <1>1 DEF Heard
<1>3. Out' = <<>>
  BY <1>1, <1>2, OneLine DEF CsrReadyHeard
<1>4. CASE pc[cur] = "killed"
  <2>1. Raise /\ UNCHANGED stdin
    BY <1>4 DEF OnCsrReady, Writes, BrokenPipe, Dead
  <2>2. AtKilled' /\ Talk'
    BY <1>1, <1>3, <1>4, KilledTalk DEF AtKilled
  <2>3. InOrder(cur)'
    BY <1>1, <2>1 DEF InOrder
  <2> QED BY <1>1, <1>4, <2>1, <2>2, <2>3, Raised, WorksOthers DEF Works
<1>5. CASE pc[cur] # "killed"
  <2> DEFINE r == Request(IF getCsr THEN "csrYes" ELSE "csrNo", 0)
  <2>1. /\ pc[cur] = "awaitCsr" /\ csr = NoCount /\ Limit # 0 /\ Rewarded
        /\ stdin[cur] = <<>>
    BY <1>2, <1>5 DEF CsrReadyHeard, In
  <2>2. Continue /\ stdin' = [stdin EXCEPT ![cur] = @ \o <<r>>]
    BY <2>1 DEF OnCsrReady, Writes, BrokenPipe, Dead
  <2>3. In' = <<r>>
    BY <1>1, <2>1, <2>2, OneLine DEF In, TypeOK
  <2>4. InOrder(cur)'
    BY <1>1, <2>1, <2>3 DEF InOrder, In
  <2>5. Rewarded' /\ csr' = NoCount /\ getCsr' = getCsr
    BY <1>1, <2>1, <2>2, SameProgress DEF Continue
  <2>6. AtAwaitCsr'
    BY <1>3, <2>1, <2>3, <2>5 DEF AtAwaitCsr
  <2>7. Talk'
    BY <1>1, <2>1, <2>6 DEF Talk, AttachedInOrder, Dialogue
  <2> QED BY <1>1, <2>2, <2>4, <2>7, Continued, WorksOthers DEF Works, Continue
<1> QED BY <1>4, <1>5

\* The name is the current segment's; the call asked for the graph.
LEMMA OnShmNameKeeps ==
  ASSUME TypeOK, InDialogue, OnShmName, UNCHANGED solverVars
  PROVE  InDialogue'
<1>1. /\ Head(Out).tag = "shmName" /\ Heard(Head(Out).tag) /\ Out' = Tail(Out)
      /\ Head(Out).at = Now
      /\ cur \in Procs /\ attached = {} /\ ~gone /\ cur # 0
      /\ Talk /\ CallInOrder /\ InOrder(cur)
      /\ UNCHANGED <<pc, stdin, shm, cur, gone, decisions, lastDecisions, forward, attached,
                     stopped>>
  BY Hearing, WorksFrame DEF Works, OnShmName, Out
<1>2. ShmNameHeard
  BY <1>1 DEF Heard
<1>3. Continue /\ shmName' = Segment(cur)
  BY <1>1, <1>2 DEF OnShmName, ShmNameHeard, Out, Now, Segment
<1>4. /\ Segment(cur)' = Segment(cur) /\ Sent("csrWritten")' = Sent("csrWritten")
      /\ In' = In
  BY <1>1 DEF Segment, Sent, Line, In
<1>5. ASSUME pc[cur] = "awaitAck" PROVE Talk'
  <2>1. /\ csr = NoCount /\ Limit # 0 /\ Rewarded /\ In = <<>> /\ getCsr
        /\ Segment(cur) \in shm /\ Out' = <<Sent("csrWritten")>>
    BY <1>1, <1>2, <1>5, TwoLines DEF ShmNameHeard
  <2>2. Rewarded' /\ csr' = NoCount /\ getCsr'
    BY <1>1, <1>3, <2>1, SameProgress DEF Continue
  <2>3. AtAwaitAck'
    BY <1>1, <1>3, <1>4, <2>1, <2>2 DEF AtAwaitAck
  <2> QED BY <1>1, <1>5, <2>3 DEF Talk, AttachedInOrder, Dialogue
<1>6. ASSUME pc[cur] = "killed" PROVE Talk'
  <2>1. Out' = <<Sent("csrWritten")>>
    BY <1>1, <1>2, <1>6, TwoLines DEF ShmNameHeard
  <2>2. AtKilled'
    BY <1>3, <1>4, <2>1 DEF AtKilled
  <2> QED BY <1>1, <1>6, <2>2, KilledTalk
<1>7. ASSUME pc[cur] = "exited" PROVE Talk'
  <2>1. Out' = <<>>
    BY <1>1, <1>2, <1>7, OneLine DEF ShmNameHeard
  <2>2. AtExited'
    BY <2>1 DEF AtExited
  <2> QED BY <1>1, <1>7, <2>2 DEF Talk, AttachedInOrder, Dialogue
<1>8. Talk'
  BY <1>2, <1>5, <1>6, <1>7 DEF ShmNameHeard
<1>9. InOrder(cur)'
  BY <1>1 DEF InOrder
<1> QED BY <1>1, <1>3, <1>8, <1>9, Continued, WorksOthers DEF Works, Continue

\* The segment that is opened is the one whose size was printed.
LEMMA OnCsrWrittenKeeps ==
  ASSUME TypeOK, InDialogue, OnCsrWritten, UNCHANGED solverVars
  PROVE  InDialogue'
<1>1. /\ Head(Out).tag = "csrWritten" /\ Heard(Head(Out).tag) /\ Out' = Tail(Out)
      /\ cur \in Procs /\ attached = {} /\ ~gone /\ cur # 0 /\ call # "none"
      /\ Talk /\ CallInOrder /\ InOrder(cur)
      /\ UNCHANGED <<pc, stdin, shm, cur, gone, decisions, lastDecisions, forward, shmName,
                     stopped>>
  BY Hearing, WorksFrame DEF Works, OnCsrWritten, Out
<1>2. CsrWrittenHeard
  BY <1>1 DEF Heard
<1>3. Out' = <<>> /\ shmName = Segment(cur)
  BY <1>1, <1>2, OneLine DEF CsrWrittenHeard
<1>4. InOrder(cur)'
  BY <1>1 DEF InOrder
<1>5. Segment(cur)' = Segment(cur) /\ Now' = Now /\ In' = In /\ Segment(cur).at = Now
  BY <1>1 DEF Segment, Now, In
<1>6. CASE ~(getCsr /\ shmName \in shm)
  <2>1. Raise /\ UNCHANGED attached
    BY <1>6 DEF OnCsrWritten
  <2>2. pc[cur] = "killed"
    BY <1>2, <1>3, <1>6 DEF CsrWrittenHeard
  <2>3. AtKilled' /\ Talk'
    BY <1>1, <1>3, <2>1, <2>2, KilledTalk DEF AtKilled
  <2> QED BY <1>1, <1>4, <2>1, <2>2, <2>3, Raised, WorksOthers DEF Works
<1>7. CASE getCsr /\ shmName \in shm
  <2>1. attached' = {Segment(cur)} /\ csr' = Now /\ UNCHANGED <<call, ret, getCsr, goAhead, reward>>
    BY <1>3, <1>5, <1>7 DEF OnCsrWritten
  <2>2. pc[cur] = "awaitAck" => /\ Limit # 0 /\ Rewarded /\ In = <<>>
                                /\ Segment(cur) \in shm /\ getCsr
    BY <1>2 DEF CsrWrittenHeard
  <2>3. pc[cur] \in {"awaitAck", "killed"}
    BY <1>2 DEF CsrWrittenHeard
  <2>4. Rewarded' <=> Rewarded
    BY <1>1, <2>1 DEF Rewarded, Reached, Starting, Stepped, Asked, Now
  <2>5. AttachedInOrder'
    BY <1>1, <1>3, <1>5, <1>7, <2>1, <2>2, <2>3 DEF AttachedInOrder
  <2>6. pc[cur] = "awaitAck" => AtAwaitAck'
    BY <1>1, <1>3, <1>5, <2>1, <2>2, <2>4 DEF AtAwaitAck
  <2>7. AtKilled'
    BY <1>3 DEF AtKilled
  <2>8. Talk'
    BY <1>1, <2>3, <2>5, <2>6, <2>7 DEF Talk, Dialogue
  <2> QED BY <1>1, <1>4, <2>1, <2>8, Continued, WorksOthers DEF Works
<1> QED BY <1>6, <1>7

\* The solver waits for the acknowledgement; start() returns the graph of decision 0.
LEMMA AckKeeps ==
  ASSUME TypeOK, InDialogue, Ack, UNCHANGED solverVars
  PROVE  InDialogue'
<1>1. /\ cur \in Procs /\ ~gone /\ cur # 0 /\ call # "none" /\ ~stopped
      /\ Talk /\ CallInOrder /\ InOrder(cur)
      /\ UNCHANGED <<pc, stdout, shm, cur, gone, decisions, lastDecisions, forward, shmName,
                     stopped>>
      /\ Now' = Now
  BY WorksFrame DEF Works, Ack, InDialogue, Talk, CallInOrder
<1>2. /\ attached = {Segment(cur)} /\ Segment(cur) \in shm /\ csr = Now /\ Out = <<>>
      /\ (pc[cur] = "awaitAck" /\ In = <<>>) \/ pc[cur] = "killed"
      /\ attached' = {} /\ Out' = <<>>
  BY <1>1 DEF Ack, Talk, AttachedInOrder, Out
<1>3. CASE pc[cur] = "killed"
  <2>1. Raise /\ UNCHANGED stdin
    BY <1>3 DEF Ack, Writes, BrokenPipe, Dead
  <2>2. AtKilled' /\ Talk'
    BY <1>1, <1>2, <1>3, KilledTalk DEF AtKilled
  <2>3. InOrder(cur)'
    BY <1>1, <2>1 DEF InOrder
  <2> QED BY <1>1, <1>3, <2>1, <2>2, <2>3, Raised, WorksOthers DEF Works
<1>4. CASE pc[cur] = "awaitAck"
  <2>1. /\ stdin' = [stdin EXCEPT ![cur] = @ \o <<Request("ack", 0)>>]
        /\ IF call = "start"
           THEN Return([Nothing EXCEPT !.kind = "open", !.csr = csr, !.reward = 0])
           ELSE Continue
    BY <1>4 DEF Ack, Writes, BrokenPipe, Dead
  <2>2. In' = <<Request("ack", 0)>>
    BY <1>1, <1>2, <1>4, <2>1, OneLine DEF In, TypeOK
  <2>3. InOrder(cur)'
    BY <1>1, <1>4, <2>2 DEF InOrder, In
  <2>4. AtAwaitAck
    BY <1>1, <1>4 DEF Talk, Dialogue
  <2>5. Limit # 0 /\ Rewarded /\ getCsr
    <3>1. In = <<>> /\ In # <<Request("ack", 0)>>
      BY <1>2, <1>4, OneLine
    <3> QED BY <2>4, <3>1 DEF AtAwaitAck
  <2>6. CASE call = "start"
    <3>1. Starting /\ lastDecisions[cur] = Now
      BY <2>5, <2>6 DEF Rewarded, Reached, Stepped
    <3>2. /\ call' = "none" /\ goAhead' = 0 /\ ret'.kind = "open" /\ ret'.csr = Now
          /\ ret'.reward = 0
      BY <1>2, <2>1, <2>6 DEF Return, Nothing
    <3>3. CallInOrder'
      BY <1>1, <3>1, <3>2, BoundsAssumption
         DEF CallInOrder, RaisesOnlyOnCrash, Starting, Advances, Count
    <3>4. Idle' /\ Now' = 0
      BY <1>1, <3>1, <3>2 DEF Idle, Starting
    <3>5. AtAwaitAck'
      BY <1>2, <2>2, <2>5, <3>4 DEF AtAwaitAck
    <3>6. Talk'
      BY <1>1, <1>2, <1>4, <3>5 DEF Talk, AttachedInOrder, Dialogue
    <3> QED BY <2>3, <3>3, <3>6, WorksOthers DEF Works
  <2>7. CASE call # "start"
    <3>1. Continue /\ call = "step"
      BY <1>1, <2>1, <2>7 DEF TypeOK
    <3>2. Complete
      BY <1>2, <2>5, <3>1 DEF Complete
    <3>3. Complete'
      BY <1>1, <3>1, <3>2
         DEF Continue, Complete, Rewarded, Reached, Starting, Stepped, Asked, Now, Ack
    <3>4. AtAwaitAck'
      BY <1>2, <2>2, <2>5, <3>3 DEF AtAwaitAck
    <3>5. Talk'
      BY <1>1, <1>2, <1>4, <3>4 DEF Talk, AttachedInOrder, Dialogue
    <3> QED BY <1>1, <2>3, <3>1, <3>5, Continued, WorksOthers DEF Works, Continue
  <2> QED BY <2>6, <2>7
<1> QED BY <1>2, <1>3, <1>4

\* The solver waits for scores; its answer is the go_ahead of this step.
LEMMA OnActivityStartKeeps ==
  ASSUME TypeOK, InDialogue, OnActivityStart, UNCHANGED solverVars
  PROVE  InDialogue'
<1>1. /\ Head(Out).tag = "activityStart" /\ Heard(Head(Out).tag) /\ Out' = Tail(Out)
      /\ cur \in Procs /\ attached = {} /\ ~gone /\ cur # 0 /\ call = "step"
      /\ Talk /\ CallInOrder /\ InOrder(cur)
      /\ UNCHANGED <<pc, shm, cur, gone, decisions, lastDecisions, forward, attached, shmName,
                     stopped>>
  BY Hearing, WorksFrame DEF Works, OnActivityStart, Out
<1>2. ActivityStartHeard
  BY <1>1 DEF Heard
<1>3. Out' = <<>>
  BY <1>1, <1>2, OneLine DEF ActivityStartHeard
<1>4. CASE pc[cur] = "killed"
  <2>1. Raise /\ UNCHANGED stdin
    BY <1>4 DEF OnActivityStart, Writes, BrokenPipe, Dead
  <2>2. AtKilled' /\ Talk'
    BY <1>1, <1>3, <1>4, KilledTalk DEF AtKilled
  <2>3. InOrder(cur)'
    BY <1>1, <2>1 DEF InOrder
  <2> QED BY <1>1, <1>4, <2>1, <2>2, <2>3, Raised, WorksOthers DEF Works
<1>5. CASE pc[cur] # "killed"
  <2>1. pc[cur] = "awaitScores" /\ Limit # 0 /\ stdin[cur] = <<>> /\ Idle
    BY <1>2, <1>5 DEF ActivityStartHeard, In
  <2>2. Continue /\ stdin' = [stdin EXCEPT ![cur] = @ \o ScoresAndForward]
    BY <2>1 DEF OnActivityStart, Writes, BrokenPipe, Dead
  <2>3. In' = Answer(goAhead)
    <3>1. ScoresAndForward = Answer(goAhead)
      BY DEF ScoresAndForward, Answer, Advance
    <3>2. <<>> \o Answer(goAhead) = Answer(goAhead)
      BY Joined DEF Answer
    <3> QED BY <1>1, <2>1, <2>2, <3>1, <3>2 DEF In, TypeOK
  <2>4. goAhead \in Advances /\ goAhead' = goAhead
    BY <1>1, <2>2 DEF CallInOrder, Continue
  <2>5. InOrder(cur)'
    BY <1>1, <2>1, <2>3, <2>4 DEF InOrder, In
  <2>6. Resumed
    BY <1>1, <2>1 DEF Idle, CallInOrder, Resumed, Running, Starting
  <2>7. Resumed'
    BY <1>1, <2>2, <2>6 DEF Continue, Resumed, Running, Now
  <2>8. AtAwaitScores'
    BY <1>3, <2>1, <2>3, <2>4, <2>7 DEF AtAwaitScores
  <2>9. Talk'
    BY <1>1, <2>1, <2>8 DEF Talk, AttachedInOrder, Dialogue
  <2> QED BY <1>1, <2>2, <2>5, <2>9, Continued, WorksOthers DEF Works, Continue
<1> QED BY <1>4, <1>5

\* The reward read is the one of the boundary.
LEMMA OnRewardKeeps ==
  ASSUME TypeOK, InDialogue, OnReward, UNCHANGED solverVars
  PROVE  InDialogue'
<1>1. /\ Head(Out).tag = "reward" /\ Heard(Head(Out).tag) /\ Out' = Tail(Out)
      /\ Head(Out).at = Now /\ reward' = Head(Out).at
      /\ cur \in Procs /\ attached = {} /\ ~gone /\ cur # 0 /\ call = "step"
      /\ Talk /\ CallInOrder /\ InOrder(cur)
      /\ UNCHANGED <<pc, stdin, shm, cur, gone, decisions, lastDecisions, forward, attached,
                     shmName, stopped, call, ret, getCsr, goAhead, csr>>
  BY Hearing, WorksFrame DEF Works, OnReward, Out
<1>2. RewardHeard
  BY <1>1 DEF Heard
<1>3. InOrder(cur)' /\ In' = In /\ Sent("csrReady")' = Sent("csrReady")
  BY <1>1 DEF InOrder, In, Sent, Line
<1>4. Reached /\ Stepped => Rewarded'
  BY <1>1 DEF Rewarded, Reached, Starting, Stepped, Asked, Now
<1>5. ASSUME pc[cur] = "askCsr" PROVE Talk'
  <2>1. Out = <<Sent("reward")>> /\ Limit # 0 /\ csr = NoCount /\ Reached /\ Stepped
    BY <1>2, <1>5 DEF RewardHeard
  <2>2. Out' = <<>>
    BY <1>1, <2>1, OneLine
  <2>3. AtAskCsr'
    BY <1>1, <1>4, <2>1, <2>2 DEF AtAskCsr
  <2> QED BY <1>1, <1>5, <2>3 DEF Talk, AttachedInOrder, Dialogue
<1>6. ASSUME pc[cur] = "awaitCsr" PROVE Talk'
  <2>1. /\ Out = <<Sent("reward"), Sent("csrReady")>> /\ In = <<>>
        /\ Limit # 0 /\ csr = NoCount /\ Reached /\ Stepped
    BY <1>2, <1>6 DEF RewardHeard
  <2>2. Out' = <<Sent("csrReady")>>
    BY <1>1, <2>1, TwoLines
  <2>3. AtAwaitCsr'
    BY <1>1, <1>3, <1>4, <2>1, <2>2 DEF AtAwaitCsr
  <2> QED BY <1>1, <1>6, <2>3 DEF Talk, AttachedInOrder, Dialogue
<1>7. ASSUME pc[cur] = "killed" PROVE Talk'
  <2>1. Out' = <<>> \/ Out' = <<Sent("csrReady")>>
    <3>1. CASE Out = <<Sent("reward")>>
      BY <1>1, <3>1, OneLine
    <3>2. CASE Out = <<Sent("reward"), Sent("csrReady")>>
      BY <1>1, <3>2, TwoLines
    <3> QED BY <1>2, <1>7, <3>1, <3>2 DEF RewardHeard
  <2>2. AtKilled'
    BY <1>3, <2>1 DEF AtKilled
  <2> QED BY <1>1, <1>7, <2>2, KilledTalk
<1>8. Talk'
  BY <1>2, <1>5, <1>6, <1>7 DEF RewardHeard
<1> QED BY <1>1, <1>3, <1>8, Continued, WorksOthers DEF Works

\* What step() asserts holds, and the solver stands at the count returned.
LEMMA OnStepDoneKeeps ==
  ASSUME TypeOK, InDialogue, OnStepDone, UNCHANGED solverVars
  PROVE  InDialogue'
<1>1. /\ Head(Out).tag = "stepDone" /\ Heard(Head(Out).tag) /\ Out' = Tail(Out)
      /\ cur \in Procs /\ attached = {} /\ ~gone /\ cur # 0 /\ call = "step"
      /\ Talk /\ CallInOrder /\ InOrder(cur)
      /\ UNCHANGED <<pc, stdin, shm, cur, gone, decisions, lastDecisions, forward, attached,
                     shmName, stopped>>
  BY Hearing, WorksFrame DEF Works, OnStepDone, Out
<1>2. StepDoneHeard
  BY <1>1 DEF Heard
<1>3. /\ lastDecisions[cur] = Now /\ reward = Now /\ csr \in {Now, NoCount}
      /\ getCsr => csr = Now
      /\ Now \in Count /\ NoCount \notin Count
  BY <1>1, <1>2, Counted DEF StepDoneHeard, Complete, Rewarded, Reached, TypeOK, Now
<1>4. Return([Nothing EXCEPT !.kind = "open", !.csr = csr, !.reward = reward])
  BY <1>3 DEF OnStepDone
<1>5. /\ call' = "none" /\ goAhead' = 0
      /\ ret'.kind = "open" /\ ret'.csr = csr /\ ret'.reward = reward
  BY <1>4 DEF Return, Nothing
<1>6. CallInOrder'
  BY <1>1, <1>3, <1>5 DEF CallInOrder, RaisesOnlyOnCrash, Advances
<1>7. /\ Now' = Now /\ In' = In /\ InOrder(cur)'
      /\ Sent("activityStart")' = Sent("activityStart")
  BY <1>1 DEF Now, In, InOrder, Sent, Line
<1>8. Idle'
  BY <1>1, <1>3, <1>5, <1>7 DEF Idle
<1>9. CASE Out = <<Sent("stepDone")>>
  <2>1. Out' = <<>>
    BY <1>1, <1>9, OneLine
  <2>2. pc[cur] = "askScores" => AtAskScores'
    BY <1>2, <1>8, <2>1 DEF StepDoneHeard, AtAskScores
  <2>3. AtKilled'
    BY <2>1 DEF AtKilled
  <2>4. Out # <<Sent("stepDone"), Sent("activityStart")>>
    BY <1>1, <2>1, OneLine, TwoLines
  <2>5. pc[cur] \in {"askScores", "killed"}
    BY <1>2, <2>4 DEF StepDoneHeard
  <2>6. Talk'
    BY <1>1, <2>2, <2>3, <2>5 DEF Talk, AttachedInOrder, Dialogue
  <2> QED BY <1>6, <1>7, <2>6, WorksOthers DEF Works
<1>10. CASE Out = <<Sent("stepDone"), Sent("activityStart")>>
  <2>1. Out' = <<Sent("activityStart")>>
    BY <1>1, <1>10, TwoLines
  <2>2. Out # <<Sent("stepDone")>>
    BY <1>1, <2>1, OneLine
  <2>3. pc[cur] \in {"awaitScores", "killed"}
    BY <1>2, <2>2 DEF StepDoneHeard
  <2>4. pc[cur] = "awaitScores" => AtAwaitScores'
    BY <1>2, <1>7, <1>8, <2>1 DEF StepDoneHeard, AtAwaitScores
  <2>5. AtKilled'
    BY <1>7, <2>1 DEF AtKilled
  <2>6. Talk'
    BY <1>1, <2>3, <2>4, <2>5 DEF Talk, AttachedInOrder, Dialogue
  <2> QED BY <1>6, <1>7, <2>6, WorksOthers DEF Works
<1> QED BY <1>2, <1>9, <1>10 DEF StepDoneHeard

\* A line start() ignores is a score request before the first decision, or a dead solver's.
LEMMA StartIgnoresKeeps ==
  ASSUME TypeOK, InDialogue, StartIgnores, UNCHANGED solverVars
  PROVE  InDialogue'
<1>1. /\ Head(Out).tag \in {"activityStart", "reward", "stepDone"}
      /\ Heard(Head(Out).tag) /\ Out' = Tail(Out)
      /\ cur \in Procs /\ attached = {} /\ ~gone /\ cur # 0 /\ call = "start"
      /\ Talk /\ CallInOrder /\ InOrder(cur) /\ Continue
      /\ UNCHANGED <<pc, stdin, shm, cur, gone, decisions, lastDecisions, forward, attached,
                     shmName, stopped>>
  BY Hearing, WorksFrame DEF Works, StartIgnores, Out
<1>2. InOrder(cur)' /\ In' = In /\ Sent("csrReady")' = Sent("csrReady")
  BY <1>1 DEF InOrder, In, Sent, Line
<1>3. ASSUME ActivityStartHeard PROVE Talk'
  <2>1. Out' = <<>>
    BY <1>1, <1>3, OneLine DEF ActivityStartHeard
  <2>2. AtKilled'
    BY <2>1 DEF AtKilled
  <2>3. Idle' <=> Idle
    BY <1>1, SameProgress DEF Continue
  <2>4. pc[cur] = "awaitScores" => AtAwaitScores'
    BY <1>1, <1>2, <1>3, <2>1, <2>3 DEF ActivityStartHeard, AtAwaitScores, Continue
  <2> QED BY <1>1, <1>3, <2>2, <2>4 DEF ActivityStartHeard, Talk, AttachedInOrder, Dialogue
<1>4. ASSUME RewardHeard PROVE Talk'
  <2>1. /\ pc[cur] = "killed"
        /\ Out = <<Sent("reward")>> \/ Out = <<Sent("reward"), Sent("csrReady")>>
    BY <1>1, <1>4 DEF RewardHeard, Stepped
  <2>2. CASE Out = <<Sent("reward")>>
    <3>1. Out' = <<>>
      BY <1>1, <2>2, OneLine
    <3>2. AtKilled'
      BY <3>1 DEF AtKilled
    <3> QED BY <1>1, <2>1, <3>2, KilledTalk
  <2>3. CASE Out = <<Sent("reward"), Sent("csrReady")>>
    <3>1. Out' = <<Sent("csrReady")>>
      BY <1>1, <2>3, TwoLines
    <3>2. AtKilled'
      BY <1>2, <3>1 DEF AtKilled
    <3> QED BY <1>1, <2>1, <3>2, KilledTalk
  <2> QED BY <2>1, <2>2, <2>3
<1>5. ~StepDoneHeard
  BY <1>1 DEF StepDoneHeard, Complete
<1>6. Talk'
  BY <1>1, <1>3, <1>4, <1>5 DEF Heard
<1> QED BY <1>1, <1>2, <1>6, Continued, WorksOthers DEF Works, Continue

\* After the verdict at most the model is unread.
LEMMA OnVerdictKeeps ==
  ASSUME TypeOK, InDialogue, OnVerdict, UNCHANGED solverVars
  PROVE  InDialogue'
<1>1. /\ Head(Out).tag \in Verdicts \cup {"v"} /\ Heard(Head(Out).tag) /\ Out' = Tail(Out)
      /\ cur \in Procs /\ attached = {} /\ ~gone /\ cur # 0
      /\ Talk /\ CallInOrder /\ InOrder(cur)
      /\ UNCHANGED <<pc, stdin, shm, cur, gone, decisions, lastDecisions, forward, attached,
                     shmName>>
  BY Hearing, WorksFrame DEF Works, OnVerdict, Out
<1>2. VerdictHeard
  BY <1>1 DEF Heard
<1>3. call' = "none" /\ goAhead' = 0 /\ ret'.kind = "done"
  BY DEF OnVerdict, Return, Nothing
<1>4. InOrder(cur)' /\ Sent("v")' = Sent("v")
  BY <1>1 DEF InOrder, Sent, Line
<1>5. AtExited'
  BY <1>1, <1>2, <1>4 DEF VerdictHeard, AtExited
<1>6. Talk'
  BY <1>1, <1>2, <1>5 DEF VerdictHeard, Talk, AttachedInOrder, Dialogue
<1> QED BY <1>1, <1>3, <1>4, <1>6, Closed, WorksOthers DEF Works

\* Nothing is left of a process whose output ended.
LEMMA OnEofKeeps ==
  ASSUME TypeOK, InDialogue, OnEof, UNCHANGED solverVars
  PROVE  InDialogue'
<1>1. /\ cur \in Procs /\ attached' = {} /\ ~gone /\ cur # 0 /\ Out = <<>> /\ Out' = Out
      /\ CallInOrder /\ InOrder(cur)
      /\ UNCHANGED <<pc, stdin, shm, cur, gone, decisions, lastDecisions, forward>>
  BY WorksFrame DEF Works, OnEof, Out, InDialogue
<1>2. pc[cur] \in {"exited", "killed"}
  BY <1>1 DEF OnEof, Dead, InOrder
<1>3. call' = "none" /\ goAhead' = 0 /\ ret'.kind = "done"
  BY DEF OnEof, Return, Nothing
<1>4. AtExited' /\ AtKilled' /\ InOrder(cur)'
  BY <1>1 DEF AtExited, AtKilled, InOrder
<1>5. Talk'
  BY <1>1, <1>2, <1>4 DEF Talk, AttachedInOrder, Dialogue
<1> QED BY <1>1, <1>3, <1>4, <1>5, Closed, WorksOthers DEF Works

\* No step inside a call leaves the dialogue.
LEMMA WorksKeeps ==
  ASSUME TypeOK, InDialogue, Works, UNCHANGED solverVars
  PROVE  InDialogue'
  BY OnCsrReadyKeeps, OnShmNameKeeps, OnCsrWrittenKeeps, AckKeeps, OnActivityStartKeeps,
     OnRewardKeeps, OnStepDoneKeeps, StartIgnoresKeeps, OnVerdictKeeps, OnEofKeeps
     DEF Works

-----------------------------------------------------------------------------
\* Between the calls.
LEMMA StartKeeps ==
  ASSUME TypeOK, InDialogue, Start, UNCHANGED solverVars
  PROVE  InDialogue'
<1> DEFINE new == cur + 1
<1>1. /\ new \in Procs /\ cur' = new /\ pc' = [pc EXCEPT ![new] = "boot"] /\ new > cur
      /\ UNCHANGED <<stdin, shm, gone, attached, shmName, ret, decisions, lastDecisions, forward>>
      /\ call' = "start" /\ goAhead' = 0 /\ csr' = NoCount /\ ~stopped'
  <2>1. cur \in Nat /\ cur < MaxProcs /\ MaxProcs \in Nat
    BY BoundsAssumption DEF Start, TypeOK
  <2> QED BY <2>1 DEF Start, Procs, solverVars
<1>2. pc[new] = "unborn" /\ Born(new) /\ InOrder(new)
  BY <1>1 DEF InDialogue, Born
<1>3. /\ stdin[new] = <<>> /\ stdout[new] = <<>> /\ decisions[new] = 0 /\ lastDecisions[new] = 0
      /\ stdout'[new] = <<>>
  BY <1>1, <1>2 DEF InOrder, Born, Start, TypeOK, Procs
<1>4. ASSUME NEW p \in Procs PROVE InOrder(p)' /\ Born(p)'
  <2>1. CASE p = new
    BY <1>1, <1>2, <1>3, <2>1 DEF InOrder, Born, TypeOK
  <2>2. CASE p # new
    <3>1. InOrder(p) /\ Born(p) /\ pc'[p] = pc[p]
      BY <1>1, <2>2 DEF InDialogue, TypeOK
    <3>2. p > new <=> p > cur
      BY <2>2 DEF Procs, TypeOK
    <3>3. p > cur => stdout'[p] = stdout[p]
      BY DEF Start, TypeOK, Procs
    <3> QED BY <1>1, <3>1, <3>2, <3>3 DEF InOrder, Born
  <2> QED BY <2>1, <2>2
<1>5. SegmentsOwned'
  <2> SUFFICES ASSUME NEW s \in shm
               PROVE  /\ s.at = decisions[s.pid]
                      /\ pc'[s.pid] \in {"publish", "awaitAck", "killed"}
    BY <1>1 DEF SegmentsOwned
  <2>1. /\ s.at = decisions[s.pid] /\ pc[s.pid] \in {"publish", "awaitAck", "killed"}
        /\ s.pid \in Procs
    BY DEF InDialogue, SegmentsOwned, TypeOK, Segments
  <2> QED BY <1>1, <1>2, <2>1 DEF TypeOK
<1>6. CallInOrder'
  <2>1. RaisesOnlyOnCrash'
    BY <1>1 DEF RaisesOnlyOnCrash
  <2> QED BY <1>1, <2>1 DEF InDialogue, CallInOrder, Advances
<1>7. AttachedInOrder'
  <2>1. attached = {}
    BY DEF Start, InDialogue, AttachedInOrder
  <2> QED BY <1>1, <2>1 DEF AttachedInOrder
<1>8. Dialogue'
  <2>1. Out' = <<>> /\ Now' = 0 /\ lastDecisions'[cur'] = 0
    BY <1>1, <1>3 DEF Out, Now
  <2>2. AtBoot'
    BY <1>1, <2>1 DEF AtBoot, Starting
  <2>3. pc'[cur'] = "boot"
    BY <1>1 DEF TypeOK
  <2> QED BY <2>2, <2>3 DEF Dialogue
<1> QED BY <1>4, <1>5, <1>6, <1>7, <1>8 DEF InDialogue

\* Between two calls the solver waits for scores or searches up to its first
\* boundary, or is gone.
LEMMA BetweenCalls ==
  ASSUME TypeOK, InDialogue, cur \in Procs, ~gone, call = "none"
  PROVE  /\ attached = {}
         /\ \/ /\ pc[cur] = "awaitAck" /\ Limit # 0 /\ Idle /\ Now = 0
               /\ In = <<Request("ack", 0)>> /\ Out = <<>>
            \/ pc[cur] = "askScores" /\ Limit # 0 /\ Idle /\ Out = <<>>
            \/ /\ pc[cur] = "awaitScores" /\ Limit # 0 /\ Idle /\ In = <<>>
               /\ Out = <<Sent("activityStart")>>
            \/ pc[cur] = "search" /\ Limit # 0 /\ Now = 0 /\ Idle /\ Out = <<>>
            \/ pc[cur] = "exited" /\ AtExited /\ Out # <<Sent("shmName")>>
            \/ pc[cur] = "exited" /\ Out = <<>>
            \/ pc[cur] = "killed" /\ AtKilled
<1>1. attached = {} /\ Dialogue /\ cur # 0 /\ pc[cur] \in SolverPCs \ {"unborn", "aborted"}
  BY DEF InDialogue, AttachedInOrder, Born, InOrder, TypeOK, Procs
<1>2. ~Reached /\ ~Rewarded /\ ~Complete /\ ~Running /\ ~Resumed
  BY DEF Reached, Starting, Stepped, Rewarded, Complete, Running, Resumed
<1>3. pc[cur] \notin {"boot", "askCsr", "awaitCsr", "createShm", "publish", "stepDone",
                      "awaitForward", "resume"}
  BY <1>1, <1>2 DEF Dialogue, AtBoot, Starting, AtAskCsr, AtAwaitCsr, AtCreateShm, AtPublish,
                    AtStepDone, AtAwaitForward, AtResume
<1>4. pc[cur] = "awaitAck" =>
        Limit # 0 /\ Idle /\ Now = 0 /\ In = <<Request("ack", 0)>> /\ Out = <<>>
  BY <1>1, <1>2 DEF Dialogue, AtAwaitAck
<1>5. pc[cur] = "askScores" => Limit # 0 /\ Idle /\ Out = <<>>
  BY <1>1, <1>2 DEF Dialogue, AtAskScores
<1>6. pc[cur] = "awaitScores" =>
        Limit # 0 /\ Idle /\ In = <<>> /\ Out = <<Sent("activityStart")>>
  BY <1>1, <1>2 DEF Dialogue, AtAwaitScores
<1>7. pc[cur] = "search" => Limit # 0 /\ Now = 0 /\ Idle /\ Out = <<>>
  BY <1>1, <1>2 DEF Dialogue, AtSearch
<1>8. pc[cur] = "exited" => AtExited /\ (Out # <<Sent("shmName")>> \/ Out = <<>>)
  <2>1. "shmName" \notin Verdicts \cup {"v", "s SATISFIABLE"}
    BY DEF Verdicts
  <2>2. ASSUME pc[cur] = "exited", Out = <<Sent("shmName")>> PROVE FALSE
    <3>1. Heard("shmName") /\ Out # <<>>
      BY <2>2, OneLine, Heads, SentLine
    <3>2. AtExited /\ ~ (Out = <<Sent("shmName")>> /\ getCsr /\ call # "none")
      BY <1>1, <2>2 DEF Dialogue
    <3>3. Out # <<Sent("s SATISFIABLE"), Sent("v")>>
      BY <2>2, OneLine, TwoLines
    <3>4. PICK v \in Verdicts \cup {"v"} : Out = <<Sent(v)>>
      BY <3>1, <3>2, <3>3 DEF AtExited
    <3>5. Sent(v) = Sent("shmName")
      BY <2>2, <3>4, OneLine
    <3>6. v = "shmName"
      BY <3>5, SentLine
    <3> QED BY <2>1, <3>6
  <2> QED BY <1>1, <2>2 DEF Dialogue
<1>9. pc[cur] = "killed" => AtKilled
  BY <1>1 DEF Dialogue
<1> QED BY <1>1, <1>3, <1>4, <1>5, <1>6, <1>7, <1>8, <1>9 DEF SolverPCs

\* A step begins where the last call ended, at the boundary it returned.
LEMMA StepKeeps ==
  ASSUME TypeOK, InDialogue, Step, UNCHANGED solverVars
  PROVE  InDialogue'
<1>1. /\ cur \in Procs /\ ~gone /\ call = "none" /\ ret.kind = "open" /\ ~stopped
      /\ UNCHANGED <<pc, stdin, stdout, shm, cur, gone, attached, shmName, decisions,
                     lastDecisions, forward>>
      /\ csr' = NoCount /\ reward' = NoCount
  BY DEF Step, solverVars, TypeOK, Procs
<1>2. \/ call' = "step" /\ goAhead' \in GoAheads /\ ret' = ret /\ ~stopped'
      \/ call' = "none" /\ goAhead' = goAhead /\ ret'.kind = "done"
  BY <1>1 DEF Step, Nothing
<1>3. CallInOrder'
  BY <1>1, <1>2 DEF InDialogue, CallInOrder, RaisesOnlyOnCrash, Advances
<1>4. Idle => Idle'
  BY <1>1, <1>2 DEF Idle, Starting, Now
<1>5. /\ Out' = Out /\ In' = In /\ Now' = Now
      /\ \A t : [tag |-> t, at |-> decisions'[cur']] = Sent(t)
      /\ Segment(cur)' = Segment(cur)
  BY <1>1 DEF Out, In, Now, Sent, Line, Segment
<1>6. pc[cur] = "killed" /\ AtKilled => AtKilled'
  <2>1. ~Complete
    BY <1>1 DEF Complete, Rewarded, Reached, Starting, Stepped
  <2> QED BY <1>1, <1>5, <2>1 DEF AtKilled, Sent, Line
<1>7. AtExited /\ Out # <<Sent("shmName")>> => AtExited'
  BY <1>1, <1>5 DEF AtExited, Sent, Line
<1>8. pc[cur] = "awaitScores" /\ Limit # 0 /\ Idle /\ In = <<>> /\ Out = <<Sent("activityStart")>>
        => AtAwaitScores'
  BY <1>1, <1>4, <1>5 DEF AtAwaitScores, Sent, Line
<1>9. Talk'
  <2>1. attached' = {} /\ pc'[cur'] = pc[cur]
    BY <1>1, BetweenCalls
  <2>2. CASE pc[cur] = "awaitAck"
    BY <1>1, <1>4, <1>5, <2>1, <2>2, BetweenCalls DEF AtAwaitAck, Talk, AttachedInOrder, Dialogue
  <2>3. CASE pc[cur] = "askScores"
    BY <1>1, <1>4, <1>5, <2>1, <2>3, BetweenCalls DEF AtAskScores, Talk, AttachedInOrder, Dialogue
  <2>4. CASE pc[cur] = "awaitScores"
    BY <1>1, <1>8, <2>1, <2>4, BetweenCalls DEF Talk, AttachedInOrder, Dialogue
  <2>5. CASE pc[cur] = "search"
    BY <1>1, <1>4, <1>5, <2>1, <2>5, BetweenCalls DEF AtSearch, Talk, AttachedInOrder, Dialogue
  <2>6. CASE pc[cur] = "exited"
    <3>1. AtExited'
      BY <1>1, <1>5, <1>7, <2>6, BetweenCalls DEF AtExited
    <3> QED BY <2>1, <2>6, <3>1 DEF Talk, AttachedInOrder, Dialogue
  <2>7. CASE pc[cur] = "killed"
    BY <1>1, <1>6, <2>1, <2>7, BetweenCalls DEF Talk, AttachedInOrder, Dialogue
  <2> QED BY <1>1, <2>2, <2>3, <2>4, <2>5, <2>6, <2>7, BetweenCalls
<1>10. \A p \in Procs : InOrder(p)' /\ Born(p)'
  BY <1>1 DEF InDialogue, InOrder, Born
<1>11. SegmentsOwned'
  BY <1>1 DEF InDialogue, SegmentsOwned
<1> QED BY <1>3, <1>9, <1>10, <1>11 DEF InDialogue, Talk

\* stop() between two calls touches neither pipe.
LEMMA StopCallKeeps ==
  ASSUME TypeOK, InDialogue, StopCall, UNCHANGED solverVars
  PROVE  InDialogue'
<1>1. /\ call = "none"
      /\ UNCHANGED <<pc, stdin, stdout, shm, cur, gone, call, attached, getCsr, goAhead, shmName,
                     csr, reward, ret, decisions, lastDecisions, forward>>
  BY DEF StopCall, solverVars
<1>2. Talk'
  <2>1. Segment(cur) \in shm' <=> Segment(cur) \in shm
    BY <1>1
  <2> QED BY <1>1, <2>1, TalkFrame DEF InDialogue, Talk
<1>3. CallInOrder'
  BY <1>1 DEF InDialogue, CallInOrder, RaisesOnlyOnCrash
<1>4. \A p \in Procs : InOrder(p)' /\ Born(p)'
  BY <1>1 DEF InDialogue, InOrder, Born
<1>5. SegmentsOwned'
  BY <1>1 DEF InDialogue, SegmentsOwned
<1> QED BY <1>2, <1>3, <1>4, <1>5 DEF InDialogue, Talk

\* Without a controller only the solvers' own parts remain to be kept.
LEMMA DieKeeps ==
  ASSUME TypeOK, InDialogue, Die, UNCHANGED solverVars
  PROVE  InDialogue'
<1>1. /\ gone' /\ attached' = {} /\ shm' \subseteq shm
      /\ UNCHANGED <<pc, stdin, stdout, cur, call, goAhead, stopped, ret, decisions,
                     lastDecisions, forward>>
  BY DEF Die, solverVars
<1>2. Talk'
  BY <1>1 DEF Talk, AttachedInOrder, Dialogue
<1>3. CallInOrder'
  BY <1>1 DEF InDialogue, CallInOrder, RaisesOnlyOnCrash
<1>4. \A p \in Procs : InOrder(p)' /\ Born(p)'
  BY <1>1 DEF InDialogue, InOrder, Born
<1>5. SegmentsOwned'
  BY <1>1 DEF InDialogue, SegmentsOwned
<1> QED BY <1>2, <1>3, <1>4, <1>5 DEF InDialogue, Talk

-----------------------------------------------------------------------------
Inv == TypeInv /\ InDialogue

\* Before the first start() there is nothing to say.
LEMMA InitDialogue == Init => Inv
<1> SUFFICES ASSUME Init PROVE InDialogue
  BY InitType DEF Inv
<1> USE DEF Init, PipesInit, SolverInit, ControllerInit
<1>1. \A p \in Procs : InOrder(p) /\ Born(p)
  BY DEF InOrder, Born, Procs
<1>2. CallInOrder
  BY DEF CallInOrder, RaisesOnlyOnCrash, Nothing, Advances
<1> QED BY <1>1, <1>2 DEF InDialogue, SegmentsOwned, AttachedInOrder, Dialogue

\* Inv is inductive.
LEMMA NextDialogue == Inv /\ [Next]_vars => Inv'
<1> SUFFICES ASSUME Inv, [Next]_vars PROVE InDialogue'
  BY NextType DEF Inv
<1>0. TypeOK /\ InDialogue
  BY DEF Inv, TypeInv
<1>1. ASSUME NEW p \in Procs, SolverNext(p), UNCHANGED ctlVars PROVE InDialogue'
  BY <1>0, <1>1, SolverKeeps
<1>2. CASE ControllerNext /\ UNCHANGED solverVars
  BY <1>0, <1>2, StartKeeps, StepKeeps, StopCallKeeps, WorksKeeps, DieKeeps DEF ControllerNext
<1>3. CASE UNCHANGED vars
  <2> USE <1>3 DEF vars, pipeVars, solverVars, ctlVars
  <2>1. Talk'
    <3>1. Segment(cur) \in shm' <=> Segment(cur) \in shm
      OBVIOUS
    <3> QED BY <1>0, <3>1, TalkFrame DEF InDialogue, Talk
  <2>2. CallInOrder'
    BY <1>0 DEF InDialogue, CallInOrder, RaisesOnlyOnCrash
  <2>3. \A p \in Procs : InOrder(p)' /\ Born(p)'
    BY <1>0 DEF InDialogue, InOrder, Born
  <2>4. SegmentsOwned'
    BY <1>0 DEF InDialogue, SegmentsOwned
  <2> QED BY <2>1, <2>2, <2>3, <2>4 DEF InDialogue, Talk
<1> QED BY <1>1, <1>2, <1>3 DEF Next

\* Controller and solver stay in step: InStep describes every reachable state, with
\* what start(), step(), writeCSRToSharedMem and waitForActivityScores wait for.
THEOREM DialogueHolds == Spec => []InStep
<1>1. Inv => InStep
  BY DEF Inv, TypeInv, InStep
<1> QED BY InitDialogue, NextDialogue, <1>1, PTL DEF Spec

\* Among the rest, what the pipes hold.
LEMMA TalkHolds == Spec => []InDialogue
<1>1. InStep => InDialogue
  BY DEF InStep
<1> QED BY DialogueHolds, <1>1, PTL

\* A solver that waits for input finds a line its loop at that point is written
\* for: no "throw" of Solver.cc is reached and no line is skipped.
THEOREM RequestsAreExpected == Spec => []RequestsExpected
<1>1. InDialogue => RequestsExpected
  <2> SUFFICES ASSUME InDialogue, NEW p \in Procs, pc[p] \in DOMAIN Expected, stdin[p] # <<>>
               PROVE  Head(stdin[p]).tag \in Expected[pc[p]]
    BY DEF RequestsExpected
  <2>1. InOrder(p) /\ pc[p] \in {"awaitCsr", "awaitAck", "awaitScores", "awaitForward"}
    BY DEF InDialogue, Expected
  <2>2. CASE pc[p] = "awaitCsr"
    <3>1. PICK t \in {"csrYes", "csrNo"} : stdin[p] = <<Request(t, 0)>>
      BY <2>1, <2>2 DEF InOrder
    <3>2. Head(stdin[p]).tag = t
      BY <3>1, OneLine, RequestTag
    <3> QED BY <2>2, <3>2 DEF Expected
  <2>3. CASE pc[p] = "awaitAck"
    <3>1. stdin[p] = <<Request("ack", 0)>>
      BY <2>1, <2>3 DEF InOrder
    <3>2. Head(stdin[p]).tag = "ack"
      BY <3>1, OneLine, RequestTag
    <3> QED BY <2>3, <3>2 DEF Expected
  <2>4. CASE pc[p] = "awaitScores"
    <3>1. PICK g \in Advances : stdin[p] = Answer(g) \/ stdin[p] = Scored(g)
      BY <2>1, <2>4 DEF InOrder
    <3>2. Head(stdin[p]).tag \in {"scores", "activityDone"}
      BY <3>1, Answers
    <3> QED BY <2>4, <3>2 DEF Expected
  <2>5. CASE pc[p] = "awaitForward"
    <3>1. PICK g \in Advances : stdin[p] = <<Advance(g)>>
      BY <2>1, <2>5 DEF InOrder
    <3>2. Head(stdin[p]).tag \in {"continue", "forward"}
      BY <3>1, Answers
    <3> QED BY <2>5, <3>2 DEF Expected
  <2> QED BY <2>1, <2>2, <2>3, <2>4, <2>5
<1> QED BY TalkHolds, <1>1, PTL

\* What a caller holds between two calls describes the solver as it stands: no
\* decision was taken since the graph and the reward were computed, and both are
\* of the same boundary.
THEOREM ResultsAreCurrent == Spec => []ResultIsCurrent
<1>1. Inv => ResultIsCurrent
  <2> SUFFICES ASSUME Inv, ret.kind = "open", call = "none", ~gone
               PROVE  /\ ret.csr \in {ret.reward, NoCount}
                      /\ Alive(cur) => decisions[cur] = ret.reward
    BY DEF ResultIsCurrent
  <2>1. TypeOK /\ InDialogue /\ cur \in Procs /\ ret.csr \in {ret.reward, NoCount}
    BY DEF Inv, TypeInv, InDialogue, CallInOrder
  <2>2. Alive(cur) => Idle
    BY <2>1, BetweenCalls DEF Alive
  <2> QED BY <2>1, <2>2 DEF Idle, Now
<1> QED BY InitDialogue, NextDialogue, <1>1, PTL DEF Spec

\* A segment is not removed while it is being read, holds the clauses of the
\* count it is named after, and its name outlives the exchange only if its
\* process was killed in the middle of it.
THEOREM SegmentsAreAccounted == Spec => []SegmentsAccounted
<1>1. InDialogue => SegmentsAccounted
  BY DEF InDialogue, SegmentsOwned, AttachedInOrder, SegmentsAccounted
<1> QED BY TalkHolds, <1>1, PTL

\* No exception leaves start() or step() unless the solver was killed.
THEOREM RaisesAreCrashes == Spec => []RaisesOnlyOnCrash
<1>1. InDialogue => RaisesOnlyOnCrash
  BY DEF InDialogue, CallInOrder
<1> QED BY TalkHolds, <1>1, PTL

-----------------------------------------------------------------------------
\* The session as SolverSession sees it: what ends it and what leaves it as it is.
LEMMA SessionCloses == ~SessionOpen' => Session!Close
  BY DEF SessionOpen, Session!Close

\* The session is a function of these variables.
LEMMA SessionStays ==
  UNCHANGED <<ret, call, goAhead, stopped, gone>> => UNCHANGED Session!sessionVars
  BY DEF SessionOpen, Session!sessionVars

\* An exception ends the session.
LEMMA RaiseCloses == Raise => ~SessionOpen'
  BY DEF Raise, Return, Nothing, SessionOpen

\* A step inside a call opens, closes or reports, or is not seen.
LEMMA WorksSession ==
  ASSUME TypeOK, InDialogue, Works, UNCHANGED solverVars
  PROVE  Session!Next \/ UNCHANGED Session!sessionVars
<1>1. /\ cur \in Procs /\ ~gone /\ call # "none" /\ CallInOrder /\ UNCHANGED gone
      /\ call \in {"none", "start", "step"}
  BY WorksFrame DEF InDialogue, TypeOK
<1>2. CASE Raise
  BY <1>2, RaiseCloses, SessionCloses DEF Session!Next
<1>3. CASE UNCHANGED <<ret, call, goAhead, stopped>>
  BY <1>1, <1>3, SessionStays
<1>4. CASE OnVerdict \/ OnEof
  <2>1. ~SessionOpen'
    BY <1>4 DEF OnVerdict, OnEof, Return, Nothing, SessionOpen
  <2> QED BY <2>1, SessionCloses DEF Session!Next
<1>5. CASE /\ Ack /\ call = "start"
           /\ Return([Nothing EXCEPT !.kind = "open", !.csr = csr, !.reward = 0])
  <2>1. ~stopped' /\ ~gone'
    BY <1>1, <1>5 DEF Ack, CallInOrder
  <2>2. SessionOpen' /\ ret'.reward = 0 /\ call' = "none"
    BY <1>5, <2>1 DEF Return, Nothing, SessionOpen
  <2>3. Session!Open
    BY <2>2 DEF Session!Open
  <2> QED BY <2>3 DEF Session!Next
<1>6. CASE /\ OnStepDone
           /\ Return([Nothing EXCEPT !.kind = "open", !.csr = csr, !.reward = reward])
  <2>1. /\ StepDoneHeard /\ ~stopped /\ call = "step"
    BY <1>6, Hearing DEF OnStepDone, Heard
  <2>2. reward = ret.reward + Asked
    BY <2>1 DEF StepDoneHeard, Complete, Rewarded, Reached, Stepped, Starting
  <2>3. SessionOpen /\ SessionOpen' /\ ret'.reward = ret.reward + Asked /\ call' = "none"
    BY <1>1, <1>6, <2>1, <2>2 DEF OnStepDone, Return, Nothing, CallInOrder, SessionOpen
  <2>4. Session!Report
    BY <2>1, <2>3 DEF Session!Report, Asked
  <2> QED BY <2>4 DEF Session!Next
<1>7. CASE OnCsrReady
  BY <1>2, <1>3, <1>7 DEF OnCsrReady, BrokenPipe, Continue
<1>8. CASE OnShmName
  BY <1>2, <1>3, <1>8 DEF OnShmName, Continue
<1>9. CASE OnCsrWritten
  BY <1>2, <1>3, <1>9 DEF OnCsrWritten
<1>10. CASE Ack
  BY <1>2, <1>3, <1>5, <1>10 DEF Ack, BrokenPipe, Continue
<1>11. CASE OnActivityStart
  BY <1>2, <1>3, <1>11 DEF OnActivityStart, BrokenPipe, Continue
<1>12. CASE OnReward
  BY <1>3, <1>12 DEF OnReward
<1>13. CASE OnStepDone
  BY <1>2, <1>6, <1>13 DEF OnStepDone
<1>14. CASE StartIgnores
  BY <1>3, <1>14 DEF StartIgnores, Continue
<1> QED BY <1>4, <1>7, <1>8, <1>9, <1>10, <1>11, <1>12, <1>13, <1>14 DEF Works

\* Every step of the protocol is one of the session or a stutter.
LEMMA NextSession == Inv /\ [Next]_vars => [Session!Next]_(Session!sessionVars)
<1> SUFFICES ASSUME Inv, [Next]_vars
             PROVE  Session!Next \/ UNCHANGED Session!sessionVars
  OBVIOUS
<1>0. TypeOK /\ InDialogue
  BY DEF Inv, TypeInv
<1>1. ASSUME NEW p \in Procs, SolverNext(p), UNCHANGED ctlVars
      PROVE  UNCHANGED Session!sessionVars
  BY <1>0, <1>1, SolverFrame, SessionStays DEF ctlVars
<1>2. CASE Start
  <2>1. ~SessionOpen'
    BY <1>2 DEF Start, SessionOpen
  <2> QED BY <2>1, SessionCloses DEF Session!Next
<1>3. CASE Step
  <2>1. CASE call' = "step" /\ goAhead' \in GoAheads /\ UNCHANGED <<stopped, ret>>
    <3>1. /\ SessionOpen /\ call = "none"
          /\ SessionOpen' /\ ret'.reward = ret.reward
      BY <1>3, <2>1 DEF Step, SessionOpen
    <3>2. Session!Ask
      BY <2>1, <3>1 DEF Session!Ask
    <3> QED BY <3>2 DEF Session!Next
  <2>2. CASE ret' = [Nothing EXCEPT !.kind = "done", !.timedOut = TRUE]
    <3>1. ~SessionOpen'
      BY <2>2 DEF Nothing, SessionOpen
    <3> QED BY <3>1, SessionCloses DEF Session!Next
  <2> QED BY <1>3, <2>1, <2>2 DEF Step
<1>4. CASE StopCall \/ Die
  <2>1. ~SessionOpen'
    BY <1>4 DEF StopCall, Stop, Die, SessionOpen
  <2> QED BY <2>1, SessionCloses DEF Session!Next
<1>5. CASE Works /\ UNCHANGED solverVars
  BY <1>0, <1>5, WorksSession
<1>6. CASE UNCHANGED vars
  BY <1>6, SessionStays DEF vars, pipeVars, ctlVars
<1> QED BY <1>1, <1>2, <1>3, <1>4, <1>5, <1>6 DEF Next, ControllerNext

\* The protocol implements the session its callers rely on: a step that leaves
\* the session open reports exactly the decisions it asked for, through every
\* interleaving, timeout and failure.
THEOREM SessionImplemented == Spec => ImplementsSession
<1>1. Init => Session!Init
  BY DEF Init, ControllerInit, Nothing, SessionOpen, Session!Init
<1> QED BY <1>1, InitDialogue, NextDialogue, NextSession, PTL
        DEF Spec, ImplementsSession, Session!Spec

================================================================================

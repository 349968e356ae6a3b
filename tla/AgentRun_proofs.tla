-------------------------- MODULE AgentRun_proofs --------------------------
(***************************************************************************)
(* Proofs about AgentRun, for any number of runs, accounts and slots, any  *)
(* time-outs with RunTimeout < StaleAfter, and any number of faults.       *)
(***************************************************************************)
EXTENDS AgentRun, FiniteSetTheorems, TLAPS

-----------------------------------------------------------------------------
(* Type correctness *)

\* Points an execution can begin a round from.
Fresh == Early \cup {"load", "prepare", "vision", "round"}

\* BeginRound counts up to MaxRounds and no further: TypeOK alone does not say
\* that the counter has room when a round begins.
RoundsLeft == \A r \in Runs : exec[r].at \in Fresh => exec[r].round < MaxRounds

TypeInv == TypeOK /\ RoundsLeft

LEMMA Points ==
  /\ Fresh = {"lookup", "claim", "load", "prepare", "vision", "round"}
  /\ ExecPoints = Fresh \cup
       {"off", "leave", "think", "model", "modelDone", "plan", "mark", "send",
        "call", "toolDone", "report", "settle", "askUser", "close", "lastFrames",
        "saveReply", "doneFrame", "saveReview", "reviewFrame", "retryFrame",
        "requeue", "failFrame", "saveFailure", "endReview", "endReply", "endFailure"}
  BY DEF Fresh, ExecPoints, Early, Rounds, Calling, Closing, Reviewing, Catching, Ending

LEMMA RunsFinite == IsFiniteSet(Runs)
  BY FS_Interval, AgentRunAssumption DEF Runs

\* An execution may move anywhere, but it begins a round only with one left.
LEMMA SetType ==
  ASSUME TypeInv, NEW r \in Runs, NEW e \in Execs,
         e.at \in Fresh => e.round < MaxRounds,
         exec' = [exec EXCEPT ![r] = e]
  PROVE  exec' \in [Runs -> Execs] /\ RoundsLeft'
  <1>1. exec' \in [Runs -> Execs]
    BY DEF TypeInv, TypeOK
  <1>2. ASSUME NEW q \in Runs, exec'[q].at \in Fresh PROVE exec'[q].round < MaxRounds
    BY <1>2 DEF TypeInv, TypeOK, RoundsLeft
  <1>3. QED BY <1>1, <1>2 DEF RoundsLeft

LEMMA GotoType ==
  ASSUME TypeInv, NEW r \in Runs, NEW p \in ExecPoints,
         p \in Fresh => exec[r].at \in Fresh,
         Goto(r, p)
  PROVE  exec' \in [Runs -> Execs] /\ RoundsLeft'
  <1> DEFINE e == [exec[r] EXCEPT !.at = p]
  <1>1. exec' = [exec EXCEPT ![r] = e]
    BY DEF Goto
  <1>2. exec[r] \in Execs
    BY DEF TypeInv, TypeOK
  <1>3. e \in Execs /\ e.at = p /\ e.round = exec[r].round
    BY <1>2 DEF Execs
  <1>4. e.at \in Fresh => e.round < MaxRounds
    BY <1>3 DEF TypeInv, RoundsLeft
  <1> HIDE DEF e
  <1>5. QED BY <1>1, <1>3, <1>4, SetType

\* The step changes only the execution of r and the sequence clash.
LEMMA FrameType ==
  ASSUME TypeInv, NEW r \in Runs, NEW from \in ExecPoints, NEW to \in ExecPoints,
         to \in Fresh => from \in Fresh,
         Frame(r, from, to)
  PROVE  TypeInv'
  <1>1. exec' \in [Runs -> Execs] /\ RoundsLeft'
    <2>1. CASE clash[r]
      BY <2>1, GotoType, Points DEF Frame
    <2>2. CASE ~clash[r]
      BY <2>2, GotoType DEF Frame, At
    <2>3. QED BY <2>1, <2>2
  <1>2. clash' \in [Runs -> BOOLEAN]
    BY DEF Frame, TypeInv, TypeOK
  <1>3. QED
    BY <1>1, <1>2 DEF Frame, Quiet, row, ghost, TypeInv, TypeOK

LEMMA CatchFrameType ==
  ASSUME TypeInv, NEW r \in Runs, NEW from \in ExecPoints, NEW to \in ExecPoints \ Fresh,
         CatchFrame(r, from, to)
  PROVE  TypeInv'
  <1>1. exec' \in [Runs -> Execs] /\ RoundsLeft'
    <2>1. CASE clash[r]
      BY <2>1, GotoType, Points DEF CatchFrame
    <2>2. CASE ~clash[r]
      BY <2>2, GotoType DEF CatchFrame
    <2>3. QED BY <2>1, <2>2
  <1>2. clash' \in [Runs -> BOOLEAN]
    BY DEF CatchFrame, TypeInv, TypeOK
  <1>3. QED
    BY <1>1, <1>2 DEF CatchFrame, Quiet, row, ghost, TypeInv, TypeOK

LEMMA SaveType ==
  ASSUME TypeInv, NEW r \in Runs, NEW from \in ExecPoints, NEW to \in ExecPoints \ Fresh,
         NEW what \in Transcripts,
         Save(r, from, what, to)
  PROVE  TypeInv'
  <1>1. exec' \in [Runs -> Execs] /\ RoundsLeft'
    BY GotoType DEF Save
  <1>2. transcript' \in [Runs -> Transcripts]
    BY DEF Save, TypeInv, TypeOK
  <1>3. QED
    BY <1>1, <1>2 DEF Save, Quiet, ghost, TypeInv, TypeOK

LEMMA EndType ==
  ASSUME TypeInv, NEW r \in Runs, NEW from \in ExecPoints, NEW s \in Statuses,
         End(r, from, s)
  PROVE  TypeInv'
  <1>1. exec' \in [Runs -> Execs] /\ RoundsLeft'
    BY GotoType, Points DEF End
  <1>2. /\ status' \in [Runs -> Statuses]
        /\ secrets' \in [Runs -> BOOLEAN]
        /\ age' \in [Runs -> 0..StaleAfter]
    <2>1. CASE Stopped(r)
      BY <2>1 DEF End, SetRunStatus, TypeInv, TypeOK
    <2>2. CASE ~Stopped(r)
      <3>1. /\ status' \in [Runs -> Statuses]
            /\ secrets' = [secrets EXCEPT ![r] = secrets[r] /\ s \notin Terminal]
            /\ age' \in [Runs -> 0..StaleAfter]
        BY <2>2, AgentRunAssumption DEF End, SetRunStatus, Status, TypeInv, TypeOK
      <3>2. secrets' \in [Runs -> BOOLEAN]
        BY <3>1, Zenon DEF TypeInv, TypeOK
      <3>3. QED BY <3>1, <3>2
    <2>3. QED BY <2>1, <2>2
  <1>3. QED
    BY <1>1, <1>2 DEF End, Quiet, ghost, TypeInv, TypeOK

LEMMA AnswerType ==
  ASSUME TypeInv, NEW r \in Runs, NEW p \in ExecPoints \ Fresh,
         NEW a \in {"none", "reply", "waiting"},
         exec' = [exec EXCEPT ![r].at = p, ![r].answer = a]
  PROVE  exec' \in [Runs -> Execs] /\ RoundsLeft'
  <1> DEFINE e == [exec[r] EXCEPT !.at = p, !.answer = a]
  <1>1. exec' = [exec EXCEPT ![r] = e]
    OBVIOUS
  <1>2. exec[r] \in Execs
    BY DEF TypeInv, TypeOK
  <1>3. e \in Execs /\ e.at \notin Fresh
    BY <1>2 DEF Execs
  <1> HIDE DEF e
  <1>4. QED BY <1>1, <1>3, SetType

LEMMA NoExecType == NoExec \in Execs /\ NoExec.at \notin Fresh
  BY AgentRunAssumption, Points DEF NoExec, Execs

LEMMA DieType ==
  ASSUME TypeInv, faults' \in 0..MaxFaults, Die
  PROVE  TypeInv'
  <1>1. exec' \in [Runs -> Execs] /\ RoundsLeft'
    BY NoExecType DEF Die, RoundsLeft
  <1>2. dispatcher' \in Dispatches
    BY DEF Die, NoDispatch, Dispatches
  <1>3. QED
    BY <1>1, <1>2 DEF Die, row, ghost, TypeInv, TypeOK

LEMMA ExecuteType ==
  ASSUME TypeInv, NEW r \in Runs, Execute(r)
  PROVE  TypeInv'
  <1>1. CASE Lookup(r)
    <2>1. PICK p \in {"claim", "leave"} :
             exec' = [exec EXCEPT ![r] = [exec[r] EXCEPT !.at = p, !.review = pending[r]]]
      BY <1>1 DEF Lookup
    <2> DEFINE e == [exec[r] EXCEPT !.at = p, !.review = pending[r]]
    <2>2. exec[r] \in Execs /\ exec[r].round < MaxRounds
      BY <1>1, Points DEF Lookup, At, TypeInv, TypeOK, RoundsLeft
    <2>3. e \in Execs /\ e.round < MaxRounds
      BY <1>1, <2>2, Points DEF Execs, TypeInv, TypeOK
    <2> HIDE DEF e
    <2>4. exec' \in [Runs -> Execs] /\ RoundsLeft'
      BY <1>1, <2>1, <2>3, SetType DEF e
    <2>5. QED BY <1>1, <2>4 DEF Lookup, Quiet, row, ghost, TypeInv, TypeOK
  <1>2. CASE Claim(r)
    <2>1. exec' \in [Runs -> Execs] /\ RoundsLeft'
      BY <1>2, GotoType, Points DEF Claim, At
    <2>2. status' \in [Runs -> Statuses] /\ age' \in [Runs -> 0..StaleAfter]
      BY <1>2, AgentRunAssumption DEF Claim, Status, Statuses, TypeInv, TypeOK
    <2>3. QED BY <1>2, <2>1, <2>2 DEF Claim, Quiet, ghost, TypeInv, TypeOK
  <1>3. CASE LoadLog(r)
    <2>1. exec' \in [Runs -> Execs] /\ RoundsLeft'
      BY <1>3, GotoType, Points DEF LoadLog, At
    <2>2. QED BY <1>3, <2>1 DEF LoadLog, Quiet, row, ghost, TypeInv, TypeOK
  <1>4. CASE Prepare(r)
    BY <1>4, FrameType, Points DEF Prepare
  <1>5. CASE VisionDone(r)
    <2>1. exec' \in [Runs -> Execs] /\ RoundsLeft'
      BY <1>5, GotoType, Points DEF VisionDone, At
    <2>2. QED BY <1>5, <2>1 DEF VisionDone, Quiet, row, ghost, TypeInv, TypeOK
  <1>6. CASE VisionFails(r)
    BY <1>6, FrameType, Points DEF VisionFails
  <1>7. CASE BeginRound(r)
    <2>1. CASE Stopped(r)
      <3>1. exec' \in [Runs -> Execs] /\ RoundsLeft'
        BY <1>7, <2>1, GotoType, Points DEF BeginRound
      <3>2. QED BY <1>7, <2>1, <3>1 DEF BeginRound, Quiet, ghost, TypeInv, TypeOK
    <2>2. CASE ~Stopped(r)
      <3> DEFINE e == [exec[r] EXCEPT !.at = "think", !.round = exec[r].round + 1]
      <3>1. exec' = [exec EXCEPT ![r] = e]
        BY <1>7, <2>2 DEF BeginRound
      <3>2. exec[r] \in Execs /\ exec[r].round < MaxRounds
        BY <1>7, Points DEF BeginRound, At, TypeInv, TypeOK, RoundsLeft
      <3>3. exec[r].round + 1 \in 0..MaxRounds
        BY <3>2, AgentRunAssumption DEF Execs
      <3>4. e \in Execs /\ e.at \notin Fresh
        BY <3>2, <3>3, Points DEF Execs
      <3> HIDE DEF e
      <3>5. exec' \in [Runs -> Execs] /\ RoundsLeft'
        BY <3>1, <3>4, SetType
      <3>6. age' \in [Runs -> 0..StaleAfter]
        BY <1>7, <2>2, AgentRunAssumption DEF BeginRound, TypeInv, TypeOK
      <3>7. QED BY <1>7, <2>2, <3>5, <3>6 DEF BeginRound, Quiet, ghost, TypeInv, TypeOK
    <2>3. QED BY <1>7, <2>1, <2>2
  <1>8. CASE Think(r)
    BY <1>8, FrameType, Points DEF Think
  <1>9. CASE ModelAnswers(r)
    <2>1. CASE Frame(r, "model", "modelDone")
      BY <1>9, <2>1, FrameType, Points
    <2>2. CASE Goto(r, "modelDone") /\ UNCHANGED <<row, clash, ghost>> /\ Quiet
      <3>1. exec' \in [Runs -> Execs] /\ RoundsLeft'
        BY <1>9, <2>2, GotoType, Points
      <3>2. QED BY <1>9, <2>2, <3>1 DEF Quiet, row, ghost, TypeInv, TypeOK
    <2>3. QED BY <1>9, <2>1, <2>2 DEF ModelAnswers
  <1>10. CASE ModelDone(r)
    <2>1. exec' \in [Runs -> Execs] /\ RoundsLeft'
      <3>1. CASE \E p \in {"leave", "plan"} : Goto(r, p)
        BY <1>10, <3>1, GotoType, Points
      <3>2. CASE \E a \in {"reply", "waiting"} :
                    exec' = [exec EXCEPT ![r].at = "close", ![r].answer = a]
        BY <1>10, <3>2, AnswerType, Points
      <3>3. QED BY <1>10, <3>1, <3>2 DEF ModelDone
    <2>2. QED BY <1>10, <2>1 DEF ModelDone, Quiet, row, ghost, TypeInv, TypeOK
  <1>11. CASE Plan(r)
    BY <1>11, FrameType, Points DEF Plan
  <1>12. CASE Mark(r)
    <2>1. exec' \in [Runs -> Execs] /\ RoundsLeft'
      BY <1>12, GotoType, Points DEF Mark
    <2>2. pending' \in [Runs -> BOOLEAN] /\ age' \in [Runs -> 0..StaleAfter]
      BY <1>12, AgentRunAssumption DEF Mark, Checkpoint, TypeInv, TypeOK
    <2>3. QED BY <1>12, <2>1, <2>2 DEF Mark, Checkpoint, Quiet, ghost, TypeInv, TypeOK
  <1>13. CASE SendCall(r)
    <2>1. exec' \in [Runs -> Execs] /\ RoundsLeft'
      BY <1>13, GotoType, Points DEF SendCall
    <2>2. open' \in [Runs -> BOOLEAN] /\ late' \in [Runs -> Nat]
      BY <1>13 DEF SendCall, TypeInv, TypeOK
    <2>3. QED BY <1>13, <2>1, <2>2 DEF SendCall, Quiet, row, TypeInv, TypeOK
  <1>14. CASE CallReturns(r)
    <2>1. exec' \in [Runs -> Execs] /\ RoundsLeft'
      BY <1>14, AnswerType, Points DEF CallReturns
    <2>2. QED BY <1>14, <2>1 DEF CallReturns, Quiet, row, ghost, TypeInv, TypeOK
  <1>15. CASE ToolDone(r)
    <2>1. exec' \in [Runs -> Execs] /\ RoundsLeft'
      BY <1>15, GotoType, Points DEF ToolDone
    <2>2. QED BY <1>15, <2>1 DEF ToolDone, Quiet, row, ghost, TypeInv, TypeOK
  <1>16. CASE Report(r)
    BY <1>16, FrameType, Points DEF Report
  <1>17. CASE Settle(r)
    <2>1. exec' \in [Runs -> Execs] /\ RoundsLeft'
      <3>1. CASE Goto(r, "askUser")
        BY <1>17, <3>1, GotoType, Points
      <3>2. CASE MoreRounds(r) /\ Goto(r, "round")
        <4> DEFINE e == [exec[r] EXCEPT !.at = "round"]
        <4>1. exec' = [exec EXCEPT ![r] = e]
          BY <1>17, <3>2 DEF Goto
        <4>2. exec[r] \in Execs
          BY <1>17 DEF TypeInv, TypeOK
        <4>3. e \in Execs /\ e.round < MaxRounds
          BY <1>17, <3>2, <4>2, Points DEF Execs, MoreRounds
        <4> HIDE DEF e
        <4>4. QED BY <1>17, <4>1, <4>3, SetType
      <3>3. CASE exec' = [exec EXCEPT ![r].at = "close", ![r].answer = "reply"]
        BY <1>17, <3>3, AnswerType, Points
      <3>4. QED BY <1>17, <3>1, <3>2, <3>3 DEF Settle, Checkpoint
    <2>2. /\ pending' \in [Runs -> BOOLEAN] /\ open' \in [Runs -> BOOLEAN]
          /\ age' \in [Runs -> 0..StaleAfter]
      BY <1>17, AgentRunAssumption DEF Settle, Checkpoint, TypeInv, TypeOK
    <2>3. QED BY <1>17, <2>1, <2>2 DEF Settle, Checkpoint, Quiet, TypeInv, TypeOK
  <1>18. CASE AskUser(r)
    BY <1>18, FrameType, Points DEF AskUser
  <1>19. CASE Close(r)
    <2>1. exec' \in [Runs -> Execs] /\ RoundsLeft'
      BY <1>19, GotoType, Points DEF Close
    <2>2. QED BY <1>19, <2>1 DEF Close, Quiet, row, ghost, TypeInv, TypeOK
  <1>20. CASE LastFrames(r)
    BY <1>20, FrameType, Points DEF LastFrames
  <1>21. CASE SaveReply(r)
    <2>1. exec[r].answer \in Transcripts
      BY <1>21 DEF TypeInv, TypeOK, Execs, Transcripts
    <2>2. QED BY <1>21, <2>1, SaveType, Points DEF SaveReply
  <1>22. CASE DoneFrame(r)
    BY <1>22, FrameType, Points DEF DoneFrame
  <1>23. CASE EndReply(r)
    BY <1>23, EndType, Points DEF EndReply, Statuses
  <1>24. CASE SaveReview(r)
    BY <1>24, SaveType, Points DEF SaveReview, Transcripts
  <1>25. CASE ReviewFrame(r)
    BY <1>25, FrameType, Points DEF ReviewFrame
  <1>26. CASE EndReview(r)
    BY <1>26, EndType, Points DEF EndReview, Statuses
  <1>27. CASE Throws(r)
    <2>1. exec' \in [Runs -> Execs] /\ RoundsLeft'
      BY <1>27, GotoType, Points DEF Throws
    <2>2. clash' \in [Runs -> BOOLEAN]
      BY <1>27 DEF Throws, Abandons, TypeInv, TypeOK
    <2>3. QED BY <1>27, <2>1, <2>2 DEF Throws, Quiet, row, ghost, TypeInv, TypeOK
  <1>28. CASE AppUnreachable(r)
    <2>1. exec' \in [Runs -> Execs] /\ RoundsLeft'
      BY <1>28, GotoType, Points DEF AppUnreachable
    <2>2. faults' \in 0..MaxFaults
      BY <1>28, AgentRunAssumption DEF AppUnreachable, TypeInv, TypeOK
    <2>3. clash' \in [Runs -> BOOLEAN]
      BY <1>28 DEF AppUnreachable, Abandons, TypeInv, TypeOK
    <2>4. QED BY <1>28, <2>1, <2>2, <2>3 DEF AppUnreachable, row, ghost, TypeInv, TypeOK
  <1>29. CASE RetryFrame(r)
    BY <1>29, CatchFrameType, Points DEF RetryFrame
  <1>30. CASE Requeue(r)
    <2>1. exec' \in [Runs -> Execs] /\ RoundsLeft'
      BY <1>30, GotoType, Points DEF Requeue
    <2>2. status' \in [Runs -> Statuses] /\ age' \in [Runs -> 0..StaleAfter]
      BY <1>30, AgentRunAssumption DEF Requeue, Status, Statuses, TypeInv, TypeOK
    <2>3. QED BY <1>30, <2>1, <2>2 DEF Requeue, Quiet, ghost, TypeInv, TypeOK
  <1>31. CASE FailFrame(r)
    BY <1>31, CatchFrameType, Points DEF FailFrame
  <1>32. CASE SaveFailure(r)
    BY <1>32, SaveType, Points DEF SaveFailure, Transcripts
  <1>33. CASE EndFailure(r)
    BY <1>33, EndType, Points DEF EndFailure, Statuses
  <1>34. CASE StreamWriteRejected(r)
    BY <1>34, DieType DEF StreamWriteRejected, TypeInv, TypeOK
  <1>35. CASE Leave(r)
    <2>1. exec' \in [Runs -> Execs] /\ RoundsLeft'
      BY <1>35, NoExecType, SetType DEF Leave
    <2>2. inFlight' \subseteq Runs
      BY <1>35 DEF Leave, TypeInv, TypeOK
    <2>3. QED BY <1>35, <2>1, <2>2 DEF Leave, row, ghost, TypeInv, TypeOK
  <1>36. CASE FailureUnsaved(r)
    <2>1. exec' \in [Runs -> Execs] /\ RoundsLeft'
      BY <1>36, GotoType, Points DEF FailureUnsaved, At
    <2>2. QED BY <1>36, <2>1 DEF FailureUnsaved, Quiet, row, ghost, TypeInv, TypeOK
  <1>37. QED
    BY <1>1, <1>2, <1>3, <1>4, <1>5, <1>6, <1>7, <1>8, <1>9, <1>10, <1>11, <1>12, <1>13, <1>14, <1>15, <1>16, <1>17, <1>18, <1>19, <1>20, <1>21, <1>22, <1>23, <1>24, <1>25, <1>26, <1>27, <1>28, <1>29, <1>30, <1>31, <1>32, <1>33, <1>34, <1>35, <1>36
       DEF Execute

LEMMA FreeSlotsNat == ASSUME TypeInv PROVE FreeSlots \in Nat
  <1>1. Running \subseteq Runs /\ inFlight \subseteq Runs
    BY DEF Running, TypeInv, TypeOK
  <1>2. Cardinality(Running) \in Nat /\ Cardinality(inFlight) \in Nat
    BY <1>1, RunsFinite, FS_Subset, FS_CardinalityType
  <1>3. QED BY <1>2, AgentRunAssumption DEF FreeSlots, LargerOf

LEMMA DispatchType ==
  ASSUME TypeInv, Dispatch
  PROVE  TypeInv'
  <1>1. CASE Sweep
    <2>1. status' \in [Runs -> Statuses] /\ age' \in [Runs -> 0..StaleAfter]
      BY <1>1, AgentRunAssumption DEF Sweep, Statuses, TypeInv, TypeOK
    <2>2. dispatcher' \in Dispatches
      BY <1>1 DEF Sweep, Dispatches, TypeInv, TypeOK
    <2>3. QED BY <1>1, <2>1, <2>2 DEF Sweep, ghost, TypeInv, TypeOK, RoundsLeft
  <1>2. CASE CountActive
    <2>1. ActiveUsers \subseteq Users
      BY AgentRunAssumption DEF ActiveUsers, Running, TypeInv, TypeOK
    <2>2. dispatcher' \in Dispatches
      BY <1>2, <2>1, FreeSlotsNat DEF CountActive, NoDispatch, Dispatches
    <2>3. QED BY <1>2, <2>2 DEF CountActive, row, ghost, TypeInv, TypeOK, RoundsLeft
  <1>3. CASE SelectRuns
    <2> DEFINE start == [NoExec EXCEPT !.at = "lookup"]
    <2>1. Selected \subseteq Runs
      BY DEF Selected, Oldest, Candidates, Window, Queued
    <2>2. start \in Execs /\ start.round < MaxRounds
      <3>1. NoExec.round < MaxRounds
        BY AgentRunAssumption DEF NoExec
      <3>2. start = [NoExec EXCEPT !.at = "lookup"] /\ NoExec \in Execs
        BY NoExecType
      <3>3. QED BY <3>1, <3>2, Points DEF Execs
    <2>3. exec' = [r \in Runs |-> IF r \in Selected THEN start ELSE exec[r]]
      BY <1>3 DEF SelectRuns
    <2> HIDE DEF start
    <2>4. exec' \in [Runs -> Execs] /\ RoundsLeft'
      BY <2>2, <2>3 DEF TypeInv, TypeOK, RoundsLeft
    <2>5. inFlight' \subseteq Runs
      BY <1>3, <2>1 DEF SelectRuns, TypeInv, TypeOK
    <2>6. dispatcher' \in Dispatches
      BY <1>3 DEF SelectRuns, NoDispatch, Dispatches
    <2>7. QED BY <1>3, <2>4, <2>5, <2>6 DEF SelectRuns, row, ghost, TypeInv, TypeOK
  <1>4. QED BY <1>1, <1>2, <1>3 DEF Dispatch

LEMMA StopType ==
  ASSUME TypeInv, NEW r \in Runs, PressStop(r) \/ Cancel(r) \/ DropStop(r)
  PROVE  TypeInv'
  <1>1. stop' \in [Runs -> StopPoints]
    BY DEF PressStop, Cancel, ClaimStop, SaveStop, AppendStop, DropStop, StopGoto,
           StopPoints, TypeInv, TypeOK
  <1>2. CASE PressStop(r)
    BY <1>1, <1>2 DEF PressStop, row, daemon, ghost, TypeInv, TypeOK, RoundsLeft
  <1>3. CASE ClaimStop(r)
    <2>1. /\ status' \in [Runs -> Statuses]
          /\ secrets' \in [Runs -> BOOLEAN]
          /\ age' \in [Runs -> 0..StaleAfter]
      <3>1. CASE status[r] \in Unstoppable
        BY <1>3, <3>1 DEF ClaimStop, TypeInv, TypeOK
      <3>2. CASE status[r] \notin Unstoppable
        <4>1. /\ Status(r, "cancelled")
              /\ secrets' = [secrets EXCEPT ![r] = FALSE]
              /\ age' = [age EXCEPT ![r] = 0]
          BY <1>3, <3>2 DEF ClaimStop
        <4>2. QED BY <4>1, AgentRunAssumption DEF Status, Statuses, TypeInv, TypeOK
      <3>3. QED BY <3>1, <3>2
    <2>2. QED BY <1>1, <1>3, <2>1 DEF ClaimStop, daemon, ghost, TypeInv, TypeOK, RoundsLeft
  <1>4. CASE SaveStop(r)
    <2>1. transcript' \in [Runs -> Transcripts]
      BY <1>4 DEF SaveStop, Transcripts, TypeInv, TypeOK
    <2>2. QED BY <1>1, <1>4, <2>1 DEF SaveStop, daemon, ghost, TypeInv, TypeOK, RoundsLeft
  <1>5. CASE AppendStop(r)
    <2>1. clash' \in [Runs -> BOOLEAN]
      <3>1. CASE clash' = [clash EXCEPT ![r] = exec[r].at \in Counting]
        <4>1. (exec[r].at \in Counting) \in BOOLEAN
          OBVIOUS
        <4>2. QED BY <3>1, <4>1, Zenon DEF TypeInv, TypeOK
      <3>2. CASE UNCHANGED clash
        BY <3>2 DEF TypeInv, TypeOK
      <3>3. QED BY <1>5, <3>1, <3>2 DEF AppendStop
    <2>2. QED BY <1>1, <1>5, <2>1 DEF AppendStop, row, daemon, ghost, TypeInv, TypeOK, RoundsLeft
  <1>6. CASE DropStop(r)
    <2>1. faults' \in 0..MaxFaults
      BY <1>6, AgentRunAssumption DEF DropStop, TypeInv, TypeOK
    <2>2. QED BY <1>1, <1>6, <2>1 DEF DropStop, row, daemon, ghost, TypeInv, TypeOK, RoundsLeft
  <1>7. QED BY <1>2, <1>3, <1>4, <1>5, <1>6 DEF Cancel

LEMMA InitType == Init => TypeInv
  <1> SUFFICES ASSUME Init PROVE TypeInv
    OBVIOUS
  <1>1. exec \in [Runs -> Execs] /\ RoundsLeft
    BY NoExecType DEF Init, RoundsLeft
  <1>2. dispatcher \in Dispatches
    BY DEF Init, NoDispatch, Dispatches
  <1>3. faults \in 0..MaxFaults /\ age \in [Runs -> 0..StaleAfter]
    BY AgentRunAssumption DEF Init
  <1>4. QED
    BY <1>1, <1>2, <1>3 DEF Init, Statuses, Transcripts, StopPoints, TypeInv, TypeOK

LEMMA NextType == TypeInv /\ [Next]_vars => TypeInv'
  <1> SUFFICES ASSUME TypeInv, [Next]_vars PROVE TypeInv'
    OBVIOUS
  <1>1. CASE Dispatch
    BY <1>1, DispatchType
  <1>2. CASE Crash
    <2>1. faults' \in 0..MaxFaults
      BY <1>2, AgentRunAssumption DEF Crash, TypeInv, TypeOK
    <2>2. QED BY <1>2, <2>1, DieType DEF Crash
  <1>3. CASE Restart
    BY <1>3 DEF Restart, row, ghost, TypeInv, TypeOK, RoundsLeft
  <1>4. CASE Tick
    <2>1. age' \in [Runs -> 0..StaleAfter]
      BY <1>4, AgentRunAssumption DEF Tick, TypeInv, TypeOK
    <2>2. QED BY <1>4, <2>1 DEF Tick, daemon, ghost, TypeInv, TypeOK, RoundsLeft
  <1>5. ASSUME NEW r \in Runs, QueueRun(r) PROVE TypeInv'
    <2>1. /\ status' \in [Runs -> Statuses]
          /\ secrets' \in [Runs -> BOOLEAN]
          /\ transcript' \in [Runs -> Transcripts]
      BY <1>5 DEF QueueRun, Status, Statuses, Transcripts, TypeInv, TypeOK
    <2>2. QED BY <1>5, <2>1 DEF QueueRun, daemon, ghost, TypeInv, TypeOK, RoundsLeft
  <1>6. ASSUME NEW r \in Runs, Execute(r) PROVE TypeInv'
    BY <1>6, ExecuteType
  <1>7. ASSUME NEW r \in Runs, PressStop(r) \/ Cancel(r) \/ DropStop(r) PROVE TypeInv'
    BY <1>7, StopType
  <1>8. CASE UNCHANGED vars
    BY <1>8 DEF vars, row, daemon, ghost, TypeInv, TypeOK, RoundsLeft
  <1>9. QED BY <1>1, <1>2, <1>3, <1>4, <1>5, <1>6, <1>7, <1>8 DEF Next

\* Every variable keeps its type, whatever is queued, stopped or killed.
THEOREM TypeCorrect == Spec => []TypeOK
  <1>1. TypeInv => TypeOK
    BY DEF TypeInv
  <1>2. QED BY <1>1, InitType, NextType, PTL DEF Spec

-----------------------------------------------------------------------------
(* What a step of an execution may do to its row *)

\* Where an execution can be whose call left after the Stop: it reads the status
\* once more, or fails, but never gets back to the model or another call.
Spent == Early \cup Catching \cup {"off", "leave", "call", "toolDone", "endFailure"}

\* Execution r moves on and leaves status, credentials and slots as they are.
Walk(r) ==
  /\ UNCHANGED <<status, secrets, daemonUp, inFlight, dispatcher, late>>
  /\ age' = age \/ (exec[r].at \in Serving /\ age' = [age EXCEPT ![r] = 0])
  /\ \A q \in Runs \ {r} : exec'[q] = exec[q]
  /\ exec[r].at # "off" /\ exec'[r].at # "off"
  /\ exec'[r].at \in Serving => exec[r].at \in Serving
  /\ exec[r].at \in Spent /\ Stopped(r) => exec'[r].at \in Spent

\* The ways an execution completes its row.
Complete(r) ==
  \E from \in Ending, s \in {"waiting_approval", "succeeded", "failed"} :
     End(r, from, s) /\ (s = "failed" \/ from = "endReply")

LEMMA ServingPoints ==
  /\ Serving = ExecPoints \ {"off", "leave", "lookup", "claim"}
  /\ Spent = {"lookup", "claim", "retryFrame", "requeue", "failFrame", "saveFailure",
              "off", "leave", "call", "toolDone", "endFailure"}
  BY DEF Serving, Spent, Early, Catching

\* Only five kinds of steps change more than the place of the execution.
LEMMA ExecuteKinds ==
  ASSUME TypeInv, NEW r \in Runs, Execute(r)
  PROVE  \/ Claim(r) \/ SendCall(r) \/ Requeue(r) \/ Complete(r)
         \/ StreamWriteRejected(r) \/ Leave(r) \/ Walk(r)
  <1>1. CASE Lookup(r)
    BY <1>1, Points, ServingPoints DEF Lookup, Walk, Goto, At, Quiet, row, ghost, TypeInv, TypeOK, Execs
  <1>2. CASE LoadLog(r)
    BY <1>2, Points, ServingPoints DEF LoadLog, Walk, Goto, At, Quiet, row, ghost, TypeInv, TypeOK, Execs
  <1>3. CASE Prepare(r)
    BY <1>3, Points, ServingPoints DEF Prepare, Walk, Frame, Goto, At, Quiet, row, ghost, TypeInv, TypeOK, Execs
  <1>4. CASE VisionDone(r)
    BY <1>4, Points, ServingPoints DEF VisionDone, Walk, Goto, At, Quiet, row, ghost, TypeInv, TypeOK, Execs
  <1>5. CASE VisionFails(r)
    BY <1>5, Points, ServingPoints DEF VisionFails, Walk, Frame, Goto, At, Quiet, row, ghost, TypeInv, TypeOK, Execs
  <1>6. CASE BeginRound(r)
    BY <1>6, Points, ServingPoints DEF BeginRound, Walk, Goto, At, Quiet, row, ghost, Stopped, TypeInv, TypeOK, Execs
  <1>7. CASE Think(r)
    BY <1>7, Points, ServingPoints DEF Think, Walk, Frame, Goto, At, Quiet, row, ghost, TypeInv, TypeOK, Execs
  <1>8. CASE ModelAnswers(r)
    BY <1>8, Points, ServingPoints DEF ModelAnswers, Walk, Frame, Goto, At, Quiet, row, ghost, TypeInv, TypeOK, Execs
  <1>9. CASE ModelDone(r)
    BY <1>9, Points, ServingPoints DEF ModelDone, Walk, Goto, At, Quiet, row, ghost, Stopped, TypeInv, TypeOK, Execs
  <1>10. CASE Plan(r)
    BY <1>10, Points, ServingPoints DEF Plan, Walk, Frame, Goto, At, Quiet, row, ghost, TypeInv, TypeOK, Execs
  <1>11. CASE Mark(r)
    BY <1>11, Points, ServingPoints DEF Mark, Checkpoint, Walk, Goto, At, Quiet, row, ghost, TypeInv, TypeOK, Execs
  <1>12. CASE CallReturns(r)
    BY <1>12, Points, ServingPoints DEF CallReturns, Walk, Goto, At, Quiet, row, ghost, TypeInv, TypeOK, Execs
  <1>13. CASE ToolDone(r)
    BY <1>13, Points, ServingPoints DEF ToolDone, Walk, Goto, At, Quiet, row, ghost, Stopped, TypeInv, TypeOK, Execs
  <1>14. CASE Report(r)
    BY <1>14, Points, ServingPoints DEF Report, Walk, Frame, Goto, At, Quiet, row, ghost, TypeInv, TypeOK, Execs
  <1>15. CASE Settle(r)
    BY <1>15, Points, ServingPoints DEF Settle, Checkpoint, Walk, Goto, At, Quiet, row, ghost, TypeInv, TypeOK, Execs
  <1>16. CASE AskUser(r)
    BY <1>16, Points, ServingPoints DEF AskUser, Walk, Frame, Goto, At, Quiet, row, ghost, TypeInv, TypeOK, Execs
  <1>17. CASE Close(r)
    BY <1>17, Points, ServingPoints DEF Close, Walk, Goto, At, Quiet, row, ghost, Stopped, TypeInv, TypeOK, Execs
  <1>18. CASE LastFrames(r)
    BY <1>18, Points, ServingPoints DEF LastFrames, Walk, Frame, Goto, At, Quiet, row, ghost, TypeInv, TypeOK, Execs
  <1>19. CASE SaveReply(r)
    BY <1>19, Points, ServingPoints DEF SaveReply, Walk, Save, Goto, At, Quiet, ghost, TypeInv, TypeOK, Execs
  <1>20. CASE DoneFrame(r)
    BY <1>20, Points, ServingPoints DEF DoneFrame, Walk, Frame, Goto, At, Quiet, row, ghost, TypeInv, TypeOK, Execs
  <1>21. CASE SaveReview(r)
    BY <1>21, Points, ServingPoints DEF SaveReview, Walk, Save, Goto, At, Quiet, ghost, TypeInv, TypeOK, Execs
  <1>22. CASE ReviewFrame(r)
    BY <1>22, Points, ServingPoints DEF ReviewFrame, Walk, Frame, Goto, At, Quiet, row, ghost, TypeInv, TypeOK, Execs
  <1>23. CASE Throws(r)
    BY <1>23, Points, ServingPoints DEF Throws, Walk, Goto, At, Quiet, row, ghost, TypeInv, TypeOK, Execs
  <1>24. CASE AppUnreachable(r)
    BY <1>24, Points, ServingPoints DEF AppUnreachable, Walk, Goto, row, ghost, TypeInv, TypeOK, Execs
  <1>25. CASE RetryFrame(r)
    BY <1>25, Points, ServingPoints DEF RetryFrame, Walk, CatchFrame, Goto, At, Quiet, row, ghost, TypeInv, TypeOK, Execs
  <1>26. CASE FailFrame(r)
    BY <1>26, Points, ServingPoints DEF FailFrame, Walk, CatchFrame, Goto, At, Quiet, row, ghost, TypeInv, TypeOK, Execs
  <1>27. CASE SaveFailure(r)
    BY <1>27, Points, ServingPoints DEF SaveFailure, Walk, Save, Goto, At, Quiet, ghost, TypeInv, TypeOK, Execs
  <1>28. CASE EndReply(r) \/ EndReview(r) \/ EndFailure(r)
    BY <1>28 DEF EndReply, EndReview, EndFailure, Complete, Ending
  <1>29. CASE FailureUnsaved(r)
    BY <1>29, Points, ServingPoints DEF FailureUnsaved, Walk, Goto, At, Quiet, row, ghost, TypeInv, TypeOK, Execs
  <1>30. QED
    BY <1>1, <1>2, <1>3, <1>4, <1>5, <1>6, <1>7, <1>8, <1>9, <1>10, <1>11, <1>12, <1>13, <1>14, <1>15, <1>16, <1>17, <1>18, <1>19, <1>20, <1>21, <1>22, <1>23, <1>24, <1>25, <1>26, <1>27, <1>28, <1>29
       DEF Execute

-----------------------------------------------------------------------------
(* One run of an account at a time *)

\* The dispatcher's two reads are enough because the accounts it counted active
\* still cover every occupied account when it picks, and because an execution
\* takes a row only after it has been counted in flight.
Held == \A r \in Runs : exec[r].at # "off" => r \in inFlight

Covered ==
  dispatcher.at = "select" =>
     \A r \in Runs : Occupying(r) => Owner[r] \in dispatcher.active

SlotInv == TypeInv /\ Held /\ Covered /\ OneRunPerUser

\* A step that occupies no further account.
LEMMA NothingOccupied ==
  ASSUME SlotInv, TypeInv',
         \A q \in Runs : Occupying(q)' => Occupying(q),
         \A q \in Runs : exec'[q].at # "off" => q \in inFlight',
         dispatcher' = dispatcher \/ dispatcher'.at # "select"
  PROVE  SlotInv'
  <1>1. OneRunPerUser'
    BY DEF SlotInv, OneRunPerUser
  <1>2. Covered'
    BY DEF SlotInv, Covered
  <1>3. QED BY <1>1, <1>2 DEF SlotInv, Held

LEMMA SelectRunsSlots ==
  ASSUME SlotInv, TypeInv', SelectRuns
  PROVE  SlotInv'
  <1>1. \A r \in Selected : r \in Runs /\ Owner[r] \notin dispatcher.active
    BY DEF Selected, Oldest, Candidates, Window, Queued
  <1>2. \A r, s \in Selected : r # s => Owner[r] # Owner[s]
    <2> SUFFICES ASSUME NEW r \in Selected, NEW s \in Selected, r # s
                 PROVE  Owner[r] # Owner[s]
      OBVIOUS
    <2>1. r \in Candidates /\ s \in Candidates /\ r \in Int /\ s \in Int
      BY <1>1, AgentRunAssumption DEF Selected, Oldest, Runs
    <2>2. r < s \/ s < r
      BY <2>1
    <2>3. QED BY <2>1, <2>2 DEF Candidates
  <1>3. \A r \in Runs : Occupying(r)' <=> Occupying(r) \/ r \in Selected
    BY DEF SelectRuns, Occupying, row
  <1>4. \A r \in Runs : Occupying(r) => Owner[r] \in dispatcher.active
    BY DEF SelectRuns, Dispatching, SlotInv, Covered
  <1>5. OneRunPerUser'
    <2> SUFFICES ASSUME NEW r \in Runs, NEW s \in Runs,
                        Occupying(r)', Occupying(s)', r # s
                 PROVE  Owner[r] # Owner[s]
      BY DEF OneRunPerUser
    <2>1. CASE Occupying(r) /\ Occupying(s)
      BY <2>1 DEF SlotInv, OneRunPerUser
    <2>2. CASE Occupying(r) /\ s \in Selected
      BY <2>2, <1>1, <1>4
    <2>3. CASE r \in Selected /\ Occupying(s)
      BY <2>3, <1>1, <1>4
    <2>4. CASE r \in Selected /\ s \in Selected
      BY <2>4, <1>2
    <2>5. QED BY <1>3, <2>1, <2>2, <2>3, <2>4
  <1>6. Held'
    <2> SUFFICES ASSUME NEW r \in Runs, exec'[r].at # "off" PROVE r \in inFlight'
      BY DEF Held
    <2>1. CASE r \in Selected
      BY <2>1 DEF SelectRuns
    <2>2. CASE r \notin Selected
      BY <2>2 DEF SelectRuns, SlotInv, Held
    <2>3. QED BY <2>1, <2>2
  <1>7. Covered'
    BY DEF SelectRuns, NoDispatch, Covered
  <1>8. QED BY <1>5, <1>6, <1>7 DEF SlotInv

LEMMA ExecuteSlots ==
  ASSUME SlotInv, TypeInv', NEW r \in Runs, Execute(r)
  PROVE  SlotInv'
  <1> USE DEF Occupying
  <1>1. CASE Claim(r)
    <2>1. r \in inFlight
      BY <1>1 DEF Claim, At, SlotInv, Held
    <2>2. /\ inFlight' = inFlight /\ dispatcher' = dispatcher
          /\ \A q \in Runs : exec'[q].at # "off" => exec[q].at # "off"
          /\ \A q \in Runs \ {r} : status'[q] = status[q]
      BY <1>1 DEF Claim, At, Goto, Quiet, Status, SlotInv, TypeInv, TypeOK
    <2>3. QED BY <2>1, <2>2, NothingOccupied DEF SlotInv, Held
  <1>2. CASE SendCall(r)
    <2>1. /\ UNCHANGED <<status, inFlight, dispatcher>>
          /\ \A q \in Runs : exec'[q].at # "off" => exec[q].at # "off"
      BY <1>2 DEF SendCall, At, Goto, Quiet, row, SlotInv, TypeInv, TypeOK
    <2>2. QED BY <2>1, NothingOccupied DEF SlotInv, Held
  <1>3. CASE Requeue(r)
    <2>1. /\ UNCHANGED <<inFlight, dispatcher>>
          /\ \A q \in Runs : status'[q] = "running" => status[q] = "running"
          /\ \A q \in Runs : exec'[q].at # "off" => exec[q].at # "off"
      BY <1>3 DEF Requeue, Stopped, Status, At, Goto, Quiet, SlotInv, TypeInv, TypeOK
    <2>2. QED BY <2>1, NothingOccupied DEF SlotInv, Held
  <1>4. CASE Complete(r)
    <2>1. /\ UNCHANGED <<inFlight, dispatcher>>
          /\ \A q \in Runs : status'[q] = "running" => status[q] = "running"
          /\ \A q \in Runs : exec'[q].at # "off" => exec[q].at # "off"
      BY <1>4 DEF Complete, End, SetRunStatus, Status, At, Goto, Quiet, Ending,
                  SlotInv, TypeInv, TypeOK
    <2>2. QED BY <2>1, NothingOccupied DEF SlotInv, Held
  <1>5. CASE StreamWriteRejected(r)
    BY <1>5, NothingOccupied DEF StreamWriteRejected, Die, NoExec, NoDispatch, row
  <1>6. CASE Leave(r)
    <2>1. /\ UNCHANGED <<status, dispatcher>> /\ inFlight' = inFlight \ {r}
          /\ \A q \in Runs : exec'[q].at # "off" => q # r /\ exec[q].at # "off"
      BY <1>6 DEF Leave, NoExec, row, SlotInv, TypeInv, TypeOK
    <2>2. QED BY <2>1, NothingOccupied DEF SlotInv, Held
  <1>7. CASE Walk(r)
    BY <1>7, NothingOccupied DEF Walk, SlotInv, Held
  <1>8. QED
    BY <1>1, <1>2, <1>3, <1>4, <1>5, <1>6, <1>7, ExecuteKinds DEF SlotInv

LEMMA NextSlots == SlotInv /\ [Next]_vars => SlotInv'
  <1> SUFFICES ASSUME SlotInv, [Next]_vars PROVE SlotInv'
    OBVIOUS
  <1>0. TypeInv'
    BY NextType DEF SlotInv
  <1>1. CASE Sweep
    BY <1>0, <1>1, NothingOccupied DEF Sweep, Occupying, SlotInv, Held
  <1>2. CASE CountActive
    <2>1. Covered'
      BY <1>2 DEF CountActive, NoDispatch, ActiveUsers, Running, Covered, Occupying, row
    <2>2. QED BY <1>0, <1>2, <2>1 DEF CountActive, SlotInv, Held, OneRunPerUser, Occupying, row
  <1>3. CASE SelectRuns
    BY <1>0, <1>3, SelectRunsSlots
  <1>4. CASE Crash
    BY <1>0, <1>4, NothingOccupied DEF Crash, Die, NoExec, NoDispatch, Occupying, row
  <1>5. CASE Restart \/ Tick \/ UNCHANGED vars
    BY <1>0, <1>5, NothingOccupied
       DEF Restart, Tick, vars, row, daemon, Occupying, SlotInv, Held
  <1>6. ASSUME NEW r \in Runs, QueueRun(r) PROVE SlotInv'
    <2>1. \A q \in Runs : status'[q] = "running" => status[q] = "running"
      BY <1>6 DEF QueueRun, Status, SlotInv, TypeInv, TypeOK
    <2>2. QED BY <1>0, <1>6, <2>1, NothingOccupied
                 DEF QueueRun, daemon, Occupying, SlotInv, Held
  <1>7. ASSUME NEW r \in Runs, Execute(r) PROVE SlotInv'
    BY <1>0, <1>7, ExecuteSlots
  <1>8. ASSUME NEW r \in Runs, PressStop(r) \/ Cancel(r) \/ DropStop(r) PROVE SlotInv'
    <2>1. /\ UNCHANGED daemon
          /\ \A q \in Runs : status'[q] = "running" => status[q] = "running"
      BY <1>8 DEF PressStop, Cancel, ClaimStop, SaveStop, AppendStop, DropStop, Status,
                  row, SlotInv, TypeInv, TypeOK
    <2>2. QED BY <1>0, <2>1, NothingOccupied DEF daemon, Occupying, SlotInv, Held
  <1>9. QED
    BY <1>1, <1>2, <1>3, <1>4, <1>5, <1>6, <1>7, <1>8 DEF Next, Dispatch

\* "One user receives at most one active slot", for any capacity, window size and
\* schedule of crashes, stops, retries and sweeps.
THEOREM OneRun == Spec => []OneRunPerUser
  <1>1. Init => SlotInv
    BY InitType DEF Init, NoExec, NoDispatch, SlotInv, Held, Covered, OneRunPerUser, Occupying
  <1>2. SlotInv => OneRunPerUser
    BY DEF SlotInv
  <1>3. QED BY <1>1, <1>2, NextSlots, PTL DEF Spec

-----------------------------------------------------------------------------
(* A live execution keeps its row *)

\* The sweep waits longer than a live execution can be silent.
Beating ==
  \A r \in Runs : exec[r].at \in Serving /\ status[r] = "running" => age[r] <= RunTimeout

RowInv == TypeInv /\ LiveRunKeepsItsRow /\ Beating

LEMMA ExecuteRows ==
  ASSUME RowInv, TypeInv', NEW r \in Runs, Execute(r)
  PROVE  RowInv'
  <1> USE ServingPoints, AgentRunAssumption
  <1> USE DEF RowInv, LiveRunKeepsItsRow, Beating, TypeInv, TypeOK
  <1>1. CASE Claim(r)
    <2>1. \A q \in Runs \ {r} :
             exec'[q] = exec[q] /\ status'[q] = status[q] /\ age'[q] = age[q]
      BY <1>1 DEF Claim, Goto, Status
    <2>2. \/ exec'[r].at = "leave"
          \/ exec'[r].at = "load" /\ status'[r] = "running" /\ age'[r] = 0
      <3>1. CASE status[r] = "queued"
        BY <1>1, <3>1 DEF Claim, Goto, Status, Execs
      <3>2. CASE status[r] # "queued"
        BY <1>1, <3>2 DEF Claim, Goto, Execs
      <3>3. QED BY <3>1, <3>2
    <2>3. QED BY <2>1, <2>2
  <1>2. CASE SendCall(r)
    <2>1. UNCHANGED row /\ exec[r].at \in Serving
      BY <1>2, Points DEF SendCall, At
    <2>2. \A q \in Runs \ {r} : exec'[q] = exec[q]
      BY <1>2 DEF SendCall, Goto
    <2>3. QED BY <2>1, <2>2 DEF row
  <1>3. CASE Requeue(r)
    BY <1>3 DEF Requeue, Goto, Status
  <1>4. CASE Complete(r)
    BY <1>4 DEF Complete, End, SetRunStatus, Goto, Status
  <1>5. CASE StreamWriteRejected(r)
    BY <1>5 DEF StreamWriteRejected, Die, NoExec
  <1>6. CASE Leave(r)
    BY <1>6 DEF Leave, NoExec, row
  <1>7. CASE Walk(r)
    BY <1>7 DEF Walk
  <1>8. QED
    BY <1>1, <1>2, <1>3, <1>4, <1>5, <1>6, <1>7, ExecuteKinds

LEMMA NextRows == RowInv /\ [Next]_vars => RowInv'
  <1> SUFFICES ASSUME RowInv, [Next]_vars PROVE RowInv'
    OBVIOUS
  <1>0. TypeInv'
    BY NextType DEF RowInv
  <1> USE <1>0, ServingPoints, AgentRunAssumption
  <1> USE DEF RowInv, LiveRunKeepsItsRow, Beating, TypeInv, TypeOK
  <1>1. CASE Sweep
    BY <1>1 DEF Sweep, StaleRows, Running
  <1>2. CASE CountActive
    BY <1>2 DEF CountActive, row
  <1>3. CASE SelectRuns
    BY <1>3 DEF SelectRuns, NoExec, row
  <1>4. CASE Crash
    BY <1>4 DEF Crash, Die, NoExec
  <1>5. CASE Restart \/ UNCHANGED vars
    BY <1>5 DEF Restart, vars, row, daemon
  <1>6. CASE Tick
    BY <1>6 DEF Tick, Running, daemon
  <1>7. ASSUME NEW r \in Runs, QueueRun(r) PROVE RowInv'
    BY <1>7 DEF QueueRun, Status, daemon
  <1>8. ASSUME NEW r \in Runs, Execute(r) PROVE RowInv'
    BY <1>8, ExecuteRows
  <1>9. ASSUME NEW r \in Runs, PressStop(r) \/ Cancel(r) \/ DropStop(r) PROVE RowInv'
    <2>1. CASE ClaimStop(r)
      BY <2>1 DEF ClaimStop, Status, daemon
    <2>2. CASE PressStop(r) \/ SaveStop(r) \/ AppendStop(r) \/ DropStop(r)
      BY <2>2 DEF PressStop, SaveStop, AppendStop, DropStop, row, daemon
    <2>3. QED BY <1>9, <2>1, <2>2 DEF Cancel
  <1>10. QED
    BY <1>1, <1>2, <1>3, <1>4, <1>5, <1>6, <1>7, <1>8, <1>9 DEF Next, Dispatch

LEMMA RowsInvariant == Spec => []RowInv
  <1>1. Init => RowInv
    BY InitType, ServingPoints DEF Init, NoExec, RowInv, LiveRunKeepsItsRow, Beating
  <1>2. QED BY <1>1, NextRows, PTL DEF Spec

\* The stale sweep and the retry path never take a row from an execution that is
\* still working on it, for any time-outs with RunTimeout < StaleAfter.
THEOREM LiveRunKeepsRow == Spec => []LiveRunKeepsItsRow
  <1>1. RowInv => LiveRunKeepsItsRow
    BY DEF RowInv
  <1>2. QED BY <1>1, RowsInvariant, PTL

-----------------------------------------------------------------------------
(* Terminal rows *)

LEMMA ExecuteFinal ==
  ASSUME RowInv, NEW r \in Runs, Execute(r), NEW q \in Runs, status[q] \in Terminal
  PROVE  status'[q] = status[q]
  <1> USE ServingPoints, Points
  <1> USE DEF RowInv, LiveRunKeepsItsRow, TypeInv, TypeOK, Terminal
  <1>1. CASE Claim(r)
    BY <1>1 DEF Claim, Status
  <1>2. CASE SendCall(r) \/ StreamWriteRejected(r) \/ Leave(r) \/ Walk(r)
    BY <1>2 DEF SendCall, StreamWriteRejected, Die, Leave, Walk, row
  <1>3. CASE Requeue(r)
    BY <1>3 DEF Requeue, Stopped, At, Status
  <1>4. CASE Complete(r)
    BY <1>4 DEF Complete, Ending, End, SetRunStatus, Stopped, At, Status
  <1>5. QED BY <1>1, <1>2, <1>3, <1>4, ExecuteKinds

LEMMA StepFinal ==
  ASSUME RowInv, [Next]_vars, NEW q \in Runs, status[q] \in Terminal
  PROVE  \/ status'[q] = status[q]
         \/ status[q] = "waiting_approval" /\ status'[q] = "cancelled"
  <1>1. CASE Sweep
    BY <1>1 DEF Sweep, StaleRows, Running, Terminal
  <1>2. CASE CountActive \/ SelectRuns \/ Crash \/ Restart \/ Tick \/ UNCHANGED vars
    BY <1>2 DEF CountActive, SelectRuns, Crash, Die, Restart, Tick, vars, row
  <1>3. ASSUME NEW r \in Runs, QueueRun(r) PROVE status'[q] = status[q]
    BY <1>3 DEF QueueRun, Status, Terminal, RowInv, TypeInv, TypeOK
  <1>4. ASSUME NEW r \in Runs, Execute(r) PROVE status'[q] = status[q]
    BY <1>4, ExecuteFinal
  <1>5. ASSUME NEW r \in Runs, ClaimStop(r)
        PROVE  \/ status'[q] = status[q]
               \/ status[q] = "waiting_approval" /\ status'[q] = "cancelled"
    BY <1>5 DEF ClaimStop, Unstoppable, Status, Terminal, RowInv, TypeInv, TypeOK
  <1>6. ASSUME NEW r \in Runs,
               PressStop(r) \/ SaveStop(r) \/ AppendStop(r) \/ DropStop(r)
        PROVE  status'[q] = status[q]
    BY <1>6 DEF PressStop, SaveStop, AppendStop, DropStop, row
  <1>7. QED
    BY <1>1, <1>2, <1>3, <1>4, <1>5, <1>6 DEF Next, Dispatch, Cancel

\* "Terminal status cannot be overwritten by retry or normal completion": what a
\* late completion, retry or sweep would write is refused or cannot happen.
THEOREM TerminalFinal == Spec => TerminalIsFinal
  <1>1. RowInv /\ [Next]_vars =>
           [\A r \in Runs :
              status[r] \in Terminal =>
                 \/ status'[r] = status[r]
                 \/ status[r] = "waiting_approval" /\ status'[r] = "cancelled"]_status
    BY StepFinal
  <1>2. QED BY <1>1, RowsInvariant, PTL DEF Spec, TerminalIsFinal

-----------------------------------------------------------------------------
(* Capacity *)

\* Two runs with as many older runs in S are one run.
LEMMA OldestBound ==
  ASSUME NEW S \in SUBSET Runs, NEW n \in Nat
  PROVE  IsFiniteSet(Oldest(S, n)) /\ Cardinality(Oldest(S, n)) <= n
  <1> DEFINE T == Oldest(S, n)
             older(r) == {q \in S : q < r}
             rank == [r \in T |-> Cardinality(older(r))]
  <1>1. IsFiniteSet(S) /\ S \subseteq Int
    <2>1. IsFiniteSet(S)
      BY RunsFinite, FS_Subset
    <2>2. S \subseteq Int
      BY AgentRunAssumption DEF Runs
    <2>3. QED BY <2>1, <2>2
  <1>2. T \subseteq S /\ IsFiniteSet(T)
    BY <1>1, FS_Subset DEF Oldest
  <1>3. \A r \in S : IsFiniteSet(older(r)) /\ Cardinality(older(r)) \in Nat
    BY <1>1, FS_Subset, FS_CardinalityType
  <1>4. rank \in [T -> 0..(n - 1)]
    <2>1. \A r \in T : Cardinality(older(r)) < n
      BY Zenon DEF Oldest
    <2> HIDE DEF T, older
    <2>2. \A r \in T : Cardinality(older(r)) \in 0..(n - 1)
      BY <1>2, <1>3, <2>1
    <2>3. QED BY <2>2
  <1>5. IsFiniteSet(0..(n - 1)) /\ Cardinality(0..(n - 1)) = n
    BY FS_Interval
  <1>6. ASSUME NEW r \in T, NEW s \in T, r < s PROVE rank[r] # rank[s]
    <2>1. r \in S /\ s \in S /\ r \in Int /\ s \in Int
      BY <1>1, <1>2
    <2> HIDE DEF T, rank
    <2>2. older(r) \subseteq older(s) /\ r \in older(s) /\ r \notin older(r)
      <3>1. \A q \in S : q < r => q < s
        BY <1>1, <1>6, <2>1
      <3>2. ~(r < r)
        BY <2>1
      <3>3. QED BY <1>6, <2>1, <3>1, <3>2
    <2>3. Cardinality(older(r)) # Cardinality(older(s))
      BY <1>3, <2>1, <2>2, FS_Subset
    <2>4. QED BY <2>3 DEF rank
  <1> HIDE DEF T, rank
  <1>7. \A r, s \in T : r # s => rank[r] # rank[s]
    <2> SUFFICES ASSUME NEW r \in T, NEW s \in T, r # s PROVE rank[r] # rank[s]
      OBVIOUS
    <2>1. r < s \/ s < r
      BY <1>1, <1>2
    <2>2. QED BY <1>6, <2>1
  <1>8. ~(Cardinality(0..(n - 1)) < Cardinality(T))
    BY <1>2, <1>4, <1>5, <1>7, FS_PigeonHole
  <1>9. QED
    BY <1>2, <1>5, <1>8, FS_CardinalityType DEF T

\* The free slots the dispatcher counted are still free when it picks: in between,
\* executions only end.
Roomy ==
  dispatcher.at = "select" => Cardinality(inFlight) + dispatcher.slots <= Capacity

CapacityInv == SlotInv /\ CapacityRespected /\ Roomy

LEMMA InFlightFinite ==
  ASSUME TypeInv, NEW S \in SUBSET inFlight
  PROVE  /\ IsFiniteSet(inFlight) /\ Cardinality(inFlight) \in Nat
         /\ IsFiniteSet(S) /\ Cardinality(S) \in Nat
         /\ Cardinality(S) <= Cardinality(inFlight)
  <1>1. IsFiniteSet(inFlight)
    BY RunsFinite, FS_Subset DEF TypeInv, TypeOK
  <1>2. QED BY <1>1, FS_Subset, FS_CardinalityType

LEMMA NothingStarted ==
  ASSUME CapacityInv, SlotInv', inFlight' \subseteq inFlight,
         dispatcher' = dispatcher \/ dispatcher'.at # "select"
  PROVE  CapacityInv'
  <1>1. Cardinality(inFlight') <= Cardinality(inFlight) /\ Cardinality(inFlight') \in Nat
        /\ Cardinality(inFlight) \in Nat
    BY InFlightFinite DEF CapacityInv, SlotInv
  <1>2. dispatcher.slots \in Nat
    BY DEF CapacityInv, SlotInv, TypeInv, TypeOK, Dispatches
  <1>3. QED
    BY <1>1, <1>2, AgentRunAssumption DEF CapacityInv, CapacityRespected, Roomy

LEMMA NextCapacity == CapacityInv /\ [Next]_vars => CapacityInv'
  <1> SUFFICES ASSUME CapacityInv, [Next]_vars PROVE CapacityInv'
    OBVIOUS
  <1>0. SlotInv'
    BY NextSlots DEF CapacityInv
  <1>1. CASE Sweep
    BY <1>0, <1>1, NothingStarted DEF Sweep
  <1>2. CASE CountActive
    <2>1. Cardinality(inFlight) \in Nat /\ Cardinality(Running) \in Nat
      <3>1. Running \subseteq Runs /\ inFlight \subseteq Runs
        BY DEF Running, CapacityInv, SlotInv, TypeInv, TypeOK
      <3>2. QED BY <3>1, RunsFinite, FS_Subset, FS_CardinalityType
    <2>2. FreeSlots # 0 => Cardinality(inFlight) + FreeSlots <= Capacity
      BY <2>1, AgentRunAssumption DEF FreeSlots, LargerOf
    <2>3. Roomy'
      BY <1>2, <2>2 DEF CountActive, NoDispatch, Roomy
    <2>4. QED BY <1>0, <1>2, <2>3 DEF CountActive, CapacityInv, CapacityRespected
  <1>3. CASE SelectRuns
    <2>1. inFlight' = inFlight \cup Selected /\ dispatcher'.at # "select"
      BY <1>3 DEF SelectRuns, NoDispatch
    <2>2. dispatcher.slots \in Nat /\ Cardinality(inFlight) + dispatcher.slots <= Capacity
      BY <1>3 DEF SelectRuns, Dispatching, CapacityInv, SlotInv, TypeInv, TypeOK,
                  Dispatches, Roomy
    <2>3. Candidates \subseteq Runs
      BY DEF Candidates, Window, Oldest, Queued
    <2>4. IsFiniteSet(Selected) /\ Cardinality(Selected) <= dispatcher.slots
      BY <2>2, <2>3, OldestBound DEF Selected
    <2>5. IsFiniteSet(inFlight) /\ Cardinality(inFlight) \in Nat
      BY InFlightFinite DEF CapacityInv, SlotInv
    <2>6. Cardinality(inFlight') <= Cardinality(inFlight) + Cardinality(Selected)
      <3>1. IsFiniteSet(inFlight \cap Selected)
        BY <2>5, FS_Subset
      <3>2. Cardinality(inFlight \cap Selected) \in Nat /\ Cardinality(Selected) \in Nat
        BY <2>4, <3>1, FS_CardinalityType
      <3>3. QED BY <2>1, <2>4, <2>5, <3>2, FS_Union
    <2>7. Cardinality(inFlight') \in Nat /\ Cardinality(Selected) \in Nat
      BY <2>1, <2>4, <2>5, FS_Union, FS_CardinalityType
    <2>8. CapacityRespected'
      BY <2>2, <2>4, <2>5, <2>6, <2>7, AgentRunAssumption DEF CapacityRespected
    <2>9. QED BY <1>0, <2>1, <2>8 DEF CapacityInv, Roomy
  <1>4. CASE Crash
    BY <1>0, <1>4, NothingStarted DEF Crash, Die, NoDispatch
  <1>5. CASE Restart \/ Tick \/ UNCHANGED vars
    BY <1>0, <1>5, NothingStarted DEF Restart, Tick, vars, daemon
  <1>6. ASSUME NEW r \in Runs, Execute(r) PROVE CapacityInv'
    <2>1. inFlight' \subseteq inFlight /\ (dispatcher' = dispatcher \/ dispatcher'.at # "select")
      <3>1. CASE Claim(r) \/ SendCall(r) \/ Requeue(r) \/ Complete(r)
        BY <3>1 DEF Claim, SendCall, Requeue, Complete, End, Quiet
      <3>2. CASE StreamWriteRejected(r)
        BY <3>2 DEF StreamWriteRejected, Die, NoDispatch
      <3>3. CASE Leave(r) \/ Walk(r)
        BY <3>3 DEF Leave, Walk
      <3>4. QED BY <1>6, <3>1, <3>2, <3>3, ExecuteKinds DEF CapacityInv, SlotInv
    <2>2. QED BY <1>0, <2>1, NothingStarted
  <1>7. ASSUME NEW r \in Runs, QueueRun(r) \/ PressStop(r) \/ Cancel(r) \/ DropStop(r)
        PROVE  CapacityInv'
    <2>1. UNCHANGED daemon
      BY <1>7 DEF QueueRun, PressStop, Cancel, ClaimStop, SaveStop, AppendStop, DropStop
    <2>2. QED BY <1>0, <2>1, NothingStarted DEF daemon
  <1>8. QED
    BY <1>1, <1>2, <1>3, <1>4, <1>5, <1>6, <1>7 DEF Next, Dispatch

\* "Maximum simultaneous WorkSpaces runs", for any number of runs and accounts:
\* executions never outnumber the configured capacity.
THEOREM CapacityKept == Spec => []CapacityRespected
  <1>1. Init => CapacityInv
    <2> SUFFICES ASSUME Init PROVE CapacityInv
      OBVIOUS
    <2>1. SlotInv
      BY InitType DEF Init, NoExec, NoDispatch, SlotInv, Held, Covered, OneRunPerUser, Occupying
    <2>2. Cardinality(inFlight) = 0
      BY FS_EmptySet DEF Init
    <2>3. QED BY <2>1, <2>2, AgentRunAssumption
                 DEF Init, NoDispatch, CapacityInv, CapacityRespected, Roomy
  <1>2. CapacityInv => CapacityRespected
    BY DEF CapacityInv
  <1>3. QED BY <1>1, <1>2, NextCapacity, PTL DEF Spec

-----------------------------------------------------------------------------
(* Credentials *)

SecretInv == RowInv /\ SecretsDropped

LEMMA NextSecrets == SecretInv /\ [Next]_vars => SecretInv'
  <1> SUFFICES ASSUME SecretInv, [Next]_vars PROVE SecretsDropped'
    BY NextRows DEF SecretInv
  <1> USE DEF SecretInv, RowInv, TypeInv, TypeOK, SecretsDropped
  <1>1. CASE Sweep
    BY <1>1 DEF Sweep
  <1>2. CASE CountActive \/ SelectRuns \/ Crash \/ Restart \/ Tick \/ UNCHANGED vars
    BY <1>2 DEF CountActive, SelectRuns, Crash, Die, Restart, Tick, vars, row
  <1>3. ASSUME NEW r \in Runs, QueueRun(r) PROVE SecretsDropped'
    BY <1>3 DEF QueueRun, Status
  <1>4. ASSUME NEW r \in Runs, Execute(r) PROVE SecretsDropped'
    <2>1. CASE Claim(r)
      BY <2>1 DEF Claim, Status
    <2>2. CASE SendCall(r) \/ StreamWriteRejected(r) \/ Leave(r) \/ Walk(r)
      BY <2>2 DEF SendCall, StreamWriteRejected, Die, Leave, Walk, row
    <2>3. CASE Requeue(r)
      BY <2>3 DEF Requeue, Status
    <2>4. CASE Complete(r)
      <3>1. CASE Stopped(r)
        BY <2>4, <3>1 DEF Complete, End, SetRunStatus
      <3>2. CASE ~Stopped(r)
        <4>1. /\ \A q \in Runs \ {r} : status'[q] = status[q] /\ secrets'[q] = secrets[q]
              /\ ~secrets'[r]
          BY <2>4, <3>2 DEF Complete, End, SetRunStatus, Status, Terminal
        <4>2. QED BY <4>1
      <3>3. QED BY <3>1, <3>2
    <2>5. QED BY <1>4, <2>1, <2>2, <2>3, <2>4, ExecuteKinds
  <1>5. ASSUME NEW r \in Runs, PressStop(r) \/ Cancel(r) \/ DropStop(r) PROVE SecretsDropped'
    <2>1. CASE ClaimStop(r)
      BY <2>1 DEF ClaimStop, Status
    <2>2. CASE PressStop(r) \/ SaveStop(r) \/ AppendStop(r) \/ DropStop(r)
      BY <2>2 DEF PressStop, SaveStop, AppendStop, DropStop, row
    <2>3. QED BY <1>5, <2>1, <2>2 DEF Cancel
  <1>6. QED BY <1>1, <1>2, <1>3, <1>4, <1>5 DEF Next, Dispatch

\* Provider keys and images are kept only for a run that is queued or running.
THEOREM SecretsGone == Spec => []SecretsDropped
  <1>1. Init => SecretInv
    BY InitType, ServingPoints
       DEF Init, NoExec, SecretInv, RowInv, LiveRunKeepsItsRow, Beating, SecretsDropped
  <1>2. SecretInv => SecretsDropped
    BY DEF SecretInv
  <1>3. QED BY <1>1, <1>2, NextSecrets, PTL DEF Spec

-----------------------------------------------------------------------------
(* Tool calls after a Stop *)

\* The one late call leaves its execution where only a further look at the status
\* awaits it, and a cancelled row stays cancelled.
LateSpent ==
  \A r \in Runs :
     late[r] = 0 \/ (late[r] = 1 /\ status[r] = "cancelled" /\ exec[r].at \in Spent)

LateInv == RowInv /\ LateSpent

LEMMA NextLate == LateInv /\ [Next]_vars => LateInv'
  <1> SUFFICES ASSUME LateInv, [Next]_vars PROVE LateSpent'
    BY NextRows DEF LateInv
  <1> USE ServingPoints
  <1> USE DEF LateInv, RowInv, TypeInv, TypeOK, LateSpent
  <1>1. CASE Sweep
    BY <1>1 DEF Sweep, StaleRows, Running, ghost
  <1>2. CASE CountActive \/ Restart \/ Tick \/ UNCHANGED vars
    BY <1>2 DEF CountActive, Restart, Tick, vars, row, daemon, ghost
  <1>3. CASE SelectRuns
    BY <1>3 DEF SelectRuns, NoExec, row, ghost
  <1>4. CASE Crash
    BY <1>4 DEF Crash, Die, NoExec, row, ghost
  <1>5. ASSUME NEW r \in Runs, QueueRun(r) PROVE LateSpent'
    BY <1>5 DEF QueueRun, Status, daemon, ghost
  <1>6. ASSUME NEW r \in Runs, Execute(r) PROVE LateSpent'
    <2>1. CASE Claim(r)
      <3>1. /\ late' = late
            /\ \A q \in Runs \ {r} : exec'[q] = exec[q] /\ status'[q] = status[q]
        BY <2>1 DEF Claim, Goto, Status, ghost
      <3>2. status[r] = "queued" \/ (status' = status /\ exec'[r].at = "leave")
        BY <2>1 DEF Claim, Goto, Execs
      <3>3. QED BY <3>1, <3>2
    <2>2. CASE SendCall(r)
      <3>1. /\ status' = status
            /\ \A q \in Runs \ {r} : exec'[q] = exec[q] /\ late'[q] = late[q]
        BY <2>2 DEF SendCall, Goto, row
      <3>2. exec[r].at = "send" /\ exec'[r].at = "call"
        BY <2>2 DEF SendCall, At, Goto, Execs
      <3>3. late[r] = 0
        BY <3>2
      <3>4. late'[r] = IF status[r] = "cancelled" THEN 1 ELSE 0
        BY <2>2, <3>3 DEF SendCall
      <3>5. QED BY <3>1, <3>2, <3>4
    <2>3. CASE Requeue(r)
      BY <2>3 DEF Requeue, Stopped, Goto, Status, Execs, ghost
    <2>4. CASE Complete(r)
      BY <2>4 DEF Complete, End, SetRunStatus, Stopped, Goto, Status, Execs, ghost
    <2>5. CASE StreamWriteRejected(r)
      BY <2>5 DEF StreamWriteRejected, Die, NoExec, row, ghost
    <2>6. CASE Leave(r)
      BY <2>6 DEF Leave, NoExec, row, ghost
    <2>7. CASE Walk(r)
      BY <2>7 DEF Walk, Stopped
    <2>8. QED BY <1>6, <2>1, <2>2, <2>3, <2>4, <2>5, <2>6, <2>7, ExecuteKinds
  <1>7. ASSUME NEW r \in Runs, PressStop(r) \/ Cancel(r) \/ DropStop(r) PROVE LateSpent'
    <2>1. CASE ClaimStop(r)
      BY <2>1 DEF ClaimStop, Status, daemon, ghost
    <2>2. CASE PressStop(r) \/ SaveStop(r) \/ AppendStop(r) \/ DropStop(r)
      BY <2>2 DEF PressStop, SaveStop, AppendStop, DropStop, row, daemon, ghost
    <2>3. QED BY <1>7, <2>1, <2>2 DEF Cancel
  <1>8. QED BY <1>1, <1>2, <1>3, <1>4, <1>5, <1>6, <1>7 DEF Next, Dispatch

\* The worker checks for a Stop between model and tool rounds, so one call at most
\* leaves after it, for any number of rounds.
THEOREM OneLateCall == Spec => []OneLateCallAtMost
  <1>1. Init => LateInv
    BY InitType, ServingPoints
       DEF Init, NoExec, LateInv, RowInv, LiveRunKeepsItsRow, Beating, LateSpent
  <1>2. LateInv => OneLateCallAtMost
    BY DEF LateInv, LateSpent, OneLateCallAtMost
  <1>3. QED BY <1>1, <1>2, NextLate, PTL DEF Spec

-----------------------------------------------------------------------------
(* The session is saved before a run is reported *)

\* Points between deciding the answer and reporting the run: the answer stands,
\* and from Replied on the session ends with it, unless a Stop came in between.
Replied   == {"doneFrame", "endReply"}
Answering == Replied \cup {"askUser", "close", "lastFrames", "saveReply"}

AnswerStands ==
  \A r \in Runs :
     /\ exec[r].at \in Answering => exec[r].answer \in {"reply", "waiting"}
     /\ exec[r].at \in Replied =>
           transcript[r] = exec[r].answer \/ status[r] = "cancelled"

\* Only a Stop that has cancelled the row writes to the session.
StopHoldsRow == \A r \in Runs : stop[r] \in {"save", "frame"} => status[r] = "cancelled"

SavedInv == RowInv /\ AnswerStands /\ StopHoldsRow /\ ReportedAfterSaved

\* A step that leaves rows and sessions alone and whose execution reaches Replied
\* only from there.
LEMMA MovedSaved ==
  ASSUME SavedInv, RowInv', NEW r \in Runs,
         UNCHANGED <<status, transcript, stop>>,
         \A q \in Runs \ {r} : exec'[q] = exec[q] \/ exec'[q].at = "off",
         exec'[r].at \in Answering => exec'[r].answer \in {"reply", "waiting"},
         exec'[r].at \in Replied =>
            exec[r].at \in Replied /\ exec'[r].answer = exec[r].answer
  PROVE  SavedInv'
  <1>1. AnswerStands'
    <2> SUFFICES ASSUME NEW q \in Runs
                 PROVE  /\ exec'[q].at \in Answering => exec'[q].answer \in {"reply", "waiting"}
                        /\ exec'[q].at \in Replied =>
                              transcript'[q] = exec'[q].answer \/ status'[q] = "cancelled"
      BY DEF AnswerStands
    <2>1. CASE q = r
      BY <2>1 DEF SavedInv, AnswerStands
    <2>2. CASE q # r
      BY <2>2 DEF SavedInv, AnswerStands, Answering, Replied
    <2>3. QED BY <2>1, <2>2
  <1>2. QED BY <1>1 DEF SavedInv, StopHoldsRow, ReportedAfterSaved

\* Steps whose execution goes to p with the answer it has.
LEMMA GoneSaved ==
  ASSUME SavedInv, RowInv', NEW r \in Runs, NEW p \in ExecPoints,
         UNCHANGED <<status, transcript, stop>>,
         Goto(r, p),
         p \in Answering => exec[r].at \in Answering,
         p \in Replied => exec[r].at \in Replied
  PROVE  SavedInv'
  <1>1. exec[r] \in Execs
    BY DEF SavedInv, RowInv, TypeInv, TypeOK
  <1>2. /\ exec'[r].at = p /\ exec'[r].answer = exec[r].answer
        /\ \A q \in Runs \ {r} : exec'[q] = exec[q]
    BY <1>1 DEF Goto, Execs, SavedInv, RowInv, TypeInv, TypeOK
  <1>3. exec'[r].at \in Answering => exec'[r].answer \in {"reply", "waiting"}
    BY <1>2 DEF SavedInv, AnswerStands
  <1>4. QED BY <1>2, <1>3, MovedSaved

\* The session changes under an execution that holds the row.
LEMMA WrittenSaved ==
  ASSUME SavedInv, RowInv', NEW r \in Runs, NEW from \in Serving, NEW to \in ExecPoints,
         NEW what \in Transcripts, Save(r, from, what, to),
         to \notin Answering
            \/ (to = "doneFrame" /\ from \in Answering /\ what = exec[r].answer)
  PROVE  SavedInv'
  <1>1. status[r] \in {"running", "cancelled"}
    BY DEF Save, At, SavedInv, RowInv, LiveRunKeepsItsRow
  <1>2. exec[r] \in Execs /\ transcript \in [Runs -> Transcripts]
    BY DEF SavedInv, RowInv, TypeInv, TypeOK
  <1>3. /\ exec'[r].at = to /\ exec'[r].answer = exec[r].answer
        /\ \A q \in Runs \ {r} : exec'[q] = exec[q]
    BY <1>2 DEF Save, Goto, Execs, SavedInv, RowInv, TypeInv, TypeOK
  <1>4. transcript'[r] = what /\ \A q \in Runs \ {r} : transcript'[q] = transcript[q]
    BY <1>2 DEF Save
  <1>5. UNCHANGED <<status, stop>>
    BY DEF Save, Quiet
  <1>6. AnswerStands'
    <2> SUFFICES ASSUME NEW q \in Runs
                 PROVE  /\ exec'[q].at \in Answering => exec'[q].answer \in {"reply", "waiting"}
                        /\ exec'[q].at \in Replied =>
                              transcript'[q] = exec'[q].answer \/ status'[q] = "cancelled"
      BY DEF AnswerStands
    <2>1. CASE q = r
      <3>1. exec[r].at = from
        BY DEF Save, At
      <3>2. QED BY <2>1, <3>1, <1>3, <1>4, <1>5 DEF SavedInv, AnswerStands, Answering
    <2>2. CASE q # r
      BY <2>2, <1>3, <1>4, <1>5 DEF SavedInv, AnswerStands
    <2>3. QED BY <2>1, <2>2
  <1>7. ReportedAfterSaved'
    BY <1>1, <1>4, <1>5 DEF SavedInv, ReportedAfterSaved
  <1>8. QED BY <1>5, <1>6, <1>7 DEF SavedInv, StopHoldsRow

\* The execution is over, and the row says s or what it said.
LEMMA EndedSaved ==
  ASSUME SavedInv, RowInv', NEW r \in Runs, NEW s \in Statuses,
         UNCHANGED <<transcript, stop>>,
         \A q \in Runs \ {r} : exec'[q] = exec[q] \/ exec'[q].at = "off",
         exec'[r].at \notin Answering,
         status' = status \/ (status[r] # "cancelled" /\ Status(r, s)),
         s = "succeeded" => transcript[r] = "reply",
         s = "waiting_approval" => transcript[r] = "waiting"
  PROVE  SavedInv'
  <1>1. /\ \A q \in Runs \ {r} : status'[q] = status[q]
        /\ status'[r] = status[r] \/ (status[r] # "cancelled" /\ status'[r] = s)
    BY DEF Status, SavedInv, RowInv, TypeInv, TypeOK
  <1>2. AnswerStands'
    BY <1>1 DEF SavedInv, AnswerStands, Answering, Replied
  <1>3. StopHoldsRow'
    BY <1>1 DEF SavedInv, StopHoldsRow
  <1>4. ReportedAfterSaved'
    BY <1>1 DEF SavedInv, ReportedAfterSaved
  <1>5. QED BY <1>2, <1>3, <1>4 DEF SavedInv

LEMMA ExecuteSaved ==
  ASSUME SavedInv, RowInv', NEW r \in Runs, Execute(r)
  PROVE  SavedInv'
  <1> USE Points, ServingPoints DEF Answering, Replied
  <1>0. /\ exec[r] \in Execs /\ exec \in [Runs -> Execs]
        /\ status \in [Runs -> Statuses]
    BY DEF SavedInv, RowInv, TypeInv, TypeOK
  <1>1. CASE Lookup(r)
    <2>1. exec'[r].at \in {"claim", "leave"} /\ \A q \in Runs \ {r} : exec'[q] = exec[q]
      BY <1>0, <1>1 DEF Lookup, Execs
    <2>2. UNCHANGED <<status, transcript, stop>>
      BY <1>1 DEF Lookup, row, Quiet
    <2>3. QED BY <2>1, <2>2, MovedSaved
  <1>2. CASE Claim(r)
    <2>1. exec'[r].at \in {"load", "leave"} /\ \A q \in Runs \ {r} : exec'[q] = exec[q]
      BY <1>0, <1>2 DEF Claim, Goto, Execs
    <2>2. status' = status \/ (status[r] # "cancelled" /\ Status(r, "running"))
      BY <1>2 DEF Claim
    <2>3. QED BY <1>2, <2>1, <2>2, EndedSaved DEF Claim, Statuses, Quiet
  <1>3. CASE LoadLog(r) \/ VisionDone(r) \/ Throws(r) \/ FailureUnsaved(r)
    BY <1>3, GoneSaved DEF LoadLog, VisionDone, Throws, FailureUnsaved, At, Quiet, row
  <1>4. CASE Prepare(r)
    BY <1>4, GoneSaved DEF Prepare, Frame, Quiet, row
  <1>5. CASE VisionFails(r) \/ Think(r) \/ Plan(r) \/ Report(r) \/ ReviewFrame(r)
    BY <1>5, GoneSaved DEF VisionFails, Think, Plan, Report, ReviewFrame, Frame, Quiet, row
  <1>6. CASE AskUser(r) \/ LastFrames(r) \/ DoneFrame(r)
    BY <1>6, GoneSaved DEF AskUser, LastFrames, DoneFrame, Frame, At, Quiet, row
  <1>7. CASE RetryFrame(r) \/ FailFrame(r)
    BY <1>7, GoneSaved DEF RetryFrame, FailFrame, CatchFrame, Quiet, row
  <1>8. CASE ModelAnswers(r)
    BY <1>8, GoneSaved DEF ModelAnswers, Frame, Quiet, row
  <1>9. CASE BeginRound(r)
    <2>1. exec'[r].at \in {"leave", "think"} /\ \A q \in Runs \ {r} : exec'[q] = exec[q]
      BY <1>0, <1>9 DEF BeginRound, Goto, Execs
    <2>2. UNCHANGED <<status, transcript, stop>>
      BY <1>9 DEF BeginRound, Quiet
    <2>3. QED BY <2>1, <2>2, MovedSaved
  <1>10. CASE ModelDone(r)
    <2>1. /\ \A q \in Runs \ {r} : exec'[q] = exec[q]
          /\ \/ exec'[r].at \in {"leave", "plan"}
             \/ exec'[r].at = "close" /\ exec'[r].answer \in {"reply", "waiting"}
      BY <1>0, <1>10 DEF ModelDone, Goto, Execs
    <2>2. UNCHANGED <<status, transcript, stop>>
      BY <1>10 DEF ModelDone, Quiet, row
    <2>3. QED BY <2>1, <2>2, MovedSaved
  <1>11. CASE Mark(r) \/ ToolDone(r) \/ SendCall(r)
    BY <1>11, GoneSaved DEF Mark, Checkpoint, ToolDone, SendCall, Quiet, row
  <1>12. CASE CallReturns(r)
    <2>1. exec'[r].at = "toolDone" /\ \A q \in Runs \ {r} : exec'[q] = exec[q]
      BY <1>0, <1>12 DEF CallReturns, Execs
    <2>2. UNCHANGED <<status, transcript, stop>>
      BY <1>12 DEF CallReturns, Quiet, row
    <2>3. QED BY <2>1, <2>2, MovedSaved
  <1>13. CASE Settle(r)
    <2>1. /\ \A q \in Runs \ {r} : exec'[q] = exec[q]
          /\ \/ exec'[r].at = "askUser" /\ exec'[r].answer = "waiting"
             \/ exec'[r].at = "round"
             \/ exec'[r].at = "close" /\ exec'[r].answer = "reply"
      BY <1>0, <1>13 DEF Settle, Checkpoint, Goto, Execs
    <2>2. UNCHANGED <<status, transcript, stop>>
      BY <1>13 DEF Settle, Checkpoint, Quiet
    <2>3. QED BY <2>1, <2>2, MovedSaved
  <1>14. CASE Close(r)
    BY <1>14, GoneSaved DEF Close, At, Quiet, row
  <1>15. CASE SaveReply(r)
    <2>1. exec[r].answer \in {"reply", "waiting"}
      BY <1>15 DEF SaveReply, Save, At, SavedInv, AnswerStands
    <2>2. QED BY <1>15, <2>1, WrittenSaved DEF SaveReply, Transcripts
  <1>16. CASE SaveReview(r) \/ SaveFailure(r)
    BY <1>16, WrittenSaved DEF SaveReview, SaveFailure, Transcripts
  <1>17. ASSUME NEW from \in Ending, NEW s \in Statuses, End(r, from, s),
                from \notin Replied => s \notin {"succeeded", "waiting_approval"},
                from \in Replied =>
                   s = IF exec[r].answer = "waiting" THEN "waiting_approval" ELSE "succeeded"
         PROVE  SavedInv'
    <2>1. exec[r].at = from /\ UNCHANGED <<transcript, stop>>
      BY <1>17 DEF End, At, Quiet
    <2>2. exec'[r].at = "leave" /\ \A q \in Runs \ {r} : exec'[q] = exec[q]
      BY <1>0, <1>17 DEF End, Goto, Execs
    <2>3. CASE status[r] = "cancelled"
      <3>1. status' = status
        BY <1>17, <2>3 DEF End, SetRunStatus, Stopped
      <3>2. QED BY <2>1, <2>2, <3>1, MovedSaved
    <2>4. CASE status[r] # "cancelled"
      <3>1. Status(r, s)
        BY <1>17, <2>4 DEF End, SetRunStatus, Stopped
      <3>2. from \in Replied =>
               transcript[r] = exec[r].answer /\ exec[r].answer \in {"reply", "waiting"}
        BY <2>1, <2>4 DEF SavedInv, AnswerStands
      <3>3. QED BY <1>17, <2>1, <2>2, <2>4, <3>1, <3>2, EndedSaved
    <2>5. QED BY <2>3, <2>4
  <1>18. CASE EndReview(r) \/ EndFailure(r)
    BY <1>17, <1>18 DEF EndReview, EndFailure, Ending, Statuses
  <1>19. CASE EndReply(r)
    BY <1>17, <1>19 DEF EndReply, Ending, Statuses
  <1>20. CASE AppUnreachable(r)
    BY <1>20, GoneSaved DEF AppUnreachable, row
  <1>21. CASE Requeue(r)
    <2>1. exec'[r].at = "leave" /\ \A q \in Runs \ {r} : exec'[q] = exec[q]
      BY <1>0, <1>21 DEF Requeue, Goto, Execs
    <2>2. status' = status \/ (status[r] # "cancelled" /\ Status(r, "queued"))
      BY <1>21 DEF Requeue, Stopped
    <2>3. QED BY <1>21, <2>1, <2>2, EndedSaved DEF Requeue, Statuses, Quiet
  <1>22. CASE StreamWriteRejected(r) \/ Leave(r)
    <2>1. /\ exec'[r].at = "off"
          /\ \A q \in Runs \ {r} : exec'[q] = exec[q] \/ exec'[q].at = "off"
      BY <1>0, <1>22 DEF StreamWriteRejected, Die, Leave, NoExec
    <2>2. UNCHANGED <<status, transcript, stop>>
      BY <1>22 DEF StreamWriteRejected, Die, Leave, row
    <2>3. QED BY <2>1, <2>2, MovedSaved
  <1>23. QED
    BY <1>1, <1>2, <1>3, <1>4, <1>5, <1>6, <1>7, <1>8, <1>9, <1>10, <1>11, <1>12, <1>13,
       <1>14, <1>15, <1>16, <1>18, <1>19, <1>20, <1>21, <1>22 DEF Execute

LEMMA NextSaved == SavedInv /\ [Next]_vars => SavedInv'
  <1> SUFFICES ASSUME SavedInv, [Next]_vars PROVE SavedInv'
    OBVIOUS
  <1>0. RowInv'
    BY NextRows DEF SavedInv
  <1> USE DEF SavedInv, AnswerStands, StopHoldsRow, ReportedAfterSaved
  <1>1. CASE Sweep
    BY <1>0, <1>1 DEF Sweep, StaleRows, Running
  <1>2. CASE CountActive \/ Restart \/ Tick \/ UNCHANGED vars
    BY <1>0, <1>2 DEF CountActive, Restart, Tick, vars, row, daemon
  <1>3. CASE SelectRuns
    BY <1>0, <1>3 DEF SelectRuns, NoExec, row, Answering, Replied
  <1>4. CASE Crash
    BY <1>0, <1>4 DEF Crash, Die, NoExec, row, Answering, Replied
  <1>5. ASSUME NEW r \in Runs, QueueRun(r) PROVE SavedInv'
    <2>1. exec[r].at \notin Answering
      BY <1>5, ServingPoints, Points
         DEF QueueRun, Answering, Replied, RowInv, LiveRunKeepsItsRow, TypeInv, TypeOK, Execs
    <2>2. UNCHANGED <<exec, stop>>
      BY <1>5 DEF QueueRun, daemon
    <2>3. /\ status'[r] = "queued"
          /\ \A q \in Runs \ {r} : status'[q] = status[q] /\ transcript'[q] = transcript[q]
          /\ stop[r] \notin {"save", "frame"}
      BY <1>5 DEF QueueRun, Status, RowInv, TypeInv, TypeOK
    <2>4. QED BY <1>0, <2>1, <2>2, <2>3 DEF Answering
  <1>6. ASSUME NEW r \in Runs, Execute(r) PROVE SavedInv'
    BY <1>0, <1>6, ExecuteSaved
  <1>7. ASSUME NEW r \in Runs, PressStop(r) \/ AppendStop(r) \/ DropStop(r) PROVE SavedInv'
    <2>1. /\ UNCHANGED <<status, transcript, exec>>
          /\ \A q \in Runs : stop'[q] \in {"save", "frame"} => stop[q] \in {"save", "frame"}
      BY <1>7 DEF PressStop, AppendStop, DropStop, StopGoto, row, daemon, RowInv, TypeInv, TypeOK
    <2>2. QED BY <1>0, <2>1
  <1>8. ASSUME NEW r \in Runs, ClaimStop(r) PROVE SavedInv'
    <2>1. UNCHANGED <<transcript, exec>>
      BY <1>8 DEF ClaimStop, daemon
    <2>2. /\ \A q \in Runs \ {r} : status'[q] = status[q] /\ stop'[q] = stop[q]
          /\ \/ status' = status /\ stop'[r] = "done"
             \/ status'[r] = "cancelled"
      BY <1>8 DEF ClaimStop, StopGoto, Status, RowInv, TypeInv, TypeOK
    <2>3. QED BY <1>0, <2>1, <2>2
  <1>9. ASSUME NEW r \in Runs, SaveStop(r) PROVE SavedInv'
    <2>1. UNCHANGED <<status, exec>> /\ status[r] = "cancelled"
      BY <1>9 DEF SaveStop, daemon
    <2>2. /\ \A q \in Runs \ {r} : transcript'[q] = transcript[q] /\ stop'[q] = stop[q]
      BY <1>9 DEF SaveStop, StopGoto
    <2>3. QED BY <1>0, <2>1, <2>2
  <1>10. QED
    BY <1>1, <1>2, <1>3, <1>4, <1>5, <1>6, <1>7, <1>8, <1>9 DEF Next, Dispatch, Cancel

LEMMA InitSaved == Init => SavedInv
  BY InitType, ServingPoints
     DEF Init, NoExec, SavedInv, RowInv, LiveRunKeepsItsRow, Beating, AnswerStands,
         Answering, Replied, StopHoldsRow, ReportedAfterSaved

\* A run says succeeded, or waiting for the user, only once its session ends with
\* the message that says so, for any number of runs, Stops and faults.
THEOREM SavedFirst == Spec => []ReportedAfterSaved
  <1>1. SavedInv => ReportedAfterSaved
    BY DEF SavedInv
  <1>2. QED BY <1>1, InitSaved, NextSaved, PTL DEF Spec

-----------------------------------------------------------------------------
(* A saved turn is not served again *)

Unfailed == faults = 0 /\ \A q \in Runs : status[q] # "cancelled"

\* The way from saving the session to the end of the execution.
Concluding == {"doneFrame", "endReply", "reviewFrame", "endReview", "endFailure"}

\* While nothing has failed no frame collides, the daemon has not died under a row, nothing
\* is retried, and a row whose session is saved is on its way to a final status.
TurnOnce(r) ==
  /\ ~clash[r]
  /\ status[r] = "running" => exec[r].at \in Serving
  /\ exec[r].at \in Early => status[r] = "queued"
  /\ exec[r].at \notin {"retryFrame", "requeue"}
  /\ transcript[r] \notin {"none", "draft"} =>
        /\ status[r] \notin {"absent", "queued"}
        /\ status[r] = "running" => exec[r].at \in Concluding

TurnsOnce == Unfailed => \A r \in Runs : TurnOnce(r)

TurnInv == SavedInv /\ TurnsOnce

\* What has failed stays failed.
LEMMA FailedStays == RowInv /\ [Next]_vars /\ Unfailed' => Unfailed /\ faults' = faults
  <1> SUFFICES ASSUME RowInv, [Next]_vars, Unfailed' PROVE Unfailed /\ faults' = faults
    OBVIOUS
  <1>1. \A q \in Runs : status[q] # "cancelled"
    BY StepFinal DEF Unfailed, Terminal
  <1>2. faults' = faults \/ faults' = faults + 1
    <2>1. CASE Dispatch \/ Crash \/ Restart \/ Tick \/ UNCHANGED vars
      BY <2>1 DEF Dispatch, Sweep, CountActive, SelectRuns, Crash, Restart, Tick, vars
    <2>2. ASSUME NEW r \in Runs, QueueRun(r) \/ PressStop(r) \/ Cancel(r) \/ DropStop(r)
          PROVE  faults' = faults \/ faults' = faults + 1
      BY <2>2 DEF QueueRun, PressStop, Cancel, ClaimStop, SaveStop, AppendStop, DropStop
    <2>3. ASSUME NEW r \in Runs, Execute(r)
          PROVE  faults' = faults \/ faults' = faults + 1
      <3>1. CASE \/ Lookup(r) \/ Claim(r) \/ LoadLog(r) \/ VisionDone(r) \/ BeginRound(r)
                 \/ ModelDone(r) \/ Mark(r) \/ SendCall(r) \/ CallReturns(r) \/ ToolDone(r)
                 \/ Settle(r) \/ Close(r) \/ Throws(r) \/ AppUnreachable(r) \/ Requeue(r)
                 \/ FailureUnsaved(r) \/ StreamWriteRejected(r) \/ Leave(r)
        BY <3>1 DEF Lookup, Claim, LoadLog, VisionDone, BeginRound, ModelDone, Mark, SendCall,
                    CallReturns, ToolDone, Settle, Close, Throws, AppUnreachable, Requeue,
                    FailureUnsaved, StreamWriteRejected, Leave, Quiet
      <3>2. CASE \/ Prepare(r) \/ VisionFails(r) \/ Think(r) \/ ModelAnswers(r) \/ Plan(r)
                 \/ Report(r) \/ AskUser(r) \/ LastFrames(r) \/ DoneFrame(r) \/ ReviewFrame(r)
                 \/ RetryFrame(r) \/ FailFrame(r)
        BY <3>2 DEF Prepare, VisionFails, Think, ModelAnswers, Plan, Report, AskUser, LastFrames,
                    DoneFrame, ReviewFrame, RetryFrame, FailFrame, Frame, CatchFrame, Quiet
      <3>3. CASE \/ SaveReply(r) \/ SaveReview(r) \/ SaveFailure(r)
                 \/ EndReply(r) \/ EndReview(r) \/ EndFailure(r)
        BY <3>3 DEF SaveReply, SaveReview, SaveFailure, EndReply, EndReview, EndFailure, Save, End,
                    Quiet
      <3>4. QED BY <2>3, <3>1, <3>2, <3>3 DEF Execute
    <2>4. QED BY <2>1, <2>2, <2>3 DEF Next
  <1>3. QED BY <1>1, <1>2 DEF Unfailed, RowInv, TypeInv, TypeOK

\* Steps of an execution that touch neither row nor session.
LEMMA TurnMoved ==
  ASSUME TurnInv, Unfailed, NEW r \in Runs,
         UNCHANGED <<status, transcript>>, \A q \in Runs : clash'[q] => clash[q],
         \A q \in Runs \ {r} : exec'[q] = exec[q],
         exec[r].at \in Serving, exec'[r].at \in Serving \ {"retryFrame", "requeue"},
         exec[r].at \in Concluding => exec'[r].at \in Concluding
  PROVE  TurnsOnce'
  <1>1. exec'[r].at \notin Early
    BY DEF Serving
  <1>2. \A q \in Runs : TurnOnce(q)'
    BY <1>1 DEF TurnInv, TurnsOnce, TurnOnce
  <1>3. QED BY <1>2 DEF TurnsOnce

\* The session is written while the row is running.
LEMMA TurnSaved ==
  ASSUME TurnInv, Unfailed, NEW r \in Runs, NEW from \in Serving, NEW what, NEW to \in Concluding,
         Save(r, from, what, to)
  PROVE  TurnsOnce'
  <1>1. /\ exec[r].at = from /\ exec'[r].at = to
        /\ \A q \in Runs \ {r} : exec'[q] = exec[q] /\ transcript'[q] = transcript[q]
        /\ UNCHANGED <<status, clash>>
    BY DEF Save, At, Goto, TurnInv, SavedInv, RowInv, TypeInv, TypeOK, Execs
  <1>2. status[r] = "running"
    BY <1>1 DEF TurnInv, SavedInv, RowInv, LiveRunKeepsItsRow, Unfailed
  <1>3. to \in Serving /\ to \notin Early /\ to \notin {"retryFrame", "requeue"}
    BY ServingPoints, Points DEF Concluding, Early
  <1>4. \A q \in Runs : TurnOnce(q)'
    BY <1>1, <1>2, <1>3 DEF TurnInv, TurnsOnce, TurnOnce
  <1>5. QED BY <1>4 DEF TurnsOnce

\* The execution completes its row.
LEMMA TurnEnded ==
  ASSUME TurnInv, Unfailed, NEW r \in Runs, NEW from \in Serving, NEW s \in Terminal,
         End(r, from, s)
  PROVE  TurnsOnce'
  <1>1. /\ exec'[r].at = "leave" /\ status'[r] = s
        /\ \A q \in Runs \ {r} : exec'[q] = exec[q] /\ status'[q] = status[q]
        /\ UNCHANGED <<transcript, clash>>
    BY DEF End, SetRunStatus, Status, Stopped, Unfailed, Goto, TurnInv, SavedInv, RowInv, TypeInv,
           TypeOK, Execs
  <1>2. s \notin {"running", "absent", "queued"}
    BY DEF Terminal
  <1>3. \A q \in Runs : TurnOnce(q)'
    BY <1>1, <1>2, ServingPoints DEF TurnInv, TurnsOnce, TurnOnce, Early
  <1>4. QED BY <1>3 DEF TurnsOnce

LEMMA ExecuteTurn ==
  ASSUME TurnInv, Unfailed, Unfailed', faults' = faults, NEW r \in Runs, Execute(r)
  PROVE  TurnsOnce'
  <1> USE Points, ServingPoints
  <1>0. /\ exec[r] \in Execs /\ exec \in [Runs -> Execs] /\ clash \in [Runs -> BOOLEAN]
        /\ status \in [Runs -> Statuses] /\ faults \in Nat
        /\ TurnOnce(r) /\ ~clash[r] /\ ~Stopped(r)
    BY AgentRunAssumption
       DEF TurnInv, TurnsOnce, TurnOnce, Unfailed, Stopped, SavedInv, RowInv, TypeInv, TypeOK
  \* Where an awaited append leads while no frame collides.
  <1>1. ASSUME NEW from \in Serving, NEW to \in Serving \ {"retryFrame", "requeue"},
               Frame(r, from, to) \/ CatchFrame(r, from, to),
               from \in Concluding => to \in Concluding
        PROVE  TurnsOnce'
    <2>1. /\ exec[r].at = from /\ Goto(r, to) /\ UNCHANGED <<status, transcript>>
          /\ \A q \in Runs : clash'[q] => clash[q]
      BY <1>0, <1>1 DEF Frame, CatchFrame, At, row
    <2>2. exec'[r].at = to /\ \A q \in Runs \ {r} : exec'[q] = exec[q]
      BY <1>0, <2>1 DEF Goto, Execs
    <2>3. QED BY <1>1, <2>1, <2>2, TurnMoved
  \* Other steps within the service of a row.
  <1>2. ASSUME exec[r].at \in Serving \ Concluding, exec'[r].at \in Serving \ {"retryFrame", "requeue"},
               \A q \in Runs \ {r} : exec'[q] = exec[q],
               UNCHANGED <<status, transcript>>, \A q \in Runs : clash'[q] => clash[q]
        PROVE  TurnsOnce'
    BY <1>2, TurnMoved
  <1>3. CASE Lookup(r)
    <2>1. /\ exec'[r].at = "claim" /\ status[r] = "queued"
          /\ \A q \in Runs \ {r} : exec'[q] = exec[q]
          /\ UNCHANGED <<status, transcript, clash>>
      BY <1>0, <1>3 DEF Lookup, At, TurnOnce, Early, row, Execs
    <2>2. \A q \in Runs : TurnOnce(q)'
      BY <2>1 DEF TurnInv, TurnsOnce, TurnOnce, Early
    <2>3. QED BY <2>2 DEF TurnsOnce
  <1>4. CASE Claim(r)
    <2>1. /\ exec'[r].at = "load" /\ status'[r] = "running" /\ status[r] = "queued"
          /\ \A q \in Runs \ {r} : exec'[q] = exec[q] /\ status'[q] = status[q]
          /\ UNCHANGED <<transcript, clash>>
      BY <1>0, <1>4 DEF Claim, At, TurnOnce, Early, Goto, Status, Execs
    <2>2. \A q \in Runs : TurnOnce(q)'
      BY <2>1 DEF TurnInv, TurnsOnce, TurnOnce, Early
    <2>3. QED BY <2>2 DEF TurnsOnce
  <1>5. CASE LoadLog(r)
    BY <1>0, <1>2, <1>5 DEF LoadLog, At, Goto, row, Execs, Concluding
  <1>6. CASE Prepare(r) \/ VisionFails(r) \/ Think(r) \/ Plan(r) \/ Report(r) \/ AskUser(r)
             \/ LastFrames(r) \/ DoneFrame(r) \/ ReviewFrame(r) \/ FailFrame(r)
    BY <1>1, <1>6 DEF Prepare, VisionFails, Think, Plan, Report, AskUser, LastFrames, DoneFrame,
                      ReviewFrame, FailFrame, Concluding
  <1>7. CASE VisionDone(r)
    BY <1>0, <1>2, <1>7 DEF VisionDone, At, Goto, row, Execs, Concluding
  <1>8. CASE BeginRound(r)
    BY <1>0, <1>2, <1>8 DEF BeginRound, At, Execs, Concluding
  <1>9. CASE ModelAnswers(r)
    BY <1>0, <1>1, <1>9 DEF ModelAnswers, Concluding
  <1>10. CASE ModelDone(r)
    BY <1>0, <1>2, <1>10 DEF ModelDone, At, Goto, row, Execs, Concluding
  <1>11. CASE Mark(r) \/ SendCall(r)
    BY <1>0, <1>2, <1>11 DEF Mark, Checkpoint, SendCall, At, Goto, row, Execs, Concluding
  <1>12. CASE CallReturns(r) \/ ToolDone(r) \/ Close(r)
    BY <1>0, <1>2, <1>12 DEF CallReturns, ToolDone, Close, At, Goto, row, Execs, Concluding
  <1>13. CASE Settle(r)
    BY <1>0, <1>2, <1>13 DEF Settle, Checkpoint, At, Goto, Execs, Concluding
  <1>14. CASE SaveReply(r) \/ SaveReview(r) \/ SaveFailure(r)
    BY <1>14, TurnSaved DEF SaveReply, SaveReview, SaveFailure, Concluding
  <1>15. CASE EndReply(r) \/ EndReview(r) \/ EndFailure(r)
    BY <1>15, TurnEnded DEF EndReply, EndReview, EndFailure, Terminal
  <1>16. CASE Throws(r)
    <2>1. /\ exec[r].at \in Serving \ Concluding /\ exec'[r].at = "failFrame"
          /\ \A q \in Runs \ {r} : exec'[q] = exec[q]
      BY <1>0, <1>16 DEF Throws, Goto, Execs, Concluding
    <2>2. UNCHANGED <<status, transcript>> /\ \A q \in Runs : clash'[q] => clash[q]
      BY <1>0, <1>16 DEF Throws, Abandons, row
    <2>3. QED BY <1>2, <2>1, <2>2
  <1>17. ~(AppUnreachable(r) \/ RetryFrame(r) \/ Requeue(r) \/ StreamWriteRejected(r))
    BY <1>0 DEF AppUnreachable, RetryFrame, CatchFrame, Requeue, StreamWriteRejected, At, TurnOnce
  <1>18. CASE Leave(r)
    <2>1. /\ exec[r].at = "leave" /\ exec'[r].at = "off"
          /\ \A q \in Runs \ {r} : exec'[q] = exec[q]
          /\ UNCHANGED <<status, transcript, clash>>
      BY <1>0, <1>18 DEF Leave, At, NoExec, row
    <2>2. \A q \in Runs : TurnOnce(q)'
      BY <2>1 DEF TurnInv, TurnsOnce, TurnOnce, Early
    <2>3. QED BY <2>2 DEF TurnsOnce
  <1>19. CASE FailureUnsaved(r)
    BY <1>0, <1>2, <1>19 DEF FailureUnsaved, At, Goto, row, Execs, Concluding
  <1>20. QED
    BY <1>3, <1>4, <1>5, <1>6, <1>7, <1>8, <1>9, <1>10, <1>11, <1>12, <1>13, <1>14, <1>15,
       <1>16, <1>17, <1>18, <1>19 DEF Execute

LEMMA NextTurn == TurnInv /\ [Next]_vars => TurnInv'
  <1> SUFFICES ASSUME TurnInv, [Next]_vars, Unfailed' PROVE TurnsOnce'
    BY NextSaved DEF TurnInv, TurnsOnce
  <1>0. /\ Unfailed /\ faults' = faults /\ \A r \in Runs : TurnOnce(r)
        /\ RowInv /\ faults \in Nat /\ clash \in [Runs -> BOOLEAN]
        /\ exec \in [Runs -> Execs] /\ status \in [Runs -> Statuses]
        /\ transcript \in [Runs -> Transcripts]
    BY FailedStays, AgentRunAssumption DEF TurnInv, TurnsOnce, SavedInv, RowInv, TypeInv, TypeOK
  <1>1. ASSUME UNCHANGED <<status, transcript, exec, clash>>
        PROVE  TurnsOnce'
    <2>1. \A q \in Runs : TurnOnce(q)'
      BY <1>0, <1>1 DEF TurnOnce
    <2>2. QED BY <2>1 DEF TurnsOnce
  <1>2. CASE Sweep
    <2>1. StaleRows = {}
      BY <1>0, AgentRunAssumption DEF StaleRows, Running, TurnOnce, RowInv, Beating, TypeInv, TypeOK
    <2>2. status' = status
      BY <1>0, <1>2, <2>1 DEF Sweep
    <2>3. QED BY <1>1, <1>2, <2>2 DEF Sweep
  <1>3. CASE SelectRuns
    <2>1. UNCHANGED <<status, transcript, clash>>
      BY <1>3 DEF SelectRuns, row
    <2>2. \A q \in Runs :
             exec'[q] = exec[q] \/ (exec'[q].at = "lookup" /\ status[q] = "queued")
      BY <1>3 DEF SelectRuns, Selected, Candidates, Window, Oldest, Queued, NoExec
    <2>3. \A q \in Runs : TurnOnce(q)'
      BY <1>0, <2>1, <2>2 DEF TurnOnce, Early
    <2>4. QED BY <2>3 DEF TurnsOnce
  <1>4. ~Crash
    BY <1>0 DEF Crash
  <1>5. CASE CountActive \/ Restart \/ Tick \/ UNCHANGED vars
    BY <1>1, <1>5 DEF CountActive, Restart, Tick, vars, row, daemon
  <1>6. ASSUME NEW r \in Runs, QueueRun(r) PROVE TurnsOnce'
    <2>1. /\ status[r] = "absent" /\ status'[r] = "queued" /\ transcript'[r] = "draft"
          /\ \A q \in Runs \ {r} : status'[q] = status[q] /\ transcript'[q] = transcript[q]
          /\ UNCHANGED <<exec, clash>>
      BY <1>0, <1>6 DEF QueueRun, Status, daemon
    <2>2. \A q \in Runs : TurnOnce(q)'
      BY <1>0, <2>1 DEF TurnOnce
    <2>3. QED BY <2>2 DEF TurnsOnce
  <1>7. ASSUME NEW r \in Runs, Execute(r) PROVE TurnsOnce'
    BY <1>0, <1>7, ExecuteTurn
  <1>8. ASSUME NEW r \in Runs, PressStop(r) \/ DropStop(r) PROVE TurnsOnce'
    BY <1>1, <1>8 DEF PressStop, DropStop, row, daemon
  <1>9. ASSUME NEW r \in Runs, ClaimStop(r) PROVE TurnsOnce'
    <2>1. status' = status
      <3>1. status[r] \notin Unstoppable => status'[r] = "cancelled"
        BY <1>0, <1>9 DEF ClaimStop, Status
      <3>2. QED BY <1>9, <3>1 DEF ClaimStop, Unfailed
    <2>2. QED BY <1>1, <1>9, <2>1 DEF ClaimStop, daemon
  <1>10. ASSUME NEW r \in Runs PROVE ~(SaveStop(r) \/ AppendStop(r))
    BY <1>0 DEF SaveStop, AppendStop, Unfailed, TurnInv, SavedInv, StopHoldsRow
  <1>11. QED
    BY <1>2, <1>3, <1>4, <1>5, <1>6, <1>7, <1>8, <1>9, <1>10 DEF Next, Dispatch, Cancel

\* For any number of runs, rounds and ticks: no sweep, retry or second execution serves a
\* turn again whose outcome is saved, unless there was a fault, or a Stop of some run.
THEOREM TurnSavedOnce == Spec => []SavedTurnNotRepeated
  <1>1. Init => TurnInv
    <2>1. Init => TurnsOnce
      BY Points DEF Init, NoExec, TurnsOnce, TurnOnce, Early
    <2>2. QED BY <2>1, InitSaved DEF TurnInv
  <1>2. TurnInv => SavedTurnNotRepeated
    <2> SUFFICES ASSUME TurnInv, NEW r \in Runs, transcript[r] \notin {"none", "draft"}, Unfailed
                 PROVE  status[r] # "queued" /\ exec[r].at \notin Early \cup Rounds \cup Calling
      BY DEF SavedTurnNotRepeated, Unfailed, TurnInv, SavedInv, RowInv, TypeInv, TypeOK
    <2>1. TurnOnce(r)
      BY DEF TurnInv, TurnsOnce
    <2>2. Rounds \cup Calling \subseteq Serving /\ (Rounds \cup Calling) \cap Concluding = {}
      BY Points, ServingPoints DEF Rounds, Calling, Concluding
    <2>3. exec[r].at \in Serving => status[r] = "running"
      BY DEF TurnInv, SavedInv, RowInv, LiveRunKeepsItsRow, Unfailed
    <2>4. QED BY <2>1, <2>2, <2>3 DEF TurnOnce
  <1>3. QED BY <1>1, <1>2, NextTurn, PTL DEF Spec
=============================================================================

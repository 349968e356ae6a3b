-------------------------- MODULE AgentRun_refines --------------------------
(***************************************************************************)
(* AgentRun implements DurableRun: the proof of KeepsPromise, for any      *)
(* number of runs, accounts, slots, rounds and faults.                     *)
(***************************************************************************)
EXTENDS AgentRun_proofs

-----------------------------------------------------------------------------
(* What the row knows of the call *)

\* Points an execution reaches only while no call of its run is unaccounted for.
Clear == {"vision", "round", "think", "model", "modelDone", "plan", "mark", "send",
          "endReply"} \cup Closing

\* An open call is on record in the checkpoint, the execution that served the run
\* again has read it there, and one that goes on has none behind it.
Recorded ==
  \A r \in Runs :
     /\ open[r] => pending[r]
     /\ exec[r].at \in {"claim", "load", "prepare"} => exec[r].review = pending[r]
     /\ exec[r].at \in Clear => ~open[r]
     /\ exec[r].at = "send" => pending[r]
     /\ exec[r].at \in Calling => open[r]

\* A Stop is only ever asked of a row that exists.
StopsExisting == \A r \in Runs : stop[r] # "off" => status[r] # "absent"

PromiseInv == SlotInv /\ RowInv /\ Recorded /\ StopsExisting

LEMMA CallPoints ==
  /\ Clear = {"vision", "round", "think", "model", "modelDone", "plan", "mark", "send",
              "endReply", "askUser", "close", "lastFrames", "saveReply", "doneFrame"}
  /\ Calling = {"call", "toolDone", "report", "settle"}
  BY DEF Clear, Closing, Calling

\* Steps that leave the checkpoint and the call alone.
LEMMA MovedRecorded ==
  ASSUME Recorded, NEW r \in Runs,
         UNCHANGED <<pending, open>>,
         \A q \in Runs \ {r} : exec'[q] = exec[q] \/ exec'[q].at = "off",
         exec'[r].at \in {"claim", "load", "prepare"} => exec'[r].review = pending[r],
         exec'[r].at \in Clear =>
            exec[r].at \in Clear \/ (exec[r].at = "prepare" /\ ~exec[r].review),
         exec'[r].at = "send" => exec[r].at = "send",
         exec'[r].at \in Calling => exec[r].at \in Calling
  PROVE  Recorded'
  <1> SUFFICES ASSUME NEW q \in Runs
               PROVE  /\ open'[q] => pending'[q]
                      /\ exec'[q].at \in {"claim", "load", "prepare"} =>
                            exec'[q].review = pending'[q]
                      /\ exec'[q].at \in Clear => ~open'[q]
                      /\ exec'[q].at = "send" => pending'[q]
                      /\ exec'[q].at \in Calling => open'[q]
    BY DEF Recorded
  <1>1. CASE q = r
    BY <1>1 DEF Recorded
  <1>2. CASE q # r
    BY <1>2, CallPoints DEF Recorded
  <1>3. QED BY <1>1, <1>2

\* Steps whose execution goes to p.
LEMMA GoneRecorded ==
  ASSUME TypeInv, Recorded, NEW r \in Runs, NEW p \in ExecPoints,
         UNCHANGED <<pending, open>>,
         Goto(r, p),
         p \in {"claim", "load", "prepare"} => exec[r].at \in {"claim", "load", "prepare"},
         p \in Clear => exec[r].at \in Clear \/ (exec[r].at = "prepare" /\ ~exec[r].review),
         p = "send" => exec[r].at = "send",
         p \in Calling => exec[r].at \in Calling
  PROVE  Recorded'
  <1>1. /\ exec'[r].at = p /\ exec'[r].review = exec[r].review
        /\ \A q \in Runs \ {r} : exec'[q] = exec[q]
    BY DEF Goto, TypeInv, TypeOK, Execs
  <1>2. exec'[r].at \in {"claim", "load", "prepare"} => exec'[r].review = pending[r]
    BY <1>1 DEF Recorded
  <1>3. QED BY <1>1, <1>2, MovedRecorded

LEMMA ExecuteRecorded ==
  ASSUME TypeInv, Recorded, NEW r \in Runs, Execute(r)
  PROVE  Recorded'
  <1> USE Points, CallPoints
  <1>0. /\ exec[r] \in Execs /\ exec \in [Runs -> Execs]
        /\ pending \in [Runs -> BOOLEAN] /\ open \in [Runs -> BOOLEAN]
    BY DEF TypeInv, TypeOK
  <1>1. CASE Lookup(r)
    <2>1. /\ exec'[r].at \in {"claim", "leave"} /\ exec'[r].review = pending[r]
          /\ \A q \in Runs \ {r} : exec'[q] = exec[q]
      BY <1>0, <1>1 DEF Lookup, Execs
    <2>2. UNCHANGED <<pending, open>>
      BY <1>1 DEF Lookup, row, ghost
    <2>3. QED BY <2>1, <2>2, MovedRecorded
  <1>2. CASE Claim(r)
    BY <1>2, GoneRecorded DEF Claim, At, ghost
  <1>3. CASE LoadLog(r) \/ VisionDone(r) \/ Throws(r) \/ FailureUnsaved(r)
    BY <1>3, GoneRecorded DEF LoadLog, VisionDone, Throws, FailureUnsaved, At, row, ghost
  <1>4. CASE Prepare(r)
    BY <1>4, GoneRecorded DEF Prepare, Frame, At, row, ghost
  <1>5. CASE VisionFails(r) \/ Think(r) \/ Plan(r) \/ Report(r) \/ ReviewFrame(r)
    BY <1>5, GoneRecorded DEF VisionFails, Think, Plan, Report, ReviewFrame, Frame, At, row, ghost
  <1>6. CASE AskUser(r) \/ LastFrames(r) \/ DoneFrame(r)
    BY <1>6, GoneRecorded DEF AskUser, LastFrames, DoneFrame, Frame, At, row, ghost
  <1>7. CASE RetryFrame(r) \/ FailFrame(r)
    BY <1>7, GoneRecorded DEF RetryFrame, FailFrame, CatchFrame, row, ghost
  <1>8. CASE ModelAnswers(r)
    BY <1>8, GoneRecorded DEF ModelAnswers, Frame, At, row, ghost
  <1>9. CASE BeginRound(r)
    <2>1. /\ exec'[r].at \in {"leave", "think"} /\ exec[r].at = "round"
          /\ \A q \in Runs \ {r} : exec'[q] = exec[q]
      BY <1>0, <1>9 DEF BeginRound, Goto, At, Execs
    <2>2. UNCHANGED <<pending, open>>
      BY <1>9 DEF BeginRound, ghost
    <2>3. QED BY <2>1, <2>2, MovedRecorded
  <1>10. CASE ModelDone(r)
    <2>1. /\ exec'[r].at \in {"leave", "plan", "close"} /\ exec[r].at = "modelDone"
          /\ \A q \in Runs \ {r} : exec'[q] = exec[q]
      BY <1>0, <1>10 DEF ModelDone, Goto, At, Execs
    <2>2. UNCHANGED <<pending, open>>
      BY <1>10 DEF ModelDone, row, ghost
    <2>3. QED BY <2>1, <2>2, MovedRecorded
  <1>11. CASE Mark(r)
    <2>1. /\ exec[r].at = "mark" /\ exec'[r].at = "send"
          /\ \A q \in Runs \ {r} : exec'[q] = exec[q]
      BY <1>0, <1>11 DEF Mark, Checkpoint, Goto, At, Execs
    <2>2. /\ pending'[r] /\ open' = open
          /\ \A q \in Runs \ {r} : pending'[q] = pending[q]
      BY <1>0, <1>11 DEF Mark, Checkpoint, ghost
    <2>3. QED BY <2>1, <2>2 DEF Recorded
  <1>12. CASE SendCall(r)
    <2>1. /\ exec[r].at = "send" /\ exec'[r].at = "call"
          /\ \A q \in Runs \ {r} : exec'[q] = exec[q]
      BY <1>0, <1>12 DEF SendCall, Goto, At, Execs
    <2>2. /\ open'[r] /\ pending' = pending
          /\ \A q \in Runs \ {r} : open'[q] = open[q]
      BY <1>0, <1>12 DEF SendCall, row
    <2>3. QED BY <2>1, <2>2 DEF Recorded
  <1>13. CASE CallReturns(r)
    <2>1. /\ exec'[r].at = "toolDone" /\ exec[r].at = "call"
          /\ \A q \in Runs \ {r} : exec'[q] = exec[q]
      BY <1>0, <1>13 DEF CallReturns, At, Execs
    <2>2. UNCHANGED <<pending, open>>
      BY <1>13 DEF CallReturns, row, ghost
    <2>3. QED BY <2>1, <2>2, MovedRecorded
  <1>14. CASE ToolDone(r) \/ Close(r)
    BY <1>14, GoneRecorded DEF ToolDone, Close, At, row, ghost
  <1>15. CASE Settle(r)
    <2>1. /\ exec'[r].at \in {"askUser", "round", "close"}
          /\ \A q \in Runs \ {r} : exec'[q] = exec[q]
      BY <1>0, <1>15 DEF Settle, Checkpoint, Goto, Execs
    <2>2. /\ ~open'[r] /\ \A q \in Runs \ {r} : open'[q] = open[q] /\ pending'[q] = pending[q]
      BY <1>0, <1>15 DEF Settle, Checkpoint
    <2>3. QED BY <2>1, <2>2 DEF Recorded
  <1>16. CASE SaveReply(r) \/ SaveReview(r) \/ SaveFailure(r)
    BY <1>16, GoneRecorded DEF SaveReply, SaveReview, SaveFailure, Save, At, ghost
  <1>17. CASE EndReview(r) \/ EndReply(r) \/ EndFailure(r)
    BY <1>17, GoneRecorded DEF EndReview, EndReply, EndFailure, End, ghost
  <1>18. CASE AppUnreachable(r)
    BY <1>18, GoneRecorded DEF AppUnreachable, row, ghost
  <1>19. CASE Requeue(r)
    BY <1>19, GoneRecorded DEF Requeue, ghost
  <1>20. CASE StreamWriteRejected(r) \/ Leave(r)
    <2>1. /\ exec'[r].at = "off"
          /\ \A q \in Runs \ {r} : exec'[q] = exec[q] \/ exec'[q].at = "off"
      BY <1>0, <1>20 DEF StreamWriteRejected, Die, Leave, NoExec
    <2>2. UNCHANGED <<pending, open>>
      BY <1>20 DEF StreamWriteRejected, Die, Leave, row, ghost
    <2>3. QED BY <2>1, <2>2, MovedRecorded
  <1>21. QED
    BY <1>1, <1>2, <1>3, <1>4, <1>5, <1>6, <1>7, <1>8, <1>9, <1>10, <1>11, <1>12, <1>13,
       <1>14, <1>15, <1>16, <1>17, <1>18, <1>19, <1>20 DEF Execute

LEMMA ExecuteQuiet ==
  ASSUME TypeInv, NEW r \in Runs, Execute(r)
  PROVE  stop' = stop /\ \A q \in Runs : status[q] # "absent" => status'[q] # "absent"
  <1>1. stop' = stop
    BY DEF Execute, Lookup, Claim, LoadLog, Prepare, Frame, VisionDone, VisionFails,
           BeginRound, Think, ModelAnswers, ModelDone, Plan, Mark, SendCall, CallReturns,
           ToolDone, Report, Settle, AskUser, Close, LastFrames, SaveReply, Save, DoneFrame,
           EndReply, End, SaveReview, ReviewFrame, EndReview, Throws, AppUnreachable,
           RetryFrame, CatchFrame, Requeue, FailFrame, SaveFailure, FailureUnsaved, EndFailure,
           StreamWriteRejected, Die, Leave, Quiet
  <1>2. ASSUME NEW q \in Runs, status[q] # "absent" PROVE status'[q] # "absent"
    <2>1. CASE Claim(r) \/ Requeue(r)
      BY <1>2, <2>1 DEF Claim, Requeue, Status, TypeInv, TypeOK
    <2>2. CASE Complete(r)
      BY <1>2, <2>2 DEF Complete, End, SetRunStatus, Status, TypeInv, TypeOK
    <2>3. CASE SendCall(r) \/ StreamWriteRejected(r) \/ Leave(r) \/ Walk(r)
      BY <1>2, <2>3 DEF SendCall, StreamWriteRejected, Die, Leave, Walk, row
    <2>4. QED BY <2>1, <2>2, <2>3, ExecuteKinds
  <1>3. QED BY <1>1, <1>2

LEMMA NextPromise == PromiseInv /\ [Next]_vars => PromiseInv'
  <1> SUFFICES ASSUME PromiseInv, [Next]_vars PROVE Recorded' /\ StopsExisting'
    BY NextSlots, NextRows DEF PromiseInv
  <1> USE DEF PromiseInv, RowInv, TypeInv, TypeOK
  <1>1. CASE Sweep
    BY <1>1 DEF Sweep, StaleRows, Running, ghost, Recorded, StopsExisting
  <1>2. CASE CountActive \/ Restart \/ Tick \/ UNCHANGED vars
    BY <1>2 DEF CountActive, Restart, Tick, vars, row, daemon, ghost, Recorded, StopsExisting
  <1>3. CASE SelectRuns
    BY <1>3, CallPoints DEF SelectRuns, NoExec, row, ghost, Recorded, StopsExisting
  <1>4. CASE Crash
    BY <1>4, CallPoints DEF Crash, Die, NoExec, row, ghost, Recorded, StopsExisting
  <1>5. ASSUME NEW r \in Runs, QueueRun(r) PROVE Recorded' /\ StopsExisting'
    BY <1>5 DEF QueueRun, Status, daemon, ghost, Recorded, StopsExisting
  <1>6. ASSUME NEW r \in Runs, Execute(r) PROVE Recorded' /\ StopsExisting'
    BY <1>6, ExecuteRecorded, ExecuteQuiet DEF StopsExisting
  <1>7. ASSUME NEW r \in Runs, PressStop(r) \/ Cancel(r) \/ DropStop(r)
        PROVE  Recorded' /\ StopsExisting'
    <2>1. UNCHANGED <<pending, open, exec>>
      BY <1>7 DEF PressStop, Cancel, ClaimStop, SaveStop, AppendStop, DropStop, row, daemon, ghost
    <2>2. StopsExisting'
      BY <1>7 DEF PressStop, Cancel, ClaimStop, SaveStop, AppendStop, DropStop, StopGoto,
                  Status, row, StopsExisting
    <2>3. QED BY <2>1, <2>2 DEF Recorded
  <1>8. QED BY <1>1, <1>2, <1>3, <1>4, <1>5, <1>6, <1>7 DEF Next, Dispatch

-----------------------------------------------------------------------------
(* Every step is a step of the promise, or none *)

\* Only two steps of an execution settle or send a call; the others at most turn
\* away from one.
LEMMA ExecuteCalls ==
  ASSUME TypeInv, NEW r \in Runs, Execute(r)
  PROVE  \/ SendCall(r) \/ Settle(r)
         \/ open' = open /\ (exec'[r].at \in Calling => exec[r].at \in Calling)
  <1> USE Points, CallPoints
  <1> USE DEF At, Goto, row, ghost
  <1>0. exec[r] \in Execs /\ exec \in [Runs -> Execs]
    BY DEF TypeInv, TypeOK
  <1>1. CASE Lookup(r) \/ Claim(r) \/ LoadLog(r) \/ Prepare(r)
    BY <1>0, <1>1 DEF Lookup, Claim, LoadLog, Prepare, Frame, Execs
  <1>2. CASE VisionDone(r) \/ VisionFails(r) \/ BeginRound(r) \/ Think(r)
    BY <1>0, <1>2 DEF VisionDone, VisionFails, BeginRound, Think, Frame, Execs
  <1>3. CASE ModelAnswers(r) \/ ModelDone(r) \/ Plan(r) \/ Mark(r)
    BY <1>0, <1>3 DEF ModelAnswers, ModelDone, Plan, Mark, Checkpoint, Frame, Execs
  <1>4. CASE CallReturns(r) \/ ToolDone(r) \/ Report(r)
    BY <1>0, <1>4 DEF CallReturns, ToolDone, Report, Frame, Execs
  <1>5. CASE AskUser(r) \/ Close(r) \/ LastFrames(r) \/ SaveReply(r) \/ DoneFrame(r)
    BY <1>0, <1>5 DEF AskUser, Close, LastFrames, SaveReply, Save, DoneFrame, Frame, Execs
  <1>6. CASE SaveReview(r) \/ ReviewFrame(r) \/ SaveFailure(r)
    BY <1>0, <1>6 DEF SaveReview, ReviewFrame, SaveFailure, Save, Frame, Execs
  <1>7. CASE Throws(r) \/ FailureUnsaved(r) \/ AppUnreachable(r)
    BY <1>0, <1>7 DEF Throws, FailureUnsaved, AppUnreachable, Execs
  <1>8. CASE RetryFrame(r) \/ FailFrame(r) \/ Requeue(r)
    BY <1>0, <1>8 DEF RetryFrame, FailFrame, Requeue, CatchFrame, Execs
  <1>9. CASE EndReview(r) \/ EndReply(r) \/ EndFailure(r)
    BY <1>0, <1>9 DEF EndReview, EndReply, EndFailure, End, Execs
  <1>10. CASE StreamWriteRejected(r) \/ Leave(r)
    BY <1>0, <1>10 DEF StreamWriteRejected, Die, Leave, NoExec
  <1>11. QED
    BY <1>1, <1>2, <1>3, <1>4, <1>5, <1>6, <1>7, <1>8, <1>9, <1>10 DEF Execute

LEMMA PhaseMoves ==
  ASSUME TypeInv, NEW r \in Runs, NEW s \in Statuses, Status(r, s)
  PROVE  Phase' = [Phase EXCEPT ![r] = PhaseOf(s)]
  BY DEF Status, Phase, TypeInv, TypeOK

LEMMA PhaseStays == ASSUME status' = status PROVE Phase' = Phase
  BY DEF Phase

LEMMA CallStays ==
  ASSUME open' = open,
         \A q \in Runs : open[q] => (exec'[q].at \in Calling <=> exec[q].at \in Calling)
  PROVE  Call' = Call
  <1>1. \A q \in Runs : CallOf(q)' = CallOf(q)
    BY DEF CallOf
  <1>2. QED BY <1>1 DEF Call

\* The calls of S are held and no execution will settle them any more.
LEMMA CallsLost ==
  ASSUME NEW S \in SUBSET Runs, status' = status, open' = open,
         \A q \in S : open[q] /\ exec[q].at \in Calling /\ exec'[q].at \notin Calling,
         \A q \in Runs \ S :
            open[q] => (exec'[q].at \in Calling <=> exec[q].at \in Calling)
  PROVE  Promise!Lose(S)
  <1>1. \A q \in S : Call[q] = "held" /\ CallOf(q)' = "lost"
    BY DEF Call, CallOf
  <1>2. \A q \in Runs \ S : CallOf(q)' = CallOf(q)
    BY DEF CallOf
  <1>3. Call' = [q \in Runs |-> IF q \in S THEN "lost" ELSE Call[q]]
    BY <1>1, <1>2 DEF Call
  <1>4. QED BY <1>1, <1>3, PhaseStays DEF Promise!Lose

LEMMA DieMaps ==
  ASSUME Die
  PROVE  \E S \in SUBSET Runs : Promise!Lose(S)
  <1> DEFINE S == {q \in Runs : open[q] /\ exec[q].at \in Calling}
  <1>1. status' = status /\ open' = open /\ \A q \in Runs : exec'[q].at = "off"
    BY DEF Die, NoExec, row, ghost
  <1>2. Promise!Lose(S)
    BY <1>1, CallsLost, CallPoints
  <1>3. QED BY <1>2

Stutters == UNCHANGED <<Phase, Call>>

LEMMA ExecuteMaps ==
  ASSUME PromiseInv, PromiseInv', NEW r \in Runs, Execute(r)
  PROVE  Promise!Next \/ Stutters
  <1> USE CallPoints
  <1>0. /\ TypeInv /\ status \in [Runs -> Statuses]
        /\ exec \in [Runs -> Execs] /\ open \in [Runs -> BOOLEAN]
    BY DEF PromiseInv, RowInv, TypeInv, TypeOK
  <1>1. CASE Claim(r)
    <2>1. UNCHANGED Call
      BY <1>0, <1>1, CallStays DEF Claim, At, Goto, ghost, Execs
    <2>2. CASE status[r] = "queued"
      <3>1. Phase[r] = "queued" /\ Phase' = [Phase EXCEPT ![r] = "running"]
        BY <1>0, <1>1, <2>2, PhaseMoves DEF Claim, Statuses, Phase, PhaseOf
      <3>2. \A s \in Runs \ {r} : Phase[s] = "running" => Owner[s] # Owner[r]
        <4> SUFFICES ASSUME NEW s \in Runs \ {r}, Phase[s] = "running"
                     PROVE  Owner[s] # Owner[r]
          OBVIOUS
        <4>1. status[s] = "running"
          BY <1>0 DEF Phase, PhaseOf
        <4>2. status'[s] = "running" /\ status'[r] = "running"
          BY <1>0, <1>1, <2>2, <4>1 DEF Claim, Status
        <4>3. QED BY <4>2 DEF PromiseInv, SlotInv, OneRunPerUser, Occupying
      <3>3. Promise!Start(r)
        BY <2>1, <3>1, <3>2 DEF Promise!Start, Promise!Move
      <3>4. QED BY <3>3 DEF Promise!Next
    <2>3. CASE status[r] # "queued"
      BY <1>1, <2>1, <2>3, PhaseStays DEF Claim, Stutters
    <2>4. QED BY <2>2, <2>3
  <1>2. CASE SendCall(r)
    <2>1. exec[r].at = "send" /\ ~open[r]
      BY <1>2 DEF SendCall, At, PromiseInv, Recorded
    <2>2. Phase[r] \in {"running", "stopped"} /\ Phase' = Phase
      BY <1>2, <2>1, ServingPoints, Points, PhaseStays
         DEF SendCall, row, PromiseInv, RowInv, LiveRunKeepsItsRow, Phase, PhaseOf
    <2>3. /\ Call[r] = "none" /\ CallOf(r)' = "held"
          /\ \A q \in Runs \ {r} : CallOf(q)' = CallOf(q)
      BY <1>0, <1>2, <2>1 DEF SendCall, Goto, Execs, Call, CallOf
    <2>4. Call' = [Call EXCEPT ![r] = "held"]
      BY <2>3 DEF Call
    <2>5. Promise!Open(r)
      BY <2>2, <2>3, <2>4 DEF Promise!Open
    <2>6. QED BY <2>5 DEF Promise!Next
  <1>3. CASE Settle(r)
    <2>1. exec[r].at = "settle" /\ open[r]
      BY <1>3 DEF Settle, Checkpoint, At, PromiseInv, Recorded
    <2>2. /\ Call[r] = "held" /\ CallOf(r)' = "none"
          /\ \A q \in Runs \ {r} : CallOf(q)' = CallOf(q)
      BY <1>0, <1>3, <2>1 DEF Settle, Checkpoint, Goto, Execs, Call, CallOf
    <2>3. Call' = [Call EXCEPT ![r] = "none"]
      BY <2>2 DEF Call
    <2>4. Promise!Settle(r)
      BY <1>3, <2>2, <2>3, PhaseStays DEF Settle, Checkpoint, Promise!Settle
    <2>5. QED BY <2>4 DEF Promise!Next
  <1>4. CASE Requeue(r)
    <2>1. UNCHANGED Call
      BY <1>0, <1>4, CallStays DEF Requeue, At, Goto, ghost, Execs
    <2>2. CASE status[r] = "cancelled"
      BY <1>4, <2>1, <2>2, PhaseStays DEF Requeue, Stopped, Stutters
    <2>3. CASE status[r] # "cancelled"
      <3>1. exec[r].at = "requeue" /\ status[r] = "running"
        BY <1>4, <2>3, ServingPoints, Points
           DEF Requeue, At, PromiseInv, RowInv, LiveRunKeepsItsRow
      <3>2. Phase[r] = "running" /\ Call[r] # "held"
        BY <3>1 DEF Phase, PhaseOf, Call, CallOf
      <3>3. Phase' = [Phase EXCEPT ![r] = "queued"]
        BY <1>0, <1>4, <2>3, PhaseMoves DEF Requeue, Stopped, Statuses, PhaseOf
      <3>4. Phase' = [q \in Runs |-> IF q \in {r} THEN "queued" ELSE Phase[q]]
        BY <3>3 DEF Phase
      <3>5. Promise!GiveBack({r})
        BY <2>1, <3>2, <3>4 DEF Promise!GiveBack
      <3>6. QED BY <3>5 DEF Promise!Next
    <2>4. QED BY <2>2, <2>3
  <1>5. CASE Complete(r)
    <2>1. PICK from \in Ending, s \in {"waiting_approval", "succeeded", "failed"} :
             End(r, from, s) /\ (s = "failed" \/ from = "endReply")
      BY <1>5 DEF Complete
    <2>2. UNCHANGED Call
      BY <1>0, <2>1, CallStays DEF Ending, End, At, Goto, ghost, Execs
    <2>3. CASE status[r] = "cancelled"
      BY <2>1, <2>2, <2>3, PhaseStays DEF End, SetRunStatus, Stopped, Stutters
    <2>4. CASE status[r] # "cancelled"
      <3>1. exec[r].at = from /\ status[r] = "running"
        BY <2>1, <2>4, ServingPoints, Points
           DEF End, Ending, At, PromiseInv, RowInv, LiveRunKeepsItsRow
      <3>2. Phase[r] = "running" /\ Call[r] # "held"
        BY <3>1 DEF Ending, Phase, PhaseOf, Call, CallOf
      <3>3. s # "failed" => Call[r] = "none"
        BY <2>1, <3>1 DEF PromiseInv, Recorded, Call, CallOf
      <3>4. Phase' = [Phase EXCEPT ![r] = PhaseOf(s)]
        BY <1>0, <2>1, <2>4, PhaseMoves DEF End, SetRunStatus, Stopped, Statuses
      <3>5. Promise!Park(r) \/ Promise!Finish(r) \/ Promise!Fail(r)
        BY <2>2, <3>2, <3>3, <3>4
           DEF PhaseOf, Promise!Park, Promise!Finish, Promise!Fail, Promise!Move, Promise!Answered
      <3>6. QED BY <3>5 DEF Promise!Next
    <2>5. QED BY <2>3, <2>4
  <1>6. CASE StreamWriteRejected(r)
    BY <1>6, DieMaps DEF StreamWriteRejected, Promise!Next
  <1>7. CASE (Leave(r) \/ Walk(r)) /\ ~Settle(r) /\ ~SendCall(r)
    <2>1. status' = status /\ \A q \in Runs \ {r} : exec'[q] = exec[q]
      BY <1>0, <1>7 DEF Leave, Walk, row
    <2>2. open' = open /\ (exec'[r].at \in Calling => exec[r].at \in Calling)
      BY <1>0, <1>7, ExecuteCalls
    <2>3. CASE open[r] /\ exec[r].at \in Calling /\ exec'[r].at \notin Calling
      <3>1. Promise!Lose({r})
        BY <2>1, <2>2, <2>3, CallsLost
      <3>2. QED BY <3>1 DEF Promise!Next
    <2>4. CASE ~(open[r] /\ exec[r].at \in Calling /\ exec'[r].at \notin Calling)
      BY <2>1, <2>2, <2>4, CallStays, PhaseStays DEF Stutters
    <2>5. QED BY <2>3, <2>4
  <1>8. QED
    BY <1>0, <1>1, <1>2, <1>3, <1>4, <1>5, <1>6, <1>7, ExecuteKinds

LEMMA SelectStutters == ASSUME PromiseInv, SelectRuns PROVE Stutters
  <1>1. UNCHANGED <<status, open>>
    BY DEF SelectRuns, row, ghost
  <1>2. ASSUME NEW q \in Selected PROVE exec[q].at \notin Calling /\ q \in Runs
    <2>1. q \in Runs /\ Owner[q] \notin dispatcher.active
      BY DEF Selected, Oldest, Candidates, Window, Queued
    <2>2. ~Occupying(q)
      BY <2>1 DEF SelectRuns, Dispatching, PromiseInv, SlotInv, Covered
    <2>3. exec[q].at = "off"
      BY <2>1, <2>2 DEF PromiseInv, SlotInv, Held, Occupying
    <2>4. QED BY <2>1, <2>3, CallPoints
  <1>3. \A q \in Runs : exec'[q].at \in Calling <=> exec[q].at \in Calling
    <2> SUFFICES ASSUME NEW q \in Runs
                 PROVE  exec'[q].at \in Calling <=> exec[q].at \in Calling
      OBVIOUS
    <2>1. CASE q \in Selected
      <3>1. exec'[q].at = "lookup"
        BY <2>1 DEF SelectRuns, NoExec
      <3>2. QED BY <1>2, <2>1, <3>1, CallPoints
    <2>2. CASE q \notin Selected
      BY <2>2 DEF SelectRuns
    <2>3. QED BY <2>1, <2>2
  <1>4. QED BY <1>1, <1>3, CallStays, PhaseStays DEF Stutters

LEMMA SweepMaps == ASSUME PromiseInv, Sweep PROVE Promise!GiveBack(StaleRows)
  <1>1. StaleRows \in SUBSET Runs
    BY DEF StaleRows, Running
  <1>2. ASSUME NEW r \in StaleRows PROVE Phase[r] = "running" /\ Call[r] # "held"
    <2>1. r \in Runs /\ status[r] = "running" /\ age[r] >= StaleAfter
      BY DEF StaleRows, Running
    <2>2. exec[r].at \notin Serving
      BY <2>1, AgentRunAssumption DEF PromiseInv, RowInv, Beating, TypeInv, TypeOK
    <2>3. exec[r].at \notin Calling
      BY <2>2, CallPoints, ServingPoints, Points
    <2>4. QED BY <2>1, <2>3 DEF Phase, PhaseOf, Call, CallOf
  <1>3. Phase' = [r \in Runs |-> IF r \in StaleRows THEN "queued" ELSE Phase[r]]
    <2>1. \A r \in Runs : PhaseOf(status'[r]) =
                             IF r \in StaleRows THEN "queued" ELSE PhaseOf(status[r])
      BY DEF Sweep, PhaseOf
    <2>2. QED BY <2>1 DEF Phase
  <1>4. UNCHANGED Call
    BY CallStays DEF Sweep, ghost
  <1>5. QED BY <1>2, <1>3, <1>4 DEF Promise!GiveBack

LEMMA StopMaps ==
  ASSUME PromiseInv, NEW r \in Runs, ClaimStop(r)
  PROVE  Promise!Stop(r) \/ Stutters
  <1>0. TypeInv /\ status \in [Runs -> Statuses]
    BY DEF PromiseInv, RowInv, TypeInv, TypeOK
  <1>1. UNCHANGED Call
    BY CallStays DEF ClaimStop, daemon, ghost
  <1>2. CASE status[r] \in Unstoppable
    BY <1>1, <1>2, PhaseStays DEF ClaimStop, Stutters
  <1>3. CASE status[r] \notin Unstoppable
    <2>1. status[r] \in {"queued", "running", "waiting_approval"}
      BY <1>0, <1>3 DEF ClaimStop, PromiseInv, StopsExisting, Unstoppable, Statuses
    <2>2. Phase[r] \in {"queued", "running", "parked"}
      BY <2>1 DEF Phase, PhaseOf
    <2>3. Phase' = [Phase EXCEPT ![r] = "stopped"]
      BY <1>0, <1>3, PhaseMoves DEF ClaimStop, Statuses, PhaseOf
    <2>4. QED BY <1>1, <2>2, <2>3 DEF Promise!Stop, Promise!Move
  <1>4. QED BY <1>2, <1>3

LEMMA NextMaps ==
  ASSUME PromiseInv, PromiseInv', [Next]_vars
  PROVE  Promise!Next \/ Stutters
  <1>1. CASE Sweep
    <2>1. StaleRows \in SUBSET Runs
      BY DEF StaleRows, Running
    <2>2. QED BY <1>1, <2>1, SweepMaps DEF Promise!Next
  <1>2. CASE SelectRuns
    BY <1>2, SelectStutters
  <1>3. CASE Crash
    BY <1>3, DieMaps DEF Crash, Promise!Next
  <1>4. CASE CountActive \/ Restart \/ Tick \/ UNCHANGED vars
    <2>1. UNCHANGED <<status, open, exec>>
      BY <1>4 DEF CountActive, Restart, Tick, vars, row, daemon, ghost
    <2>2. QED BY <2>1, CallStays, PhaseStays DEF Stutters
  <1>5. ASSUME NEW r \in Runs, QueueRun(r) PROVE Promise!Next
    <2>1. Phase[r] = "absent" /\ Phase' = [Phase EXCEPT ![r] = "queued"]
      BY <1>5, PhaseMoves
         DEF QueueRun, Statuses, Phase, PhaseOf, PromiseInv, RowInv
    <2>2. UNCHANGED Call
      BY <1>5, CallStays DEF QueueRun, daemon, ghost
    <2>3. QED BY <2>1, <2>2 DEF Promise!Submit, Promise!Move, Promise!Next
  <1>6. ASSUME NEW r \in Runs, Execute(r) PROVE Promise!Next \/ Stutters
    BY <1>6, ExecuteMaps
  <1>7. ASSUME NEW r \in Runs, ClaimStop(r) PROVE Promise!Next \/ Stutters
    BY <1>7, StopMaps DEF Promise!Next
  <1>8. ASSUME NEW r \in Runs, PressStop(r) \/ SaveStop(r) \/ AppendStop(r) \/ DropStop(r)
        PROVE  Stutters
    <2>1. UNCHANGED <<status, open, exec>>
      BY <1>8 DEF PressStop, SaveStop, AppendStop, DropStop, row, daemon, ghost
    <2>2. QED BY <2>1, CallStays, PhaseStays DEF Stutters
  <1>9. QED
    BY <1>1, <1>2, <1>3, <1>4, <1>5, <1>6, <1>7, <1>8 DEF Next, Dispatch, Cancel

LEMMA InitMaps == Init => PromiseInv /\ Promise!Init
  <1> SUFFICES ASSUME Init PROVE PromiseInv /\ Promise!Init
    OBVIOUS
  <1>1. SlotInv
    BY InitType DEF Init, NoExec, NoDispatch, SlotInv, Held, Covered, OneRunPerUser, Occupying
  <1>2. RowInv
    BY InitType, ServingPoints DEF Init, NoExec, RowInv, LiveRunKeepsItsRow, Beating
  <1>3. Recorded /\ StopsExisting
    BY CallPoints DEF Init, NoExec, Recorded, StopsExisting
  <1>4. Phase = [r \in Runs |-> "absent"] /\ Call = [r \in Runs |-> "none"]
    BY DEF Init, Phase, PhaseOf, Call, CallOf
  <1>5. QED BY <1>1, <1>2, <1>3, <1>4 DEF PromiseInv, Promise!Init

\* The durable queue implements its promise: no tool call is made again once its
\* result may be lost, by a crash of the daemon, a retry, a stale sweep or a Stop,
\* and no run succeeds, or asks the user, on top of one.
THEOREM ImplementsPromise == Spec => KeepsPromise
  <1>1. PromiseInv /\ PromiseInv' /\ [Next]_vars => [Promise!Next]_(Promise!vars)
    BY NextMaps DEF Stutters, Promise!vars
  <1>2. QED
    BY <1>1, InitMaps, NextPromise, PTL DEF Spec, KeepsPromise, Promise!Spec
=============================================================================

-------------------------- MODULE RunEvents_proofs --------------------------
(***************************************************************************)
(* Proofs about RunEvents, for any number of runs, frames, streams given   *)
(* up, faults and Stop requests.  What is proved of AgentRun carries over: *)
(* the log is added to its steps and changes none of them.                 *)
(***************************************************************************)
EXTENDS RunEvents, AgentRun_refines

-----------------------------------------------------------------------------
(* The log changes nothing about the runs *)

LEMMA StepsOfRuns == [EventNext]_allVars => [Next]_vars
  <1> SUFFICES ASSUME [EventNext]_allVars PROVE [Next]_vars
    OBVIOUS
  <1>1. CASE EventDispatch \/ CrashForgets \/ Restart \/ Tick
    BY <1>1 DEF EventDispatch, CrashForgets, Next
  <1>2. ASSUME NEW r \in Runs, QueueRun(r) \/ PressStop(r) \/ DropStop(r) PROVE Next
    BY <1>2 DEF Next
  <1>3. ASSUME NEW r \in Runs, EventExecute(r) PROVE [Next]_vars
    <2>1. Execute(r) \/ Crash \/ UNCHANGED vars
      <3>1. CASE Silent(r)
        BY <3>1 DEF Silent, Execute
      <3>2. CASE Progress(r)
        BY <3>2 DEF Progress, Execute
      <3>3. CASE StartCounting(r) \/ VisionFrame(r) \/ LastFrames(r) \/ DoneFrame(r)
                 \/ ReviewFrame(r) \/ FailFrame(r)
        BY <3>3 DEF StartCounting, VisionFrame, Execute
      <3>4. CASE StreamEvent(r) \/ StreamWrite(r)
        BY <3>4 DEF StreamEvent, StreamWrite
      <3>5. CASE RoundRead(r) \/ BreakOff(r) \/ WriteRejected(r) \/ LeaveForgets(r)
        BY <3>5 DEF RoundRead, BreakOff, WriteRejected, LeaveForgets, Execute
      <3> QED BY <1>3, <3>1, <3>2, <3>3, <3>4, <3>5 DEF EventExecute
    <2> QED BY <2>1 DEF Next
  <1>4. ASSUME NEW r \in Runs, EventCancel(r) PROVE Next
    BY <1>4 DEF EventCancel, StopFrame, Cancel, Next
  <1>5. ASSUME NEW r \in Runs,
               \/ StrayWrite(r) \/ Prune(r) \/ OpenStream(r) \/ Poll(r) \/ SeeEnd(r)
               \/ LastRead(r) \/ Disconnect(r)
        PROVE  UNCHANGED vars
    BY <1>5 DEF StrayWrite, Prune, OpenStream, Poll, SeeEnd, LastRead, Disconnect, Receive, Follow
  <1>6. CASE UNCHANGED allVars
    BY <1>6 DEF allVars
  <1> QED BY <1>1, <1>2, <1>3, <1>4, <1>5, <1>6 DEF EventNext

\* A run with its event log is a run: numbering, streaming, pruning and following
\* frames adds nothing to what executions, Stops and crashes may do to a row.
THEOREM LogIsAddition == EventSpec => Spec
  <1>1. EventInit => Init
    BY DEF EventInit
  <1> QED BY <1>1, StepsOfRuns, PTL DEF EventSpec, Spec

\* So the log, with its three writers, abandoned streams and pruning, breaks nothing of
\* what is proved of the runs: above all they keep their promise.
THEOREM RunsCarryOver ==
    EventSpec =>
       /\ KeepsPromise /\ TerminalIsFinal
       /\ [](OneRunPerUser /\ CapacityRespected /\ LiveRunKeepsItsRow)
       /\ [](SecretsDropped /\ ReportedAfterSaved /\ SavedTurnNotRepeated /\ OneLateCallAtMost)
  <1>1. EventSpec => KeepsPromise /\ TerminalIsFinal
    BY LogIsAddition, ImplementsPromise, TerminalFinal
  <1>2. EventSpec => [](OneRunPerUser /\ CapacityRespected /\ LiveRunKeepsItsRow)
    BY LogIsAddition, OneRun, CapacityKept, LiveRunKeepsRow, PTL
  <1>3. EventSpec =>
           [](SecretsDropped /\ ReportedAfterSaved /\ SavedTurnNotRepeated /\ OneLateCallAtMost)
    BY LogIsAddition, SecretsGone, SavedFirst, TurnSavedOnce, OneLateCall, PTL
  <1> QED BY <1>1, <1>2, <1>3

-----------------------------------------------------------------------------
(* The points of an execution *)

\* Points at which a run's ending has been announced and is not written yet.
Told == {"endReply", "endReview", "saveFailure", "endFailure"}

\* Points of the catch block before its frame.
Catch == {"retryFrame", "failFrame"}

LEMMA EventPoints ==
  /\ Counting = ExecPoints \ {"off", "leave", "lookup", "claim", "load"}
  /\ Streaming = {"model", "retryFrame", "failFrame"}
  /\ Streaming = Catch \cup {"model"}
  BY DEF Counting, Serving, Early, Streaming, Catch

\* A step of r that leaves the log alone and does not start, end or break off the
\* stream of a round.
Walks(r) ==
  /\ \A q \in Runs \ {r} : exec'[q] = exec[q]
  /\ UNCHANGED <<clash, stop>>
  /\ exec[r].at \notin Streaming /\ exec'[r].at \notin Streaming
  /\ exec'[r].at \in Counting => exec[r].at \in Counting
  /\ exec'[r].at \in Told => exec[r].at \in Told

LEMMA SilentWalks ==
  ASSUME TypeInv, NEW r \in Runs, Silent(r)
  PROVE  Walks(r)
  <1> USE Points, EventPoints DEF Walks, Told, At, Goto, Quiet, ghost, TypeInv, TypeOK, Execs
  <1>1. CASE Lookup(r) \/ Claim(r) \/ BeginRound(r)
    BY <1>1 DEF Lookup, Claim, BeginRound, row
  <1>2. CASE Mark(r)
    BY <1>2 DEF Mark
  <1>3. CASE SendCall(r)
    BY <1>3 DEF SendCall, row
  <1>4. CASE ToolDone(r)
    BY <1>4 DEF ToolDone, row
  <1>5. CASE CallReturns(r)
    BY <1>5 DEF CallReturns, row
  <1>6. CASE ModelDone(r)
    BY <1>6 DEF ModelDone, row
  <1>7. CASE Settle(r)
    BY <1>7 DEF Settle
  <1>8. CASE Close(r) \/ SaveReply(r) \/ SaveReview(r) \/ SaveFailure(r) \/ FailureUnsaved(r)
    BY <1>8 DEF Close, SaveReply, SaveReview, SaveFailure, FailureUnsaved, Save, row
  <1>9. CASE EndReply(r) \/ EndReview(r) \/ EndFailure(r) \/ Requeue(r)
    BY <1>9 DEF EndReply, EndReview, EndFailure, Requeue, End
  <1> QED BY <1>1, <1>2, <1>3, <1>4, <1>5, <1>6, <1>7, <1>8, <1>9 DEF Silent

\* An awaited append: inside the try block a refused frame leads to the catch
\* block, inside the catch block to the end of the execution.
Framed(r) ==
  /\ \A q \in Runs \ {r} : exec'[q] = exec[q] /\ clash'[q] = clash[q]
  /\ UNCHANGED stop
  /\ clash'[r] = FALSE
  /\ exec[r].at \in Counting \ {"model"}
  /\ IF clash[r]
       THEN exec'[r].at = IF exec[r].at \in Catch THEN "leave" ELSE "failFrame"
       ELSE exec'[r].at \in ExecPoints \ Catch

LEMMA FramesAre ==
  ASSUME TypeInv, NEW r \in Runs
  PROVE  /\ Progress(r) => Framed(r) /\ exec'[r].at \notin Told /\ Append(r, "progress")
         /\ LastFrames(r) => Framed(r) /\ exec'[r].at \notin Told
         /\ DoneFrame(r) \/ ReviewFrame(r) \/ FailFrame(r) => Framed(r)
  <1> USE Points, EventPoints
      DEF Framed, Frame, CatchFrame, Told, Catch, At, Goto, Quiet, TypeInv, TypeOK, Execs
  <1>1. VisionFails(r) \/ Think(r) \/ Plan(r) \/ Report(r) \/ AskUser(r)
        => Framed(r) /\ exec'[r].at \notin Told
    BY DEF VisionFails, Think, Plan, Report, AskUser
  <1>2. RetryFrame(r) => Framed(r) /\ exec'[r].at \notin Told
    BY DEF RetryFrame
  <1>3. Prepare(r) => Framed(r) /\ exec'[r].at \notin Told
    BY DEF Prepare
  <1>4. LastFrames(r) => Framed(r) /\ exec'[r].at \notin Told
    BY DEF LastFrames
  <1>5. DoneFrame(r) \/ ReviewFrame(r) \/ FailFrame(r) => Framed(r)
    BY DEF DoneFrame, ReviewFrame, FailFrame
  <1> QED BY <1>1, <1>2, <1>3, <1>4, <1>5 DEF Progress

-----------------------------------------------------------------------------
(* The invariant *)

LogType ==
  /\ log \in [Runs -> SUBSET Frames]
  /\ seq \in [Runs -> Nat]
  /\ owed \in [Runs -> Nat]
  /\ stray \in [Runs -> SUBSET (Nat \ {0})]

\* While an execution counts, no frame is beyond the number it writes next, and that
\* number is taken exactly after a Stop; up to the catch block the frame before it is
\* the last one written.
CountOK(r) ==
  /\ owed[r] <= seq[r]
  /\ owed[r] > 0 => At(r, "model")
  /\ clash[r] => stop[r] = "done"
  /\ exec[r].at \in Counting =>
        /\ \A k \in Numbers(r) : k <= NextNumber(r)
        /\ clash[r] <=> NextNumber(r) \in Numbers(r)
  /\ exec[r].at \in Counting \ Catch => seq[r] - owed[r] \in Numbers(r) \cup {0}

\* A stream that was given up writes behind the last frame, or behind the one the
\* catch block is about to write.
StrayOK(r) ==
  \A n \in stray[r] :
     IF exec[r].at \in Catch THEN n <= seq[r] ELSE \E k \in Numbers(r) : n < k

TellOK(r) == exec[r].at \in Told => \E f \in log[r] : f.kind \in {"saved", "failed"}

Finished == {"succeeded", "waiting_approval", "cancelled"}

Delivered(r) == \A f \in log[r] : f.kind \notin {"stray", "stop"} => f.n \in reader[r].got

\* A client stands on a frame, or at the beginning; what it saw complete stays so.
ReadOK(r) ==
  /\ reader[r].at \in {"run", "events"} =>
        /\ reader[r].cursor \in Numbers(r) \cup {0}
        /\ \A f \in log[r] :
              f.n <= reader[r].cursor /\ f.kind # "stray" => f.n \in reader[r].got
  /\ reader[r].at \in {"events", "closed"} /\ reader[r].saw \in {"succeeded", "waiting_approval"}
     => exec[r].at \notin Serving /\ status[r] \in Finished
  /\ reader[r].at = "closed" /\ reader[r].saw \in {"succeeded", "waiting_approval"}
     => Delivered(r)

RunsInv == SlotInv /\ RowInv

LogInv == RunsInv /\ LogType /\ \A r \in Runs : CountOK(r) /\ StrayOK(r) /\ TellOK(r)

ReadInv == LogInv /\ reader \in [Runs -> Readers] /\ \A r \in Runs : ReadOK(r)

\* Nothing of q has changed that the log depends on, but the progress of its Stop.
Rests(q) ==
  /\ UNCHANGED <<exec[q], clash[q], log[q], seq[q], owed[q], stray[q]>>
  /\ stop[q] = "done" => stop'[q] = "done"

LEMMA Resting ==
  ASSUME NEW q \in Runs, CountOK(q), StrayOK(q), TellOK(q), Rests(q)
  PROVE  CountOK(q)' /\ StrayOK(q)' /\ TellOK(q)'
  <1>1. Numbers(q)' = Numbers(q) /\ NextNumber(q)' = NextNumber(q) /\ At(q, "model")' = At(q, "model")
    BY DEF Rests, Numbers, NextNumber, At
  <1> QED BY <1>1 DEF Rests, CountOK, StrayOK, TellOK

-----------------------------------------------------------------------------
(* Frames *)

LEMMA NumbersNat ==
  ASSUME LogType, NEW r \in Runs
  PROVE  /\ Numbers(r) \subseteq Nat \ {0}
         /\ seq[r] \in Nat /\ owed[r] \in Nat /\ stray[r] \subseteq Nat \ {0}
         /\ NextNumber(r) \in Int
  BY DEF LogType, Numbers, Frames, NextNumber

LEMMA PutDoes ==
  ASSUME LogType, NEW r \in Runs, NEW n \in Nat \ {0}, NEW kind \in Kinds, Put(r, n, kind)
  PROVE  /\ log' \in [Runs -> SUBSET Frames]
         /\ log'[r] = log[r] \cup {[n |-> n, kind |-> kind]}
         /\ Numbers(r)' = Numbers(r) \cup {n}
         /\ \A q \in Runs \ {r} : log'[q] = log[q]
  <1>1. [n |-> n, kind |-> kind] \in Frames
    BY DEF Frames
  <1>2. /\ log'[r] = log[r] \cup {[n |-> n, kind |-> kind]}
        /\ \A q \in Runs \ {r} : log'[q] = log[q]
    BY DEF Put, LogType
  <1>3. log' \in [Runs -> SUBSET Frames]
    BY <1>1 DEF Put, LogType
  <1>4. Numbers(r)' = Numbers(r) \cup {n}
    <2> DEFINE f == [n |-> n, kind |-> kind]
    <2>1. f.n = n /\ log'[r] = log[r] \cup {f}
      BY <1>2
    <2> HIDE DEF f
    <2> QED BY <2>1 DEF Numbers
  <1> QED BY <1>2, <1>3, <1>4

\* The frame lands where its number is free.
Lands(r, n, kind) ==
  /\ log' \in [Runs -> SUBSET Frames]
  /\ \A q \in Runs \ {r} : log'[q] = log[q]
  /\ Numbers(r)' = Numbers(r) \cup {n}
  /\ IF n \in Numbers(r) THEN log'[r] = log[r]
                        ELSE log'[r] = log[r] \cup {[n |-> n, kind |-> kind]}

LEMMA Landing ==
  ASSUME LogType, NEW r \in Runs, NEW n \in Nat \ {0}, NEW kind \in Kinds,
         PutUnlessTaken(r, n, kind)
  PROVE  Lands(r, n, kind)
  <1>1. CASE n \in Numbers(r)
    BY <1>1 DEF PutUnlessTaken, Lands, LogType, Numbers
  <1>2. CASE n \notin Numbers(r)
    BY <1>2, PutDoes DEF PutUnlessTaken, Lands
  <1> QED BY <1>1, <1>2

LEMMA AppendDoes ==
  ASSUME LogType, NEW r \in Runs, NEW kind \in Kinds, Append(r, kind)
  PROVE  /\ LogType'
         /\ Lands(r, seq[r] + 1, kind)
         /\ seq'[r] = seq[r] + 1
         /\ \A q \in Runs \ {r} : seq'[q] = seq[q]
         /\ UNCHANGED <<owed, stray, reader>>
  <1>1. seq[r] + 1 \in Nat \ {0}
    BY DEF LogType
  <1>2. Lands(r, seq[r] + 1, kind)
    BY <1>1, Landing DEF Append
  <1> QED BY <1>1, <1>2 DEF Append, Lands, LogType

\* An awaited append keeps the execution in step with the log.
LEMMA AppendKeeps ==
  ASSUME LogType, NEW r \in Runs, NEW kind \in Kinds, Framed(r), Append(r, kind),
         CountOK(r), StrayOK(r), TellOK(r),
         exec'[r].at \in Told => kind \in {"saved", "failed"}
  PROVE  CountOK(r)' /\ StrayOK(r)' /\ TellOK(r)'
  <1> DEFINE n == seq[r] + 1
  <1>1. owed[r] = 0 /\ owed'[r] = 0
    BY AppendDoes, NumbersNat DEF Framed, CountOK, At, LogType
  <1>2. /\ NextNumber(r) = n /\ NextNumber(r)' = n + 1
        /\ n \in Nat \ {0} /\ seq'[r] = n
        /\ Numbers(r)' = Numbers(r) \cup {n} /\ Numbers(r) \subseteq Nat \ {0}
    BY <1>1, AppendDoes, NumbersNat DEF NextNumber, Lands
  <1>3. \A k \in Numbers(r) : k <= n
    BY <1>2 DEF Framed, CountOK
  <1>4. clash[r] <=> n \in Numbers(r)
    BY <1>2 DEF Framed, CountOK
  <1>5. \A m \in stray[r] : m < n
    <2> SUFFICES ASSUME NEW m \in stray[r] PROVE m < n
      OBVIOUS
    <2>1. m \in Nat
      BY NumbersNat
    <2>2. CASE exec[r].at \in Catch
      BY <1>2, <2>1, <2>2, NumbersNat DEF StrayOK
    <2>3. CASE exec[r].at \notin Catch
      BY <1>2, <1>3, <2>1, <2>3, NumbersNat DEF StrayOK
    <2> QED BY <2>2, <2>3
  <1>6. stray'[r] = stray[r]
    BY AppendDoes
  <1> HIDE DEF n
  <1>7. CountOK(r)'
    <2>1. \A k \in Numbers(r)' : k <= n /\ k <= NextNumber(r)'
      BY <1>2, <1>3
    <2>2. NextNumber(r)' \notin Numbers(r)'
      BY <1>2, <2>1
    <2>3. seq'[r] - owed'[r] = n
      BY <1>1, <1>2
    <2> QED BY <1>1, <1>2, <2>1, <2>2, <2>3 DEF CountOK, Framed
  <1>8. StrayOK(r)'
    BY <1>2, <1>5, <1>6, NumbersNat DEF StrayOK
  <1>9. TellOK(r)'
    <2> SUFFICES ASSUME exec'[r].at \in Told
                 PROVE  \E f \in log'[r] : f.kind \in {"saved", "failed"}
      BY DEF TellOK
    <2>1. ~clash[r]
      BY DEF Framed, Told
    <2>2. [n |-> n, kind |-> kind] \in log'[r]
      BY <1>4, <2>1, AppendDoes DEF Lands, n
    <2> QED BY <2>2
  <1> QED BY <1>7, <1>8, <1>9

-----------------------------------------------------------------------------
(* What each step does to the log *)

InStep(r) == CountOK(r) /\ StrayOK(r) /\ TellOK(r)

\* The step concerns r alone, and leaves its execution in step with the log.
Keeps(r) ==
  /\ LogType'
  /\ \A q \in Runs \ {r} : Rests(q)
  /\ InStep(r)'

LEMMA Known ==
  ASSUME LogInv, NEW r \in Runs
  PROVE  /\ TypeInv /\ SlotInv /\ LogType /\ CountOK(r) /\ StrayOK(r) /\ TellOK(r)
         /\ exec[r] \in Execs /\ clash[r] \in BOOLEAN
         /\ Numbers(r) \subseteq Nat \ {0}
         /\ seq[r] \in Nat /\ owed[r] \in Nat /\ stray[r] \subseteq Nat \ {0}
         /\ NextNumber(r) \in Nat \ {0} /\ NextNumber(r) = seq[r] - owed[r] + 1
         /\ NextNumber(r) <= seq[r] + 1
  <1>1. TypeInv /\ SlotInv /\ LogType /\ CountOK(r) /\ StrayOK(r) /\ TellOK(r)
    BY DEF LogInv, RunsInv, SlotInv
  <1>2. seq[r] \in Nat /\ owed[r] \in Nat /\ owed[r] <= seq[r]
    BY <1>1, NumbersNat DEF CountOK
  <1> QED BY <1>1, <1>2, NumbersNat DEF TypeInv, TypeOK, NextNumber

LEMMA SilentKeeps == ASSUME LogInv, NEW r \in Runs, Silent(r) PROVE Keeps(r)
  <1>1. Walks(r) /\ UNCHANGED <<log, seq, owed, stray>>
    BY Known, SilentWalks DEF Silent, events, streams
  <1>2. Numbers(r)' = Numbers(r) /\ NextNumber(r)' = NextNumber(r)
    BY <1>1 DEF Numbers, NextNumber
  <1>3. CountOK(r)'
    BY <1>1, <1>2, Known, EventPoints DEF Walks, CountOK, At
  <1>4. StrayOK(r)' /\ TellOK(r)'
    BY <1>1, <1>2, Known, EventPoints DEF Walks, StrayOK, TellOK
  <1> QED BY <1>1, <1>3, <1>4, Known DEF Keeps, InStep, Rests, Walks, LogType

LEMMA FramedKeeps ==
  ASSUME LogInv, NEW r \in Runs, NEW kind \in Kinds, Framed(r), Append(r, kind),
         exec'[r].at \in Told => kind \in {"saved", "failed"}
  PROVE  Keeps(r)
  <1>1. InStep(r)'
    BY Known, AppendKeeps DEF InStep
  <1> QED BY <1>1, Known, AppendDoes DEF Keeps, Framed, Lands, Rests

LEMMA StartCountingKeeps == ASSUME LogInv, NEW r \in Runs, StartCounting(r) PROVE Keeps(r)
  <1>1. PICK n \in Numbers(r) \cup {0} : IsLast(r, n) /\ seq' = [seq EXCEPT ![r] = n]
    BY DEF StartCounting
  <1>2. n \in Nat /\ seq'[r] = n /\ \A q \in Runs \ {r} : seq'[q] = seq[q]
    BY <1>1, Known DEF LogType
  <1>3. /\ exec[r].at = "load" /\ exec'[r].at = "prepare" /\ clash'[r] = FALSE
        /\ UNCHANGED <<log, owed, stray, stop>>
        /\ \A q \in Runs \ {r} : exec'[q] = exec[q] /\ clash'[q] = clash[q]
    BY Known DEF StartCounting, LoadLog, At, Goto, Quiet, TypeInv, TypeOK, Execs
  <1>4. owed[r] = 0
    BY <1>3, Known DEF CountOK, At
  <1>5. Numbers(r)' = Numbers(r) /\ NextNumber(r)' = n + 1 /\ seq'[r] - owed'[r] = n
    BY <1>2, <1>3, <1>4 DEF Numbers, NextNumber
  <1>6. CountOK(r)'
    BY <1>1, <1>2, <1>3, <1>4, <1>5, Known DEF CountOK, IsLast
  <1>7. StrayOK(r)' /\ TellOK(r)'
    BY <1>3, <1>5, Known DEF StrayOK, TellOK, Told, Catch
  <1>8. LogType'
    BY <1>1, <1>2, <1>3, Known DEF LogType
  <1> QED BY <1>2, <1>3, <1>6, <1>7, <1>8 DEF Keeps, InStep, Rests

LEMMA VisionFrameKeeps == ASSUME LogInv, NEW r \in Runs, VisionFrame(r) PROVE Keeps(r)
  <1>1. PICK n \in {seq[r] + 1, seq[r] + 2} :
           /\ n = seq[r] + 2 <=> seq[r] + 1 \in Numbers(r)
           /\ seq' = [seq EXCEPT ![r] = n]
           /\ PutUnlessTaken(r, n, "progress")
    BY DEF VisionFrame
  <1>2. /\ exec[r].at = "vision" /\ exec'[r].at = "round" /\ clash'[r] = FALSE
        /\ UNCHANGED <<owed, stray, stop>>
        /\ \A q \in Runs \ {r} : exec'[q] = exec[q] /\ clash'[q] = clash[q]
    BY Known DEF VisionFrame, VisionDone, At, Goto, Quiet, TypeInv, TypeOK, Execs
  <1>3. owed[r] = 0 /\ NextNumber(r) = seq[r] + 1
    BY <1>2, Known DEF CountOK, At
  <1>4. /\ n \in Nat \ {0} /\ seq'[r] = n
        /\ \A q \in Runs \ {r} : seq'[q] = seq[q]
    BY <1>1, Known DEF LogType
  <1>5. Lands(r, n, "progress")
    BY <1>1, <1>4, Known, Landing DEF Kinds
  <1>6. Numbers(r)' = Numbers(r) \cup {n} /\ NextNumber(r)' = n + 1 /\ seq'[r] - owed'[r] = n
    BY <1>2, <1>3, <1>4, <1>5 DEF Lands, NextNumber
  <1>7. \A k \in Numbers(r)' : k <= n
    BY <1>1, <1>2, <1>3, <1>6, Known, EventPoints, Points DEF CountOK
  <1>8. CountOK(r)'
    BY <1>2, <1>3, <1>4, <1>6, <1>7, Known DEF CountOK
  <1>9. StrayOK(r)' /\ TellOK(r)'
    BY <1>2, <1>6, Known DEF StrayOK, TellOK, Told, Catch
  <1>10. LogType'
    BY <1>1, <1>2, <1>4, <1>5, Known DEF LogType, Lands
  <1> QED BY <1>2, <1>4, <1>5, <1>8, <1>9, <1>10 DEF Keeps, InStep, Rests, Lands

LEMMA StreamEventKeeps == ASSUME LogInv, NEW r \in Runs, StreamEvent(r) PROVE Keeps(r)
  <1>1. /\ exec[r].at = "model"
        /\ UNCHANGED <<exec, clash, stop, log, stray>>
        /\ seq'[r] = seq[r] + 1 /\ owed'[r] = owed[r] + 1
        /\ \A q \in Runs \ {r} : seq'[q] = seq[q] /\ owed'[q] = owed[q]
        /\ LogType'
    BY Known DEF StreamEvent, At, vars, daemon, LogType
  <1>2. /\ Numbers(r)' = Numbers(r) /\ NextNumber(r)' = NextNumber(r)
        /\ seq'[r] - owed'[r] = seq[r] - owed[r] /\ owed'[r] <= seq'[r]
    BY <1>1, Known DEF Numbers, NextNumber, CountOK
  <1>3. CountOK(r)'
    BY <1>1, <1>2, Known DEF CountOK, At
  <1>4. StrayOK(r)' /\ TellOK(r)'
    BY <1>1, <1>2, Known DEF StrayOK, TellOK, Catch
  <1> QED BY <1>1, <1>3, <1>4 DEF Keeps, InStep, Rests

LEMMA StreamWriteKeeps == ASSUME LogInv, NEW r \in Runs, StreamWrite(r) PROVE Keeps(r)
  <1> DEFINE n == NextNumber(r)
  <1>1. /\ exec[r].at = "model" /\ owed[r] > 0 /\ n \notin Numbers(r)
        /\ UNCHANGED <<exec, clash, stop, seq, stray>>
        /\ owed' = [owed EXCEPT ![r] = owed[r] - 1]
        /\ Put(r, n, "progress")
    BY DEF StreamWrite, At, vars, daemon
  <1>2. /\ n \in Nat \ {0} /\ n = seq[r] - owed[r] + 1
        /\ owed'[r] = owed[r] - 1 /\ owed[r] - 1 \in Nat
        /\ \A q \in Runs \ {r} : owed'[q] = owed[q]
    BY <1>1, Known DEF LogType
  <1>3. /\ log' \in [Runs -> SUBSET Frames]
        /\ \A q \in Runs \ {r} : log'[q] = log[q]
        /\ log[r] \subseteq log'[r]
        /\ Numbers(r)' = Numbers(r) \cup {n}
    BY <1>1, <1>2, Known, PutDoes DEF Kinds
  <1>4. NextNumber(r)' = n + 1 /\ seq'[r] - owed'[r] = n /\ owed'[r] <= seq'[r]
    BY <1>1, <1>2, Known DEF NextNumber, CountOK
  <1> HIDE DEF n
  <1>5. \A k \in Numbers(r) : k <= n
    BY <1>1, Known, EventPoints, Points DEF CountOK, n
  <1>6. ~clash[r]
    BY <1>1, Known, EventPoints, Points DEF CountOK, n
  <1>7. CountOK(r)'
    BY <1>1, <1>2, <1>3, <1>4, <1>5, <1>6, Known DEF CountOK, At
  <1>8. StrayOK(r)' /\ TellOK(r)'
    BY <1>1, <1>3, Known DEF StrayOK, TellOK, Catch
  <1>9. LogType'
    BY <1>1, <1>2, <1>3, Known DEF LogType
  <1> QED BY <1>1, <1>2, <1>3, <1>7, <1>8, <1>9 DEF Keeps, InStep, Rests

LEMMA RoundReadKeeps == ASSUME LogInv, NEW r \in Runs, RoundRead(r) PROVE Keeps(r)
  <1>1. /\ exec[r].at = "model"
        /\ UNCHANGED <<log, seq, stray, stop>>
        /\ owed' = [owed EXCEPT ![r] = 0]
        /\ \A q \in Runs \ {r} : exec'[q] = exec[q] /\ clash'[q] = clash[q]
    BY Known DEF RoundRead, ModelAnswers, Frame, At, Goto, Quiet, TypeInv, TypeOK
  <1>2. \/ owed[r] = 0 /\ exec'[r].at = "modelDone" /\ clash'[r] = clash[r]
        \/ owed[r] > 0 /\ clash[r] /\ exec'[r].at = "failFrame"
    BY DEF RoundRead
  <1>3. exec'[r].at = "failFrame" => clash'[r] = FALSE
    BY Known DEF RoundRead, ModelAnswers, Frame, At, Goto, TypeInv, TypeOK, Execs
  <1>4. /\ owed'[r] = 0 /\ \A q \in Runs \ {r} : owed'[q] = owed[q]
        /\ LogType'
    BY <1>1, Known DEF LogType
  <1>5. Numbers(r)' = Numbers(r) /\ NextNumber(r)' = seq[r] + 1 /\ seq'[r] = seq[r]
    BY <1>1, <1>4, Known DEF Numbers, NextNumber
  <1>6. \A k \in Numbers(r) : k <= NextNumber(r)
    BY <1>1, Known, EventPoints, Points DEF CountOK
  <1>7. CASE owed[r] = 0 /\ exec'[r].at = "modelDone" /\ clash'[r] = clash[r]
    <2>1. NextNumber(r)' = NextNumber(r)
      BY <1>5, <1>7, Known
    <2>2. CountOK(r)'
      BY <1>1, <1>4, <1>5, <1>7, <2>1, Known, EventPoints, Points DEF CountOK, Catch
    <2>3. StrayOK(r)' /\ TellOK(r)'
      BY <1>1, <1>5, <1>7, Known DEF StrayOK, TellOK, Catch, Told
    <2> QED BY <1>1, <1>4, <2>2, <2>3 DEF Keeps, InStep, Rests
  <1>8. CASE owed[r] > 0 /\ exec'[r].at = "failFrame" /\ clash'[r] = FALSE
    <2>1. \A k \in Numbers(r) : k <= seq[r]
      BY <1>6, <1>8, Known
    <2>2. CountOK(r)'
      BY <1>1, <1>4, <1>5, <1>8, <2>1, Known DEF CountOK, Catch
    <2>3. \A n \in stray[r] : n <= seq[r]
      BY <1>1, <2>1, Known DEF StrayOK, Catch
    <2>4. StrayOK(r)' /\ TellOK(r)'
      BY <1>1, <1>5, <1>8, <2>3 DEF StrayOK, TellOK, Catch, Told
    <2> QED BY <1>1, <1>4, <2>2, <2>4 DEF Keeps, InStep, Rests
  <1> QED BY <1>2, <1>3, <1>7, <1>8

LEMMA BreakOffKeeps == ASSUME LogInv, NEW r \in Runs, BreakOff(r) PROVE Keeps(r)
  <1> DEFINE left == {n \in 1..seq[r] : n > seq[r] - owed[r]}
  <1>1. /\ exec[r].at \in {"prepare", "model", "call", "saveReply", "saveReview"}
        /\ exec'[r].at \in Catch
        /\ UNCHANGED <<log, seq, stop>>
        /\ \A q \in Runs \ {r} : exec'[q] = exec[q] /\ clash'[q] = clash[q]
        /\ clash'[r] => clash[r]
        /\ clash'[r] \in BOOLEAN
    BY Known DEF BreakOff, Throws, AppUnreachable, Abandons, At, Goto, Quiet, Catch,
                 TypeInv, TypeOK, Execs
  <1>2. /\ clash'[r] = (seq[r] + 1 \in Numbers(r))
        /\ stray' = [stray EXCEPT ![r] = stray[r] \cup left]
        /\ owed' = [owed EXCEPT ![r] = 0]
    BY DEF BreakOff
  <1>3. left \subseteq Nat \ {0} /\ \A n \in left : n <= seq[r]
    BY Known
  <1> HIDE DEF left
  <1>4. /\ owed'[r] = 0 /\ stray'[r] = stray[r] \cup left
        /\ \A q \in Runs \ {r} : owed'[q] = owed[q] /\ stray'[q] = stray[q]
        /\ LogType'
    BY <1>1, <1>2, <1>3, Known DEF LogType
  <1>5. Numbers(r)' = Numbers(r) /\ NextNumber(r)' = seq[r] + 1 /\ seq'[r] = seq[r]
    BY <1>1, <1>4, Known DEF Numbers, NextNumber
  <1>6. \A k \in Numbers(r) : k <= seq[r] + 1
    BY <1>1, Known, EventPoints, Points DEF CountOK
  <1>7. CountOK(r)'
    <2>1. clash'[r] <=> seq[r] + 1 \in Numbers(r)
      BY <1>1, <1>2, Zenon
    <2>2. clash'[r] => stop'[r] = "done"
      BY <1>1, Known DEF CountOK
    <2> QED BY <1>1, <1>4, <1>5, <1>6, <2>1, <2>2, Known DEF CountOK
  <1>8. \A n \in stray'[r] : n <= seq[r]
    <2>1. \A n \in stray[r] : n <= seq[r]
      BY <1>1, <1>6, Known DEF StrayOK, Catch
    <2> QED BY <1>3, <1>4, <2>1
  <1>9. StrayOK(r)' /\ TellOK(r)'
    BY <1>1, <1>5, <1>8 DEF StrayOK, TellOK, Catch, Told
  <1> QED BY <1>1, <1>4, <1>7, <1>9 DEF Keeps, InStep, Rests

LEMMA LeaveKeeps == ASSUME LogInv, NEW r \in Runs, LeaveForgets(r) PROVE Keeps(r)
  <1>1. /\ exec[r].at = "leave" /\ exec'[r].at = "off"
        /\ UNCHANGED <<log, owed, stray, stop, clash>>
        /\ seq'[r] = 0
        /\ \A q \in Runs \ {r} : exec'[q] = exec[q] /\ seq'[q] = seq[q]
        /\ LogType'
    BY Known DEF LeaveForgets, Leave, NoExec, At, TypeInv, TypeOK, LogType
  <1>2. owed[r] = 0 /\ Numbers(r)' = Numbers(r)
    BY <1>1, Known DEF CountOK, At, Numbers
  <1>3. CountOK(r)'
    BY <1>1, <1>2, Known, EventPoints DEF CountOK
  <1>4. StrayOK(r)' /\ TellOK(r)'
    BY <1>1, <1>2, Known DEF StrayOK, TellOK, Catch, Told
  <1> QED BY <1>1, <1>3, <1>4 DEF Keeps, InStep, Rests

\* A Stop is appended once: until then its frame has taken nobody's number.
LEMMA StopFrameKeeps == ASSUME LogInv, NEW r \in Runs, StopFrame(r) PROVE Keeps(r)
  <1>1. /\ stop[r] = "frame" /\ stop'[r] = "done"
        /\ UNCHANGED <<exec, seq, owed, stray>>
        /\ \A q \in Runs \ {r} : clash'[q] = clash[q] /\ stop'[q] = stop[q]
    BY Known DEF StopFrame, AppendStop, StopGoto, daemon, TypeInv, TypeOK
  <1>2. ~clash[r] /\ NextNumber(r)' = NextNumber(r) /\ At(r, "model")' = At(r, "model")
    BY <1>1, Known DEF CountOK, NextNumber, At
  <1>3. CASE clash' = clash /\ UNCHANGED log
    <2>1. Numbers(r)' = Numbers(r)
      BY <1>3 DEF Numbers
    <2> QED BY <1>1, <1>2, <1>3, <2>1, Known
            DEF Keeps, InStep, Rests, CountOK, StrayOK, TellOK, LogType
  <1>4. ASSUME NEW n \in StopNumbers(r), Put(r, n, "stop"),
               clash'[r] = (exec[r].at \in Counting /\ n = NextNumber(r))
        PROVE  Keeps(r)
    <2>1. PICK m \in Numbers(r) \cup {0} : n = m + 1 /\ \A k \in Numbers(r) : k <= m
      BY <1>4 DEF StopNumbers, LastNumbers, IsLast
    <2>2. n \in Nat \ {0} /\ \A k \in Numbers(r) : k < n
      BY <2>1, Known
    <2>3. /\ log' \in [Runs -> SUBSET Frames]
          /\ \A q \in Runs \ {r} : log'[q] = log[q]
          /\ log[r] \subseteq log'[r]
          /\ Numbers(r)' = Numbers(r) \cup {n}
      BY <1>4, <2>2, Known, PutDoes DEF Kinds
    <2>4. exec[r].at \in Counting => n <= NextNumber(r)
      BY <1>2, <2>1, Known DEF CountOK
    <2>5. CountOK(r)'
      <3>1. clash'[r] \in BOOLEAN
        BY <1>4
      <3>2. clash'[r] <=> exec[r].at \in Counting /\ n = NextNumber(r)
        BY <1>4, <3>1, Zenon
      <3>3. exec[r].at \in Counting => NextNumber(r) \notin Numbers(r)
        BY <1>2, Known DEF CountOK
      <3> QED BY <1>1, <1>2, <2>2, <2>3, <2>4, <3>1, <3>2, <3>3, Known DEF CountOK
    <2>6. StrayOK(r)' /\ TellOK(r)'
      BY <1>1, <2>3, Known DEF StrayOK, TellOK
    <2> QED BY <1>1, <2>3, <2>5, <2>6, Known DEF Keeps, InStep, Rests, LogType
  <1> QED BY <1>3, <1>4 DEF StopFrame

LEMMA StrayKeeps == ASSUME LogInv, NEW r \in Runs, StrayWrite(r) PROVE Keeps(r)
  <1>1. PICK n \in stray[r] :
           /\ n \notin Numbers(r) /\ Put(r, n, "stray")
           /\ stray' = [stray EXCEPT ![r] = stray[r] \ {n}]
    BY DEF StrayWrite
  <1>2. UNCHANGED <<exec, clash, stop, seq, owed>>
    BY DEF StrayWrite, vars, daemon
  <1>3. /\ n \in Nat \ {0}
        /\ log' \in [Runs -> SUBSET Frames]
        /\ \A q \in Runs \ {r} : log'[q] = log[q]
        /\ log[r] \subseteq log'[r]
        /\ Numbers(r)' = Numbers(r) \cup {n}
    BY <1>1, Known, PutDoes DEF Kinds
  <1>4. /\ stray'[r] = stray[r] \ {n}
        /\ \A q \in Runs \ {r} : stray'[q] = stray[q]
    BY <1>1, Known DEF LogType
  <1>5. exec[r].at \in Counting => n < NextNumber(r)
    <2>1. CASE exec[r].at \in Catch
      BY <1>3, <2>1, Known DEF StrayOK, CountOK, At, Catch
    <2>2. CASE exec[r].at \notin Catch
      BY <1>3, <2>2, Known DEF StrayOK, CountOK
    <2> QED BY <2>1, <2>2
  <1>6. NextNumber(r)' = NextNumber(r) /\ At(r, "model")' = At(r, "model")
    BY <1>2 DEF NextNumber, At
  <1>7. CountOK(r)'
    BY <1>2, <1>3, <1>5, <1>6, Known DEF CountOK
  <1>8. StrayOK(r)' /\ TellOK(r)'
    BY <1>2, <1>3, <1>4, Known DEF StrayOK, TellOK
  <1>9. LogType'
    BY <1>1, <1>2, <1>3, Known DEF LogType
  <1> QED BY <1>2, <1>3, <1>4, <1>7, <1>8, <1>9 DEF Keeps, InStep, Rests

LEMMA PruneKeeps == ASSUME LogInv, NEW r \in Runs, Prune(r) PROVE Keeps(r)
  <1>1. /\ exec[r].at \notin Serving /\ stray[r] = {}
        /\ UNCHANGED <<exec, clash, stop, seq, owed, stray>>
        /\ log' = [log EXCEPT ![r] = {}]
    BY DEF Prune, vars, daemon
  <1>2. LogType' /\ \A q \in Runs \ {r} : log'[q] = log[q]
    BY <1>1, Known DEF LogType
  <1>3. exec[r].at \notin Counting /\ exec[r].at \notin Told /\ exec[r].at # "model"
    BY <1>1, ServingPoints, EventPoints, Points DEF Told, Counting
  <1>4. CountOK(r)'
    BY <1>1, <1>3, Known DEF CountOK, At
  <1>5. StrayOK(r)' /\ TellOK(r)'
    BY <1>1, <1>3 DEF StrayOK, TellOK
  <1> QED BY <1>1, <1>2, <1>4, <1>5 DEF Keeps, InStep, Rests

-----------------------------------------------------------------------------
(* Steps that concern every run, or none *)

AllInStep == LogType' /\ \A q \in Runs : InStep(q)'

LEMMA KeepsAll == ASSUME LogInv, NEW r \in Runs, Keeps(r) PROVE AllInStep
  BY Known, Resting DEF Keeps, AllInStep, InStep

LEMMA RestAll == ASSUME LogInv, LogType', \A q \in Runs : Rests(q) PROVE AllInStep
  BY Known, Resting DEF AllInStep, InStep

LEMMA ForgetsAll == ASSUME LogInv, Die, Forgets PROVE AllInStep
  <1>1. LogType'
    BY Known DEF Forgets, LogType, LogInv
  <1>2. ASSUME NEW q \in Runs PROVE InStep(q)'
    <2>1. /\ exec'[q].at = "off" /\ clash'[q] = FALSE /\ owed'[q] = 0 /\ seq'[q] = 0
          /\ stray'[q] = {}
      BY DEF Die, NoExec, Forgets
    <2> QED BY <2>1, EventPoints DEF InStep, CountOK, StrayOK, TellOK, Told
  <1> QED BY <1>1, <1>2 DEF AllInStep

\* A run is picked only while no execution of it is left.
LEMMA DispatchAll == ASSUME LogInv, EventDispatch PROVE AllInStep
  <1>1. UNCHANGED <<log, seq, owed, stray, clash, stop>> /\ LogType'
    BY DEF EventDispatch, Dispatch, Sweep, CountActive, SelectRuns, row, events, streams,
           LogInv, LogType
  <1>2. CASE Sweep \/ CountActive
    BY <1>1, <1>2, RestAll DEF Sweep, CountActive, Rests
  <1>3. CASE SelectRuns
    <2>1. ASSUME NEW q \in Runs, q \notin Selected PROVE InStep(q)'
      <3>1. exec'[q] = exec[q]
        BY <1>3, <2>1 DEF SelectRuns
      <3> QED BY <1>1, <3>1, Known, Resting DEF Rests, InStep
    <2>2. ASSUME NEW q \in Selected PROVE q \in Runs /\ InStep(q)'
      <3>1. q \in Runs /\ Owner[q] \notin dispatcher.active
        BY DEF Selected, Oldest, Candidates, Window, Queued
      <3>2. exec[q].at = "off"
        BY <1>3, <3>1 DEF LogInv, RunsInv, SlotInv, Held, Covered, Occupying,
                                  SelectRuns, Dispatching
      <3>3. exec'[q].at = "lookup"
        BY <1>3, <3>1 DEF SelectRuns, NoExec
      <3>4. owed[q] = 0 /\ Numbers(q)' = Numbers(q)
        BY <1>1, <3>1, <3>2, Known DEF CountOK, At, Numbers
      <3>5. CountOK(q)'
        BY <1>1, <3>1, <3>3, <3>4, Known, EventPoints DEF CountOK
      <3>6. StrayOK(q)' /\ TellOK(q)'
        BY <1>1, <3>1, <3>2, <3>3, <3>4, Known DEF StrayOK, TellOK, Catch, Told
      <3> QED BY <3>1, <3>5, <3>6 DEF InStep
    <2> QED BY <1>1, <2>1, <2>2 DEF AllInStep
  <1> QED BY <1>2, <1>3 DEF EventDispatch, Dispatch

\* The steps of AgentRun that neither write nor count frames.
LEMMA PlainAll ==
  ASSUME LogInv, UNCHANGED events, NEW r \in Runs,
         \/ Restart \/ Tick \/ QueueRun(r) \/ PressStop(r) \/ DropStop(r)
         \/ ClaimStop(r) \/ SaveStop(r)
  PROVE  AllInStep /\ exec' = exec
  <1>1. UNCHANGED <<exec, clash, log, seq, owed, stray>> /\ LogType'
    BY DEF Restart, Tick, QueueRun, PressStop, DropStop, ClaimStop, SaveStop, daemon,
           events, streams, LogInv, LogType
  <1>2. \A q \in Runs : stop[q] = "done" => stop'[q] = "done"
    BY Known DEF Restart, Tick, QueueRun, PressStop, DropStop, ClaimStop, SaveStop, StopGoto,
                 TypeInv, TypeOK
  <1> QED BY <1>1, <1>2, RestAll DEF Rests

LEMMA SteadyAll ==
  ASSUME LogInv, UNCHANGED <<vars, streams>>
  PROVE  AllInStep
  <1>1. LogType' /\ \A q \in Runs : Rests(q)
    BY DEF Rests, vars, daemon, streams, LogInv, LogType
  <1> QED BY <1>1, RestAll

LEMMA ExecuteAll ==
  ASSUME LogInv, NEW r \in Runs, EventExecute(r)
  PROVE  AllInStep
  <1>1. CASE Silent(r)
    BY <1>1, SilentKeeps, KeepsAll
  <1>2. CASE Progress(r) \/ (LastFrames(r) /\ Append(r, "answer"))
    BY <1>2, Known, FramesAre, FramedKeeps, KeepsAll DEF Kinds
  <1>3. CASE \/ (DoneFrame(r) \/ ReviewFrame(r)) /\ Append(r, "saved")
             \/ FailFrame(r) /\ Append(r, "failed")
    BY <1>3, Known, FramesAre, FramedKeeps, KeepsAll DEF Kinds
  <1>4. CASE StartCounting(r) \/ VisionFrame(r) \/ StreamEvent(r) \/ StreamWrite(r)
    BY <1>4, StartCountingKeeps, VisionFrameKeeps, StreamEventKeeps, StreamWriteKeeps, KeepsAll
  <1>5. CASE RoundRead(r) \/ BreakOff(r) \/ LeaveForgets(r)
    BY <1>5, RoundReadKeeps, BreakOffKeeps, LeaveKeeps, KeepsAll
  <1>6. CASE WriteRejected(r)
    BY <1>6, ForgetsAll DEF WriteRejected, StreamWriteRejected, Crash
  <1> QED BY <1>1, <1>2, <1>3, <1>4, <1>5, <1>6 DEF EventExecute

LEMMA RunsNext == RunsInv /\ [EventNext]_allVars => RunsInv'
  BY StepsOfRuns, NextSlots, NextRows DEF RunsInv

LEMMA LogNext == LogInv /\ [EventNext]_allVars => LogInv'
  <1> SUFFICES ASSUME LogInv, [EventNext]_allVars PROVE LogInv'
    OBVIOUS
  <1>0. RunsInv'
    BY RunsNext DEF LogInv
  <1>1. EventDispatch => AllInStep
    BY DispatchAll
  <1>2. CrashForgets => AllInStep
    BY ForgetsAll DEF CrashForgets, Crash
  <1>3. (Restart \/ Tick) /\ UNCHANGED events => AllInStep
    <2>1. 1 \in Runs
      BY AgentRunAssumption DEF Runs
    <2> QED BY <2>1, PlainAll
  <1>4. ASSUME NEW r \in Runs, (QueueRun(r) \/ PressStop(r) \/ DropStop(r)) /\ UNCHANGED events
        PROVE  AllInStep
    BY <1>4, PlainAll
  <1>5. ASSUME NEW r \in Runs, EventExecute(r) PROVE AllInStep
    BY <1>5, ExecuteAll
  <1>6. ASSUME NEW r \in Runs, EventCancel(r) PROVE AllInStep
    BY <1>6, PlainAll, StopFrameKeeps, KeepsAll DEF EventCancel
  <1>7. ASSUME NEW r \in Runs, StrayWrite(r) \/ Prune(r) PROVE AllInStep
    BY <1>7, StrayKeeps, PruneKeeps, KeepsAll
  <1>8. ASSUME NEW r \in Runs,
               OpenStream(r) \/ Poll(r) \/ SeeEnd(r) \/ LastRead(r) \/ Disconnect(r)
        PROVE  AllInStep
    <2>1. UNCHANGED <<vars, streams>>
      BY <1>8 DEF OpenStream, Poll, SeeEnd, LastRead, Disconnect, Receive, Follow
    <2> QED BY <2>1, SteadyAll
  <1>9. UNCHANGED allVars => AllInStep
    BY SteadyAll DEF allVars, events
  <1>10. AllInStep
    BY <1>1, <1>2, <1>3, <1>4, <1>5, <1>6, <1>7, <1>8, <1>9 DEF EventNext
  <1> QED BY <1>0, <1>10 DEF LogInv, AllInStep, InStep

LEMMA LogStart == EventInit => LogInv
  <1> SUFFICES ASSUME EventInit PROVE LogInv
    OBVIOUS
  <1>1. SlotInv
    BY InitType DEF EventInit, Init, NoExec, NoDispatch, SlotInv, Held, Covered, OneRunPerUser, Occupying
  <1>2. RowInv
    BY InitType, ServingPoints DEF EventInit, Init, NoExec, RowInv, LiveRunKeepsItsRow, Beating
  <1>3. LogType
    BY DEF EventInit, LogType
  <1>4. \A r \in Runs : /\ exec[r].at = "off" /\ clash[r] = FALSE /\ owed[r] = 0 /\ seq[r] = 0
                       /\ stray[r] = {}
    BY DEF EventInit, Init, NoExec
  <1>5. \A r \in Runs : CountOK(r) /\ StrayOK(r) /\ TellOK(r)
    BY <1>4, EventPoints DEF CountOK, StrayOK, TellOK, Told
  <1> QED BY <1>1, <1>2, <1>3, <1>5 DEF LogInv, RunsInv

LEMMA LogAlways == EventSpec => []LogInv
  BY LogStart, LogNext, PTL DEF EventSpec

-----------------------------------------------------------------------------
(* Theorems about the writers *)

\* An append of the execution throws exactly when the Stop frame took its number,
\* however many executions and streams of the run came before it.
THEOREM ClashFromStop == EventSpec => []ClashIsCollision
  <1>1. LogInv => ClashIsCollision
    BY Known DEF ClashIsCollision, CountOK
  <1> QED BY <1>1, LogAlways, PTL

\* Between rounds of output the counter of the execution is the last number of the log.
THEOREM CounterFollows == EventSpec => []CounterIsLast
  <1>1. LogInv => CounterIsLast
    <2> SUFFICES ASSUME LogInv, NEW r \in Runs, exec[r].at \in Counting \ Streaming, ~clash[r]
                 PROVE  IsLast(r, seq[r])
      BY DEF CounterIsLast
    <2>1. owed[r] = 0 /\ NextNumber(r) = seq[r] + 1
      BY Known, EventPoints DEF CountOK, At
    <2>2. seq[r] \in Numbers(r) \cup {0}
      BY <2>1, Known, EventPoints DEF CountOK
    <2>3. \A k \in Numbers(r) : k <= seq[r]
      BY <2>1, Known DEF CountOK
    <2> QED BY <2>2, <2>3 DEF IsLast
  <1> QED BY <1>1, LogAlways, PTL

LEMMA StepAnnounced ==
  ASSUME LogInv, [EventNext]_allVars, NEW q \in Runs, status'[q] # status[q],
         status'[q] \in {"succeeded", "waiting_approval", "failed"}
  PROVE  exec[q].at \in Told
  <1>1. [Next]_vars
    BY StepsOfRuns
  <1> USE DEF TypeInv, TypeOK
  <1>2. CASE Sweep \/ CountActive \/ SelectRuns \/ Crash \/ Restart \/ Tick \/ UNCHANGED vars
    BY <1>2, Known DEF Sweep, CountActive, SelectRuns, Crash, Die, Restart, Tick, vars, row
  <1>3. ASSUME NEW r \in Runs, QueueRun(r) PROVE FALSE
    BY <1>3, Known DEF QueueRun, Status
  <1>4. ASSUME NEW r \in Runs, PressStop(r) \/ Cancel(r) \/ DropStop(r) PROVE FALSE
    BY <1>4, Known DEF PressStop, Cancel, ClaimStop, SaveStop, AppendStop, DropStop, Status, row
  <1>5. ASSUME NEW r \in Runs, Execute(r) PROVE exec[q].at \in Told
    <2>1. CASE Claim(r) \/ Requeue(r)
      BY <2>1, Known DEF Claim, Requeue, Status
    <2>2. CASE SendCall(r) \/ StreamWriteRejected(r) \/ Leave(r) \/ Walk(r)
      BY <2>2 DEF SendCall, StreamWriteRejected, Die, Leave, Walk, row
    <2>3. CASE Complete(r)
      BY <2>3, Known DEF Complete, End, SetRunStatus, Status, At, Ending, Told
    <2> QED BY <1>5, <2>1, <2>2, <2>3, Known, ExecuteKinds
  <1> QED BY <1>1, <1>2, <1>3, <1>4, <1>5 DEF Next, Dispatch

\* A run is complete, waiting or failed only after a frame has said so, and the
\* frame is still in the log then.
THEOREM EndsAnnounced == EventSpec => AnnouncedFirst
  <1>1. LogInv /\ [EventNext]_allVars =>
          [\A r \in Runs :
             /\ status'[r] # status[r]
             /\ status'[r] \in {"succeeded", "waiting_approval", "failed"}
             => \E f \in log[r] : f.kind \in {"saved", "failed"}]_allVars
    BY Known, StepAnnounced DEF TellOK
  <1> QED BY <1>1, LogAlways, PTL DEF EventSpec, AnnouncedFirst

-----------------------------------------------------------------------------
(* What a client that follows the log notices *)

\* To the log of q nothing was done, or it was pruned with nobody following, or one
\* frame came: behind all others if it is not of an abandoned stream, and from a live
\* execution if it is not of a Stop.
Logged(q) ==
  \/ log'[q] = log[q]
  \/ log'[q] = {} /\ reader[q].at \notin {"run", "events"}
  \/ \E n \in Nat \ {0}, kind \in Kinds :
        /\ log'[q] = log[q] \cup {[n |-> n, kind |-> kind]}
        /\ kind # "stray" => \A k \in Numbers(q) : k < n
        /\ kind \notin {"stray", "stop"} => exec[q].at \in Serving

LEMMA LandsLogged ==
  ASSUME NEW r \in Runs, NEW n \in Nat \ {0}, NEW kind \in Kinds, Lands(r, n, kind),
         exec[r].at \in Serving,
         n \notin Numbers(r) => \A k \in Numbers(r) : k < n
  PROVE  \A q \in Runs : Logged(q)
  <1>1. Logged(r)
    BY DEF Lands, Logged
  <1>2. \A q \in Runs \ {r} : Logged(q)
    BY DEF Lands, Logged
  <1> QED BY <1>1, <1>2

LEMMA PutLogged ==
  ASSUME LogType, NEW r \in Runs, NEW n \in Nat \ {0}, NEW kind \in Kinds, Put(r, n, kind),
         kind \notin {"stray", "stop"} => exec[r].at \in Serving,
         kind # "stray" => \A k \in Numbers(r) : k < n
  PROVE  \A q \in Runs : Logged(q)
  <1>1. Logged(r)
    BY PutDoes DEF Logged
  <1>2. \A q \in Runs \ {r} : Logged(q)
    BY PutDoes DEF Logged
  <1> QED BY <1>1, <1>2

LEMMA CountingServes == Counting \subseteq Serving
  BY DEF Counting

LEMMA FramedLogged ==
  ASSUME LogInv, NEW r \in Runs, NEW kind \in Kinds, Framed(r), Append(r, kind)
  PROVE  \A q \in Runs : Logged(q)
  <1> DEFINE n == seq[r] + 1
  <1>1. n \in Nat \ {0} /\ Lands(r, n, kind)
    BY Known, AppendDoes
  <1>2. owed[r] = 0 /\ NextNumber(r) = n
    BY Known DEF Framed, CountOK, At
  <1>3. exec[r].at \in Counting
    BY DEF Framed
  <1> HIDE DEF n
  <1>4. n \notin Numbers(r) => \A k \in Numbers(r) : k < n
    BY <1>1, <1>2, <1>3, Known DEF CountOK
  <1> QED BY <1>1, <1>3, <1>4, CountingServes, LandsLogged

LEMMA ExecuteLogged ==
  ASSUME LogInv, NEW r \in Runs, EventExecute(r)
  PROVE  (\A q \in Runs : Logged(q)) /\ UNCHANGED reader
  <1>1. CASE Silent(r) \/ StartCounting(r) \/ StreamEvent(r) \/ RoundRead(r) \/ BreakOff(r)
             \/ WriteRejected(r) \/ LeaveForgets(r)
    BY <1>1 DEF Silent, StartCounting, StreamEvent, RoundRead, BreakOff, WriteRejected, Forgets,
                LeaveForgets, events, streams, Logged
  <1>2. CASE Progress(r) \/ (LastFrames(r) /\ Append(r, "answer"))
    BY <1>2, Known, FramesAre, FramedLogged DEF Kinds, Append
  <1>3. CASE \/ (DoneFrame(r) \/ ReviewFrame(r)) /\ Append(r, "saved")
             \/ FailFrame(r) /\ Append(r, "failed")
    BY <1>3, Known, FramesAre, FramedLogged DEF Kinds, Append
  <1>4. CASE VisionFrame(r)
    <2>1. PICK n \in {seq[r] + 1, seq[r] + 2} :
             (n = seq[r] + 2 <=> seq[r] + 1 \in Numbers(r)) /\ PutUnlessTaken(r, n, "progress")
      BY <1>4 DEF VisionFrame
    <2>2. exec[r].at = "vision" /\ UNCHANGED reader
      BY <1>4 DEF VisionFrame, VisionDone, At
    <2>3. \A k \in Numbers(r) : k <= seq[r] + 1
      BY <2>2, Known, EventPoints, Points DEF CountOK
    <2>4. n \in Nat \ {0} /\ \A k \in Numbers(r) : k < n
      BY <2>1, <2>3, Known
    <2>5. Lands(r, n, "progress") /\ exec[r].at \in Serving
      BY <2>1, <2>2, <2>4, Known, Landing, ServingPoints, Points DEF Kinds
    <2> QED BY <2>2, <2>4, <2>5, LandsLogged DEF Kinds
  <1>5. CASE StreamWrite(r)
    <2>1. /\ exec[r].at = "model" /\ NextNumber(r) \notin Numbers(r) /\ UNCHANGED reader
          /\ Put(r, NextNumber(r), "progress")
      BY <1>5 DEF StreamWrite, At
    <2>2. \A k \in Numbers(r) : k < NextNumber(r)
      BY <2>1, Known, EventPoints, Points DEF CountOK
    <2> QED BY <2>1, <2>2, Known, PutLogged, ServingPoints, Points DEF Kinds
  <1> QED BY <1>1, <1>2, <1>3, <1>4, <1>5 DEF EventExecute

\* Steps that are not the reader's.
Written ==
  \/ EventDispatch \/ CrashForgets
  \/ (Restart \/ Tick) /\ UNCHANGED events
  \/ \E r \in Runs :
       \/ (QueueRun(r) \/ PressStop(r) \/ DropStop(r)) /\ UNCHANGED events
       \/ EventExecute(r) \/ EventCancel(r)
       \/ StrayWrite(r) \/ Prune(r)

LEMMA WrittenLogged ==
  ASSUME LogInv, Written
  PROVE  (\A q \in Runs : Logged(q)) /\ UNCHANGED reader
  <1>1. CASE EventDispatch \/ CrashForgets \/ ((Restart \/ Tick) /\ UNCHANGED events)
    BY <1>1 DEF EventDispatch, CrashForgets, Forgets, events, streams, Logged
  <1>2. ASSUME NEW r \in Runs, (QueueRun(r) \/ PressStop(r) \/ DropStop(r)) /\ UNCHANGED events
        PROVE  (\A q \in Runs : Logged(q)) /\ UNCHANGED reader
    BY <1>2 DEF events, streams, Logged
  <1>3. ASSUME NEW r \in Runs, EventCancel(r)
        PROVE  (\A q \in Runs : Logged(q)) /\ UNCHANGED reader
    <2>1. CASE UNCHANGED events
      BY <2>1 DEF events, streams, Logged
    <2>2. CASE StopFrame(r) /\ UNCHANGED log
      BY <2>2 DEF StopFrame, Logged
    <2>3. ASSUME StopFrame(r), NEW n \in StopNumbers(r), Put(r, n, "stop")
          PROVE  (\A q \in Runs : Logged(q)) /\ UNCHANGED reader
      <3>1. n \in Nat \ {0} /\ \A k \in Numbers(r) : k < n
        BY Known DEF StopNumbers, LastNumbers, IsLast
      <3> QED BY <2>3, <3>1, Known, PutLogged DEF StopFrame, Kinds
    <2> QED BY <1>3, <2>1, <2>2, <2>3 DEF EventCancel, StopFrame
  <1>4. ASSUME NEW r \in Runs, StrayWrite(r)
        PROVE  (\A q \in Runs : Logged(q)) /\ UNCHANGED reader
    BY <1>4, Known, PutLogged DEF StrayWrite, Kinds
  <1>5. ASSUME NEW r \in Runs, Prune(r)
        PROVE  (\A q \in Runs : Logged(q)) /\ UNCHANGED reader
    BY <1>5, Known DEF Prune, LogType, Logged
  <1> QED BY <1>1, <1>2, <1>3, <1>4, <1>5, ExecuteLogged DEF Written

\* An execution begins only with a queued row.
LEMMA StartsQueued ==
  ASSUME TypeInv, [Next]_vars, NEW q \in Runs, exec'[q].at \in Serving, exec[q].at \notin Serving
  PROVE  status[q] = "queued"
  <1> USE ServingPoints, Points DEF TypeInv, TypeOK
  <1>1. CASE Sweep \/ CountActive \/ Restart \/ Tick \/ UNCHANGED vars
    BY <1>1 DEF Sweep, CountActive, Restart, Tick, vars, daemon
  <1>2. CASE SelectRuns \/ Crash
    <2>1. exec'[q] = exec[q] \/ exec'[q].at \in {"lookup", "off"}
      BY <1>2 DEF SelectRuns, Crash, Die, NoExec
    <2> QED BY <2>1
  <1>3. ASSUME NEW r \in Runs, QueueRun(r) \/ PressStop(r) \/ Cancel(r) \/ DropStop(r) PROVE FALSE
    BY <1>3 DEF QueueRun, PressStop, Cancel, ClaimStop, SaveStop, AppendStop, DropStop, daemon
  <1>4. ASSUME NEW r \in Runs, Execute(r) PROVE status[q] = "queued"
    <2>1. CASE Claim(r)
      <3>1. CASE status[r] = "queued"
        BY <2>1, <3>1 DEF Claim, Goto
      <3>2. CASE status[r] # "queued"
        BY <2>1, <3>2 DEF Claim, Goto, Execs
      <3> QED BY <3>1, <3>2
    <2>2. CASE SendCall(r) \/ Requeue(r) \/ Complete(r)
      BY <2>2 DEF SendCall, Requeue, Complete, End, Ending, Goto, At
    <2>3. CASE StreamWriteRejected(r) \/ Leave(r) \/ Walk(r)
      BY <2>3 DEF StreamWriteRejected, Die, NoExec, Leave, Walk
    <2> QED BY <1>4, <2>1, <2>2, <2>3, ExecuteKinds
  <1> QED BY <1>1, <1>2, <1>3, <1>4 DEF Next, Dispatch

LEMMA FinishedStays ==
  ASSUME RowInv, [Next]_vars, NEW q \in Runs, status[q] \in Finished
  PROVE  status'[q] \in Finished
  BY StepFinal DEF Finished, Terminal

\* Whatever is written or pruned, what a client has passed it has received.
LEMMA ReadKeeps ==
  ASSUME LogInv, LogInv', [Next]_vars, NEW q \in Runs, reader[q] \in Readers, ReadOK(q),
         Logged(q), reader'[q] = reader[q]
  PROVE  ReadOK(q)'
  <1> DEFINE d == reader[q]
             done == d.at \in {"events", "closed"} /\ d.saw \in {"succeeded", "waiting_approval"}
  <1>1. done => exec[q].at \notin Serving /\ status[q] \in Finished
    BY DEF ReadOK
  <1>2. done => exec'[q].at \notin Serving /\ status'[q] \in Finished
    BY <1>1, StartsQueued, FinishedStays DEF LogInv, RunsInv, RowInv, Finished
  <1>3. d.cursor \in Nat
    BY DEF Readers
  <1>4. CASE log'[q] = log[q]
    <2>1. Numbers(q)' = Numbers(q)
      BY <1>4 DEF Numbers
    <2> QED BY <1>2, <1>4, <2>1 DEF ReadOK, Delivered
  <1>5. CASE log'[q] = {} /\ d.at \notin {"run", "events"}
    BY <1>2, <1>5 DEF ReadOK, Delivered
  <1>6. ASSUME NEW n \in Nat \ {0}, NEW kind \in Kinds,
               log'[q] = log[q] \cup {[n |-> n, kind |-> kind]},
               kind # "stray" => \A k \in Numbers(q) : k < n,
               kind \notin {"stray", "stop"} => exec[q].at \in Serving
        PROVE  ReadOK(q)'
    <2> DEFINE f == [n |-> n, kind |-> kind]
    <2>1. f.n = n /\ f.kind = kind /\ log'[q] = log[q] \cup {f}
      BY <1>6
    <2> HIDE DEF f
    <2>2. Numbers(q)' = Numbers(q) \cup {n}
      BY <2>1 DEF Numbers
    <2>3. ASSUME d.at \in {"run", "events"}
          PROVE  /\ d.cursor \in Numbers(q)' \cup {0}
                 /\ \A g \in log'[q] : g.n <= d.cursor /\ g.kind # "stray" => g.n \in d.got
      <3>1. /\ d.cursor \in Numbers(q) \cup {0}
            /\ \A g \in log[q] : g.n <= d.cursor /\ g.kind # "stray" => g.n \in d.got
        BY <2>3 DEF ReadOK
      <3>2. kind # "stray" => d.cursor < n
        BY <1>6, <3>1
      <3> QED BY <1>3, <2>1, <2>2, <3>1, <3>2
    <2>4. d.at = "closed" /\ done => Delivered(q)'
      <3>1. d.at = "closed" /\ done => Delivered(q) /\ kind \in {"stray", "stop"}
        BY <1>1, <1>6 DEF ReadOK
      <3> QED BY <2>1, <3>1 DEF Delivered
    <2> QED BY <1>2, <2>3, <2>4 DEF ReadOK
  <1> QED BY <1>4, <1>5, <1>6 DEF Logged

\* A request of the client itself.
Requests(r) == OpenStream(r) \/ Poll(r) \/ SeeEnd(r) \/ LastRead(r) \/ Disconnect(r)

LEMMA Followed ==
  ASSUME reader \in [Runs -> Readers], NEW r \in Runs, NEW d, Follow(r, d)
  PROVE  /\ UNCHANGED <<vars, log, seq, owed, stray>>
         /\ reader'[r] = d /\ \A q \in Runs \ {r} : reader'[q] = reader[q]
         /\ d \in Readers => reader' \in [Runs -> Readers]
         /\ Numbers(r)' = Numbers(r) /\ exec' = exec /\ status' = status
  BY DEF Follow, streams, vars, row, daemon, Numbers

LEMMA NoReaderType == NoReader \in Readers
  BY DEF NoReader, Readers, Statuses

LEMMA RequestsKeepReading ==
  ASSUME ReadInv, NEW r \in Runs, Requests(r)
  PROVE  reader' \in [Runs -> Readers] /\ ReadOK(r)' /\ \A q \in Runs \ {r} : reader'[q] = reader[q]
  <1> DEFINE d == reader[r]
  <1>0. /\ reader \in [Runs -> Readers] /\ d \in Readers /\ ReadOK(r) /\ LogInv
        /\ Numbers(r) \subseteq Nat \ {0} /\ status[r] \in Statuses
    BY Known DEF ReadInv, TypeInv, TypeOK
  <1>1. CASE OpenStream(r)
    <2> DEFINE e == [NoReader EXCEPT !.at = "run"]
    <2>1. /\ e \in Readers /\ e.at = "run" /\ e.cursor = 0 /\ Follow(r, e)
      BY <1>1, NoReaderType DEF OpenStream, NoReader, Readers
    <2> HIDE DEF e
    <2>2. \A f \in log[r] : ~(f.n <= 0)
      <3>1. \A f \in log[r] : f.n \in Numbers(r)
        BY DEF Numbers
      <3> QED BY <1>0, <3>1
    <2>3. /\ reader'[r] = e /\ \A q \in Runs \ {r} : reader'[q] = reader[q]
          /\ reader' \in [Runs -> Readers] /\ log' = log
      BY <1>0, <2>1, Followed
    <2>4. ReadOK(r)'
      BY <2>1, <2>2, <2>3 DEF ReadOK
    <2> QED BY <2>3, <2>4
  <1>2. ASSUME NEW at \in {"run", "closed"}, NEW saw \in Statuses, Receive(r, at, saw),
               d.at \in {"run", "events"},
               at = "run" => saw = "absent",
               at = "closed" => d.at = "events" /\ saw = d.saw
        PROVE  reader' \in [Runs -> Readers] /\ ReadOK(r)' /\ \A q \in Runs \ {r} : reader'[q] = reader[q]
    <2>1. PICK n \in Unseen(r) \cup {d.cursor} :
             /\ \A k \in Unseen(r) : k <= n
             /\ Follow(r, [at |-> at, cursor |-> n, saw |-> saw, got |-> d.got \cup Unseen(r)])
      BY <1>2 DEF Receive
    <2> DEFINE e == [at |-> at, cursor |-> n, saw |-> saw, got |-> d.got \cup Unseen(r)]
    <2>2. d.cursor \in Nat /\ d.got \subseteq Nat \ {0} /\ d.cursor \in Numbers(r) \cup {0}
      BY <1>0, <1>2 DEF Readers, ReadOK
    <2>3. Unseen(r) \subseteq Numbers(r)
      BY DEF Unseen
    <2>4. /\ e \in Readers /\ e.at = at /\ e.cursor = n /\ e.saw = saw
          /\ e.got = d.got \cup Unseen(r) /\ Follow(r, e)
      BY <1>0, <1>2, <2>1, <2>2, <2>3 DEF Readers
    <2> HIDE DEF e
    <2>5. \A f \in log[r] : f.n \in Numbers(r)
      BY DEF Numbers
    <2>6. \A f \in log[r] : f.kind # "stray" => f.n \in e.got
      <3> SUFFICES ASSUME NEW f \in log[r], f.kind # "stray" PROVE f.n \in e.got
        OBVIOUS
      <3>1. CASE f.n > d.cursor
        BY <2>4, <2>5, <3>1 DEF Unseen
      <3>2. CASE f.n <= d.cursor
        BY <1>0, <1>2, <2>4, <3>2 DEF ReadOK
      <3> QED BY <1>0, <2>2, <2>5, <3>1, <3>2
    <2>7. e.cursor \in Numbers(r) \cup {0}
      BY <2>1, <2>2, <2>3, <2>4
    <2>8. e.at = "closed" /\ e.saw \in {"succeeded", "waiting_approval"}
          => exec[r].at \notin Serving /\ status[r] \in Finished
      BY <1>0, <1>2, <2>4 DEF ReadOK
    <2>9. /\ reader'[r] = e /\ \A q \in Runs \ {r} : reader'[q] = reader[q]
          /\ reader' \in [Runs -> Readers] /\ log' = log
          /\ Numbers(r)' = Numbers(r) /\ exec' = exec /\ status' = status
      BY <1>0, <2>4, Followed
    <2>10. ReadOK(r)'
      BY <1>2, <2>4, <2>6, <2>7, <2>8, <2>9 DEF ReadOK, Delivered
    <2> QED BY <2>9, <2>10
  <1>3. CASE Poll(r)
    BY <1>2, <1>3 DEF Poll, Statuses
  <1>4. CASE LastRead(r)
    BY <1>0, <1>2, <1>4 DEF LastRead, Readers
  <1>5. CASE SeeEnd(r)
    <2> DEFINE e == [d EXCEPT !.at = "events", !.saw = status[r]]
    <2>1. /\ e \in Readers /\ e.at = "events" /\ e.saw = status[r]
          /\ e.cursor = d.cursor /\ e.got = d.got /\ Follow(r, e)
      BY <1>0, <1>5 DEF SeeEnd, Readers
    <2> HIDE DEF e
    <2>2. d.at = "run"
      BY <1>5 DEF SeeEnd
    <2>3. status[r] \in {"succeeded", "waiting_approval"} => exec[r].at \notin Serving
      BY <1>0 DEF LogInv, RunsInv, RowInv, LiveRunKeepsItsRow
    <2> QED BY <1>0, <2>1, <2>2, <2>3, Followed DEF ReadOK, Finished
  <1>6. CASE Disconnect(r)
    BY <1>0, <1>6, NoReaderType, Followed DEF Disconnect, NoReader, ReadOK
  <1> QED BY <1>1, <1>3, <1>4, <1>5, <1>6 DEF Requests

LEMMA ReadNext == ReadInv /\ [EventNext]_allVars => ReadInv'
  <1> SUFFICES ASSUME ReadInv, [EventNext]_allVars PROVE ReadInv'
    OBVIOUS
  <1>1. LogInv /\ LogInv' /\ [Next]_vars
    BY LogNext, StepsOfRuns DEF ReadInv
  <1>2. \A q \in Runs : reader[q] \in Readers /\ ReadOK(q)
    BY DEF ReadInv
  <1>3. CASE Written \/ UNCHANGED allVars
    <2>1. (\A q \in Runs : Logged(q)) /\ UNCHANGED reader
      BY <1>1, <1>3, WrittenLogged DEF allVars, events, streams, Logged
    <2>2. \A q \in Runs : ReadOK(q)'
      BY <1>1, <1>2, <2>1, ReadKeeps
    <2> QED BY <1>1, <2>1, <2>2 DEF ReadInv
  <1>4. ASSUME NEW r \in Runs, Requests(r) PROVE ReadInv'
    <2>1. UNCHANGED log
      BY <1>4 DEF Requests, OpenStream, Poll, SeeEnd, LastRead, Disconnect, Receive, Follow, streams
    <2>2. \A q \in Runs \ {r} : ReadOK(q)'
      BY <1>1, <1>2, <1>4, <2>1, RequestsKeepReading, ReadKeeps DEF Logged
    <2> QED BY <1>1, <1>4, <2>2, RequestsKeepReading DEF ReadInv
  <1> QED BY <1>3, <1>4 DEF EventNext, Written, Requests

LEMMA ReadAlways == EventSpec => []ReadInv
  <1>1. EventInit => ReadInv
    <2> SUFFICES ASSUME EventInit PROVE ReadInv
      OBVIOUS
    <2>1. \A r \in Runs : reader[r] = NoReader
      BY DEF EventInit
    <2>2. reader \in [Runs -> Readers]
      BY NoReaderType DEF EventInit
    <2>3. \A r \in Runs : ReadOK(r)
      BY <2>1 DEF NoReader, ReadOK
    <2> QED BY <2>2, <2>3, LogStart DEF ReadInv
  <1> QED BY <1>1, ReadNext, PTL DEF EventSpec

-----------------------------------------------------------------------------
(* Theorems about the client *)

\* The log, the counters and the cursors keep their types.
THEOREM EventTypes == EventSpec => []EventTypeOK
  <1>1. ReadInv => EventTypeOK
    BY DEF ReadInv, LogInv, LogType, EventTypeOK
  <1> QED BY <1>1, ReadAlways, PTL

\* A client has received every frame its cursor has passed, but those of a stream
\* that was given up: all other writers write behind the last frame.
THEOREM ClientMissesNothing == EventSpec => []NothingSkipped
  <1>1. ReadInv => NothingSkipped
    BY DEF ReadInv, ReadOK, NothingSkipped
  <1> QED BY <1>1, ReadAlways, PTL

\* The stream closes after the last frame of a run that is complete or waits: the
\* status is read before the frames, and no frame of the run comes after its status.
THEOREM CloseIsInformed == EventSpec => []ClosesInformed
  <1>1. ReadInv => ClosesInformed
    BY DEF ReadInv, ReadOK, Delivered, ClosesInformed
  <1> QED BY <1>1, ReadAlways, PTL
=============================================================================

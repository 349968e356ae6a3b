------------------------------ MODULE RunEvents ------------------------------
(***************************************************************************)
(* The event log of a durable run: who numbers its frames, who writes      *)
(* them, and who reads them.  Frames are numbered by three writers that do *)
(* not know of one another: the execution with its own counter, the stream *)
(* of model output with numbers drawn early and written later, and the     *)
(* Stop request with one more than the last number in the log.  A client   *)
(* follows the log through a cursor.                                       *)
(*                                                                         *)
(* Every action of AgentRun takes part; what it does to the log is         *)
(* conjoined to it.  A frame stands for the adjacent frames AgentRun takes *)
(* for one step.                                                           *)
(***************************************************************************)
EXTENDS AgentRun

CONSTANT MaxStream  \* bound: the stream numbers a frame only below it

ASSUME RunEventsAssumption == MaxStream \in Nat

VARIABLES
    log,     \* log[r]: the WorkspaceAgentRunEvent rows of run r
    seq,     \* seq[r]: seq.value of the execution
    owed,    \* owed[r]: stream frames numbered last, not yet written (eventWrites)
    stray,   \* stray[r]: numbers the stream still writes though its round is over
    reader   \* reader[r]: a GET .../events request

streams == <<log, seq, owed, stray>>
events  == <<streams, reader>>
allVars == <<vars, events>>

Kinds == {"progress", "answer", "saved", "failed", "stray", "stop"}

Frames == [n: Nat \ {0}, kind: Kinds]

Readers == [at: {"off", "run", "events", "closed"},
            cursor: Nat,
            saw: Statuses,
            got: SUBSET (Nat \ {0})]

NoReader == [at |-> "off", cursor |-> 0, saw |-> "absent", got |-> {}]

Numbers(r) == {f.n : f \in log[r]}

\* n is the number of the last frame in the log, 0 for an empty log.
IsLast(r, n) ==
    /\ n \in Numbers(r) \cup {0}
    /\ \A k \in Numbers(r) : k <= n

\* The number the next write of the execution carries.
NextNumber(r) == seq[r] - owed[r] + 1

-----------------------------------------------------------------------------
(* Writers *)

Put(r, n, kind) ==
    log' = [log EXCEPT ![r] = @ \cup {[n |-> n, kind |-> kind]}]

\* The unique key (runId, sequence): a number that is taken is refused.
PutUnlessTaken(r, n, kind) ==
    IF n \in Numbers(r) THEN UNCHANGED log ELSE Put(r, n, kind)

\* appendRunEvent(runId, ++seq.value, ...): the counter moves even if it throws.
Append(r, kind) ==
    /\ seq' = [seq EXCEPT ![r] = @ + 1]
    /\ PutUnlessTaken(r, seq[r] + 1, kind)
    /\ UNCHANGED <<owed, stray, reader>>

\* Defect: every execution counts from the beginning.
StartCountingFromZero(r) ==
    /\ LoadLog(r)
    /\ seq' = [seq EXCEPT ![r] = 0]
    /\ UNCHANGED <<log, owed, stray, reader>>

\* The counter continues after what earlier executions left.
StartCounting(r) ==
    /\ LoadLog(r)
    /\ \E n \in Numbers(r) \cup {0} :
          IsLast(r, n) /\ seq' = [seq EXCEPT ![r] = n]
    /\ UNCHANGED <<log, owed, stray, reader>>

\* After a collision the inner catch block writes the next number.
VisionFrame(r) ==
    /\ VisionDone(r)
    /\ \E n \in {seq[r] + 1, seq[r] + 2} :
          /\ n = seq[r] + 2 <=> seq[r] + 1 \in Numbers(r)
          /\ seq' = [seq EXCEPT ![r] = n]
          /\ PutUnlessTaken(r, n, "progress")
    /\ UNCHANGED <<owed, stray, reader>>

\* queueEvent: a number now, the write later.
StreamEvent(r) ==
    /\ At(r, "model")
    /\ seq[r] < MaxStream
    /\ seq' = [seq EXCEPT ![r] = @ + 1]
    /\ owed' = [owed EXCEPT ![r] = @ + 1]
    /\ UNCHANGED <<vars, log, stray, reader>>

StreamWrite(r) ==
    /\ At(r, "model")
    /\ owed[r] > 0
    /\ NextNumber(r) \notin Numbers(r)
    /\ Put(r, NextNumber(r), "progress")
    /\ owed' = [owed EXCEPT ![r] = @ - 1]
    /\ UNCHANGED <<vars, seq, stray, reader>>

\* Defect: the round ends without waiting for its writes.
RoundReadEarly(r) ==
    /\ ModelAnswers(r)
    /\ exec'[r].at = "modelDone" /\ clash'[r] = clash[r]
    /\ UNCHANGED <<log, seq, owed, stray, reader>>

\* await eventWrites: everything is written, or a write was refused and the
\* ones behind it are never tried.
RoundRead(r) ==
    /\ ModelAnswers(r)
    /\ \/ owed[r] = 0 /\ exec'[r].at = "modelDone" /\ clash'[r] = clash[r]
       \/ owed[r] > 0 /\ clash[r] /\ exec'[r].at = "failFrame"
    /\ owed' = [owed EXCEPT ![r] = 0]
    /\ UNCHANGED <<log, seq, stray, reader>>

\* A throw inside the answer leaves the queue to itself.
BreakOff(r) ==
    /\ Throws(r) \/ AppUnreachable(r)
    /\ clash'[r] = (seq[r] + 1 \in Numbers(r))
    /\ stray' = [stray EXCEPT ![r] = @ \cup {n \in 1..seq[r] : n > seq[r] - owed[r]}]
    /\ owed' = [owed EXCEPT ![r] = 0]
    /\ UNCHANGED <<log, seq, reader>>

\* The abandoned queue goes on, in order.
StrayTurn(r, n) == n \in stray[r] /\ \A k \in stray[r] : n <= k

StrayWrite(r) ==
    /\ \E n \in stray[r] :
          /\ StrayTurn(r, n)
          /\ n \notin Numbers(r)
          /\ Put(r, n, "stray")
          /\ stray' = [stray EXCEPT ![r] = @ \ {n}]
    /\ UNCHANGED <<vars, seq, owed, reader>>

\* What the daemon loses with its process.
Forgets ==
    /\ seq' = [r \in Runs |-> 0]
    /\ owed' = [r \in Runs |-> 0]
    /\ stray' = [r \in Runs |-> {}]
    /\ UNCHANGED <<log, reader>>

\* Refused writes nobody awaits end the process; those of an abandoned queue
\* are counted with the faults.
WriteRejected(r) ==
    /\ \/ StreamWriteRejected(r) /\ owed[r] > 0
       \/ Crash /\ \E n \in stray[r] : StrayTurn(r, n) /\ n \in Numbers(r)
    /\ Forgets

CrashForgets == Crash /\ Forgets

LeaveForgets(r) ==
    /\ Leave(r)
    /\ seq' = [seq EXCEPT ![r] = 0]
    /\ UNCHANGED <<log, owed, stray, reader>>

LastNumbers(r) == {m \in Numbers(r) \cup {0} : IsLast(r, m)}

\* Defect: the Stop frame takes the number of the last frame.
StopNumbersTaken(r) == LastNumbers(r)

\* Defect: the Stop frame leaves room for one more frame of the execution.
StopNumbersAhead(r) == {m + 2 : m \in LastNumbers(r)}

\* nextRunSequence
StopNumbers(r) == {m + 1 : m \in LastNumbers(r)}

\* The Stop frame lands, or is given up when other writers won three times.
StopFrame(r) ==
    /\ AppendStop(r)
    /\ \/ \E n \in StopNumbers(r) :
             /\ Put(r, n, "stop")
             /\ clash'[r] = (exec[r].at \in Counting /\ n = NextNumber(r))
       \/ /\ At(r, "model") \/ stray[r] # {}
          /\ clash' = clash
          /\ UNCHANGED log
    /\ UNCHANGED <<seq, owed, stray, reader>>

\* pruneCompletedRunEvents: frames older than a day or more, here all of a
\* run's at once.  What a live execution or stream wrote last is younger, and so
\* is what an open stream follows: it closes half a second after completion.
Prune(r) ==
    /\ Dispatching("off")
    /\ status[r] \in Terminal
    /\ exec[r].at \notin Serving
    /\ stray[r] = {}
    /\ reader[r].at \in {"off", "closed"}
    /\ log' = [log EXCEPT ![r] = {}]
    /\ UNCHANGED <<vars, seq, owed, stray, reader>>

-----------------------------------------------------------------------------
(* GET /api/workspace-tool/runs/[id]/events *)

Follow(r, state) ==
    /\ reader' = [reader EXCEPT ![r] = state]
    /\ UNCHANGED <<vars, streams>>

\* The page opens the stream, or opens it again: no client passes a cursor.
OpenStream(r) ==
    /\ reader[r].at \in {"off", "closed"}
    /\ status[r] # "absent"
    /\ Follow(r, [NoReader EXCEPT !.at = "run"])

Unseen(r) == {n \in Numbers(r) : n > reader[r].cursor}

\* The frames beyond the cursor, in order; the cursor moves to the last of them.
Receive(r, at, saw) ==
    \E n \in Unseen(r) \cup {reader[r].cursor} :
        /\ \A k \in Unseen(r) : k <= n
        /\ Follow(r, [at |-> at, cursor |-> n, saw |-> saw, got |-> reader[r].got \cup Unseen(r)])

\* A poll that does not end the stream: the run, which is read first, was not
\* complete then, though it may be by now.
Poll(r) ==
    /\ reader[r].at = "run"
    /\ Unseen(r) # {}
    /\ Receive(r, "run", "absent")

\* Defect: the frames of the last poll are not read after its status.
SeeEndAndClose(r) ==
    /\ reader[r].at = "run"
    /\ status[r] \in Terminal
    /\ Follow(r, [reader[r] EXCEPT !.at = "closed", !.saw = status[r]])

\* A poll that finds the run complete ...
SeeEnd(r) ==
    /\ reader[r].at = "run"
    /\ status[r] \in Terminal
    /\ Follow(r, [reader[r] EXCEPT !.at = "events", !.saw = status[r]])

\* ... reads the frames after that, and closes.
LastRead(r) ==
    /\ reader[r].at = "events"
    /\ Receive(r, "closed", reader[r].saw)

\* The page goes away, or the app restarts.
Disconnect(r) ==
    /\ reader[r].at \in {"run", "events"}
    /\ Follow(r, NoReader)

-----------------------------------------------------------------------------
EventInit ==
    /\ Init
    /\ log = [r \in Runs |-> {}]
    /\ seq = [r \in Runs |-> 0]
    /\ owed = [r \in Runs |-> 0]
    /\ stray = [r \in Runs |-> {}]
    /\ reader = [r \in Runs |-> NoReader]

\* Steps that write no frame.
Silent(r) ==
    /\ \/ Lookup(r) \/ Claim(r) \/ BeginRound(r) \/ ModelDone(r)
       \/ Mark(r) \/ SendCall(r) \/ CallReturns(r) \/ ToolDone(r) \/ Settle(r)
       \/ Close(r) \/ SaveReply(r) \/ EndReply(r) \/ SaveReview(r) \/ EndReview(r)
       \/ Requeue(r) \/ SaveFailure(r) \/ FailureUnsaved(r) \/ EndFailure(r)
    /\ UNCHANGED events

Progress(r) ==
    /\ \/ Prepare(r) \/ VisionFails(r) \/ Think(r) \/ Plan(r) \/ Report(r)
       \/ AskUser(r) \/ RetryFrame(r)
    /\ Append(r, "progress")

EventExecute(r) ==
    \/ Silent(r) \/ Progress(r) \/ StartCounting(r) \/ VisionFrame(r)
    \/ LastFrames(r) /\ Append(r, "answer")
    \/ (DoneFrame(r) \/ ReviewFrame(r)) /\ Append(r, "saved")
    \/ FailFrame(r) /\ Append(r, "failed")
    \/ StreamEvent(r) \/ StreamWrite(r) \/ RoundRead(r)
    \/ BreakOff(r) \/ WriteRejected(r) \/ LeaveForgets(r)

EventDispatch == Dispatch /\ UNCHANGED events

EventCancel(r) ==
    \/ (ClaimStop(r) \/ SaveStop(r)) /\ UNCHANGED events
    \/ StopFrame(r)

EventNext ==
    \/ EventDispatch \/ CrashForgets
    \/ (Restart \/ Tick) /\ UNCHANGED events
    \/ \E r \in Runs :
         \/ (QueueRun(r) \/ PressStop(r) \/ DropStop(r)) /\ UNCHANGED events
         \/ EventExecute(r) \/ EventCancel(r)
         \/ StrayWrite(r) \/ Prune(r)
         \/ OpenStream(r) \/ Poll(r) \/ SeeEnd(r) \/ LastRead(r) \/ Disconnect(r)

EventSpec == EventInit /\ [][EventNext]_allVars

-----------------------------------------------------------------------------
(* Properties *)

\* The log and its readers keep their types.
EventTypeOK ==
    /\ log \in [Runs -> SUBSET Frames]
    /\ seq \in [Runs -> Nat]
    /\ owed \in [Runs -> Nat]
    /\ stray \in [Runs -> SUBSET (Nat \ {0})]
    /\ reader \in [Runs -> Readers]

\* An execution's next append throws exactly when the Stop frame took its
\* number: neither frames of an earlier execution, nor those of a stream that
\* was given up, ever stand in its way.
ClashIsCollision ==
    \A r \in Runs :
        exec[r].at \in Counting => (clash[r] <=> NextNumber(r) \in Numbers(r))

\* Between rounds of output the execution's counter is the last number of the
\* log, so that a Stop which lands there lands on its next one.
CounterIsLast ==
    \A r \in Runs :
        exec[r].at \in Counting \ Streaming =>
            clash[r] \/ IsLast(r, seq[r])

\* What a client has passed it has received: no writer but an abandoned stream
\* fills a number in behind a cursor.
NothingSkipped ==
    \A r \in Runs :
        reader[r].at \in {"run", "events"} =>
            \A f \in log[r] :
                f.n <= reader[r].cursor /\ f.kind # "stray" => f.n \in reader[r].got

\* A stream that closes because the run is complete or waits for the user has
\* delivered every frame of it that is still kept.
ClosesInformed ==
    \A r \in Runs :
        /\ reader[r].at = "closed"
        /\ reader[r].saw \in {"succeeded", "waiting_approval"}
        => \A f \in log[r] : f.kind \notin {"stray", "stop"} => f.n \in reader[r].got

\* A run is complete, waiting or failed only after a frame has said so.
AnnouncedFirst ==
    [][\A r \in Runs :
          /\ status'[r] # status[r]
          /\ status'[r] \in {"succeeded", "waiting_approval", "failed"}
          => \E f \in log[r] : f.kind \in {"saved", "failed"}]_allVars
=============================================================================

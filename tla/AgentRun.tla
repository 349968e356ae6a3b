------------------------------ MODULE AgentRun ------------------------------
(***************************************************************************)
(* The durable WorkSpaces run: rows queued by the app, dispatched and      *)
(* executed by the workspace daemon, stopped by the user at any moment.    *)
(* Every awaited call of workspace-agent-run.ts ends a step, so a Stop, a  *)
(* crash or another run may come between any two of them.                  *)
(*                                                                         *)
(* A run is known by its creation order.  Adjacent progress frames with no *)
(* read between them are one step.  The event log is reduced to what an    *)
(* execution can notice of it: whether the Stop frame took the sequence    *)
(* number its own counter will use next (clash).                           *)
(***************************************************************************)
EXTENDS Integers, FiniteSets

CONSTANTS
    MaxRuns,      \* bound: runs created
    Users,
    Owner,        \* Owner[r]: the account that queues run r
    Capacity,     \* WORKSPACE_DAEMON_CONCURRENCY after clamping
    PerSlot,      \* candidates read per free slot (8 in the code)
    WindowFloor,  \* candidates read at least (16 in the code)
    RunTimeout,   \* longest silence of a live execution, in ticks
    StaleAfter,   \* heartbeat age the sweep treats as dead, in ticks
    MaxRounds,    \* workspaceToolMaxToolRoundsPerTurn, clamped to 1..100
    MaxFaults,    \* bound: crashes, restarts of the app, dropped Stop requests
    Stoppable,    \* runs whose user may press Stop
    WithImages    \* runs queued with images for the vision model

Runs == 1..MaxRuns

ASSUME AgentRunAssumption ==
    /\ MaxRuns \in Nat \ {0}
    /\ Owner \in [Runs -> Users]
    /\ Capacity \in 1..4
    /\ PerSlot \in Nat \ {0}
    /\ WindowFloor \in Nat
    /\ RunTimeout \in Nat
    /\ StaleAfter \in Nat
    /\ RunTimeout < StaleAfter
    /\ MaxRounds \in 1..100
    /\ MaxFaults \in Nat
    /\ Stoppable \subseteq Runs
    /\ WithImages \subseteq Runs

VARIABLES
    \* the WorkspaceAgentRun row and its chat session, in PostgreSQL
    status,      \* status column, "absent" before the row exists
    secrets,     \* secretsCiphertext is not null
    pending,     \* requestJson carries a __peakui_checkpoint
    age,         \* ticks since heartbeatAt (of a running row)
    transcript,  \* what the saved session ends with for this turn
    \* the daemon process: all of it is gone after a crash
    daemonUp,
    inFlight,    \* keys of inFlightRunOwners
    exec,        \* exec[r]: the executeRun call for r
    dispatcher,  \* the processQueuedWorkspaceAgentRuns call, if any
    \* the app process
    stop,        \* stop[r]: the cancelWorkspaceAgentRun call for r
    \* what the two processes do to one another
    clash,       \* the Stop frame took the execution's next sequence number
    faults,      \* faults injected so far
    \* history
    open,        \* a tool call has left whose result no checkpoint recorded
    late         \* tool calls that left after the row was cancelled

row    == <<status, secrets, pending, age, transcript>>
daemon == <<daemonUp, inFlight, exec, dispatcher>>
ghost  == <<open, late>>
vars   == <<row, daemon, stop, clash, faults, ghost>>

-----------------------------------------------------------------------------
(* Vocabulary *)

Statuses == {"absent", "queued", "running", "waiting_approval",
             "succeeded", "failed", "cancelled"}

\* setRunStatus: statuses that complete a run and drop its credentials.
Terminal == {"waiting_approval", "succeeded", "failed", "cancelled"}

\* cancelWorkspaceAgentRun: statuses a Stop finds nothing to do about.
Unstoppable == {"succeeded", "failed", "cancelled"}

Transcripts == {"none", "draft", "reply", "waiting", "review", "failure", "stop"}

\* Where an executeRun call stands; "off" when there is none.
Early    == {"lookup", "claim"}
Rounds   == {"load", "prepare", "vision", "round", "think", "model",
             "modelDone", "plan", "mark", "send"}
Calling  == {"call", "toolDone", "report", "settle"}
Closing  == {"askUser", "close", "lastFrames", "saveReply", "doneFrame"}
Reviewing == {"saveReview", "reviewFrame"}
Catching == {"retryFrame", "requeue", "failFrame", "saveFailure"}
Ending   == {"endReview", "endReply", "endFailure"}
ExecPoints == {"off", "leave"} \cup Early \cup Rounds \cup Calling \cup Closing
                 \cup Reviewing \cup Catching \cup Ending

\* Points at which the execution holds a claimed row.
Serving == ExecPoints \ ({"off", "leave"} \cup Early)

Execs == [at: ExecPoints,
          review: BOOLEAN,                            \* checkpoint.pendingTool
          answer: {"none", "reply", "waiting", "review", "failure"},
          round: 0..MaxRounds]

NoExec == [at |-> "off", review |-> FALSE, answer |-> "none", round |-> 0]

StopPoints == {"off", "read", "save", "frame", "done"}

\* A dispatch call: where it stands, users it counted active, free slots.
Dispatches == [at: {"off", "read", "select"},
               active: SUBSET Users,
               slots: Nat]

NoDispatch == [at |-> "off", active |-> {}, slots |-> 0]

Status(r, s) == status' = [status EXCEPT ![r] = s]

At(r, p) == exec[r].at = p
Goto(r, p) == exec' = [exec EXCEPT ![r].at = p]
Quiet == UNCHANGED <<daemonUp, inFlight, dispatcher, stop, faults>>

-----------------------------------------------------------------------------
(* The app: POST /api/workspace-tool/runs *)

\* upsertChatSession saves the turn, then the row is created.
QueueRun(r) ==
    /\ status[r] = "absent"
    /\ \A q \in Runs : q < r => status[q] # "absent"
    /\ Status(r, "queued")
    /\ secrets' = [secrets EXCEPT ![r] = TRUE]
    /\ transcript' = [transcript EXCEPT ![r] = "draft"]
    /\ UNCHANGED <<pending, age, daemon, stop, clash, faults, ghost>>

-----------------------------------------------------------------------------
(* The dispatcher: processQueuedWorkspaceAgentRuns, one call at a time *)

Running == {r \in Runs : status[r] = "running"}
Queued  == {r \in Runs : status[r] = "queued"}

\* Defect: the sweep is as impatient as the model call's own timer.
StaleAtTimeout == {r \in Running : age[r] >= RunTimeout}

\* Defect: no sweep.
StaleNever == {}

StaleRows == {r \in Running : age[r] >= StaleAfter}

Dispatching(p) == daemonUp /\ dispatcher.at = p

\* The twenty minute sweep returns abandoned rows to the queue.
Sweep ==
    /\ Dispatching("off")
    /\ LET stale == StaleRows IN
       /\ status' = [r \in Runs |-> IF r \in stale THEN "queued" ELSE status[r]]
       /\ age' = [r \in Runs |-> IF r \in stale THEN 0 ELSE age[r]]
    /\ dispatcher' = [dispatcher EXCEPT !.at = "read"]
    /\ UNCHANGED <<secrets, pending, transcript, daemonUp, inFlight, exec,
                   stop, clash, faults, ghost>>

\* Defect: an account is active only by its rows.
ActiveByRows == {Owner[r] : r \in Running}

ActiveUsers == {Owner[r] : r \in Running \cup inFlight}

LargerOf(m, n) == IF m > n THEN m ELSE n

\* Defect: executions that have not claimed their row are not counted.
FreeSlotsByRows == LargerOf(0, Capacity - Cardinality(Running))

FreeSlots ==
    LargerOf(0, Capacity - LargerOf(Cardinality(Running), Cardinality(inFlight)))

CountActive ==
    /\ Dispatching("read")
    /\ dispatcher' = IF FreeSlots = 0
                       THEN NoDispatch
                       ELSE [at |-> "select", active |-> ActiveUsers, slots |-> FreeSlots]
    /\ UNCHANGED <<row, daemonUp, inFlight, exec, stop, clash, faults, ghost>>

\* The first n of S in creation order.
Oldest(S, n) == {r \in S : Cardinality({q \in S : q < r}) < n}

Window == Oldest(Queued, LargerOf(dispatcher.slots * PerSlot, WindowFloor))

Candidates ==
    {r \in Window : /\ Owner[r] \notin dispatcher.active
                    /\ \A q \in Window : q < r => Owner[q] # Owner[r]}

Selected == Oldest(Candidates, dispatcher.slots)

\* Executions are started without being awaited.
SelectRuns ==
    /\ Dispatching("select")
    /\ LET picked == Selected IN
       /\ inFlight' = inFlight \cup picked
       /\ exec' = [r \in Runs |-> IF r \in picked
                                    THEN [NoExec EXCEPT !.at = "lookup"] ELSE exec[r]]
    /\ dispatcher' = NoDispatch
    /\ UNCHANGED <<row, daemonUp, stop, clash, faults, ghost>>

-----------------------------------------------------------------------------
(* The execution: executeRun *)

\* findUnique: the row, its checkpoint and its credentials are read here.
Lookup(r) ==
    /\ At(r, "lookup")
    /\ exec' = [exec EXCEPT ![r].at = IF status[r] = "queued" THEN "claim" ELSE "leave",
                            ![r].review = pending[r]]
    /\ UNCHANGED <<row, clash, ghost>> /\ Quiet

\* Conditional update: exactly one execution wins a queued row.
Claim(r) ==
    /\ At(r, "claim")
    /\ IF status[r] = "queued"
         THEN /\ Status(r, "running")
              /\ age' = [age EXCEPT ![r] = 0]
              /\ Goto(r, "load")
         ELSE /\ Goto(r, "leave")
              /\ UNCHANGED <<status, age>>
    /\ UNCHANGED <<secrets, pending, transcript, clash, ghost>> /\ Quiet

\* The sequence counter starts at the last frame in the log.
LoadLog(r) ==
    /\ At(r, "load")
    /\ Goto(r, "prepare")
    /\ clash' = [clash EXCEPT ![r] = FALSE]
    /\ UNCHANGED <<row, ghost>> /\ Quiet

\* An awaited append inside the try block: a taken sequence number throws.
Frame(r, from, to) ==
    /\ At(r, from)
    /\ Goto(r, IF clash[r] THEN "failFrame" ELSE to)
    /\ clash' = [clash EXCEPT ![r] = FALSE]
    /\ UNCHANGED <<row, ghost>> /\ Quiet

\* Defect: the status is compared with a word the column never holds.
StoppedUnseen(r) == status[r] = "canceled"

\* What the status column says when the execution looks again.
Stopped(r) == status[r] = "cancelled"

Prepare(r) ==
    Frame(r, "prepare", IF exec[r].review THEN "saveReview"
                        ELSE IF r \in WithImages THEN "vision" ELSE "round")

\* A frame that collides after the analysis is retried by the inner catch;
\* after a failed analysis there is no second try.
VisionDone(r) ==
    /\ At(r, "vision")
    /\ Goto(r, "round")
    /\ clash' = [clash EXCEPT ![r] = FALSE]
    /\ UNCHANGED <<row, ghost>> /\ Quiet

VisionFails(r) == Frame(r, "vision", "round")

BeginRound(r) ==
    /\ At(r, "round")
    /\ IF Stopped(r)
         THEN Goto(r, "leave") /\ UNCHANGED age
         ELSE /\ exec' = [exec EXCEPT ![r].at = "think", ![r].round = @ + 1]
              /\ age' = [age EXCEPT ![r] = 0]
    /\ UNCHANGED <<status, secrets, pending, transcript, clash, ghost>> /\ Quiet

Think(r) == Frame(r, "think", "model")

\* readModelRound resolves: the last stream write is awaited, unless the Stop
\* frame came after it and nothing was left to write.
ModelAnswers(r) ==
    \/ Frame(r, "model", "modelDone")
    \/ /\ At(r, "model") /\ clash[r]
       /\ Goto(r, "modelDone")
       /\ UNCHANGED <<row, clash, ghost>> /\ Quiet

\* With no tool the answer is final; its text decides whether it counts as
\* waiting for an approval.
ModelDone(r) ==
    /\ At(r, "modelDone")
    /\ \/ Stopped(r) /\ Goto(r, "leave")
       \/ ~Stopped(r) /\ Goto(r, "plan")
       \/ /\ ~Stopped(r)
          /\ \E a \in {"reply", "waiting"} :
                exec' = [exec EXCEPT ![r].at = "close", ![r].answer = a]
    /\ UNCHANGED <<row, clash, ghost>> /\ Quiet

Plan(r) == Frame(r, "plan", "mark")

\* Defect: the checkpoint before the call only refreshes the heartbeat.
MarkHeartbeatOnly(r) ==
    /\ At(r, "mark")
    /\ Goto(r, "send")
    /\ age' = [age EXCEPT ![r] = 0]
    /\ UNCHANGED <<status, secrets, pending, transcript, clash, ghost>> /\ Quiet

\* persistRunCheckpoint, with or without a pending tool.
Checkpoint(r, tool) ==
    /\ pending' = [pending EXCEPT ![r] = tool]
    /\ age' = [age EXCEPT ![r] = 0]

\* The pending tool is on record before the call leaves.
Mark(r) ==
    /\ At(r, "mark")
    /\ Goto(r, "send")
    /\ Checkpoint(r, TRUE)
    /\ UNCHANGED <<status, secrets, transcript, clash, ghost>> /\ Quiet

\* executeWorkspaceTool: from here on the tool may have had its effect.
SendCall(r) ==
    /\ At(r, "send")
    /\ Goto(r, "call")
    /\ open' = [open EXCEPT ![r] = TRUE]
    /\ late' = [late EXCEPT ![r] = IF status[r] = "cancelled" THEN @ + 1 ELSE @]
    /\ UNCHANGED <<row, clash>> /\ Quiet

\* "waiting" stands for a result with code approval_required.
CallReturns(r) ==
    /\ At(r, "call")
    /\ \E a \in {"none", "waiting"} :
          exec' = [exec EXCEPT ![r].at = "toolDone", ![r].answer = a]
    /\ UNCHANGED <<row, clash, ghost>> /\ Quiet

ToolDone(r) ==
    /\ At(r, "toolDone")
    /\ Goto(r, IF Stopped(r) THEN "leave" ELSE "report")
    /\ UNCHANGED <<row, clash, ghost>> /\ Quiet

Report(r) == Frame(r, "report", "settle")

\* Defect: one round too many.
MoreRoundsInclusive(r) == exec[r].round <= MaxRounds

MoreRounds(r) == exec[r].round < MaxRounds

\* The result is on record, and no tool is pending any more.
Settle(r) ==
    /\ At(r, "settle")
    /\ Checkpoint(r, FALSE)
    /\ open' = [open EXCEPT ![r] = FALSE]
    /\ \/ exec[r].answer = "waiting" /\ Goto(r, "askUser")
       \/ exec[r].answer # "waiting" /\ MoreRounds(r) /\ Goto(r, "round")
       \/ /\ exec[r].answer # "waiting" /\ ~MoreRounds(r)
          /\ exec' = [exec EXCEPT ![r].at = "close", ![r].answer = "reply"]
    /\ UNCHANGED <<status, secrets, transcript, clash, late>> /\ Quiet

AskUser(r) == Frame(r, "askUser", "close")

Close(r) ==
    /\ At(r, "close")
    /\ Goto(r, IF Stopped(r) THEN "leave" ELSE "lastFrames")
    /\ UNCHANGED <<row, clash, ghost>> /\ Quiet

\* Defect: the run is reported complete before its transcript is saved.
LastFramesThenEnd(r) == Frame(r, "lastFrames", "endReply")

LastFrames(r) == Frame(r, "lastFrames", "saveReply")

\* finalizeChatSession replaces the saved messages of the session.
Save(r, from, what, to) ==
    /\ At(r, from)
    /\ transcript' = [transcript EXCEPT ![r] = what]
    /\ Goto(r, to)
    /\ UNCHANGED <<status, secrets, pending, age, clash, ghost>> /\ Quiet

SaveReply(r) == Save(r, "saveReply", exec[r].answer, "doneFrame")

DoneFrame(r) == Frame(r, "doneFrame", "endReply")

SaveReview(r) == Save(r, "saveReview", "review", "reviewFrame")

ReviewFrame(r) == Frame(r, "reviewFrame", "endReview")

\* Defect: a run that waits for an approval keeps its credentials.
SetRunStatusKeepWaiting(r, s) ==
    IF Stopped(r)
      THEN UNCHANGED <<status, secrets, age>>
      ELSE /\ Status(r, s)
           /\ secrets' = [secrets EXCEPT ![r] = @ /\ s = "waiting_approval"]
           /\ age' = [age EXCEPT ![r] = 0]

\* setRunStatus: a conditional update that a cancelled row refuses.
SetRunStatus(r, s) ==
    IF Stopped(r)
      THEN UNCHANGED <<status, secrets, age>>
      ELSE /\ Status(r, s)
           /\ secrets' = [secrets EXCEPT ![r] = @ /\ s \notin Terminal]
           /\ age' = [age EXCEPT ![r] = 0]

End(r, from, s) ==
    /\ At(r, from)
    /\ SetRunStatus(r, s)
    /\ Goto(r, "leave")
    /\ UNCHANGED <<pending, transcript, clash, ghost>> /\ Quiet

EndReview(r) == End(r, "endReview", "failed")

EndReply(r) ==
    End(r, "endReply",
        IF exec[r].answer = "waiting" THEN "waiting_approval" ELSE "succeeded")

\* Stream frames still to be written are awaited by nobody once the answer breaks
\* off; the number the Stop frame took may have been one of theirs.
Abandons(r) ==
    \/ UNCHANGED clash
    \/ At(r, "model") /\ clash' = [clash EXCEPT ![r] = FALSE]

\* What throws inside the try block: a missing owner or bad credentials before
\* the first frame, an error or a time-out of the model, a tool call that fails, a
\* session that is deleted while finalizeChatSession saves its message.
Throws(r) ==
    /\ exec[r].at \in {"prepare", "model", "call", "saveReply", "saveReview"}
    /\ Goto(r, "failFrame")
    /\ Abandons(r)
    /\ UNCHANGED <<row, ghost>> /\ Quiet

\* The app could not be reached (isTransientAppUnavailable).
AppUnreachable(r) ==
    /\ exec[r].at \in {"model", "call"}
    /\ faults < MaxFaults
    /\ faults' = faults + 1
    /\ Goto(r, "retryFrame")
    /\ Abandons(r)
    /\ UNCHANGED <<row, ghost, daemonUp, inFlight, dispatcher, stop>>

\* An append inside the catch block: a taken number rejects executeRun itself.
CatchFrame(r, from, to) ==
    /\ At(r, from)
    /\ Goto(r, IF clash[r] THEN "leave" ELSE to)
    /\ clash' = [clash EXCEPT ![r] = FALSE]
    /\ UNCHANGED <<row, ghost>> /\ Quiet

RetryFrame(r) == CatchFrame(r, "retryFrame", "requeue")

\* Defect: the retry does not look at the status it overwrites.
RequeueAlways(r) ==
    /\ At(r, "requeue")
    /\ Status(r, "queued")
    /\ age' = [age EXCEPT ![r] = 0]
    /\ Goto(r, "leave")
    /\ UNCHANGED <<secrets, pending, transcript, clash, ghost>> /\ Quiet

Requeue(r) ==
    /\ At(r, "requeue")
    /\ IF Stopped(r)
         THEN UNCHANGED <<status, age>>
         ELSE Status(r, "queued") /\ age' = [age EXCEPT ![r] = 0]
    /\ Goto(r, "leave")
    /\ UNCHANGED <<secrets, pending, transcript, clash, ghost>> /\ Quiet

FailFrame(r) == CatchFrame(r, "failFrame", "saveFailure")

SaveFailure(r) == Save(r, "saveFailure", "failure", "endFailure")

\* The same throw has a catch block of its own here, and the run ends all the same.
FailureUnsaved(r) ==
    /\ At(r, "saveFailure")
    /\ Goto(r, "endFailure")
    /\ UNCHANGED <<row, clash, ghost>> /\ Quiet

EndFailure(r) == End(r, "endFailure", "failed")

\* Defect: the slot is not given up.
LeaveKeepsSlot(r) ==
    /\ At(r, "leave")
    /\ exec' = [exec EXCEPT ![r] = NoExec]
    /\ UNCHANGED <<row, daemonUp, inFlight, dispatcher, stop, clash, faults, ghost>>

\* The finally handler of the dispatcher's detached promise.
Leave(r) ==
    /\ At(r, "leave")
    /\ inFlight' = inFlight \ {r}
    /\ exec' = [exec EXCEPT ![r] = NoExec]
    /\ UNCHANGED <<row, daemonUp, dispatcher, stop, clash, faults, ghost>>

-----------------------------------------------------------------------------
(* The daemon process *)

\* inFlightRunOwners and every executeRun call vanish; rows stay as they are.
Die ==
    /\ daemonUp' = FALSE
    /\ inFlight' = {}
    /\ exec' = [r \in Runs |-> NoExec]
    /\ dispatcher' = NoDispatch
    /\ clash' = [r \in Runs |-> FALSE]
    /\ UNCHANGED <<row, stop, ghost>>

\* A crash, a kill, or shutdown(): process.exit with executions in flight.
Crash ==
    /\ daemonUp
    /\ faults < MaxFaults
    /\ faults' = faults + 1
    /\ Die

\* A stream write collides while the answer is still being read.  Nobody
\* awaits eventWrites yet: the rejection is unhandled and ends the process.
StreamWriteRejected(r) ==
    /\ At(r, "model")
    /\ clash[r]
    /\ UNCHANGED faults
    /\ Die

\* acquireLease succeeds: the previous holder is gone.
Restart ==
    /\ ~daemonUp
    /\ daemonUp' = TRUE
    /\ UNCHANGED <<row, inFlight, exec, dispatcher, stop, clash, faults, ghost>>

\* A tick passes.  A live execution refreshes heartbeatAt before RunTimeout:
\* its model call and its tool calls are aborted by their own timers.
Tick ==
    /\ \A r \in Runs : exec[r].at \in Serving => age[r] < RunTimeout
    /\ \E r \in Running : age[r] < StaleAfter
    /\ age' = [r \in Runs |-> IF r \in Running /\ age[r] < StaleAfter
                                THEN age[r] + 1 ELSE age[r]]
    /\ UNCHANGED <<status, secrets, pending, transcript, daemon, stop, clash,
                   faults, ghost>>

-----------------------------------------------------------------------------
(* The app: POST /api/workspace-tool/runs/[id]/cancel *)

StopGoto(r, p) == stop' = [stop EXCEPT ![r] = p]

\* The row, with the messages the stop message will be appended to, is read.
PressStop(r) ==
    /\ r \in Stoppable
    /\ stop[r] = "off"
    /\ status[r] \notin Unstoppable \cup {"absent"}
    /\ StopGoto(r, "read")
    /\ UNCHANGED <<row, daemon, clash, faults, ghost>>

ClaimStop(r) ==
    /\ stop[r] = "read"
    /\ IF status[r] \in Unstoppable
         THEN StopGoto(r, "done") /\ UNCHANGED <<status, secrets, age>>
         ELSE /\ Status(r, "cancelled")
              /\ secrets' = [secrets EXCEPT ![r] = FALSE]
              /\ age' = [age EXCEPT ![r] = 0]
              /\ StopGoto(r, "save")
    /\ UNCHANGED <<pending, transcript, daemon, clash, faults, ghost>>

SaveStop(r) ==
    /\ stop[r] = "save"
    /\ transcript' = [transcript EXCEPT ![r] = "stop"]
    /\ StopGoto(r, "frame")
    /\ UNCHANGED <<status, secrets, pending, age, daemon, clash, faults, ghost>>

\* Executions that already hold a sequence counter.
Counting == Serving \ {"load"}

\* Points at which stream frames may be on their way to the log.
Streaming == {"model", "retryFrame", "failFrame"}

\* appendNextRunEvent: the frame takes the number the execution uses next, or,
\* among the frames of a stream, another one or (three races lost) none.
AppendStop(r) ==
    /\ stop[r] = "frame"
    /\ StopGoto(r, "done")
    /\ \/ clash' = [clash EXCEPT ![r] = exec[r].at \in Counting]
       \/ exec[r].at \in Streaming /\ UNCHANGED clash
    /\ UNCHANGED <<row, daemon, faults, ghost>>

\* The app restarts while it serves the request.
DropStop(r) ==
    /\ stop[r] \in {"read", "save", "frame"}
    /\ faults < MaxFaults
    /\ faults' = faults + 1
    /\ StopGoto(r, "off")
    /\ UNCHANGED <<row, daemon, clash, ghost>>

-----------------------------------------------------------------------------
Init ==
    /\ status = [r \in Runs |-> "absent"]
    /\ secrets = [r \in Runs |-> FALSE]
    /\ pending = [r \in Runs |-> FALSE]
    /\ age = [r \in Runs |-> 0]
    /\ transcript = [r \in Runs |-> "none"]
    /\ daemonUp = TRUE
    /\ inFlight = {}
    /\ exec = [r \in Runs |-> NoExec]
    /\ dispatcher = NoDispatch
    /\ stop = [r \in Runs |-> "off"]
    /\ clash = [r \in Runs |-> FALSE]
    /\ faults = 0
    /\ open = [r \in Runs |-> FALSE]
    /\ late = [r \in Runs |-> 0]

Dispatch == Sweep \/ CountActive \/ SelectRuns

Execute(r) ==
    \/ Lookup(r) \/ Claim(r) \/ LoadLog(r) \/ Prepare(r)
    \/ VisionDone(r) \/ VisionFails(r)
    \/ BeginRound(r) \/ Think(r) \/ ModelAnswers(r) \/ ModelDone(r)
    \/ Plan(r) \/ Mark(r) \/ SendCall(r) \/ CallReturns(r) \/ ToolDone(r)
    \/ Report(r) \/ Settle(r) \/ AskUser(r)
    \/ Close(r) \/ LastFrames(r) \/ SaveReply(r) \/ DoneFrame(r) \/ EndReply(r)
    \/ SaveReview(r) \/ ReviewFrame(r) \/ EndReview(r)
    \/ Throws(r) \/ AppUnreachable(r)
    \/ RetryFrame(r) \/ Requeue(r) \/ FailFrame(r) \/ SaveFailure(r) \/ FailureUnsaved(r)
    \/ EndFailure(r)
    \/ StreamWriteRejected(r) \/ Leave(r)

Cancel(r) == ClaimStop(r) \/ SaveStop(r) \/ AppendStop(r)

Next ==
    \/ Dispatch \/ Crash \/ Restart \/ Tick
    \/ \E r \in Runs : QueueRun(r) \/ Execute(r) \/ PressStop(r) \/ Cancel(r) \/ DropStop(r)

\* The five second timer, the container's restart policy, the calls the
\* executions await (all of them time out), requests once accepted, and time.
\* Users owe nothing, and no fault ever has to happen.
Fairness ==
    /\ WF_vars(Dispatch)
    /\ WF_vars(Restart)
    /\ WF_vars(Tick)
    /\ \A r \in Runs : WF_vars(Execute(r)) /\ WF_vars(Cancel(r))

Spec == Init /\ [][Next]_vars
FairSpec == Spec /\ Fairness

-----------------------------------------------------------------------------
(* Properties *)

\* Every variable keeps its type; free slots in particular are never negative,
\* whatever mix of orphaned rows and unclaimed executions is counted.
TypeOK ==
    /\ status \in [Runs -> Statuses]
    /\ secrets \in [Runs -> BOOLEAN]
    /\ pending \in [Runs -> BOOLEAN]
    /\ age \in [Runs -> 0..StaleAfter]
    /\ transcript \in [Runs -> Transcripts]
    /\ daemonUp \in BOOLEAN
    /\ inFlight \subseteq Runs
    /\ exec \in [Runs -> Execs]
    /\ dispatcher \in Dispatches
    /\ stop \in [Runs -> StopPoints]
    /\ clash \in [Runs -> BOOLEAN]
    /\ faults \in 0..MaxFaults
    /\ open \in [Runs -> BOOLEAN]
    /\ late \in [Runs -> Nat]

\* "Maximum simultaneous WorkSpaces runs": detached executions, those whose
\* row was stopped under them included, never exceed the configured capacity.
CapacityRespected == Cardinality(inFlight) <= Capacity

\* A run occupies its account while its row says running or its execution lives.
Occupying(r) == status[r] = "running" \/ r \in inFlight

\* "One user receives at most one active slot", across crashes (orphaned rows),
\* stops (a cancelled row whose execution still waits for the model) and the
\* two separate reads the dispatcher decides on.
OneRunPerUser ==
    \A r, s \in Runs :
        Occupying(r) /\ Occupying(s) /\ r # s => Owner[r] # Owner[s]

\* The stale sweep and the retry path never take the row away from an execution
\* that is still working on it: it only ever loses its row to a Stop.
LiveRunKeepsItsRow ==
    \A r \in Runs : exec[r].at \in Serving => status[r] \in {"running", "cancelled"}

\* Provider keys and images outlive the request only while the run may still
\* need them: no way of completing a run leaves ciphertext behind.
SecretsDropped ==
    \A r \in Runs : secrets[r] => status[r] \in {"queued", "running"}

\* A run is reported complete, or waiting for the user, only when the session
\* already ends with the message that says so.
ReportedAfterSaved ==
    \A r \in Runs :
        /\ status[r] = "succeeded" => transcript[r] = "reply"
        /\ status[r] = "waiting_approval" => transcript[r] = "waiting"

\* A turn whose outcome is saved is not served again, by the sweep, a retry or a second
\* execution, unless something failed: a fault, or a Stop of some run, whose frame may
\* collide and end the daemon under all others.
SavedTurnNotRepeated ==
    \A r \in Runs :
        /\ transcript[r] \notin {"none", "draft"}
        /\ status[r] = "queued" \/ exec[r].at \in Early \cup Rounds \cup Calling
        => faults > 0 \/ \E q \in Runs : status[q] = "cancelled"

\* The worker checks for a Stop between model and tool rounds: at most the one
\* call that was already past the check leaves after the row was cancelled.
OneLateCallAtMost == \A r \in Runs : late[r] <= 1

\* "Terminal status cannot be overwritten by retry or normal completion": a
\* completed row never changes, except that a waiting run may be stopped.
TerminalIsFinal ==
    [][\A r \in Runs :
          status[r] \in Terminal =>
             \/ status'[r] = status[r]
             \/ status[r] = "waiting_approval" /\ status'[r] = "cancelled"]_status

\* The phase of a run, as its clients are told.
PhaseOf(s) ==
    CASE s = "waiting_approval" -> "parked"
      [] s = "succeeded" -> "done"
      [] s = "cancelled" -> "stopped"
      [] OTHER -> s

\* A call is held from when it leaves until its result is recorded, by an
\* execution that still means to record it.
CallOf(r) ==
    CASE ~open[r] -> "none"
      [] open[r] /\ exec[r].at \in Calling -> "held"
      [] OTHER -> "lost"

Phase == [r \in Runs |-> PhaseOf(status[r])]
Call  == [r \in Runs |-> CallOf(r)]

Promise == INSTANCE DurableRun WITH phase <- Phase, call <- Call

\* The rows and the calls behave as the durable queue promises: in particular a
\* call that may have had its effect is never made again after a crash, a retry
\* or a stale sweep, and a run that made it neither succeeds nor asks the user.
KeepsPromise == Promise!Spec

\* Every queued run is eventually completed, whatever crashes, retries, stale
\* leases and other accounts' runs came before it.
RunsComplete == \A r \in Runs : status[r] = "queued" ~> status[r] \in Terminal

\* A stopped run's execution lets go of its account's slot.
StoppedRunLetsGo ==
    \A r \in Runs : status[r] = "cancelled" ~> r \notin inFlight

\* "No further tools will run for this turn": once the session ends with that
\* message, no call leaves.
NoCallAfterStopMessage ==
    [][\A r \in Runs : open'[r] /\ ~open[r] => transcript[r] # "stop"]_open

\* "Stop is durable ... and the session receives a saved stop message": once the
\* Stop request is answered the session ends with that message.
StopMessageKept ==
    \A r \in Runs :
        status[r] = "cancelled" /\ stop[r] = "done" => transcript[r] = "stop"
=============================================================================

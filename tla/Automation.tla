------------------------------ MODULE Automation ------------------------------
(***************************************************************************)
(* The automation tick of the workspace daemon: heartbeats, cron           *)
(* schedules and monitors that are due are read at once and served one     *)
(* after the other, then a few queued unattended runs are executed.  The   *)
(* user edits and deletes the same rows meanwhile, and the daemon may die  *)
(* between delivering a trigger and moving its due time.                   *)
(*                                                                         *)
(* One account.  The clock counts minutes.  A row that was deleted stays   *)
(* "gone".                                                                 *)
(***************************************************************************)
EXTENDS Integers, FiniteSets

CONSTANTS
    Schedules, Monitors,  \* ids of the rows that may exist
    Crons,
    Fires,           \* Fires[c]: the minutes cron expression c names
    Horizon,         \* how far ahead getNextCronRun looks: 366 days
    Modes,           \* trigger modes in use
    Targets,
    Background,      \* rows delivered as unattended runs, the others as nudges
    HeartbeatEvery,  \* intervalMinutes, clamped to 15 at least
    CheckEvery,      \* checkIntervalSeconds
    DedupeWindow,    \* NOTIFICATION_DEDUPE_WINDOW_MS
    Hour,            \* the window of the execution budget
    MaxPerHour,      \* workspaceToolAutomationExecutionMaxRunsPerHour
    Batch,           \* unattended runs executed by one tick (3 in the code)
    MaxTime,         \* bound: minutes
    MaxRuns,         \* bound: unattended runs created
    MaxUpsets        \* bound: user actions, changes of what is watched, crashes
                     \* and failed writes together

Runs    == 1..MaxRuns
Rows    == Schedules \cup Monitors
Sources == Rows \cup {"heartbeat", "wake"}

ASSUME AutomationAssumption ==
    /\ Schedules \cap Monitors = {}
    /\ {"heartbeat", "wake"} \cap Rows = {}
    /\ Crons # {} /\ Targets # {}
    /\ Fires \in [Crons -> SUBSET Nat]
    /\ Modes \subseteq {"changed", "contains", "missing"} /\ Modes # {}
    /\ Background \subseteq Rows \cup {"heartbeat"}
    /\ Horizon \in Nat \ {0}
    /\ HeartbeatEvery \in Nat \ {0}
    /\ CheckEvery \in Nat
    /\ DedupeWindow \in Nat
    /\ Hour \in Nat
    /\ MaxPerHour \in Nat
    /\ Batch \in Nat \ {0}
    /\ MaxTime \in Nat
    /\ MaxRuns \in Nat
    /\ MaxUpsets \in Nat

VARIABLES
    now,
    world,      \* world[t]: what a look at target t finds
    schedule,   \* AutomationSchedule rows
    monitor,    \* AutomationMonitor rows
    heartbeat,  \* AutomationHeartbeatConfig
    nudges,     \* AutomationNotification rows that were not dismissed
    waking,     \* wake requests that found no duplicate and are about to create one
    run,        \* AutomationExecutionRun rows, in creation order
    daemonUp,
    tick,       \* the runAutomationTick call, if any
    seen,       \* the rows as that call read them
    upsets,     \* used of MaxUpsets
    faults, crashes, \* of them, failed writes and crashes
    fired       \* history: how often the current cause of a row was delivered

rows   == <<schedule, monitor, heartbeat>>
told   == <<nudges, waking, run>>
daemon == <<daemonUp, tick, seen>>
used   == <<upsets, faults, crashes>>
vars   == <<now, world, rows, told, daemon, used, fired>>

-----------------------------------------------------------------------------
(* Vocabulary *)

States == {"absent", "on", "off", "gone"}

\* "a" and "b" are contents, "b" the one that holds the expected pattern;
\* "gone" is a missing file or an HTTP error, "denied" a look that throws.
Findings == {"a", "b", "gone", "denied"}

ScheduleRows == [state: States, cron: Crons, next: Nat]

NoSchedule == [state |-> "absent", cron |-> CHOOSE c \in Crons : TRUE, next |-> 0]

MonitorRows == [state: States, target: Targets, mode: Modes, next: Nat,
                print: {"none", "a", "b", "gone"},
                status: {"scheduled", "paused", "ok", "changed", "match", "missing", "error"}]

NoMonitor == [state |-> "absent", target |-> CHOOSE t \in Targets : TRUE,
              mode |-> CHOOSE mode \in Modes : TRUE, next |-> 0,
              print |-> "none", status |-> "scheduled"]

HeartbeatRows == [state: {"on", "off"}, next: Nat]

\* What a nudge says: the source, its cron expression or target, and what was
\* found there.
Nudges == [src: Sources, of: Crons \cup Targets \cup {"none"}, saw: Findings, at: 0..MaxTime]

RunRows == [state: {"absent", "queued", "running", "succeeded", "failed", "skipped"},
            created: 0..MaxTime]

NoRun == [state |-> "absent", created |-> 0]

\* Where a tick stands: between two sources; with one of them, about to
\* announce what a look found, to move its due time, or in its catch block;
\* between two unattended runs, or waiting for the model of one.
TickPoints == {"off", "next", "announce", "move", "caught", "claim", "call"}

Ticks == [at: TickPoints, src: Sources, began: 0..MaxTime, saw: Findings,
          todo: SUBSET Sources, batch: SUBSET Runs]

NoTick == [at |-> "off", src |-> "wake", began |-> 0, saw |-> "denied",
           todo |-> {}, batch |-> {}]

NothingSeen == [schedule |-> [s \in Schedules |-> NoSchedule],
                monitor |-> [m \in Monitors |-> NoMonitor]]

At(p) == daemonUp /\ tick.at = p

\* getNextCronRun: the first minute after t, none if there is none in a year.
NextRuns(c, t) ==
    {n \in Fires[c] : t < n /\ n <= t + Horizon /\ \A k \in Fires[c] : t < k => n <= k}

Upset == upsets < MaxUpsets /\ upsets' = upsets + 1

Fail == Upset /\ faults' = faults + 1 /\ UNCHANGED crashes

-----------------------------------------------------------------------------
(* Delivering a trigger: deliverAutomationTrigger *)

\* Defect: nudges older than the window count, instead of younger ones.
DuplicatesOlder(x, of, saw) ==
    {n \in nudges : n.src = x /\ n.of = of /\ n.saw = saw /\ n.at < now - DedupeWindow}

\* The open nudges that say the same and are not older than the window.
Duplicates(x, of, saw) ==
    {n \in nudges : n.src = x /\ n.of = of /\ n.saw = saw /\ n.at >= now - DedupeWindow}

\* createAutomationNotification as the tick calls it: nobody else creates what it
\* has looked for, so lookup and creation are one step.
Nudge(x, of, saw) ==
    /\ nudges' = IF Duplicates(x, of, saw) # {} THEN nudges
                 ELSE nudges \cup {[src |-> x, of |-> of, saw |-> saw, at |-> now]}
    /\ UNCHANGED <<waking, run>>

\* queueAutomationExecution
Enqueue ==
    /\ \E i \in Runs :
          /\ run[i].state = "absent"
          /\ \A j \in Runs : j < i => run[j].state # "absent"
          /\ run' = [run EXCEPT ![i] = [state |-> "queued", created |-> now]]
    /\ UNCHANGED <<nudges, waking>>

Deliver(x, of, saw) == IF x \in Background THEN Enqueue ELSE Nudge(x, of, saw)

-----------------------------------------------------------------------------
(* The tick: runAutomationTick *)

TickGoto(p) ==
    /\ tick' = [tick EXCEPT !.at = p]
    /\ UNCHANGED <<daemonUp, seen>>

\* An iteration is over.
NextSource ==
    /\ tick' = [NoTick EXCEPT !.at = "next", !.todo = tick.todo]
    /\ UNCHANGED <<daemonUp, seen>>

\* The tick ends, or throws and leaves the rest of its work undone.
TickEnds ==
    /\ tick' = NoTick
    /\ seen' = NothingSeen
    /\ UNCHANGED daemonUp

\* Defect: a due time that was missed by a minute is not due any more.
DueSchedulesExactly == {s \in Schedules : schedule[s].state = "on" /\ schedule[s].next = now}

DueSchedules == {s \in Schedules : schedule[s].state = "on" /\ schedule[s].next <= now}
DueMonitors  == {m \in Monitors : monitor[m].state = "on" /\ monitor[m].next <= now}
DueHeartbeat == {x \in {"heartbeat"} : heartbeat.state = "on" /\ heartbeat.next <= now}

\* Three queries at once.
TickBegin ==
    /\ At("off")
    /\ tick' = [NoTick EXCEPT !.at = "next",
                              !.todo = DueHeartbeat \cup DueSchedules \cup DueMonitors]
    /\ seen' = [schedule |-> [s \in Schedules |->
                                 IF s \in DueSchedules THEN schedule[s] ELSE NoSchedule],
                monitor  |-> [m \in Monitors |->
                                 IF m \in DueMonitors THEN monitor[m] ELSE NoMonitor]]
    /\ UNCHANGED <<now, world, rows, told, daemonUp, used, fired>>

\* Heartbeats come first, then schedules and monitors, each by due time.
Turn(x) ==
    /\ x \in tick.todo
    /\ x # "heartbeat" => "heartbeat" \notin tick.todo
    /\ x \in Schedules =>
          \A s \in Schedules \cap tick.todo : seen.schedule[x].next <= seen.schedule[s].next
    /\ x \in Monitors =>
          /\ Schedules \cap tick.todo = {}
          /\ \A m \in Monitors \cap tick.todo : seen.monitor[x].next <= seen.monitor[m].next

Begin(x, p, saw) ==
    /\ At("next")
    /\ Turn(x)
    /\ tick' = [tick EXCEPT !.at = p, !.src = x, !.began = now, !.saw = saw,
                            !.todo = @ \ {x}]
    /\ UNCHANGED <<now, world, rows, daemonUp, seen>>

Count(x) ==
    fired' = [fired EXCEPT ![x] = IF @ < MaxUpsets + 2 THEN @ + 1 ELSE @]

\* deliverAutomationTrigger: the trigger and its event row are written, or one of
\* them is not and the catch block is entered.
Announce(x, of, saw, p) ==
    \/ p = "move"   /\ Deliver(x, of, saw) /\ UNCHANGED used
    \/ p = "caught" /\ Fail /\ (Deliver(x, of, saw) \/ UNCHANGED told)

\* processHeartbeatConfig delivers if it finds stale threads.
BeginHeartbeat ==
    /\ \/ \E p \in {"move", "caught"} :
             Begin("heartbeat", p, "a") /\ Announce("heartbeat", "none", "a", p)
       \/ Begin("heartbeat", "move", "gone") /\ UNCHANGED <<told, used>>
    /\ UNCHANGED fired

\* processSchedule; the history counts while the due time can be moved.
BeginSchedule(s) ==
    /\ \E p \in {"move", "caught"} :
          Begin(s, p, "a") /\ Announce(s, seen.schedule[s].cron, "a", p)
    /\ IF NextRuns(seen.schedule[s].cron, now) = {} THEN UNCHANGED fired ELSE Count(s)

\* Defect: a condition that holds triggers, whether or not it held before.
TriggeredAgain(m, saw) ==
    \/ seen.monitor[m].mode = "changed"  /\ seen.monitor[m].print \notin {"none", saw}
    \/ seen.monitor[m].mode = "contains" /\ saw = "b"
    \/ seen.monitor[m].mode = "missing"  /\ saw = "gone"

\* The trigger rule of a monitor, against what the row kept of the last look.
Triggered(m, saw) ==
    LET row == seen.monitor[m] IN
    \/ row.mode = "changed"  /\ row.print \notin {"none", saw}
    \/ row.mode = "contains" /\ saw = "b" /\ row.status # "match"
    \/ row.mode = "missing"  /\ saw = "gone" /\ row.status # "missing"

\* What the rules "contains" and "missing" wait for.
Holds(m, saw) ==
    \/ seen.monitor[m].mode = "contains" /\ saw = "b"
    \/ seen.monitor[m].mode = "missing"  /\ saw = "gone"

\* processMonitor looks at the target; a look may throw.
Look(m) ==
    LET saw == world[seen.monitor[m].target] IN
    /\ Begin(m, IF saw = "denied" THEN "caught"
                ELSE IF Triggered(m, saw) THEN "announce" ELSE "move", saw)
    /\ fired' = IF Holds(m, saw) THEN fired ELSE [fired EXCEPT ![m] = 0]
    /\ UNCHANGED <<told, used>>

\* The history counts what is announced by the rule the row still has.
Announcing(m) ==
    seen.monitor[m].mode # "changed" /\ monitor[m].mode = seen.monitor[m].mode

Alarm(m) ==
    /\ At("announce")
    /\ tick.src = m
    /\ \E p \in {"move", "caught"} :
          TickGoto(p) /\ Announce(m, seen.monitor[m].target, tick.saw, p)
    /\ IF Announcing(m) THEN Count(m) ELSE UNCHANGED fired
    /\ UNCHANGED <<now, world, rows>>

\* The last update of an iteration, in its body or in its catch block.
Moving(x) == (At("move") \/ At("caught")) /\ tick.src = x

MoveHeartbeat ==
    /\ Moving("heartbeat")
    /\ heartbeat' = [heartbeat EXCEPT !.next = tick.began + HeartbeatEvery]
    /\ NextSource
    /\ UNCHANGED <<now, world, schedule, monitor, told, used, fired>>

Exists(row) == row.state \in {"on", "off"}

\* Defect: the catch block leaves the due time alone.
MoveScheduleInBody(s) ==
    /\ Moving(s)
    /\ Exists(schedule[s])
    /\ \E n \in NextRuns(seen.schedule[s].cron, tick.began) :
          \/ At("caught") /\ UNCHANGED <<schedule, fired>>
          \/ /\ At("move")
             /\ schedule' = [schedule EXCEPT ![s].next = n]
             /\ fired' = [fired EXCEPT ![s] = 0]
    /\ NextSource
    /\ UNCHANGED <<now, world, monitor, heartbeat, told, used>>

MoveSchedule(s) ==
    /\ Moving(s)
    /\ Exists(schedule[s])
    /\ \E n \in NextRuns(seen.schedule[s].cron, tick.began) :
          schedule' = [schedule EXCEPT ![s].next = n]
    /\ fired' = [fired EXCEPT ![s] = 0]
    /\ NextSource
    /\ UNCHANGED <<now, world, monitor, heartbeat, told, used>>

\* getNextCronRun finds no time, or the row was deleted: the body throws, then
\* the catch block throws as well.
CannotMoveSchedule(s) ==
    /\ Moving(s)
    /\ ~Exists(schedule[s]) \/ NextRuns(seen.schedule[s].cron, tick.began) = {}
    /\ IF At("move") THEN TickGoto("caught") ELSE TickEnds
    /\ UNCHANGED <<now, world, rows, told, used, fired>>

\* What the row keeps of a look.
Verdict(m, saw) ==
    IF seen.monitor[m].mode = "changed" /\ Triggered(m, saw) THEN "changed"
    ELSE IF seen.monitor[m].mode = "contains" /\ saw = "b" THEN "match"
    ELSE IF saw = "gone" THEN "missing" ELSE "ok"

AfterLook(m) ==
    [monitor[m] EXCEPT !.next = tick.began + CheckEvery, !.print = tick.saw,
                       !.status = Verdict(m, tick.saw)]

\* Defect: the finding of a look that threw is kept.
AfterThrowBlindly(m) ==
    [monitor[m] EXCEPT !.next = tick.began + CheckEvery, !.print = tick.saw, !.status = "error"]

\* Defect: the due time is left alone.
AfterThrowStill(m) == [monitor[m] EXCEPT !.status = "error"]

AfterThrow(m) ==
    [monitor[m] EXCEPT !.next = tick.began + CheckEvery, !.status = "error"]

MoveMonitor(m) ==
    /\ Moving(m)
    /\ Exists(monitor[m])
    /\ monitor' = [monitor EXCEPT ![m] = IF At("caught") THEN AfterThrow(m) ELSE AfterLook(m)]
    /\ NextSource
    /\ UNCHANGED <<now, world, schedule, heartbeat, told, used, fired>>

CannotMoveMonitor(m) ==
    /\ Moving(m)
    /\ ~Exists(monitor[m])
    /\ IF At("move") THEN TickGoto("caught") ELSE TickEnds
    /\ UNCHANGED <<now, world, rows, told, used, fired>>

\* The update of an iteration fails: in its body the catch block is entered, in the
\* catch block the tick throws.
UpdateFails ==
    /\ At("move") \/ At("caught")
    /\ Fail
    /\ IF At("move") THEN TickGoto("caught") ELSE TickEnds
    /\ UNCHANGED <<now, world, rows, told, fired>>

-----------------------------------------------------------------------------
(* Unattended runs: processQueuedAutomationRuns, executeAutomationRun *)

Queued == {i \in Runs : run[i].state = "queued"}

\* Defect: only what was queued this minute is executed.
OldestQueuedNow == {i \in Queued : run[i].created = now}

\* The oldest ones, at most Batch of them.
OldestQueued == {i \in Queued : Cardinality({j \in Queued : j < i}) < Batch}

TakeBatch ==
    /\ At("next")
    /\ tick.todo = {}
    /\ IF OldestQueued = {} THEN TickEnds
       ELSE /\ tick' = [NoTick EXCEPT !.at = "claim", !.batch = OldestQueued]
            /\ UNCHANGED <<daemonUp, seen>>
    /\ UNCHANGED <<now, world, rows, told, used, fired>>

\* The run the batch is at.
Current(i) == i \in tick.batch /\ \A j \in tick.batch : i <= j

SetRun(i, state) ==
    /\ run' = [run EXCEPT ![i].state = state]
    /\ UNCHANGED <<nudges, waking>>

NextOfBatch(i) ==
    IF tick.batch = {i} THEN TickEnds
    ELSE /\ tick' = [NoTick EXCEPT !.at = "claim", !.batch = tick.batch \ {i}]
         /\ UNCHANGED <<daemonUp, seen>>

\* Defect: the run itself is not counted.
RecentOnesBefore(i) ==
    {j \in Runs : j # i /\ run[j].state \in {"queued", "running", "succeeded"}
                  /\ run[j].created >= now - Hour}

\* recentRunCount: i has been claimed.
RecentOnes(i) ==
    {j \in Runs : run[j].state \in {"queued", "running", "succeeded"}
                  /\ run[j].created >= now - Hour}

\* Claimed, and the model is called.
CallModel(i) ==
    /\ At("claim")
    /\ Current(i)
    /\ Cardinality(RecentOnes(i)) <= MaxPerHour
    /\ SetRun(i, "running")
    /\ TickGoto("call")
    /\ UNCHANGED <<now, world, rows, used, fired>>

\* Claimed and skipped: over budget, or execution is disabled, or no model is set.
Skip(i) ==
    /\ At("claim")
    /\ Current(i)
    /\ SetRun(i, "skipped")
    /\ NextOfBatch(i)
    /\ UNCHANGED <<now, world, rows, used, fired>>

\* Defect: a failed call is reported, and the run is left as it is.
FinishRunSilently(i) ==
    /\ At("call")
    /\ Current(i)
    /\ \E state \in {"succeeded", "running"} : SetRun(i, state)
    /\ NextOfBatch(i)
    /\ UNCHANGED <<now, world, rows, used, fired>>

\* The reply is saved and reported; or the call, the saving or the report of it
\* failed, and a run that was already completed is marked failed.
FinishRun(i) ==
    /\ At("call")
    /\ Current(i)
    /\ \E state \in {"succeeded", "failed"} : SetRun(i, state)
    /\ NextOfBatch(i)
    /\ UNCHANGED <<now, world, rows, used, fired>>

\* Claiming the run, reading the settings, writing the outcome or reporting it fails
\* outside of the try block: the tick throws.
RunThrows(i) ==
    /\ Current(i)
    /\ Fail
    /\ \/ At("claim") /\ \E state \in {"queued", "running", "skipped"} : SetRun(i, state)
       \/ At("call")  /\ \E state \in {"running", "succeeded", "failed"} : SetRun(i, state)
    /\ TickEnds
    /\ UNCHANGED <<now, world, rows, fired>>

-----------------------------------------------------------------------------
(* The user, through the app *)

Edit == Upset /\ UNCHANGED <<faults, crashes>>

\* createAutomationSchedule; an expression without a time within a year is refused.
CreateSchedule(s, c) ==
    /\ Edit
    /\ schedule[s].state = "absent"
    /\ \E n \in NextRuns(c, now) :
          schedule' = [schedule EXCEPT ![s] = [state |-> "on", cron |-> c, next |-> n]]
    /\ UNCHANGED <<now, world, monitor, heartbeat, told, daemon, fired>>

\* updateAutomationSchedule
EnableSchedule(s, c) ==
    /\ Edit
    /\ Exists(schedule[s])
    /\ \E n \in NextRuns(c, now) :
          schedule' = [schedule EXCEPT ![s] = [state |-> "on", cron |-> c, next |-> n]]
    /\ fired' = [fired EXCEPT ![s] = 0]
    /\ UNCHANGED <<now, world, monitor, heartbeat, told, daemon>>

PauseSchedule(s, c) ==
    /\ Edit
    /\ Exists(schedule[s])
    /\ schedule' = [schedule EXCEPT ![s].state = "off", ![s].cron = c]
    /\ UNCHANGED <<now, world, monitor, heartbeat, told, daemon, fired>>

DeleteSchedule(s) ==
    /\ Edit
    /\ Exists(schedule[s])
    /\ schedule' = [schedule EXCEPT ![s].state = "gone"]
    /\ UNCHANGED <<now, world, monitor, heartbeat, told, daemon, fired>>

\* createAutomationMonitor; the first check is due at once (three seconds).
CreateMonitor(m, t, mode) ==
    /\ Edit
    /\ monitor[m].state = "absent"
    /\ monitor' = [monitor EXCEPT ![m] =
                     [NoMonitor EXCEPT !.state = "on", !.target = t, !.mode = mode, !.next = now]]
    /\ UNCHANGED <<now, world, schedule, heartbeat, told, daemon, fired>>

\* updateAutomationMonitor: what the last look found is kept.
EnableMonitor(m, t, mode) ==
    /\ Edit
    /\ Exists(monitor[m])
    /\ monitor' = [monitor EXCEPT ![m] =
                     [@ EXCEPT !.state = "on", !.target = t, !.mode = mode, !.next = now, !.status = "scheduled"]]
    /\ fired' = [fired EXCEPT ![m] = 0]
    /\ UNCHANGED <<now, world, schedule, heartbeat, told, daemon>>

PauseMonitor(m, t, mode) ==
    /\ Edit
    /\ Exists(monitor[m])
    /\ monitor' = [monitor EXCEPT ![m] =
                     [@ EXCEPT !.state = "off", !.target = t, !.mode = mode, !.status = "paused"]]
    /\ UNCHANGED <<now, world, schedule, heartbeat, told, daemon, fired>>

DeleteMonitor(m) ==
    /\ Edit
    /\ Exists(monitor[m])
    /\ monitor' = [monitor EXCEPT ![m].state = "gone"]
    /\ UNCHANGED <<now, world, schedule, heartbeat, told, daemon, fired>>

\* updateHeartbeatConfig
SetHeartbeat(state) ==
    /\ Edit
    /\ heartbeat' = [state |-> state,
                     next |-> IF state = "on" THEN now + HeartbeatEvery ELSE 0]
    /\ UNCHANGED <<now, world, schedule, monitor, told, daemon, fired>>

\* dismissAutomationNotification
Dismiss(n) ==
    /\ Edit
    /\ nudges' = nudges \ {n}
    /\ UNCHANGED <<now, world, rows, waking, run, daemon, fired>>

\* createAutomationWakeEvent: each request says how it wants to be delivered.  One
\* that wants a nudge looks for a duplicate and creates its own later.
Wake ==
    /\ Edit
    /\ \/ Enqueue
       \/ /\ Duplicates("wake", "none", "a") = {}
          /\ waking' = waking + 1
          /\ UNCHANGED <<nudges, run>>
    /\ UNCHANGED <<now, world, rows, daemon, fired>>

WakeNudge ==
    /\ waking > 0
    /\ waking' = waking - 1
    /\ nudges' = nudges \cup {[src |-> "wake", of |-> "none", saw |-> "a", at |-> now]}
    /\ UNCHANGED <<now, world, rows, run, daemon, used, fired>>

-----------------------------------------------------------------------------
(* The surroundings *)

Clock ==
    /\ now < MaxTime
    /\ now' = now + 1
    /\ UNCHANGED <<world, rows, told, daemon, used, fired>>

Change(t) ==
    /\ Upset
    /\ \E found \in Findings \ {world[t]} : world' = [world EXCEPT ![t] = found]
    /\ UNCHANGED <<now, rows, told, daemon, faults, crashes, fired>>

Crash ==
    /\ daemonUp
    /\ Upset
    /\ crashes' = crashes + 1
    /\ daemonUp' = FALSE
    /\ tick' = NoTick
    /\ seen' = NothingSeen
    /\ UNCHANGED <<now, world, rows, told, faults, fired>>

Restart ==
    /\ ~daemonUp
    /\ daemonUp' = TRUE
    /\ UNCHANGED <<now, world, rows, told, tick, seen, used, fired>>

-----------------------------------------------------------------------------
FirstSchedules ==
    {NoSchedule} \cup
    {row \in [state: {"on"}, cron: Crons, next: 0..Horizon] : row.next \in NextRuns(row.cron, 0)}

FirstMonitors ==
    {row \in [state: {"absent", "on"}, target: Targets, mode: Modes, next: {0},
              print: {"none"}, status: {"scheduled"}] : row.state = "on" \/ row = NoMonitor}

Init ==
    /\ now = 0
    /\ world = [t \in Targets |-> "a"]
    /\ schedule \in [Schedules -> FirstSchedules]
    /\ monitor \in [Monitors -> FirstMonitors]
    /\ heartbeat = [state |-> "off", next |-> 0]
    /\ nudges = {} /\ waking = 0
    /\ run = [i \in Runs |-> NoRun]
    /\ daemonUp = TRUE
    /\ tick = NoTick
    /\ seen = NothingSeen
    /\ upsets = 0 /\ faults = 0 /\ crashes = 0
    /\ fired = [x \in Rows |-> 0]

\* What a tick does.
TickStep ==
    \/ TickBegin \/ BeginHeartbeat \/ MoveHeartbeat \/ TakeBatch
    \/ \E s \in Schedules : BeginSchedule(s) \/ MoveSchedule(s) \/ CannotMoveSchedule(s)
    \/ \E m \in Monitors : Look(m) \/ Alarm(m) \/ MoveMonitor(m) \/ CannotMoveMonitor(m)
    \/ \E i \in Runs : CallModel(i) \/ Skip(i) \/ FinishRun(i)

User ==
    \/ \E s \in Schedules, c \in Crons :
         CreateSchedule(s, c) \/ EnableSchedule(s, c) \/ PauseSchedule(s, c)
    \/ \E s \in Schedules : DeleteSchedule(s)
    \/ \E m \in Monitors, t \in Targets, mode \in Modes :
         CreateMonitor(m, t, mode) \/ EnableMonitor(m, t, mode) \/ PauseMonitor(m, t, mode)
    \/ \E m \in Monitors : DeleteMonitor(m)
    \/ \E state \in {"on", "off"} : SetHeartbeat(state)
    \/ \E n \in nudges : Dismiss(n)
    \/ Wake \/ WakeNudge

Next ==
    \/ TickStep \/ UpdateFails \/ User \/ Clock \/ Crash \/ Restart
    \/ \E i \in Runs : RunThrows(i)
    \/ \E t \in Targets : Change(t)

\* The daemon starts a tick every few seconds, its calls return or time out, and
\* it is restarted; the user and what is watched owe nothing, nor does the clock.
Fairness == WF_vars(TickStep) /\ WF_vars(Restart)

Spec == Init /\ [][Next]_vars /\ Fairness

-----------------------------------------------------------------------------
(* Properties *)

\* The rows, the tick and its copies keep their types.
TypeOK ==
    /\ now \in 0..MaxTime
    /\ world \in [Targets -> Findings]
    /\ schedule \in [Schedules -> ScheduleRows]
    /\ monitor \in [Monitors -> MonitorRows]
    /\ heartbeat \in HeartbeatRows
    /\ nudges \subseteq Nudges /\ waking \in 0..upsets
    /\ run \in [Runs -> RunRows]
    /\ daemonUp \in BOOLEAN
    /\ tick \in Ticks
    /\ seen \in [schedule: [Schedules -> ScheduleRows], monitor: [Monitors -> MonitorRows]]
    /\ upsets \in 0..MaxUpsets /\ faults \in 0..upsets /\ crashes \in 0..upsets
    /\ fired \in [Rows -> Nat]

\* One due time of a schedule is delivered once, and once more for each crash and
\* for each two failed writes at the most, one that leads to the catch block and
\* one in it: a single write that fails does not deliver it again, nor does what
\* the user edits meanwhile.
OncePerDue == \A s \in Schedules : 2 * fired[s] <= 2 + 2 * crashes + faults

\* A condition that lasts over several looks of a monitor is announced once, and
\* once more for each crash or failed write at the most.
AlarmsOnce == \A m \in Monitors : fired[m] <= 1 + faults + crashes

\* Of the unattended runs created within an hour no more than the budget
\* succeed, whatever was queued and however late it is executed.
BudgetKept ==
    Cardinality({i \in Runs : run[i].state = "succeeded" /\ run[i].created >= now - Hour})
        <= MaxPerHour

\* An unattended run that is not the one a tick is waiting for is marked running
\* only because a crash or a failed write left it so, one run each.
StrandedByFailure ==
    Cardinality({i \in Runs : run[i].state = "running" /\ ~(At("call") /\ Current(i))})
        <= faults + crashes

\* Two open nudges of the tick that say the same are a window apart, also when a
\* trigger was delivered again after a crash or a failed write.
NoDoubleNudge ==
    \A n, k \in nudges :
        /\ n # k /\ n.src # "wake"
        /\ n.src = k.src /\ n.of = k.of /\ n.saw = k.saw
        => n.at > k.at + DedupeWindow \/ k.at > n.at + DedupeWindow

IsDue(row) == row.state = "on" /\ row.next <= now

\* A due schedule whose expression has no further time within a year.
Stuck(s) == IsDue(schedule[s]) /\ NextRuns(schedule[s].cron, now) = {}

SomeStuck == \E s \in Schedules : Stuck(s)

\* A due schedule or monitor is served, unless a schedule is stuck.
DueIsServed ==
    /\ \A s \in Schedules : IsDue(schedule[s]) ~> ~IsDue(schedule[s]) \/ SomeStuck
    /\ \A m \in Monitors : IsDue(monitor[m]) ~> ~IsDue(monitor[m]) \/ SomeStuck

\* The queue of unattended runs empties, unless a schedule is stuck.
QueueDrains ==
    (\E i \in Runs : run[i].state = "queued") ~>
        (\A i \in Runs : run[i].state # "queued") \/ SomeStuck

\* The stuck schedule that a tick comes to first.
FirstStuck(s) ==
    Stuck(s) /\ \A z \in Schedules \ {s} : Stuck(z) => schedule[s].next < schedule[z].next

\* It is delivered again by tick after tick, each of which it ends, until the user
\* changes it or its next time comes within a year.
StuckFiresAgain ==
    \A s \in Schedules :
        FirstStuck(s) /\ tick.at = "off" ~> (At("move") /\ tick.src = s) \/ ~FirstStuck(s)
=============================================================================

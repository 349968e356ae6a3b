-------------------------- MODULE Automation_proofs --------------------------
(***************************************************************************)
(* Proofs about Automation: its types, the distance of equal nudges, the   *)
(* single delivery of a due time and the single alarm for a condition.     *)
(* TLC checks the same properties on the instance of MCAutomation.         *)
(***************************************************************************)
EXTENDS Automation, FiniteSetTheorems, TLAPS

-----------------------------------------------------------------------------
(* Types *)

\* The type invariant in the parts that steps change together, with what makes
\* it inductive: a look that threw is never written into its row.
SurroundingsOK ==
    /\ now \in 0..MaxTime
    /\ world \in [Targets -> Findings]

RowsOK ==
    /\ schedule \in [Schedules -> ScheduleRows]
    /\ monitor \in [Monitors -> MonitorRows]
    /\ heartbeat \in HeartbeatRows

ToldOK ==
    /\ nudges \subseteq Nudges
    /\ run \in [Runs -> RunRows]

\* Each of the pending wake requests was a user action of its own.
WakingOK == waking \in 0..upsets

DaemonOK ==
    /\ daemonUp \in BOOLEAN
    /\ tick \in Ticks
    /\ seen \in [schedule: [Schedules -> ScheduleRows], monitor: [Monitors -> MonitorRows]]

LookOK ==
    tick.at \in {"announce", "move"} /\ tick.src \in Monitors => tick.saw # "denied"

UsedOK ==
    /\ upsets \in 0..MaxUpsets
    /\ faults \in 0..upsets
    /\ crashes \in 0..upsets

FiredOK == fired \in [Rows -> Nat]

Typed == SurroundingsOK /\ RowsOK /\ ToldOK /\ DaemonOK /\ LookOK /\ UsedOK /\ FiredOK

\* The rows and ticks that stand for none are rows and ticks.
LEMMA NoneTyped ==
    /\ NoSchedule \in ScheduleRows
    /\ NoMonitor \in MonitorRows
    /\ NothingSeen \in [schedule: [Schedules -> ScheduleRows], monitor: [Monitors -> MonitorRows]]
    /\ NoTick \in Ticks
<1>1. (CHOOSE c \in Crons : TRUE) \in Crons
  BY AutomationAssumption
<1>2. (CHOOSE t \in Targets : TRUE) \in Targets
  BY AutomationAssumption
<1>3. (CHOOSE mode \in Modes : TRUE) \in Modes
  BY AutomationAssumption
<1>4. NoSchedule \in ScheduleRows
  BY <1>1 DEF NoSchedule, ScheduleRows, States
<1>5. NoMonitor \in MonitorRows
  BY <1>2, <1>3 DEF NoMonitor, MonitorRows, States
<1>6. NothingSeen \in [schedule: [Schedules -> ScheduleRows], monitor: [Monitors -> MonitorRows]]
  BY <1>4, <1>5 DEF NothingSeen
<1>7. NoTick \in Ticks
  BY AutomationAssumption DEF NoTick, Ticks, TickPoints, Sources, Findings
<1> QED BY <1>4, <1>5, <1>6, <1>7

LEMMA TypedInit == Init => Typed
<1> SUFFICES ASSUME Init PROVE Typed
  OBVIOUS
<1>1. FirstSchedules \subseteq ScheduleRows
  BY NoneTyped, AutomationAssumption DEF FirstSchedules, ScheduleRows, States
<1>2. FirstMonitors \subseteq MonitorRows
  BY DEF FirstMonitors, MonitorRows, States
<1>3. RowsOK
  BY <1>1, <1>2 DEF Init, RowsOK, HeartbeatRows
<1>4. SurroundingsOK
  BY AutomationAssumption DEF Init, SurroundingsOK, Findings
<1>5. ToldOK
  BY AutomationAssumption DEF Init, ToldOK, RunRows, NoRun
<1>6. DaemonOK /\ LookOK
  BY NoneTyped DEF Init, DaemonOK, LookOK, NoTick
<1>7. UsedOK /\ FiredOK
  BY AutomationAssumption DEF Init, UsedOK, FiredOK
<1> QED BY <1>3, <1>4, <1>5, <1>6, <1>7 DEF Typed

\* What the helpers of several actions do to the types.
LEMMA UpsetTyped ==
    ASSUME UsedOK
    PROVE  /\ Fail => UsedOK'
           /\ Edit => UsedOK'
           /\ Upset /\ UNCHANGED <<faults, crashes>> => UsedOK'
           /\ Upset /\ crashes' = crashes + 1 /\ UNCHANGED faults => UsedOK'
BY AutomationAssumption DEF UsedOK, Fail, Edit, Upset

LEMMA EnqueueTyped ==
    ASSUME Typed, Enqueue
    PROVE  ToldOK'
<1>1. PICK i \in Runs : run' = [run EXCEPT ![i] = [state |-> "queued", created |-> now]]
  BY DEF Enqueue
<1>2. nudges' = nudges
  BY DEF Enqueue
<1> QED BY <1>1, <1>2 DEF Typed, ToldOK, SurroundingsOK, RunRows

LEMMA DeliverTyped ==
    ASSUME Typed, NEW x \in Sources, NEW of \in Crons \cup Targets \cup {"none"},
           NEW saw \in Findings, Deliver(x, of, saw)
    PROVE  ToldOK'
<1>1. CASE x \in Background
  BY <1>1, EnqueueTyped DEF Deliver
<1>2. CASE x \notin Background
  <2>1. Nudge(x, of, saw)
    BY <1>2 DEF Deliver
  <2>2. [src |-> x, of |-> of, saw |-> saw, at |-> now] \in Nudges
    BY DEF Typed, SurroundingsOK, Nudges
  <2>3. run' = run /\ nudges' \subseteq nudges \cup {[src |-> x, of |-> of, saw |-> saw, at |-> now]}
    BY <2>1 DEF Nudge
  <2> QED BY <2>2, <2>3 DEF Typed, ToldOK
<1> QED BY <1>1, <1>2

LEMMA AnnounceTyped ==
    ASSUME Typed, NEW x \in Sources, NEW of \in Crons \cup Targets \cup {"none"},
           NEW saw \in Findings, NEW p, Announce(x, of, saw, p)
    PROVE  ToldOK' /\ UsedOK'
<1>1. Deliver(x, of, saw) => ToldOK'
  BY DeliverTyped
<1>2. UNCHANGED told => ToldOK'
  BY DEF told, Typed, ToldOK
<1>3. UNCHANGED used => UsedOK'
  BY DEF used, Typed, UsedOK
<1>4. Fail => UsedOK'
  BY UpsetTyped DEF Typed
<1> QED BY <1>1, <1>2, <1>3, <1>4 DEF Announce

LEMMA TickGotoTyped ==
    ASSUME Typed, NEW p \in TickPoints, TickGoto(p)
    PROVE  DaemonOK' /\ tick' = [tick EXCEPT !.at = p]
BY DEF TickGoto, Typed, DaemonOK, Ticks

LEMMA NextSourceTyped ==
    ASSUME Typed, NextSource
    PROVE  DaemonOK' /\ LookOK'
BY NoneTyped DEF NextSource, Typed, DaemonOK, LookOK, Ticks, TickPoints

LEMMA TickEndsTyped ==
    ASSUME Typed, TickEnds
    PROVE  DaemonOK' /\ LookOK'
BY NoneTyped DEF TickEnds, Typed, DaemonOK, LookOK, NoTick

LEMMA BeginTyped ==
    ASSUME Typed, NEW x \in Sources, NEW p \in TickPoints, NEW saw \in Findings, Begin(x, p, saw)
    PROVE  /\ DaemonOK' /\ RowsOK' /\ SurroundingsOK'
           /\ tick'.at = p /\ tick'.src = x /\ tick'.saw = saw
<1>1. DaemonOK' /\ tick'.at = p /\ tick'.src = x /\ tick'.saw = saw
  BY DEF Begin, Typed, DaemonOK, SurroundingsOK, Ticks
<1>2. RowsOK' /\ SurroundingsOK'
  BY DEF Begin, Typed, RowsOK, SurroundingsOK, rows
<1> QED BY <1>1, <1>2

LEMMA CountTyped ==
    ASSUME Typed, NEW x \in Rows, Count(x)
    PROVE  FiredOK'
BY AutomationAssumption DEF Count, Typed, FiredOK

LEMMA NextOfBatchTyped ==
    ASSUME Typed, NEW i, NextOfBatch(i)
    PROVE  DaemonOK' /\ LookOK'
<1>1. CASE tick.batch = {i}
  BY <1>1, TickEndsTyped DEF NextOfBatch
<1>2. CASE tick.batch # {i}
  <2>1. /\ tick' = [NoTick EXCEPT !.at = "claim", !.batch = tick.batch \ {i}]
        /\ UNCHANGED <<daemonUp, seen>>
    BY <1>2 DEF NextOfBatch
  <2>2. tick' \in Ticks /\ tick'.at = "claim"
    BY <2>1, NoneTyped DEF Typed, DaemonOK, Ticks, TickPoints
  <2> QED BY <2>1, <2>2 DEF Typed, DaemonOK, LookOK
<1> QED BY <1>1, <1>2

\* What the steps of a tick, of the user and of the rest leave typed.
LEMMA TickSourcesTyped ==
    ASSUME Typed, TickBegin \/ BeginHeartbeat \/ MoveHeartbeat \/ TakeBatch
    PROVE  Typed'
<1>1. CASE TickBegin
  <2>1. DueHeartbeat \cup DueSchedules \cup DueMonitors \subseteq Sources
    BY DEF DueHeartbeat, DueSchedules, DueMonitors, Sources, Rows
  <2>2. tick' \in Ticks /\ tick'.at = "next"
    BY <1>1, <2>1, NoneTyped DEF TickBegin, Ticks, TickPoints
  <2>3. seen' \in [schedule: [Schedules -> ScheduleRows], monitor: [Monitors -> MonitorRows]]
    BY <1>1, NoneTyped DEF TickBegin, Typed, RowsOK
  <2>4. DaemonOK' /\ LookOK'
    BY <1>1, <2>2, <2>3 DEF TickBegin, Typed, DaemonOK, LookOK
  <2> QED
    BY <1>1, <2>4 DEF TickBegin, Typed, SurroundingsOK, RowsOK, ToldOK, UsedOK, FiredOK, rows, told, used
<1>2. CASE BeginHeartbeat
  <2>1. PICK p \in TickPoints, saw \in Findings : Begin("heartbeat", p, saw)
    BY <1>2 DEF BeginHeartbeat, TickPoints, Findings
  <2>2. DaemonOK' /\ RowsOK' /\ SurroundingsOK' /\ LookOK'
    BY <2>1, BeginTyped, AutomationAssumption DEF Sources, Rows, LookOK
  <2>3. ToldOK' /\ UsedOK'
    <3>1. ASSUME NEW q, Announce("heartbeat", "none", "a", q) PROVE ToldOK' /\ UsedOK'
      BY <3>1, AnnounceTyped DEF Sources, Findings
    <3>2. UNCHANGED <<told, used>> => ToldOK' /\ UsedOK'
      BY DEF told, used, Typed, ToldOK, UsedOK
    <3> QED BY <1>2, <3>1, <3>2 DEF BeginHeartbeat
  <2>4. FiredOK'
    BY <1>2 DEF BeginHeartbeat, Typed, FiredOK
  <2> QED BY <2>2, <2>3, <2>4 DEF Typed
<1>3. CASE MoveHeartbeat
  <2>1. DaemonOK' /\ LookOK'
    BY <1>3, NextSourceTyped DEF MoveHeartbeat
  <2>2. tick.began + HeartbeatEvery \in Nat
    BY AutomationAssumption DEF Typed, DaemonOK, Ticks
  <2>3. heartbeat' \in HeartbeatRows
    BY <1>3, <2>2 DEF MoveHeartbeat, Typed, RowsOK, HeartbeatRows
  <2> QED
    BY <1>3, <2>1, <2>3 DEF MoveHeartbeat, Typed, SurroundingsOK, RowsOK, ToldOK, UsedOK, FiredOK, told, used
<1>4. CASE TakeBatch
  <2>1. DaemonOK' /\ LookOK'
    <3>1. CASE OldestQueued = {}
      BY <1>4, <3>1, TickEndsTyped DEF TakeBatch
    <3>2. CASE OldestQueued # {}
      <4>1. OldestQueued \subseteq Runs
        BY DEF OldestQueued, Queued
      <4>2. /\ tick' = [NoTick EXCEPT !.at = "claim", !.batch = OldestQueued]
            /\ UNCHANGED <<daemonUp, seen>>
        BY <1>4, <3>2 DEF TakeBatch
      <4>3. tick' \in Ticks /\ tick'.at = "claim"
        BY <4>1, <4>2, NoneTyped DEF Ticks, TickPoints
      <4> QED BY <4>2, <4>3 DEF Typed, DaemonOK, LookOK
    <3> QED BY <3>1, <3>2
  <2> QED
    BY <1>4, <2>1 DEF TakeBatch, Typed, SurroundingsOK, RowsOK, ToldOK, UsedOK, FiredOK, rows, told, used
<1> QED BY <1>1, <1>2, <1>3, <1>4

LEMMA TickScheduleTyped ==
    ASSUME Typed, NEW s \in Schedules,
           BeginSchedule(s) \/ MoveSchedule(s) \/ CannotMoveSchedule(s)
    PROVE  Typed'
<1>0. s \in Rows /\ s \in Sources /\ s \notin Monitors
  BY AutomationAssumption DEF Rows, Sources
<1>1. CASE BeginSchedule(s)
  <2>1. PICK p \in {"move", "caught"} :
          Begin(s, p, "a") /\ Announce(s, seen.schedule[s].cron, "a", p)
    BY <1>1 DEF BeginSchedule
  <2>2. DaemonOK' /\ RowsOK' /\ SurroundingsOK' /\ LookOK'
    BY <2>1, <1>0, BeginTyped DEF TickPoints, Findings, LookOK
  <2>3. seen.schedule[s].cron \in Crons
    BY DEF Typed, DaemonOK, ScheduleRows
  <2>4. ToldOK' /\ UsedOK'
    BY <2>1, <2>3, <1>0, AnnounceTyped DEF Findings
  <2>5. FiredOK'
    <3>1. Count(s) => FiredOK'
      BY <1>0, CountTyped
    <3>2. UNCHANGED fired => FiredOK'
      BY DEF Typed, FiredOK
    <3> QED BY <1>1, <3>1, <3>2 DEF BeginSchedule
  <2> QED BY <2>2, <2>4, <2>5 DEF Typed
<1>2. CASE MoveSchedule(s)
  <2>1. DaemonOK' /\ LookOK'
    BY <1>2, NextSourceTyped DEF MoveSchedule
  <2>2. PICK n \in NextRuns(seen.schedule[s].cron, tick.began) :
          schedule' = [schedule EXCEPT ![s].next = n]
    BY <1>2 DEF MoveSchedule
  <2>3. n \in Nat
    BY AutomationAssumption DEF NextRuns, Typed, DaemonOK, ScheduleRows
  <2>4. schedule' \in [Schedules -> ScheduleRows]
    BY <2>2, <2>3 DEF Typed, RowsOK, ScheduleRows
  <2>5. FiredOK'
    BY <1>2, <1>0 DEF MoveSchedule, Typed, FiredOK
  <2> QED
    BY <1>2, <2>1, <2>4, <2>5 DEF MoveSchedule, Typed, SurroundingsOK, RowsOK, ToldOK, UsedOK, told, used
<1>3. CASE CannotMoveSchedule(s)
  <2>1. DaemonOK' /\ LookOK'
    <3>1. CASE At("move")
      <4>1. DaemonOK' /\ tick' = [tick EXCEPT !.at = "caught"]
        BY <1>3, <3>1, TickGotoTyped DEF CannotMoveSchedule, TickPoints
      <4> QED BY <4>1 DEF Typed, DaemonOK, Ticks, LookOK
    <3>2. CASE ~At("move")
      BY <1>3, <3>2, TickEndsTyped DEF CannotMoveSchedule
    <3> QED BY <3>1, <3>2
  <2> QED
    BY <1>3, <2>1 DEF CannotMoveSchedule, Typed, SurroundingsOK, RowsOK, ToldOK, UsedOK, FiredOK, rows, told, used
<1> QED BY <1>1, <1>2, <1>3

LEMMA TickMonitorTyped ==
    ASSUME Typed, NEW m \in Monitors,
           Look(m) \/ Alarm(m) \/ MoveMonitor(m) \/ CannotMoveMonitor(m)
    PROVE  Typed'
<1>0. m \in Rows /\ m \in Sources
  BY DEF Rows, Sources
<1>s. seen.monitor[m] \in MonitorRows /\ seen.monitor[m].target \in Targets
  BY DEF Typed, DaemonOK, MonitorRows
<1>1. CASE Look(m)
  <2> DEFINE saw == world[seen.monitor[m].target]
             p == IF saw = "denied" THEN "caught"
                  ELSE IF Triggered(m, saw) THEN "announce" ELSE "move"
  <2>1. Begin(m, p, saw)
    BY <1>1 DEF Look
  <2>2. saw \in Findings
    BY <1>s DEF Typed, SurroundingsOK
  <2>3. p \in TickPoints /\ (p # "caught" => saw # "denied")
    BY DEF TickPoints
  <2> HIDE DEF saw, p
  <2>4. DaemonOK' /\ RowsOK' /\ SurroundingsOK' /\ tick'.at = p /\ tick'.saw = saw
    BY <2>1, <2>2, <2>3, <1>0, BeginTyped
  <2>5. LookOK'
    BY <2>3, <2>4 DEF LookOK
  <2>6. FiredOK'
    BY <1>1, <1>0 DEF Look, Typed, FiredOK
  <2> QED
    BY <1>1, <2>4, <2>5, <2>6 DEF Look, Typed, ToldOK, UsedOK, told, used
<1>2. CASE Alarm(m)
  <2>1. PICK p \in {"move", "caught"} :
          TickGoto(p) /\ Announce(m, seen.monitor[m].target, tick.saw, p)
    BY <1>2 DEF Alarm
  <2>2. DaemonOK' /\ tick' = [tick EXCEPT !.at = p]
    BY <2>1, TickGotoTyped DEF TickPoints
  <2>3. tick.saw # "denied" /\ tick.saw \in Findings
    BY <1>2 DEF Alarm, At, Typed, LookOK, DaemonOK, Ticks
  <2>4. LookOK'
    BY <2>2, <2>3 DEF Typed, DaemonOK, Ticks, LookOK
  <2>5. ToldOK' /\ UsedOK'
    BY <2>1, <2>3, <1>0, <1>s, AnnounceTyped
  <2>6. FiredOK'
    <3>1. Count(m) => FiredOK'
      BY <1>0, CountTyped
    <3> QED BY <1>2, <3>1 DEF Alarm, Typed, FiredOK
  <2> QED
    BY <1>2, <2>2, <2>4, <2>5, <2>6 DEF Alarm, Typed, SurroundingsOK, RowsOK, rows
<1>3. CASE MoveMonitor(m)
  <2>1. DaemonOK' /\ LookOK'
    BY <1>3, NextSourceTyped DEF MoveMonitor
  <2>2. tick.began + CheckEvery \in Nat
    BY AutomationAssumption DEF Typed, DaemonOK, Ticks
  <2>3. AfterThrow(m) \in MonitorRows
    BY <2>2 DEF AfterThrow, Typed, RowsOK, MonitorRows
  <2>4. CASE At("caught")
    <3>1. monitor' = [monitor EXCEPT ![m] = AfterThrow(m)]
      BY <1>3, <2>4 DEF MoveMonitor
    <3>2. monitor' \in [Monitors -> MonitorRows]
      BY <2>3, <3>1 DEF Typed, RowsOK
    <3> QED
      BY <1>3, <2>1, <3>2 DEF MoveMonitor, Typed, SurroundingsOK, RowsOK, ToldOK, UsedOK, FiredOK, told, used
  <2>5. CASE ~At("caught")
    <3>1. monitor' = [monitor EXCEPT ![m] = AfterLook(m)]
      BY <1>3, <2>5 DEF MoveMonitor
    <3>2. tick.saw \in {"a", "b", "gone"}
      BY <1>3, <2>5 DEF MoveMonitor, Moving, At, Typed, LookOK, DaemonOK, Ticks, Findings
    <3>3. Verdict(m, tick.saw) \in {"ok", "changed", "match", "missing"}
      BY DEF Verdict
    <3>4. AfterLook(m) \in MonitorRows
      BY <2>2, <3>2, <3>3 DEF AfterLook, Typed, RowsOK, MonitorRows
    <3>5. monitor' \in [Monitors -> MonitorRows]
      BY <3>1, <3>4 DEF Typed, RowsOK
    <3> QED
      BY <1>3, <2>1, <3>5 DEF MoveMonitor, Typed, SurroundingsOK, RowsOK, ToldOK, UsedOK, FiredOK, told, used
  <2> QED BY <2>4, <2>5
<1>4. CASE CannotMoveMonitor(m)
  <2>1. DaemonOK' /\ LookOK'
    <3>1. CASE At("move")
      <4>1. DaemonOK' /\ tick' = [tick EXCEPT !.at = "caught"]
        BY <1>4, <3>1, TickGotoTyped DEF CannotMoveMonitor, TickPoints
      <4> QED BY <4>1 DEF Typed, DaemonOK, Ticks, LookOK
    <3>2. CASE ~At("move")
      BY <1>4, <3>2, TickEndsTyped DEF CannotMoveMonitor
    <3> QED BY <3>1, <3>2
  <2> QED
    BY <1>4, <2>1 DEF CannotMoveMonitor, Typed, SurroundingsOK, RowsOK, ToldOK, UsedOK, FiredOK, rows, told, used
<1> QED BY <1>1, <1>2, <1>3, <1>4

LEMMA TickRunTyped ==
    ASSUME Typed, NEW i \in Runs, CallModel(i) \/ Skip(i) \/ RunThrows(i) \/ FinishRun(i)
    PROVE  Typed'
<1>1. \A state \in {"queued", "running", "skipped", "succeeded", "failed"} : SetRun(i, state) => ToldOK'
  BY DEF SetRun, Typed, ToldOK, RunRows
<1>2. CASE CallModel(i)
  <2>1. DaemonOK' /\ tick' = [tick EXCEPT !.at = "call"]
    BY <1>2, TickGotoTyped DEF CallModel, TickPoints
  <2>2. LookOK'
    BY <2>1 DEF Typed, DaemonOK, Ticks, LookOK
  <2>3. ToldOK'
    BY <1>1, <1>2 DEF CallModel
  <2> QED
    BY <1>2, <2>1, <2>2, <2>3 DEF CallModel, Typed, SurroundingsOK, RowsOK, UsedOK, FiredOK, rows, used
<1>3. CASE Skip(i)
  <2>1. DaemonOK' /\ LookOK' /\ ToldOK'
    BY <1>1, <1>3, NextOfBatchTyped DEF Skip
  <2> QED
    BY <1>3, <2>1 DEF Skip, Typed, SurroundingsOK, RowsOK, UsedOK, FiredOK, rows, used
<1>4. CASE RunThrows(i)
  <2>1. DaemonOK' /\ LookOK' /\ ToldOK' /\ UsedOK'
    BY <1>1, <1>4, TickEndsTyped, UpsetTyped DEF RunThrows, Typed
  <2> QED
    BY <1>4, <2>1 DEF RunThrows, Typed, SurroundingsOK, RowsOK, FiredOK, rows
<1>5. CASE FinishRun(i)
  <2>1. DaemonOK' /\ LookOK' /\ ToldOK'
    BY <1>1, <1>5, NextOfBatchTyped DEF FinishRun
  <2> QED
    BY <1>5, <2>1 DEF FinishRun, Typed, SurroundingsOK, RowsOK, UsedOK, FiredOK, rows, used
<1> QED BY <1>2, <1>3, <1>4, <1>5

LEMMA UserTyped ==
    ASSUME Typed, User
    PROVE  Typed'
<1>1. \A c \in Crons : NextRuns(c, now) \subseteq Nat
  BY AutomationAssumption DEF NextRuns
<1>u. Edit => UsedOK'
  BY UpsetTyped DEF Typed
<1>n. now \in Nat
  BY AutomationAssumption DEF Typed, SurroundingsOK
<1> DEFINE Rest == UNCHANGED <<now, world, daemon>> /\ UsedOK' /\ FiredOK'
<1>r. Rest => SurroundingsOK' /\ DaemonOK' /\ LookOK' /\ UsedOK' /\ FiredOK'
  BY DEF daemon, Typed, SurroundingsOK, DaemonOK, LookOK
<1>2. ASSUME NEW s \in Schedules, NEW c \in Crons,
             CreateSchedule(s, c) \/ EnableSchedule(s, c) \/ PauseSchedule(s, c) \/ DeleteSchedule(s)
      PROVE  Typed'
  <2>0. s \in Rows
    BY DEF Rows
  <2>1. Rest
    BY <1>2, <1>u, <2>0 DEF CreateSchedule, EnableSchedule, PauseSchedule, DeleteSchedule, Typed, FiredOK
  <2>2. schedule' \in [Schedules -> ScheduleRows]
    <3>1. schedule \in [Schedules -> ScheduleRows]
      BY DEF Typed, RowsOK
    <3>2. CASE CreateSchedule(s, c) \/ EnableSchedule(s, c)
      <4>1. PICK n \in NextRuns(c, now) :
              schedule' = [schedule EXCEPT ![s] = [state |-> "on", cron |-> c, next |-> n]]
        BY <3>2 DEF CreateSchedule, EnableSchedule
      <4> QED BY <1>1, <3>1, <4>1 DEF ScheduleRows, States
    <3>3. CASE PauseSchedule(s, c)
      BY <3>1, <3>3 DEF PauseSchedule, ScheduleRows, States
    <3>4. CASE DeleteSchedule(s)
      BY <3>1, <3>4 DEF DeleteSchedule, ScheduleRows, States
    <3> QED BY <1>2, <3>2, <3>3, <3>4
  <2>3. UNCHANGED <<monitor, heartbeat, told>>
    BY <1>2 DEF CreateSchedule, EnableSchedule, PauseSchedule, DeleteSchedule
  <2> HIDE DEF Rest
  <2> QED BY <1>r, <2>1, <2>2, <2>3 DEF Typed, RowsOK, ToldOK, told
<1>3. ASSUME NEW m \in Monitors, NEW t \in Targets, NEW mode \in Modes,
             \/ CreateMonitor(m, t, mode) \/ EnableMonitor(m, t, mode)
             \/ PauseMonitor(m, t, mode)  \/ DeleteMonitor(m)
      PROVE  Typed'
  <2>0. m \in Rows
    BY DEF Rows
  <2>1. Rest
    BY <1>3, <1>u, <2>0 DEF CreateMonitor, EnableMonitor, PauseMonitor, DeleteMonitor, Typed, FiredOK
  <2>2. monitor' \in [Monitors -> MonitorRows]
    <3>1. monitor \in [Monitors -> MonitorRows]
      BY DEF Typed, RowsOK
    <3>2. CASE CreateMonitor(m, t, mode)
      BY <1>n, <3>1, <3>2, NoneTyped DEF CreateMonitor, MonitorRows, States
    <3>3. CASE EnableMonitor(m, t, mode)
      BY <1>n, <3>1, <3>3 DEF EnableMonitor, MonitorRows, States
    <3>4. CASE PauseMonitor(m, t, mode)
      BY <3>1, <3>4 DEF PauseMonitor, MonitorRows, States
    <3>5. CASE DeleteMonitor(m)
      BY <3>1, <3>5 DEF DeleteMonitor, MonitorRows, States
    <3> QED BY <1>3, <3>2, <3>3, <3>4, <3>5
  <2>3. UNCHANGED <<schedule, heartbeat, told>>
    BY <1>3 DEF CreateMonitor, EnableMonitor, PauseMonitor, DeleteMonitor
  <2> HIDE DEF Rest
  <2> QED BY <1>r, <2>1, <2>2, <2>3 DEF Typed, RowsOK, ToldOK, told
<1>4. ASSUME NEW state \in {"on", "off"}, SetHeartbeat(state)
      PROVE  Typed'
  <2>1. Rest
    BY <1>4, <1>u DEF SetHeartbeat, Typed, FiredOK
  <2>2. heartbeat' \in HeartbeatRows
    BY <1>4, <1>n, AutomationAssumption DEF SetHeartbeat, HeartbeatRows
  <2>3. UNCHANGED <<schedule, monitor, told>>
    BY <1>4 DEF SetHeartbeat
  <2> HIDE DEF Rest
  <2> QED BY <1>r, <2>1, <2>2, <2>3 DEF Typed, RowsOK, ToldOK, told
<1>5. ASSUME NEW n \in nudges, Dismiss(n)
      PROVE  Typed'
  <2>1. Rest
    BY <1>5, <1>u DEF Dismiss, Typed, FiredOK
  <2>2. ToldOK' /\ RowsOK'
    BY <1>5 DEF Dismiss, Typed, ToldOK, RowsOK, rows
  <2> HIDE DEF Rest
  <2> QED BY <1>r, <2>1, <2>2 DEF Typed
<1>6. CASE Wake
  <2>1. Rest
    BY <1>6, <1>u DEF Wake, Typed, FiredOK
  <2>2. ToldOK'
    <3>1. UNCHANGED <<nudges, run>> => ToldOK'
      BY DEF Typed, ToldOK
    <3> QED BY <1>6, <3>1, EnqueueTyped DEF Wake
  <2>3. RowsOK'
    BY <1>6 DEF Wake, Typed, RowsOK, rows
  <2> HIDE DEF Rest
  <2> QED BY <1>r, <2>1, <2>2, <2>3 DEF Typed
<1>w. CASE WakeNudge
  <2>1. Rest
    BY <1>w DEF WakeNudge, Typed, FiredOK, UsedOK, used
  <2>2. [src |-> "wake", of |-> "none", saw |-> "a", at |-> now] \in Nudges
    BY DEF Typed, SurroundingsOK, Nudges, Sources, Findings
  <2>3. ToldOK' /\ RowsOK'
    BY <1>w, <2>2 DEF WakeNudge, Typed, ToldOK, RowsOK, rows
  <2> HIDE DEF Rest
  <2> QED BY <1>r, <2>1, <2>3 DEF Typed
<1>7. PICK c \in Crons, t \in Targets, mode \in Modes : TRUE
  BY AutomationAssumption
<1>8. ASSUME NEW s \in Schedules, DeleteSchedule(s)
      PROVE  Typed'
  BY <1>2, <1>7, <1>8
<1>9. ASSUME NEW m \in Monitors, DeleteMonitor(m)
      PROVE  Typed'
  BY <1>3, <1>7, <1>9
<1> QED BY <1>2, <1>3, <1>4, <1>5, <1>6, <1>w, <1>8, <1>9 DEF User

LEMMA SurroundingsTyped ==
    ASSUME Typed,
           \/ Clock \/ Crash \/ Restart \/ UpdateFails \/ UNCHANGED vars
           \/ \E t \in Targets : Change(t)
    PROVE  Typed'
<1>1. CASE Clock
  BY <1>1, AutomationAssumption DEF Clock, daemon, rows, told, used,
     Typed, SurroundingsOK, RowsOK, ToldOK, DaemonOK, LookOK, UsedOK, FiredOK
<1>2. CASE Crash
  <2>1. UsedOK'
    BY <1>2, UpsetTyped DEF Crash, Typed
  <2>2. DaemonOK' /\ LookOK'
    BY <1>2, NoneTyped DEF Crash, NoTick, DaemonOK, LookOK
  <2> QED BY <1>2, <2>1, <2>2 DEF Crash, rows, told,
     Typed, SurroundingsOK, RowsOK, ToldOK, FiredOK
<1>3. CASE Restart
  BY <1>3 DEF Restart, rows, told, used,
     Typed, SurroundingsOK, RowsOK, ToldOK, DaemonOK, LookOK, UsedOK, FiredOK
<1>4. ASSUME NEW t \in Targets, Change(t)
      PROVE  Typed'
  <2>1. UsedOK'
    BY <1>4, UpsetTyped DEF Change, Typed
  <2>2. SurroundingsOK'
    BY <1>4 DEF Change, Typed, SurroundingsOK
  <2> QED BY <1>4, <2>1, <2>2 DEF Change, rows, told, daemon,
     Typed, RowsOK, ToldOK, DaemonOK, LookOK, FiredOK
<1>5. CASE UNCHANGED vars
  BY <1>5 DEF vars, rows, told, daemon, used,
     Typed, SurroundingsOK, RowsOK, ToldOK, DaemonOK, LookOK, UsedOK, FiredOK
<1>6. CASE UpdateFails
  <2>1. UsedOK'
    BY <1>6, UpsetTyped DEF UpdateFails, Typed
  <2>2. DaemonOK' /\ LookOK'
    <3>1. CASE At("move")
      <4>1. DaemonOK' /\ tick' = [tick EXCEPT !.at = "caught"]
        BY <1>6, <3>1, TickGotoTyped DEF UpdateFails, TickPoints
      <4> QED BY <4>1 DEF Typed, DaemonOK, Ticks, LookOK
    <3>2. CASE ~At("move")
      BY <1>6, <3>2, TickEndsTyped DEF UpdateFails
    <3> QED BY <3>1, <3>2
  <2> QED BY <1>6, <2>1, <2>2 DEF UpdateFails, rows, told,
     Typed, SurroundingsOK, RowsOK, ToldOK, FiredOK
<1> QED BY <1>1, <1>2, <1>3, <1>4, <1>5, <1>6

LEMMA TypedNext == Typed /\ [Next]_vars => Typed'
BY TickSourcesTyped, TickScheduleTyped, TickMonitorTyped, TickRunTyped, UserTyped,
   SurroundingsTyped DEF Next, TickStep

\* Who delivers leaves the pending wake requests alone, and no step takes back what
\* was used of the bound.
LEMMA WakingNext == Typed /\ WakingOK /\ [Next]_vars => WakingOK'
<1> SUFFICES ASSUME Typed, WakingOK, [Next]_vars PROVE WakingOK'
  OBVIOUS
<1>0. upsets \in Nat /\ waking \in 0..upsets
  BY AutomationAssumption DEF Typed, UsedOK, WakingOK
<1> DEFINE Keeps == waking' = waking /\ (upsets' = upsets \/ upsets' = upsets + 1)
<1>k. Keeps => WakingOK'
  BY <1>0 DEF WakingOK
<1>a. \A x, of, saw, p : Announce(x, of, saw, p) => Keeps
  BY DEF Announce, Deliver, Enqueue, Nudge, Fail, Upset, told, used
<1>1. CASE Wake
  BY <1>0, <1>1 DEF Wake, Enqueue, Edit, Upset, WakingOK
<1>2. CASE WakeNudge
  BY <1>0, <1>2 DEF WakeNudge, used, WakingOK
<1>3. BeginHeartbeat => Keeps
  BY <1>a DEF BeginHeartbeat, told, used
<1>4. ASSUME NEW s \in Schedules, BeginSchedule(s) \/ MoveSchedule(s) \/ CannotMoveSchedule(s)
      PROVE  Keeps
  <2>1. BeginSchedule(s) => Keeps
    BY <1>a DEF BeginSchedule
  <2>2. MoveSchedule(s) \/ CannotMoveSchedule(s) => Keeps
    BY DEF MoveSchedule, CannotMoveSchedule, told, used
  <2> QED BY <1>4, <2>1, <2>2
<1>5. ASSUME NEW m \in Monitors, Look(m) \/ Alarm(m) \/ MoveMonitor(m) \/ CannotMoveMonitor(m)
      PROVE  Keeps
  <2>1. Alarm(m) => Keeps
    BY <1>a DEF Alarm
  <2>2. Look(m) \/ MoveMonitor(m) \/ CannotMoveMonitor(m) => Keeps
    BY DEF Look, MoveMonitor, CannotMoveMonitor, told, used
  <2> QED BY <1>5, <2>1, <2>2
<1>6. ASSUME NEW i \in Runs, CallModel(i) \/ Skip(i) \/ FinishRun(i) \/ RunThrows(i)
      PROVE  Keeps
  BY <1>6 DEF CallModel, Skip, FinishRun, RunThrows, SetRun, Fail, Upset, used
<1>7. TickBegin \/ MoveHeartbeat \/ TakeBatch \/ Clock \/ Crash \/ Restart \/ UpdateFails \/ UNCHANGED vars
      => Keeps
  BY DEF TickBegin, MoveHeartbeat, TakeBatch, Clock, Crash, Restart, UpdateFails, Fail, Upset,
     vars, told, used
<1>8. (\E t \in Targets : Change(t)) => Keeps
  BY DEF Change, Upset, told
<1>9. ASSUME User, ~Wake, ~WakeNudge
      PROVE  Keeps
  <2>1. Edit /\ waking' = waking => Keeps
    BY DEF Edit, Upset
  <2> HIDE DEF Keeps
  <2>2. \A s \in Schedules, c \in Crons :
           CreateSchedule(s, c) \/ EnableSchedule(s, c) \/ PauseSchedule(s, c) \/ DeleteSchedule(s) => Keeps
    BY <2>1 DEF CreateSchedule, EnableSchedule, PauseSchedule, DeleteSchedule, told
  <2>3. \A m \in Monitors, t \in Targets, mode \in Modes :
           \/ CreateMonitor(m, t, mode) \/ EnableMonitor(m, t, mode)
           \/ PauseMonitor(m, t, mode)  \/ DeleteMonitor(m)
           => Keeps
    BY <2>1 DEF CreateMonitor, EnableMonitor, PauseMonitor, DeleteMonitor, told
  <2>4. \A s \in Schedules : DeleteSchedule(s) => Keeps
    BY <2>1 DEF DeleteSchedule, told
  <2>5. \A m \in Monitors : DeleteMonitor(m) => Keeps
    BY <2>1 DEF DeleteMonitor, told
  <2>6. \A state \in {"on", "off"} : SetHeartbeat(state) => Keeps
    BY <2>1 DEF SetHeartbeat, told
  <2>7. \A n \in nudges : Dismiss(n) => Keeps
    BY <2>1 DEF Dismiss
  <2> QED BY <1>9, <2>2, <2>3, <2>4, <2>5, <2>6, <2>7 DEF User
<1> HIDE DEF Keeps
<1> QED
  BY <1>k, <1>1, <1>2, <1>3, <1>4, <1>5, <1>6, <1>7, <1>8, <1>9 DEF Next, TickStep

\* Rows, ticks and what a tick holds in memory keep their types, for every set of
\* schedules and monitors and every bound.
THEOREM TypeCorrect == Spec => []TypeOK
<1>1. Typed /\ WakingOK => TypeOK
  BY DEF Typed, TypeOK, SurroundingsOK, RowsOK, ToldOK, WakingOK, DaemonOK, UsedOK, FiredOK
<1>2. Init => WakingOK
  BY DEF Init, WakingOK
<1> QED BY TypedInit, TypedNext, WakingNext, <1>1, <1>2, PTL DEF Spec

-----------------------------------------------------------------------------
(* Nudges *)

\* No nudge comes from the future, and equal ones of the tick are a window apart.
NudgesPast == \A n \in nudges : n.at <= now

\* A new nudge is later than every equal one by more than the window, because none
\* of those counted as a duplicate.
LEMMA NudgeSpaced ==
    ASSUME Typed, NudgesPast, NoDoubleNudge, now' = now,
           NEW x \in Sources, NEW of \in Crons \cup Targets \cup {"none"}, NEW saw \in Findings,
           Deliver(x, of, saw)
    PROVE  NudgesPast' /\ NoDoubleNudge'
<1>1. CASE nudges' = nudges
  BY <1>1 DEF NudgesPast, NoDoubleNudge
<1>2. CASE nudges' # nudges
  <2> DEFINE new == [src |-> x, of |-> of, saw |-> saw, at |-> now]
  <2>1. Nudge(x, of, saw)
    BY <1>2 DEF Deliver, Enqueue
  <2>2. Duplicates(x, of, saw) = {} /\ nudges' = nudges \cup {new}
    BY <1>2, <2>1 DEF Nudge
  <2>3. now \in Nat /\ DedupeWindow \in Nat /\ \A n \in nudges : n.at \in Nat
    BY AutomationAssumption DEF Typed, SurroundingsOK, ToldOK, Nudges
  <2>4. \A n \in nudges : n.src = x /\ n.of = of /\ n.saw = saw => now > n.at + DedupeWindow
    BY <2>2, <2>3 DEF Duplicates
  <2>5. new.src = x /\ new.of = of /\ new.saw = saw /\ new.at = now
    OBVIOUS
  <2> HIDE DEF new
  <2>6. NudgesPast'
    BY <2>2, <2>3, <2>5 DEF NudgesPast
  <2>7. ASSUME NEW n \in nudges', NEW k \in nudges', n # k, n.src # "wake",
               n.src = k.src, n.of = k.of, n.saw = k.saw
        PROVE  n.at > k.at + DedupeWindow \/ k.at > n.at + DedupeWindow
    <3>1. CASE n \in nudges /\ k \in nudges
      BY <2>7, <3>1 DEF NoDoubleNudge
    <3>2. CASE n = new
      BY <2>2, <2>4, <2>5, <2>7, <3>2
    <3>3. CASE k = new
      BY <2>2, <2>4, <2>5, <2>7, <3>3
    <3> QED BY <2>2, <3>1, <3>2, <3>3
  <2> QED BY <2>6, <2>7 DEF NoDoubleNudge
<1> QED BY <1>1, <1>2

\* Every step delivers at the present minute, or creates the nudge of a wake request,
\* or adds none.
LEMMA NudgeSteps ==
    ASSUME Typed, [Next]_vars
    PROVE  \/ /\ nudges' \subseteq nudges
              /\ now <= now'
           \/ WakeNudge
           \/ /\ now' = now
              /\ \E x \in Sources, of \in Crons \cup Targets \cup {"none"}, saw \in Findings :
                    Deliver(x, of, saw)
<1> DEFINE Quiet == nudges' \subseteq nudges /\ now <= now'
           Delivers == now' = now /\ \E x \in Sources, of \in Crons \cup Targets \cup {"none"},
                                       saw \in Findings : Deliver(x, of, saw)
<1>n. now \in Int
  BY AutomationAssumption DEF Typed, SurroundingsOK
<1>0. UNCHANGED <<nudges, now>> => Quiet
  BY <1>n
<1>a. ASSUME NEW x \in Sources, NEW of \in Crons \cup Targets \cup {"none"}, NEW saw \in Findings,
             NEW p, Announce(x, of, saw, p), now' = now
      PROVE  Quiet \/ Delivers
  BY <1>a, <1>n DEF Announce, told
<1>1. ASSUME BeginHeartbeat
      PROVE  Quiet \/ Delivers
  <2>1. now' = now
    BY <1>1 DEF BeginHeartbeat, Begin
  <2>2. (\E p : Announce("heartbeat", "none", "a", p)) \/ UNCHANGED told
    BY <1>1 DEF BeginHeartbeat
  <2>3. "heartbeat" \in Sources /\ "a" \in Findings
    BY DEF Sources, Findings
  <2>4. CASE UNCHANGED told
    BY <2>1, <2>4, <1>0 DEF told
  <2>5. CASE \E p : Announce("heartbeat", "none", "a", p)
    <3> HIDE DEF Quiet, Delivers
    <3> QED BY <2>1, <2>3, <2>5, <1>a
  <2> QED BY <2>2, <2>4, <2>5
<1>2. ASSUME NEW s \in Schedules, BeginSchedule(s)
      PROVE  Quiet \/ Delivers
  <2>1. PICK p : Begin(s, p, "a") /\ Announce(s, seen.schedule[s].cron, "a", p)
    BY <1>2 DEF BeginSchedule
  <2>2. now' = now
    BY <2>1 DEF Begin
  <2>3. seen.schedule[s].cron \in Crons /\ s \in Sources /\ "a" \in Findings
    BY DEF Typed, DaemonOK, ScheduleRows, Sources, Rows, Findings
  <2> HIDE DEF Quiet, Delivers
  <2> QED BY <2>1, <2>2, <2>3, <1>a
<1>3. ASSUME NEW m \in Monitors, Alarm(m)
      PROVE  Quiet \/ Delivers
  <2>1. PICK p : Announce(m, seen.monitor[m].target, tick.saw, p)
    BY <1>3 DEF Alarm
  <2>2. now' = now
    BY <1>3 DEF Alarm
  <2>3. seen.monitor[m].target \in Targets /\ m \in Sources /\ tick.saw \in Findings
    BY DEF Typed, DaemonOK, MonitorRows, Sources, Rows, Ticks
  <2> HIDE DEF Quiet, Delivers
  <2> QED BY <2>1, <2>2, <2>3, <1>a
<1>4. ASSUME Wake
      PROVE  Quiet
  BY <1>0, <1>4 DEF Wake, Enqueue
<1>5. ASSUME NEW n \in nudges, Dismiss(n)
      PROVE  Quiet
  BY <1>5, <1>n DEF Dismiss
<1>6. ASSUME Clock
      PROVE  Quiet
  BY <1>6, <1>n DEF Clock, told
<1>7. ASSUME \/ TickBegin \/ MoveHeartbeat \/ TakeBatch \/ Crash \/ Restart \/ UpdateFails
             \/ UNCHANGED vars
             \/ \E s \in Schedules : MoveSchedule(s) \/ CannotMoveSchedule(s) \/ DeleteSchedule(s)
             \/ \E m \in Monitors : Look(m) \/ MoveMonitor(m) \/ CannotMoveMonitor(m) \/ DeleteMonitor(m)
      PROVE  Quiet
  BY <1>7, <1>0 DEF TickBegin, MoveHeartbeat, TakeBatch, Crash, Restart, UpdateFails, vars, told,
     MoveSchedule, CannotMoveSchedule, DeleteSchedule, Look, Begin, MoveMonitor,
     CannotMoveMonitor, DeleteMonitor
<1>8. ASSUME \/ \E i \in Runs : CallModel(i) \/ Skip(i) \/ FinishRun(i) \/ RunThrows(i)
             \/ \E t \in Targets : Change(t)
             \/ \E state \in {"on", "off"} : SetHeartbeat(state)
      PROVE  Quiet
  <2>1. \A i \in Runs : CallModel(i) \/ Skip(i) \/ FinishRun(i) \/ RunThrows(i) => UNCHANGED <<nudges, now>>
    BY DEF CallModel, Skip, FinishRun, RunThrows, SetRun
  <2>2. (\E t \in Targets : Change(t)) => UNCHANGED <<nudges, now>>
    BY DEF Change, told
  <2>3. (\E state \in {"on", "off"} : SetHeartbeat(state)) => UNCHANGED <<nudges, now>>
    BY DEF SetHeartbeat, told
  <2> QED BY <1>8, <1>0, <2>1, <2>2, <2>3
<1>10. ASSUME \/ \E s \in Schedules, c \in Crons :
                    CreateSchedule(s, c) \/ EnableSchedule(s, c) \/ PauseSchedule(s, c)
              \/ \E m \in Monitors, t \in Targets, mode \in Modes :
                    CreateMonitor(m, t, mode) \/ EnableMonitor(m, t, mode) \/ PauseMonitor(m, t, mode)
       PROVE  Quiet
  <2>1. \A s \in Schedules, c \in Crons :
           CreateSchedule(s, c) \/ EnableSchedule(s, c) \/ PauseSchedule(s, c) => UNCHANGED <<nudges, now>>
    BY DEF CreateSchedule, EnableSchedule, PauseSchedule, told
  <2>2. \A m \in Monitors, t \in Targets, mode \in Modes :
           CreateMonitor(m, t, mode) \/ EnableMonitor(m, t, mode) \/ PauseMonitor(m, t, mode)
           => UNCHANGED <<nudges, now>>
    BY DEF CreateMonitor, EnableMonitor, PauseMonitor, told
  <2> QED BY <1>10, <2>1, <2>2, <1>0
<1> HIDE DEF Quiet, Delivers
<1>9. Quiet \/ WakeNudge \/ Delivers
  BY <1>1, <1>2, <1>3, <1>4, <1>5, <1>6, <1>7, <1>8, <1>10 DEF Next, TickStep, User
<1> QED BY <1>9 DEF Quiet, Delivers

\* Equal nudges of the tick are a window apart, whichever rows are delivered as nudges
\* and whatever is delivered again after a crash or a failed write.
THEOREM NudgesSpaced == Spec => []NoDoubleNudge
<1> DEFINE Inv == Typed /\ NudgesPast /\ NoDoubleNudge
<1>1. Init => Inv
  BY TypedInit DEF Init, NudgesPast, NoDoubleNudge
<1>2. Inv /\ [Next]_vars => Inv'
  <2> SUFFICES ASSUME Inv, [Next]_vars PROVE Inv'
    OBVIOUS
  <2>1. Typed'
    BY TypedNext
  <2>2. CASE nudges' \subseteq nudges /\ now <= now'
    <3>1. now \in Int /\ now' \in Int /\ \A n \in nudges : n.at \in Int
      BY <2>1, AutomationAssumption DEF Typed, SurroundingsOK, ToldOK, Nudges
    <3> QED BY <2>1, <2>2, <3>1 DEF NudgesPast, NoDoubleNudge
  <2>3. CASE /\ now' = now
             /\ \E x \in Sources, of \in Crons \cup Targets \cup {"none"}, saw \in Findings :
                   Deliver(x, of, saw)
    BY <2>1, <2>3, NudgeSpaced
  <2>4. CASE WakeNudge
    <3> DEFINE new == [src |-> "wake", of |-> "none", saw |-> "a", at |-> now]
    <3>1. nudges' = nudges \cup {new} /\ now' = now /\ new.src = "wake" /\ new.at = now
      BY <2>4 DEF WakeNudge
    <3>2. now \in Int
      BY AutomationAssumption DEF Typed, SurroundingsOK
    <3> HIDE DEF new
    <3>3. NudgesPast'
      BY <3>1, <3>2 DEF NudgesPast
    <3>4. NoDoubleNudge'
      BY <3>1 DEF NoDoubleNudge
    <3> QED BY <2>1, <3>3, <3>4
  <2> QED BY <2>2, <2>3, <2>4, NudgeSteps
<1>3. Inv => NoDoubleNudge
  OBVIOUS
<1> QED BY <1>1, <1>2, <1>3, PTL DEF Spec

-----------------------------------------------------------------------------
(* One delivery for a due time *)

\* The tick is at the source x.
Serving(x) == tick.at \in {"announce", "move", "caught"} /\ tick.src = x

\* What crashes and failed writes account for: a crash for a delivery, a failed write
\* for half of one.
Cost == 2 * crashes + faults

\* The catch block of s is running.
Caught(s) == tick.at = "caught" /\ tick.src = s

\* A schedule that waits for its turn was not delivered since its due time moved,
\* but for what crashes and failed writes account for.  Once served it can leave the
\* tick in three ways only: its due time moves, the row is gone, or its update has
\* failed in the body and then in the catch block; no further time means that the
\* delivery was not counted.
ServedOnce(s) ==
    /\ 2 * fired[s] <= 2 + Cost
    /\ s \in tick.todo => 2 * fired[s] <= Cost /\ schedule[s].state # "absent"
    /\ Serving(s) =>
          /\ schedule[s].state # "absent"
          /\ NextRuns(seen.schedule[s].cron, tick.began) = {} => 2 * fired[s] <= Cost
    /\ Caught(s) => 2 * fired[s] <= 1 + Cost \/ schedule[s].state = "gone"
    /\ ~Serving(s) => 2 * fired[s] <= Cost \/ schedule[s].state = "gone"

LEMMA CostType ==
    ASSUME Typed
    PROVE  /\ Cost \in Int /\ crashes \in Int /\ faults \in Int
           /\ UNCHANGED <<faults, crashes>> => Cost' = Cost
           /\ faults' = faults + 1 /\ crashes' = crashes => Cost' = Cost + 1
           /\ UNCHANGED faults /\ crashes' = crashes + 1 => Cost' = Cost + 2
<1>1. crashes \in Int /\ faults \in Int
  BY DEF Typed, UsedOK
<1> QED BY <1>1 DEF Cost

LEMMA FiredType ==
    ASSUME Typed, NEW s \in Schedules
    PROVE  fired[s] \in Nat /\ 2 * fired[s] \in Int /\ 2 * (fired[s] + 1) = 2 * fired[s] + 2
<1>1. fired[s] \in Nat
  BY DEF Typed, FiredOK, Rows
<1> QED BY <1>1

\* What a step must do for s when it neither serves s nor edits it.
LEMMA ServedFrame ==
    ASSUME Typed, Typed', NEW s \in Schedules, ServedOnce(s),
           fired'[s] = fired[s], Cost <= Cost',
           schedule'[s].state = schedule[s].state,
           tick'.todo \subseteq tick.todo,
           Serving(s)' => Serving(s) /\ seen' = seen /\ tick'.began = tick.began,
           Caught(s)' => Caught(s) \/ 2 * fired[s] <= 1 + Cost' \/ schedule[s].state = "gone",
           Serving(s) /\ ~Serving(s)' => 2 * fired[s] <= Cost' \/ schedule[s].state = "gone"
    PROVE  ServedOnce(s)'
<1>1. 2 * fired[s] \in Int /\ Cost \in Int /\ Cost' \in Int
  <2>1. Cost' \in Int
    BY DEF Typed, UsedOK, Cost
  <2> QED BY <2>1, CostType, FiredType
<1> DEFINE F == 2 * fired[s]
<1>f. F \in Int /\ 2 * fired'[s] = F
  BY <1>1
<1>o. /\ F <= 2 + Cost
      /\ s \in tick.todo => F <= Cost /\ schedule[s].state # "absent"
      /\ Serving(s) =>
            /\ schedule[s].state # "absent"
            /\ NextRuns(seen.schedule[s].cron, tick.began) = {} => F <= Cost
      /\ Caught(s) => F <= 1 + Cost \/ schedule[s].state = "gone"
      /\ ~Serving(s) => F <= Cost \/ schedule[s].state = "gone"
  BY DEF ServedOnce
<1>h. /\ Caught(s)' => Caught(s) \/ F <= 1 + Cost' \/ schedule[s].state = "gone"
      /\ Serving(s) /\ ~Serving(s)' => F <= Cost' \/ schedule[s].state = "gone"
  OBVIOUS
<1> HIDE DEF F
<1>le. (F <= Cost => F <= Cost') /\ (F <= 1 + Cost => F <= 1 + Cost') /\ (F <= 2 + Cost => F <= 2 + Cost')
  BY <1>1, <1>f
<1>2. F <= 2 + Cost'
  BY <1>o, <1>le
<1>3. s \in tick'.todo => F <= Cost' /\ schedule'[s].state # "absent"
  BY <1>o, <1>le
<1>6. seen' = seen /\ tick'.began = tick.began =>
        ((NextRuns(seen.schedule[s].cron, tick.began) = {})' <=>
         NextRuns(seen.schedule[s].cron, tick.began) = {})
  BY DEF NextRuns
<1>4. Serving(s)' =>
        /\ schedule'[s].state # "absent"
        /\ (NextRuns(seen.schedule[s].cron, tick.began) = {})' => F <= Cost'
  BY <1>o, <1>le, <1>6
<1>5. ~Serving(s)' => F <= Cost' \/ schedule'[s].state = "gone"
  BY <1>o, <1>le, <1>h
<1>7. Caught(s)' => F <= 1 + Cost' \/ schedule'[s].state = "gone"
  BY <1>o, <1>le, <1>h
<1> QED BY <1>f, <1>2, <1>3, <1>4, <1>5, <1>7 DEF ServedOnce

\* Steps of the user, the surroundings and the queue of unattended runs.
LEMMA ServedAside ==
    ASSUME Typed, Typed', NEW s \in Schedules, ServedOnce(s),
           \/ UNCHANGED vars \/ Clock \/ Restart \/ Wake \/ WakeNudge \/ Crash \/ TakeBatch
           \/ \E t \in Targets : Change(t)
           \/ \E state \in {"on", "off"} : SetHeartbeat(state)
           \/ \E n \in nudges : Dismiss(n)
           \/ \E i \in Runs : CallModel(i) \/ Skip(i) \/ RunThrows(i) \/ FinishRun(i)
    PROVE  ServedOnce(s)'
<1>0. fired[s] \in Int /\ 2 * fired[s] \in Int /\ Cost \in Int
  BY CostType, FiredType
<1>1. CASE \/ UNCHANGED vars \/ Clock \/ Restart \/ Wake \/ WakeNudge
           \/ \E t \in Targets : Change(t)
           \/ \E state \in {"on", "off"} : SetHeartbeat(state)
           \/ \E n \in nudges : Dismiss(n)
  <2>1. UNCHANGED <<tick, seen, schedule, fired, faults, crashes>>
    BY <1>1 DEF Clock, Restart, Wake, WakeNudge, Edit, Change, SetHeartbeat, Dismiss, vars, daemon, rows, used
  <2>2. Cost' = Cost
    BY <2>1, CostType
  <2> QED BY <2>1, <2>2, <1>0, ServedFrame DEF Serving, Caught
<1>2. CASE Crash
  <2>1. UNCHANGED <<schedule, fired>> /\ Cost' = Cost + 2 /\ tick' = NoTick
    BY <1>2, CostType DEF Crash, rows
  <2>2. ~Serving(s)' /\ ~Caught(s)' /\ tick'.todo = {}
    BY <2>1 DEF Serving, Caught, NoTick
  <2>3. 2 * fired[s] <= Cost'
    BY <2>1, <1>0 DEF ServedOnce
  <2> QED BY <2>1, <2>2, <2>3, <1>0, ServedFrame
<1>3. CASE TakeBatch \/ \E i \in Runs : CallModel(i) \/ Skip(i) \/ RunThrows(i) \/ FinishRun(i)
  <2>1. UNCHANGED <<schedule, fired>> /\ Cost <= Cost'
    <3>1. UNCHANGED <<schedule, fired>> /\ (UNCHANGED used \/ Fail)
      BY <1>3 DEF TakeBatch, CallModel, Skip, RunThrows, FinishRun, rows
    <3> QED BY <1>0, <3>1, CostType DEF used, Fail
  <2>2. ~Serving(s)
    BY <1>3 DEF TakeBatch, CallModel, Skip, RunThrows, FinishRun, At, Serving
  <2>n. NoTick.at = "off" /\ NoTick.todo = {} /\ NoTick \in Ticks
    BY NoneTyped DEF NoTick
  <2> DEFINE Leaves == /\ tick'.at \in {"off", "claim", "call"}
                       /\ tick'.todo \subseteq tick.todo
  <2>3. ASSUME NEW b, tick' = [NoTick EXCEPT !.at = "claim", !.batch = b]
        PROVE  Leaves
    BY <2>3, <2>n DEF Ticks
  <2>6. TickEnds => Leaves
    BY <2>n DEF TickEnds
  <2>7. \A i : CallModel(i) => Leaves
    BY DEF CallModel, TickGoto, Typed, DaemonOK, Ticks
  <2> HIDE DEF Leaves
  <2>8. \A i : NextOfBatch(i) => Leaves
    BY <2>3, <2>6, Zenon DEF NextOfBatch
  <2>9. TakeBatch => Leaves
    BY <2>3, <2>6, Zenon DEF TakeBatch
  <2>10. (\E i \in Runs : Skip(i) \/ RunThrows(i) \/ FinishRun(i)) => Leaves
    BY <2>6, <2>8 DEF Skip, RunThrows, FinishRun
  <2>4. Leaves
    BY <1>3, <2>7, <2>9, <2>10
  <2> USE DEF Leaves
  <2>5. ~Serving(s)' /\ ~Caught(s)'
    BY <2>4 DEF Serving, Caught
  <2> QED BY <2>1, <2>2, <2>4, <2>5, <1>0, ServedFrame
<1> QED BY <1>1, <1>2, <1>3

\* Steps of a tick that serve something else.
LEMMA ServedElse ==
    ASSUME Typed, Typed', NEW s \in Schedules, ServedOnce(s),
           \/ BeginHeartbeat \/ MoveHeartbeat \/ (UpdateFails /\ tick.src # s)
           \/ \E x \in Schedules \ {s} : BeginSchedule(x) \/ MoveSchedule(x) \/ CannotMoveSchedule(x)
           \/ \E m \in Monitors : Look(m) \/ Alarm(m) \/ MoveMonitor(m) \/ CannotMoveMonitor(m)
    PROVE  ServedOnce(s)'
<1>0. fired[s] \in Int /\ Cost \in Int /\ fired \in [Rows -> Nat] /\ s \in Rows
      /\ s \notin Monitors /\ s # "heartbeat" /\ tick \in Ticks
  BY AutomationAssumption, CostType DEF Typed, FiredOK, DaemonOK, Rows
<1>1. ASSUME NEW x \in Sources, x # s, NEW p, NEW saw, Begin(x, p, saw),
             Cost <= Cost', fired'[s] = fired[s]
      PROVE  ServedOnce(s)'
  <2>1. /\ ~Serving(s) /\ schedule' = schedule
        /\ tick' = [tick EXCEPT !.at = p, !.src = x, !.began = now, !.saw = saw, !.todo = @ \ {x}]
    BY <1>1 DEF Begin, At, Serving, rows
  <2>2. ~Serving(s)' /\ ~Caught(s)' /\ tick'.todo \subseteq tick.todo
    BY <1>0, <1>1, <2>1 DEF Serving, Caught, Ticks
  <2> QED BY <1>0, <1>1, <2>1, <2>2, ServedFrame
<1>2. ASSUME NEW x \in Sources, x # s, tick.src = x, ~Serving(s)' ,
             Cost <= Cost', fired'[s] = fired[s], schedule'[s] = schedule[s],
             tick'.todo \subseteq tick.todo
      PROVE  ServedOnce(s)'
  <2>1. ~Serving(s) /\ ~Caught(s)'
    BY <1>2 DEF Serving, Caught
  <2> QED BY <1>0, <1>2, <2>1, ServedFrame
<1>3. NextSource \/ TickEnds => tick'.todo \subseteq tick.todo /\ ~Serving(s)'
  <2>1. NoTick.at = "off" /\ NoTick.todo = {} /\ NoTick \in Ticks
    BY NoneTyped DEF NoTick
  <2>2. NextSource => tick'.at = "next" /\ tick'.todo = tick.todo
    BY <2>1 DEF NextSource, Ticks
  <2>3. TickEnds => tick'.at = "off" /\ tick'.todo = {}
    BY <2>1 DEF TickEnds
  <2> QED BY <2>2, <2>3 DEF Serving
<1>4. ASSUME NEW p, TickGoto(p)
      PROVE  tick'.todo = tick.todo /\ tick'.src = tick.src
  BY <1>0, <1>4 DEF TickGoto, Ticks
<1>u. UNCHANGED used => Cost <= Cost'
  BY <1>0, CostType DEF used
<1>5. \A x, of, saw, p : Announce(x, of, saw, p) => Cost <= Cost'
  <2>1. Fail => Cost <= Cost'
    BY <1>0, CostType DEF Fail
  <2> QED BY <1>u, <2>1 DEF Announce
<1>6. CASE BeginHeartbeat
  <2>1. PICK p, saw : Begin("heartbeat", p, saw)
    BY <1>6 DEF BeginHeartbeat
  <2>2. Cost <= Cost' /\ fired' = fired
    BY <1>6, <1>5, <1>u DEF BeginHeartbeat, used
  <2> QED BY <1>0, <1>1, <2>1, <2>2 DEF Sources
<1>7. CASE MoveHeartbeat
  <2>1. tick.src = "heartbeat" /\ UNCHANGED <<schedule, fired>> /\ Cost <= Cost' /\ NextSource
    BY <1>7, <1>u DEF MoveHeartbeat, Moving
  <2> QED BY <1>0, <1>2, <1>3, <2>1 DEF Sources
<1>8. ASSUME NEW x \in Schedules \ {s},
             BeginSchedule(x) \/ MoveSchedule(x) \/ CannotMoveSchedule(x)
      PROVE  ServedOnce(s)'
  <2>0. x \in Sources /\ x # s /\ x \in Rows
    BY DEF Sources, Rows
  <2>1. CASE BeginSchedule(x)
    <3>1. PICK p : Begin(x, p, "a") /\ Announce(x, seen.schedule[x].cron, "a", p)
      BY <2>1 DEF BeginSchedule
    <3>2. Cost <= Cost'
      BY <1>5, <3>1
    <3>3. fired'[s] = fired[s]
      BY <1>0, <2>0, <2>1 DEF BeginSchedule, Count
    <3> QED BY <1>1, <2>0, <3>1, <3>2, <3>3
  <2>2. CASE MoveSchedule(x)
    <3>1. tick.src = x /\ Cost <= Cost' /\ NextSource
      BY <2>2, <1>u DEF MoveSchedule, Moving
    <3>2. fired'[s] = fired[s]
      BY <1>0, <2>0, <2>2 DEF MoveSchedule
    <3>3. schedule'[s] = schedule[s]
      BY <2>0, <2>2 DEF MoveSchedule, Typed, RowsOK
    <3> QED BY <1>2, <1>3, <2>0, <3>1, <3>2, <3>3
  <2>3. CASE CannotMoveSchedule(x)
    <3>1. tick.src = x /\ UNCHANGED <<fired, schedule>> /\ Cost <= Cost'
      BY <2>3, <1>u DEF CannotMoveSchedule, Moving, rows
    <3>2. (\E p : TickGoto(p)) \/ TickEnds
      BY <2>3 DEF CannotMoveSchedule
    <3>3. tick'.todo \subseteq tick.todo /\ ~Serving(s)'
      BY <1>3, <1>4, <2>0, <3>1, <3>2 DEF Serving
    <3> QED BY <1>2, <2>0, <3>1, <3>3
  <2> QED BY <1>8, <2>1, <2>2, <2>3
<1>9. ASSUME NEW m \in Monitors,
             Look(m) \/ Alarm(m) \/ MoveMonitor(m) \/ CannotMoveMonitor(m)
      PROVE  ServedOnce(s)'
  <2>0. m \in Sources /\ m # s /\ m \in Rows
    BY <1>0 DEF Sources, Rows
  <2>1. CASE Look(m)
    <3>1. PICK p, saw : Begin(m, p, saw)
      BY <2>1 DEF Look
    <3>2. Cost <= Cost' /\ fired'[s] = fired[s]
      BY <1>0, <1>u, <2>0, <2>1 DEF Look, used
    <3> QED BY <1>1, <2>0, <3>1, <3>2
  <2>2. CASE Alarm(m)
    <3>1. PICK p : TickGoto(p) /\ Announce(m, seen.monitor[m].target, tick.saw, p)
      BY <2>2 DEF Alarm
    <3>2. tick.src = m /\ schedule' = schedule /\ Cost <= Cost'
      BY <1>5, <2>2, <3>1 DEF Alarm, rows
    <3>3. fired'[s] = fired[s]
      BY <1>0, <2>0, <2>2 DEF Alarm, Count
    <3>4. tick'.todo \subseteq tick.todo /\ ~Serving(s)'
      BY <1>4, <2>0, <3>1, <3>2 DEF Serving
    <3> QED BY <1>2, <2>0, <3>2, <3>3, <3>4
  <2>3. CASE MoveMonitor(m)
    <3>1. tick.src = m /\ UNCHANGED <<schedule, fired>> /\ Cost <= Cost' /\ NextSource
      BY <2>3, <1>u DEF MoveMonitor, Moving
    <3> QED BY <1>2, <1>3, <2>0, <3>1
  <2>4. CASE CannotMoveMonitor(m)
    <3>1. tick.src = m /\ UNCHANGED <<fired, schedule>> /\ Cost <= Cost'
      BY <2>4, <1>u DEF CannotMoveMonitor, Moving, rows
    <3>2. (\E p : TickGoto(p)) \/ TickEnds
      BY <2>4 DEF CannotMoveMonitor
    <3>3. tick'.todo \subseteq tick.todo /\ ~Serving(s)'
      BY <1>3, <1>4, <2>0, <3>1, <3>2 DEF Serving
    <3> QED BY <1>2, <2>0, <3>1, <3>3
  <2> QED BY <1>9, <2>1, <2>2, <2>3, <2>4
<1>10. CASE UpdateFails /\ tick.src # s
  <2>1. UNCHANGED <<fired, schedule>> /\ Cost <= Cost'
    BY <1>0, <1>10, CostType DEF UpdateFails, Fail, rows
  <2>2. (\E p : TickGoto(p)) \/ TickEnds
    BY <1>10 DEF UpdateFails
  <2>3. tick'.todo \subseteq tick.todo /\ ~Serving(s)'
    BY <1>3, <1>4, <1>10, <2>2 DEF Serving
  <2>4. tick.src \in Sources
    BY <1>0 DEF Ticks
  <2> QED BY <1>2, <1>10, <2>1, <2>3, <2>4
<1> QED BY <1>6, <1>7, <1>8, <1>9, <1>10

\* Steps that serve s, edit it or find it due.
LEMMA ServedSelf ==
    ASSUME Typed, Typed', NEW s \in Schedules, ServedOnce(s),
           \/ BeginSchedule(s) \/ MoveSchedule(s) \/ CannotMoveSchedule(s)
           \/ UpdateFails /\ tick.src = s
    PROVE  ServedOnce(s)'
<1>0. fired[s] \in Nat /\ 2 * fired[s] \in Int /\ Cost \in Int /\ fired \in [Rows -> Nat] /\ s \in Rows
      /\ s \notin Monitors /\ tick \in Ticks /\ schedule \in [Schedules -> ScheduleRows]
  BY AutomationAssumption, CostType, FiredType DEF Typed, FiredOK, DaemonOK, RowsOK, Rows
<1>n. NoTick.at = "off" /\ NoTick.todo = {} /\ NoTick \in Ticks
  BY NoneTyped DEF NoTick
<1>1. CASE BeginSchedule(s)
  <2>1. PICK p \in {"move", "caught"} :
          Begin(s, p, "a") /\ Announce(s, seen.schedule[s].cron, "a", p)
    BY <1>1 DEF BeginSchedule
  <2>2. Cost' = Cost \/ (p = "caught" /\ Cost' = Cost + 1)
    BY <2>1, CostType DEF Announce, used, Fail
  <2>c. p = "move" => Cost' = Cost
    BY <2>1, CostType DEF Announce, used
  <2>d. p = "caught" => Cost' = Cost + 1
    BY <2>1, CostType DEF Announce, Fail
  <2>3. schedule' = schedule /\ seen' = seen /\ s \in tick.todo
    BY <2>1 DEF Begin, Turn, rows
  <2>4. 2 * fired[s] <= Cost /\ schedule[s].state # "absent"
    BY <2>3 DEF ServedOnce
  <2>5. tick' = [tick EXCEPT !.at = p, !.src = s, !.began = now, !.saw = "a", !.todo = @ \ {s}]
    BY <2>1 DEF Begin
  <2>6. Serving(s)' /\ tick'.began = now /\ s \notin tick'.todo /\ tick'.at = p
    BY <1>0, <2>5 DEF Serving, Ticks
  <2>7. fired'[s] \in {fired[s], fired[s] + 1}
    BY <1>0, <1>1 DEF BeginSchedule, Count
  <2>8. NextRuns(seen.schedule[s].cron, now) = {} => fired'[s] = fired[s]
    BY <1>1 DEF BeginSchedule
  <2>9. (NextRuns(seen.schedule[s].cron, tick.began) = {})' <=>
          NextRuns(seen.schedule[s].cron, now) = {}
    BY <2>3, <2>6 DEF NextRuns
  <2>10. 2 * fired'[s] <= 2 * fired[s] + 2
    BY <1>0, <2>7
  <2>11. 2 * fired'[s] <= 2 + Cost /\ 2 * fired'[s] \in Int
    BY <1>0, <2>4, <2>7, <2>10
  <2>12. 2 * fired'[s] <= 2 + Cost'
    BY <1>0, <2>2, <2>11
  <2>13. Caught(s)' => 2 * fired'[s] <= 1 + Cost'
    BY <1>0, <2>6, <2>d, <2>11 DEF Caught
  <2>14. NextRuns(seen.schedule[s].cron, now) = {} => 2 * fired'[s] <= Cost'
    BY <1>0, <2>2, <2>4, <2>8
  <2> QED BY <2>3, <2>4, <2>6, <2>9, <2>12, <2>13, <2>14 DEF ServedOnce
<1>2. CASE MoveSchedule(s)
  <2>1. fired'[s] = 0 /\ Cost' = Cost
    BY <1>0, <1>2, CostType DEF MoveSchedule, used
  <2>0. Cost \in Nat
    BY DEF Cost, Typed, UsedOK
  <2>2. tick' = [NoTick EXCEPT !.at = "next", !.todo = tick.todo]
    BY <1>2 DEF MoveSchedule, NextSource
  <2>3. tick'.at = "next"
    BY <1>n, <2>2 DEF Ticks
  <2>4. schedule'[s].state # "absent"
    BY <1>0, <1>2 DEF MoveSchedule, Exists, ScheduleRows
  <2>5. ~Serving(s)' /\ ~Caught(s)'
    BY <2>3 DEF Serving, Caught
  <2>6. 2 * fired'[s] <= Cost' /\ 2 * fired'[s] <= 2 + Cost'
    BY <2>0, <2>1
  <2> QED BY <2>4, <2>5, <2>6 DEF ServedOnce
<1>3. CASE CannotMoveSchedule(s)
  <2>1. UNCHANGED <<schedule, fired>> /\ Cost' = Cost /\ Serving(s)
    BY <1>3, CostType DEF CannotMoveSchedule, Moving, At, Serving, rows, used
  <2>0. 2 * fired[s] <= Cost \/ schedule[s].state = "gone"
    <3>1. schedule[s].state \in States /\ schedule[s].state # "absent"
      BY <1>0, <2>1 DEF ScheduleRows, ServedOnce
    <3>2. CASE ~Exists(schedule[s])
      BY <3>1, <3>2 DEF Exists, States
    <3>3. CASE Exists(schedule[s])
      <4>1. NextRuns(seen.schedule[s].cron, tick.began) = {}
        BY <1>3, <3>3 DEF CannotMoveSchedule
      <4> QED BY <2>1, <4>1 DEF ServedOnce
    <3> QED BY <3>2, <3>3
  <2>2. CASE At("move")
    <3>1. tick' = [tick EXCEPT !.at = "caught"] /\ seen' = seen
      BY <1>3, <2>2 DEF CannotMoveSchedule, TickGoto
    <3>2. tick'.todo = tick.todo /\ Serving(s)' /\ tick'.began = tick.began
      BY <1>0, <2>1, <3>1 DEF Ticks, Serving
    <3>3. 2 * fired[s] <= 1 + Cost' \/ schedule[s].state = "gone"
      BY <1>0, <2>0, <2>1
    <3> QED BY <1>0, <2>1, <3>1, <3>2, <3>3, ServedFrame
  <2>3. CASE ~At("move")
    <3>1. tick' = NoTick
      BY <1>3, <2>3 DEF CannotMoveSchedule, TickEnds
    <3>2. ~Serving(s)' /\ ~Caught(s)' /\ tick'.todo = {}
      BY <1>n, <3>1 DEF Serving, Caught
    <3> QED BY <1>0, <2>0, <2>1, <3>2, ServedFrame
  <2> QED BY <2>2, <2>3
<1>4. CASE UpdateFails /\ tick.src = s
  <2>1. UNCHANGED <<schedule, fired>> /\ Cost' = Cost + 1 /\ Serving(s)
    BY <1>4, CostType DEF UpdateFails, Fail, At, Serving, rows
  <2>2. CASE At("move")
    <3>1. tick' = [tick EXCEPT !.at = "caught"] /\ seen' = seen
      BY <1>4, <2>2 DEF UpdateFails, TickGoto
    <3>2. tick'.todo = tick.todo /\ Serving(s)' /\ tick'.began = tick.began
      BY <1>0, <2>1, <3>1 DEF Ticks, Serving
    <3>3. 2 * fired[s] <= 2 + Cost
      BY DEF ServedOnce
    <3>4. 2 * fired[s] <= 1 + Cost'
      BY <1>0, <2>1, <3>3
    <3> QED BY <1>0, <2>1, <3>1, <3>2, <3>4, ServedFrame
  <2>3. CASE ~At("move")
    <3>1. tick' = NoTick /\ Caught(s)
      BY <1>4, <2>3 DEF UpdateFails, TickEnds, At, Caught
    <3>2. ~Serving(s)' /\ ~Caught(s)' /\ tick'.todo = {}
      BY <1>n, <3>1 DEF Serving, Caught
    <3>3. 2 * fired[s] <= 1 + Cost \/ schedule[s].state = "gone"
      BY <3>1 DEF ServedOnce
    <3>4. 2 * fired[s] <= Cost' \/ schedule[s].state = "gone"
      BY <1>0, <2>1, <3>3
    <3> QED BY <1>0, <2>1, <3>2, <3>4, ServedFrame
  <2> QED BY <2>2, <2>3
<1> QED BY <1>1, <1>2, <1>3, <1>4

LEMMA ServedDue ==
    ASSUME Typed, Typed', NEW s \in Schedules, ServedOnce(s), TickBegin
    PROVE  ServedOnce(s)'
<1>1. ~Serving(s) /\ UNCHANGED <<schedule, fired>> /\ Cost' = Cost
  BY CostType DEF TickBegin, At, Serving, rows, used
<1>2. tick'.at = "next" /\ (s \in tick'.todo => s \in DueSchedules)
  <2>1. NoTick \in Ticks
    BY NoneTyped
  <2>2. s \notin DueHeartbeat /\ s \notin DueMonitors
    BY AutomationAssumption DEF DueHeartbeat, DueMonitors, Rows
  <2> QED BY <2>1, <2>2 DEF TickBegin, Ticks
<1>3. s \in DueSchedules => schedule[s].state = "on"
  BY DEF DueSchedules
<1>4. ~Serving(s)' /\ ~Caught(s)'
  BY <1>2 DEF Serving, Caught
<1> QED BY <1>1, <1>2, <1>3, <1>4 DEF ServedOnce

LEMMA ServedEdited ==
    ASSUME Typed, Typed', NEW s \in Schedules, ServedOnce(s), NEW x \in Schedules, NEW c \in Crons,
           CreateSchedule(x, c) \/ EnableSchedule(x, c) \/ PauseSchedule(x, c) \/ DeleteSchedule(x)
    PROVE  ServedOnce(s)'
<1>0. fired[s] \in Nat /\ Cost \in Nat /\ fired \in [Rows -> Nat] /\ s \in Rows /\ x \in Rows
      /\ schedule \in [Schedules -> ScheduleRows]
  BY DEF Typed, FiredOK, UsedOK, RowsOK, Rows, Cost
<1>1. UNCHANGED <<tick, seen>> /\ Cost' = Cost
  BY CostType DEF CreateSchedule, EnableSchedule, PauseSchedule, DeleteSchedule, Edit, daemon
<1>4. (Serving(s)' <=> Serving(s)) /\ (Caught(s)' <=> Caught(s))
      /\ ((NextRuns(seen.schedule[s].cron, tick.began) = {})' <=>
            NextRuns(seen.schedule[s].cron, tick.began) = {})
  BY <1>1 DEF Serving, Caught, NextRuns
<1>2. CASE x # s
  <2>1. schedule'[s] = schedule[s] /\ fired'[s] = fired[s]
    BY <1>0, <1>2 DEF CreateSchedule, EnableSchedule, PauseSchedule, DeleteSchedule
  <2> QED BY <1>0, <1>1, <2>1, ServedFrame DEF Serving, Caught
<1>3. CASE x = s
  <2>1. CASE CreateSchedule(s, c)
    <3>1. schedule[s].state = "absent" /\ fired' = fired /\ schedule'[s].state = "on"
      BY <1>0, <2>1 DEF CreateSchedule
    <3>2. ~Serving(s) /\ s \notin tick.todo /\ 2 * fired[s] <= Cost /\ 2 * fired[s] <= 2 + Cost
      BY <3>1 DEF ServedOnce
    <3>3. ~Caught(s)
      BY <3>2 DEF Serving, Caught
    <3> QED BY <1>1, <1>4, <3>1, <3>2, <3>3 DEF ServedOnce
  <2>2. CASE EnableSchedule(s, c)
    <3>1. fired'[s] = 0 /\ schedule'[s].state = "on"
      BY <1>0, <2>2 DEF EnableSchedule
    <3>2. 2 * fired'[s] <= Cost' /\ 2 * fired'[s] <= 1 + Cost' /\ 2 * fired'[s] <= 2 + Cost'
      BY <1>0, <1>1, <3>1
    <3> QED BY <3>1, <3>2 DEF ServedOnce
  <2>3. CASE PauseSchedule(s, c) \/ DeleteSchedule(s)
    <3>1. fired' = fired /\ schedule'[s].state \in {"off", "gone"} /\ schedule[s].state # "gone"
      BY <1>0, <2>3 DEF PauseSchedule, DeleteSchedule, Exists, ScheduleRows
    <3>2. /\ 2 * fired[s] <= 2 + Cost
          /\ s \in tick.todo => 2 * fired[s] <= Cost
          /\ Serving(s) /\ NextRuns(seen.schedule[s].cron, tick.began) = {} => 2 * fired[s] <= Cost
          /\ Caught(s) => 2 * fired[s] <= 1 + Cost
          /\ ~Serving(s) => 2 * fired[s] <= Cost
      BY <3>1 DEF ServedOnce
    <3> QED BY <1>1, <1>4, <3>1, <3>2 DEF ServedOnce
  <2> QED BY <1>3, <2>1, <2>2, <2>3
<1> QED BY <1>2, <1>3

LEMMA ServedMonitorEdited ==
    ASSUME Typed, Typed', NEW s \in Schedules, ServedOnce(s),
           NEW m \in Monitors, NEW t \in Targets, NEW mode \in Modes,
           \/ CreateMonitor(m, t, mode) \/ EnableMonitor(m, t, mode)
           \/ PauseMonitor(m, t, mode)  \/ DeleteMonitor(m)
    PROVE  ServedOnce(s)'
<1>1. UNCHANGED <<tick, seen, schedule>> /\ Cost' = Cost /\ Cost \in Int
  BY CostType DEF CreateMonitor, EnableMonitor, PauseMonitor, DeleteMonitor, Edit, daemon
<1>2. fired'[s] = fired[s]
  BY AutomationAssumption DEF CreateMonitor, EnableMonitor, PauseMonitor, DeleteMonitor, Typed, FiredOK, Rows
<1> QED BY <1>1, <1>2, ServedFrame DEF Serving, Caught

\* For every set of schedules: a due time is delivered once, and once more for each crash
\* and for each two failed writes at the most; a single write that fails in the middle of
\* an iteration, or what the user edits meanwhile, does not deliver it again.
THEOREM DueDeliveredOnce == Spec => []OncePerDue
<1> DEFINE Inv == Typed /\ \A s \in Schedules : ServedOnce(s)
<1>1. Init => Inv
  <2> SUFFICES ASSUME Init PROVE Inv
    OBVIOUS
  <2>1. ASSUME NEW s \in Schedules PROVE ServedOnce(s)
    <3>1. fired[s] = 0 /\ Cost = 0
      BY DEF Init, Rows, Cost
    <3>2. tick.at = "off" /\ tick.todo = {}
      BY DEF Init, NoTick
    <3> QED BY <3>1, <3>2 DEF ServedOnce, Serving, Caught
  <2> QED BY <2>1, TypedInit
<1>2. Inv /\ [Next]_vars => Inv'
  <2> SUFFICES ASSUME Inv, [Next]_vars PROVE Inv'
    OBVIOUS
  <2>1. Typed'
    BY TypedNext
  <2>2. ASSUME NEW s \in Schedules PROVE ServedOnce(s)'
    <3>0. ServedOnce(s)
      OBVIOUS
    <3>1. CASE TickStep
      <4>1. CASE TickBegin
        BY <2>1, <3>0, <4>1, ServedDue
      <4>2. CASE \/ BeginHeartbeat \/ MoveHeartbeat
                 \/ \E x \in Schedules \ {s} :
                       BeginSchedule(x) \/ MoveSchedule(x) \/ CannotMoveSchedule(x)
                 \/ \E m \in Monitors : Look(m) \/ Alarm(m) \/ MoveMonitor(m) \/ CannotMoveMonitor(m)
        BY <2>1, <3>0, <4>2, ServedElse
      <4>3. CASE BeginSchedule(s) \/ MoveSchedule(s) \/ CannotMoveSchedule(s)
        BY <2>1, <3>0, <4>3, ServedSelf
      <4>4. CASE TakeBatch \/ \E i \in Runs : CallModel(i) \/ Skip(i) \/ FinishRun(i)
        BY <2>1, <3>0, <4>4, ServedAside
      <4> QED BY <3>1, <4>1, <4>2, <4>3, <4>4 DEF TickStep
    <3>2. CASE User
      <4>0. PICK c \in Crons, t \in Targets, mode \in Modes : TRUE
        BY AutomationAssumption
      <4>1. ASSUME NEW x \in Schedules, NEW k \in Crons,
                   CreateSchedule(x, k) \/ EnableSchedule(x, k) \/ PauseSchedule(x, k) \/ DeleteSchedule(x)
            PROVE  ServedOnce(s)'
        BY <2>1, <3>0, <4>1, ServedEdited
      <4>2. ASSUME NEW m \in Monitors, NEW u \in Targets, NEW rule \in Modes,
                   \/ CreateMonitor(m, u, rule) \/ EnableMonitor(m, u, rule)
                   \/ PauseMonitor(m, u, rule)  \/ DeleteMonitor(m)
            PROVE  ServedOnce(s)'
        BY <2>1, <3>0, <4>2, ServedMonitorEdited
      <4>3. CASE Wake \/ WakeNudge \/ (\E n \in nudges : Dismiss(n))
                 \/ (\E state \in {"on", "off"} : SetHeartbeat(state))
        BY <2>1, <3>0, <4>3, ServedAside
      <4> QED BY <3>2, <4>0, <4>1, <4>2, <4>3 DEF User
    <3>3. CASE ~TickStep /\ ~User
      BY <2>1, <3>0, <3>3, ServedAside, ServedElse, ServedSelf DEF Next
    <3> QED BY <3>1, <3>2, <3>3
  <2> QED BY <2>1, <2>2
<1>3. Inv => OncePerDue
  <2> SUFFICES ASSUME Inv, NEW s \in Schedules PROVE 2 * fired[s] <= 2 + 2 * crashes + faults
    BY DEF OncePerDue
  <2>1. 2 * fired[s] <= 2 + Cost
    BY DEF ServedOnce
  <2> QED BY <2>1, CostType, FiredType DEF Cost
<1> QED BY <1>1, <1>2, <1>3, PTL DEF Spec

-----------------------------------------------------------------------------
(* One alarm for a condition *)

\* The row keeps that its condition was announced.
Remembers(row) ==
    \/ row.mode = "contains" /\ row.status = "match"
    \/ row.mode = "missing"  /\ row.status = "missing"

\* No look is to come until the user switches the monitor on.
Idle(m) == monitor[m].state \in {"off", "gone"}

SameRule(m) == Idle(m) \/ monitor[m].mode = seen.monitor[m].mode

Upsets == faults + crashes

\* What was announced for a lasting condition is remembered by the row, or is about
\* to be written into it, unless a crash or a failed write accounts for it.
AnnouncedOnce(m) ==
    /\ fired[m] <= 1 + Upsets
    /\ monitor[m].state = "absent" => fired[m] <= Upsets /\ ~Serving(m) /\ m \notin tick.todo
    /\ m \in tick.todo =>
          ~Serving(m) /\ (fired[m] <= Upsets \/ (Remembers(seen.monitor[m]) /\ SameRule(m)))
    /\ ~Serving(m) => fired[m] <= Upsets \/ Idle(m) \/ Remembers(monitor[m])
    /\ Serving(m) /\ tick.at = "announce" =>
          fired[m] <= Upsets /\ (seen.monitor[m].mode # "changed" => Holds(m, tick.saw))
    /\ Serving(m) /\ tick.at = "move" => fired[m] <= Upsets \/ (Holds(m, tick.saw) /\ SameRule(m))
    /\ Serving(m) /\ tick.at = "caught" => fired[m] <= Upsets \/ monitor[m].state = "gone"

\* Few enough announcements need nothing else.
LEMMA AnnouncedFew ==
    ASSUME Typed', NEW m \in Monitors, fired'[m] <= faults' + crashes',
           monitor'[m].state = "absent" => ~Serving(m)' /\ m \notin tick'.todo,
           m \in tick'.todo => ~Serving(m)',
           (Serving(m) /\ tick.at = "announce" /\ seen.monitor[m].mode # "changed" => Holds(m, tick.saw))'
    PROVE  AnnouncedOnce(m)'
<1>1. fired'[m] \in Int /\ faults' \in Int /\ crashes' \in Int
  BY DEF Typed, FiredOK, UsedOK, Rows
<1> QED BY <1>1 DEF AnnouncedOnce, Upsets

\* Steps that leave the row, its history and its place in the tick alone.
LEMMA AnnouncedFrame ==
    ASSUME Typed, Typed', NEW m \in Monitors, AnnouncedOnce(m),
           fired'[m] = fired[m], faults <= faults', crashes <= crashes', monitor'[m] = monitor[m],
           \/ tick' = tick /\ seen' = seen
           \/ ~Serving(m) /\ ~Serving(m)' /\ tick'.todo \subseteq tick.todo
              /\ (tick'.todo = {} \/ seen' = seen)
    PROVE  AnnouncedOnce(m)'
<1>0. fired[m] \in Int /\ faults \in Int /\ crashes \in Int /\ faults' \in Int /\ crashes' \in Int
  BY DEF Typed, FiredOK, UsedOK, Rows
<1>1. fired[m] <= Upsets => fired'[m] <= Upsets'
  BY <1>0 DEF Upsets
<1>2. fired'[m] <= 1 + Upsets'
  BY <1>0 DEF Upsets, AnnouncedOnce
<1>3. Remembers(monitor[m])' <=> Remembers(monitor[m])
  BY DEF Remembers
<1>4. Idle(m)' <=> Idle(m)
  BY DEF Idle
<1>5. CASE tick' = tick /\ seen' = seen
  <2>1. /\ Serving(m)' <=> Serving(m)
        /\ SameRule(m)' <=> SameRule(m)
        /\ Remembers(seen.monitor[m])' <=> Remembers(seen.monitor[m])
        /\ Holds(m, tick.saw)' <=> Holds(m, tick.saw)
    BY <1>4, <1>5 DEF Serving, SameRule, Remembers, Holds
  <2> QED BY <1>1, <1>2, <1>3, <1>4, <1>5, <2>1 DEF AnnouncedOnce
<1>6. CASE ~Serving(m) /\ ~Serving(m)' /\ tick'.todo \subseteq tick.todo
           /\ (tick'.todo = {} \/ seen' = seen)
  <2>1. m \in tick'.todo => fired'[m] <= Upsets' \/ (Remembers(seen.monitor[m]) /\ SameRule(m))'
    <3>1. seen' = seen => (SameRule(m)' <=> SameRule(m))
                          /\ (Remembers(seen.monitor[m])' <=> Remembers(seen.monitor[m]))
      BY <1>4 DEF SameRule, Remembers
    <3> QED BY <1>1, <1>6, <3>1 DEF AnnouncedOnce
  <2> QED BY <1>1, <1>2, <1>3, <1>4, <1>6, <2>1 DEF AnnouncedOnce
<1> QED BY <1>5, <1>6

LEMMA AnnouncedAside ==
    ASSUME Typed, Typed', NEW m \in Monitors, AnnouncedOnce(m),
           \/ UNCHANGED vars \/ Clock \/ Restart \/ Wake \/ WakeNudge \/ Crash \/ TakeBatch
           \/ \E t \in Targets : Change(t)
           \/ \E state \in {"on", "off"} : SetHeartbeat(state)
           \/ \E n \in nudges : Dismiss(n)
           \/ \E i \in Runs : CallModel(i) \/ Skip(i) \/ RunThrows(i) \/ FinishRun(i)
    PROVE  AnnouncedOnce(m)'
<1>0. fired[m] \in Int /\ faults \in Int /\ crashes \in Int
  BY DEF Typed, FiredOK, UsedOK, Rows
<1>n. NoTick.at = "off" /\ NoTick.todo = {} /\ NoTick \in Ticks
  BY NoneTyped DEF NoTick
<1>1. CASE \/ UNCHANGED vars \/ Clock \/ Restart \/ Wake \/ WakeNudge
           \/ \E t \in Targets : Change(t)
           \/ \E state \in {"on", "off"} : SetHeartbeat(state)
           \/ \E n \in nudges : Dismiss(n)
  <2>1. UNCHANGED <<tick, seen, monitor, fired, faults, crashes>>
    BY <1>1 DEF Clock, Restart, Wake, WakeNudge, Edit, Change, SetHeartbeat, Dismiss, vars, daemon, rows, used
  <2> QED BY <2>1, <1>0, AnnouncedFrame
<1>2. CASE Crash
  <2>1. UNCHANGED <<monitor, fired, faults>> /\ crashes' = crashes + 1 /\ tick' = NoTick
    BY <1>2 DEF Crash, rows
  <2>2. ~Serving(m)' /\ tick'.todo = {}
    BY <2>1, <1>n DEF Serving
  <2>3. fired'[m] <= faults' + crashes'
    BY <2>1, <1>0 DEF AnnouncedOnce, Upsets
  <2> QED BY <2>2, <2>3, AnnouncedFew
<1>3. CASE TakeBatch \/ \E i \in Runs : CallModel(i) \/ Skip(i) \/ RunThrows(i) \/ FinishRun(i)
  <2>1. UNCHANGED <<monitor, fired, crashes>> /\ faults <= faults'
    <3>1. Fail => faults' = faults + 1 /\ crashes' = crashes
      BY DEF Fail
    <3> QED BY <1>0, <1>3, <3>1 DEF TakeBatch, CallModel, Skip, RunThrows, FinishRun, rows, used
  <2>2. ~Serving(m)
    BY <1>3 DEF TakeBatch, CallModel, Skip, RunThrows, FinishRun, At, Serving
  <2> DEFINE Leaves == /\ tick'.at \in {"off", "claim", "call"}
                       /\ tick'.todo \subseteq tick.todo
                       /\ tick'.todo = {} \/ seen' = seen
  <2>3. ASSUME NEW b, tick' = [NoTick EXCEPT !.at = "claim", !.batch = b]
        PROVE  Leaves
    BY <2>3, <1>n DEF Ticks
  <2>6. TickEnds => Leaves
    BY <1>n DEF TickEnds
  <2>7. \A i : CallModel(i) => Leaves
    BY DEF CallModel, TickGoto, Typed, DaemonOK, Ticks
  <2> HIDE DEF Leaves
  <2>8. \A i : NextOfBatch(i) => Leaves
    BY <2>3, <2>6, Zenon DEF NextOfBatch
  <2>9. TakeBatch => Leaves
    BY <2>3, <2>6, Zenon DEF TakeBatch
  <2>10. (\E i \in Runs : Skip(i) \/ RunThrows(i) \/ FinishRun(i)) => Leaves
    BY <2>6, <2>8 DEF Skip, RunThrows, FinishRun
  <2>4. Leaves
    BY <1>3, <2>7, <2>9, <2>10
  <2> USE DEF Leaves
  <2>5. ~Serving(m)'
    BY <2>4 DEF Serving
  <2> QED BY <2>1, <2>2, <2>4, <2>5, <1>0, AnnouncedFrame
<1> QED BY <1>1, <1>2, <1>3

LEMMA AnnouncedElse ==
    ASSUME Typed, Typed', NEW m \in Monitors, AnnouncedOnce(m),
           \/ BeginHeartbeat \/ MoveHeartbeat \/ (UpdateFails /\ tick.src # m)
           \/ \E s \in Schedules : BeginSchedule(s) \/ MoveSchedule(s) \/ CannotMoveSchedule(s)
           \/ \E x \in Monitors \ {m} : Look(x) \/ Alarm(x) \/ MoveMonitor(x) \/ CannotMoveMonitor(x)
    PROVE  AnnouncedOnce(m)'
<1>0. fired[m] \in Int /\ crashes \in Int /\ faults \in Int /\ fired \in [Rows -> Nat] /\ m \in Rows
      /\ m \notin Schedules /\ m # "heartbeat" /\ tick \in Ticks /\ monitor \in [Monitors -> MonitorRows]
  BY AutomationAssumption DEF Typed, FiredOK, UsedOK, DaemonOK, RowsOK, Rows
<1>n. NoTick.at = "off" /\ NoTick.todo = {} /\ NoTick \in Ticks
  BY NoneTyped DEF NoTick
<1>1. ASSUME NEW x \in Sources, x # m, NEW p, NEW saw, Begin(x, p, saw),
             crashes' = crashes, faults <= faults', fired'[m] = fired[m]
      PROVE  AnnouncedOnce(m)'
  <2>1. /\ ~Serving(m) /\ monitor' = monitor /\ seen' = seen
        /\ tick' = [tick EXCEPT !.at = p, !.src = x, !.began = now, !.saw = saw, !.todo = @ \ {x}]
    BY <1>1 DEF Begin, At, Serving, rows
  <2>2. ~Serving(m)' /\ tick'.todo \subseteq tick.todo
    BY <1>0, <1>1, <2>1 DEF Serving, Ticks
  <2> QED BY <1>0, <1>1, <2>1, <2>2, AnnouncedFrame
<1>2. ASSUME NEW x \in Sources, x # m, tick.src = x, ~Serving(m)',
             crashes' = crashes, faults <= faults', fired'[m] = fired[m], monitor'[m] = monitor[m],
             tick'.todo \subseteq tick.todo, tick'.todo = {} \/ seen' = seen
      PROVE  AnnouncedOnce(m)'
  <2>1. ~Serving(m)
    BY <1>2 DEF Serving
  <2> QED BY <1>0, <1>2, <2>1, AnnouncedFrame
<1>3. NextSource \/ TickEnds =>
        tick'.todo \subseteq tick.todo /\ ~Serving(m)' /\ (tick'.todo = {} \/ seen' = seen)
  <2>2. NextSource => tick'.at = "next" /\ tick'.todo = tick.todo /\ seen' = seen
    BY <1>n DEF NextSource, Ticks
  <2>3. TickEnds => tick'.at = "off" /\ tick'.todo = {}
    BY <1>n DEF TickEnds
  <2> QED BY <2>2, <2>3 DEF Serving
<1>4. ASSUME NEW p, TickGoto(p)
      PROVE  tick'.todo = tick.todo /\ tick'.src = tick.src /\ seen' = seen
  BY <1>0, <1>4 DEF TickGoto, Ticks
<1>5. \A x, of, saw, p : Announce(x, of, saw, p) => crashes' = crashes /\ faults <= faults'
  BY <1>0 DEF Announce, used, Fail
<1>6. CASE BeginHeartbeat
  <2>1. PICK p, saw : Begin("heartbeat", p, saw)
    BY <1>6 DEF BeginHeartbeat
  <2>2. crashes' = crashes /\ faults <= faults' /\ fired' = fired
    BY <1>0, <1>6, <1>5 DEF BeginHeartbeat, used
  <2> QED BY <1>0, <1>1, <2>1, <2>2 DEF Sources
<1>7. CASE MoveHeartbeat
  <2>1. tick.src = "heartbeat" /\ UNCHANGED <<monitor, fired, faults, crashes>> /\ NextSource
    BY <1>7 DEF MoveHeartbeat, Moving, used
  <2> QED BY <1>0, <1>2, <1>3, <2>1 DEF Sources
<1>8. ASSUME NEW s \in Schedules,
             BeginSchedule(s) \/ MoveSchedule(s) \/ CannotMoveSchedule(s)
      PROVE  AnnouncedOnce(m)'
  <2>0. s \in Sources /\ s # m /\ s \in Rows
    BY <1>0 DEF Sources, Rows
  <2>1. CASE BeginSchedule(s)
    <3>1. PICK p : Begin(s, p, "a") /\ Announce(s, seen.schedule[s].cron, "a", p)
      BY <2>1 DEF BeginSchedule
    <3>2. crashes' = crashes /\ faults <= faults'
      BY <1>5, <3>1
    <3>3. fired'[m] = fired[m]
      BY <1>0, <2>0, <2>1 DEF BeginSchedule, Count
    <3> QED BY <1>1, <2>0, <3>1, <3>2, <3>3
  <2>2. CASE MoveSchedule(s)
    <3>1. tick.src = s /\ UNCHANGED <<monitor, faults, crashes>> /\ NextSource
      BY <2>2 DEF MoveSchedule, Moving, used
    <3>2. fired'[m] = fired[m]
      BY <1>0, <2>0, <2>2 DEF MoveSchedule
    <3> QED BY <1>0, <1>2, <1>3, <2>0, <3>1, <3>2
  <2>3. CASE CannotMoveSchedule(s)
    <3>1. tick.src = s /\ UNCHANGED <<crashes, faults, fired, monitor>>
      BY <2>3 DEF CannotMoveSchedule, Moving, used, rows
    <3>2. (\E p : TickGoto(p)) \/ TickEnds
      BY <2>3 DEF CannotMoveSchedule
    <3>3. tick'.todo \subseteq tick.todo /\ ~Serving(m)' /\ (tick'.todo = {} \/ seen' = seen)
      BY <1>3, <1>4, <2>0, <3>1, <3>2 DEF Serving
    <3> QED BY <1>0, <1>2, <2>0, <3>1, <3>3
  <2> QED BY <1>8, <2>1, <2>2, <2>3
<1>9. ASSUME NEW x \in Monitors \ {m},
             Look(x) \/ Alarm(x) \/ MoveMonitor(x) \/ CannotMoveMonitor(x)
      PROVE  AnnouncedOnce(m)'
  <2>0. x \in Sources /\ x # m /\ x \in Rows
    BY DEF Sources, Rows
  <2>1. CASE Look(x)
    <3>1. PICK p, saw : Begin(x, p, saw)
      BY <2>1 DEF Look
    <3>2. UNCHANGED <<crashes, faults>> /\ fired'[m] = fired[m]
      BY <1>0, <2>0, <2>1 DEF Look, used
    <3> QED BY <1>0, <1>1, <2>0, <3>1, <3>2
  <2>2. CASE Alarm(x)
    <3>1. PICK p : TickGoto(p) /\ Announce(x, seen.monitor[x].target, tick.saw, p)
      BY <2>2 DEF Alarm
    <3>2. tick.src = x /\ monitor' = monitor /\ crashes' = crashes /\ faults <= faults'
      BY <1>5, <2>2, <3>1 DEF Alarm, rows
    <3>3. fired'[m] = fired[m]
      BY <1>0, <2>0, <2>2 DEF Alarm, Count
    <3>4. tick'.todo \subseteq tick.todo /\ ~Serving(m)' /\ seen' = seen
      BY <1>4, <2>0, <3>1, <3>2 DEF Serving
    <3> QED BY <1>2, <2>0, <3>2, <3>3, <3>4
  <2>3. CASE MoveMonitor(x)
    <3>1. tick.src = x /\ UNCHANGED <<fired, faults, crashes>> /\ NextSource
      BY <2>3 DEF MoveMonitor, Moving, used
    <3>2. monitor'[m] = monitor[m]
      BY <1>0, <2>0, <2>3 DEF MoveMonitor
    <3> QED BY <1>0, <1>2, <1>3, <2>0, <3>1, <3>2
  <2>4. CASE CannotMoveMonitor(x)
    <3>1. tick.src = x /\ UNCHANGED <<crashes, faults, fired, monitor>>
      BY <2>4 DEF CannotMoveMonitor, Moving, used, rows
    <3>2. (\E p : TickGoto(p)) \/ TickEnds
      BY <2>4 DEF CannotMoveMonitor
    <3>3. tick'.todo \subseteq tick.todo /\ ~Serving(m)' /\ (tick'.todo = {} \/ seen' = seen)
      BY <1>3, <1>4, <2>0, <3>1, <3>2 DEF Serving
    <3> QED BY <1>0, <1>2, <2>0, <3>1, <3>3
  <2> QED BY <1>9, <2>1, <2>2, <2>3, <2>4
<1>10. CASE UpdateFails /\ tick.src # m
  <2>1. UNCHANGED <<fired, monitor, crashes>> /\ faults <= faults'
    BY <1>0, <1>10 DEF UpdateFails, Fail, rows
  <2>2. (\E p : TickGoto(p)) \/ TickEnds
    BY <1>10 DEF UpdateFails
  <2>3. tick'.todo \subseteq tick.todo /\ ~Serving(m)' /\ (tick'.todo = {} \/ seen' = seen)
    BY <1>3, <1>4, <1>10, <2>2 DEF Serving
  <2>4. tick.src \in Sources
    BY <1>0 DEF Ticks
  <2> QED BY <1>0, <1>2, <1>10, <2>1, <2>3, <2>4
<1> QED BY <1>6, <1>7, <1>8, <1>9, <1>10

LEMMA AnnouncedDue ==
    ASSUME Typed, Typed', NEW m \in Monitors, AnnouncedOnce(m), TickBegin
    PROVE  AnnouncedOnce(m)'
<1>1. ~Serving(m) /\ UNCHANGED <<monitor, fired, faults, crashes>>
  BY DEF TickBegin, At, Serving, rows, used
<1>2. tick'.at = "next" /\ (m \in tick'.todo => m \in DueMonitors)
  <2>1. NoTick \in Ticks
    BY NoneTyped
  <2>2. m \notin DueHeartbeat /\ m \notin DueSchedules
    BY AutomationAssumption DEF DueHeartbeat, DueSchedules, Rows
  <2> QED BY <2>1, <2>2 DEF TickBegin, Ticks
<1>3. ~Serving(m)' /\ (Idle(m)' <=> Idle(m)) /\ Upsets' = Upsets
      /\ (Remembers(monitor[m])' <=> Remembers(monitor[m]))
  BY <1>1, <1>2 DEF Serving, Idle, Upsets, Remembers
<1>4. ASSUME m \in DueMonitors
      PROVE  monitor[m].state = "on" /\ seen'.monitor[m] = monitor[m]
  BY <1>4 DEF DueMonitors, TickBegin
<1>5. m \in tick'.todo => fired'[m] <= Upsets' \/ (Remembers(seen.monitor[m]) /\ SameRule(m))'
  <2> SUFFICES ASSUME m \in tick'.todo
               PROVE  fired'[m] <= Upsets' \/ (Remembers(seen.monitor[m]) /\ SameRule(m))'
    OBVIOUS
  <2>1. monitor[m].state = "on" /\ seen'.monitor[m] = monitor[m]
    BY <1>2, <1>4
  <2>2. SameRule(m)'
    BY <1>1, <2>1 DEF SameRule
  <2>3. fired[m] <= Upsets \/ Remembers(monitor[m])
    BY <1>1, <2>1 DEF AnnouncedOnce, Idle
  <2> QED BY <1>1, <1>3, <2>1, <2>2, <2>3 DEF Remembers
<1>6. monitor'[m].state = "absent" => m \notin tick'.todo
  BY <1>1, <1>2, <1>4
<1> QED BY <1>1, <1>3, <1>5, <1>6 DEF AnnouncedOnce

LEMMA AnnouncedLook ==
    ASSUME Typed, Typed', NEW m \in Monitors, AnnouncedOnce(m), Look(m)
    PROVE  AnnouncedOnce(m)'
<1> DEFINE saw == world[seen.monitor[m].target]
           p == IF saw = "denied" THEN "caught"
                ELSE IF Triggered(m, saw) THEN "announce" ELSE "move"
<1>0. fired[m] \in Nat /\ crashes \in Nat /\ faults \in Nat /\ m \in Rows /\ tick \in Ticks
      /\ fired \in [Rows -> Nat] /\ seen.monitor[m] \in MonitorRows
  BY AutomationAssumption DEF Typed, FiredOK, UsedOK, DaemonOK, Rows
<1>1. /\ m \in tick.todo /\ UNCHANGED <<monitor, seen, faults, crashes>>
      /\ tick' = [tick EXCEPT !.at = p, !.src = m, !.began = now, !.saw = saw, !.todo = @ \ {m}]
      /\ fired' = IF Holds(m, saw) THEN fired ELSE [fired EXCEPT ![m] = 0]
  BY DEF Look, Begin, Turn, rows, used
<1>2. Triggered(m, saw) /\ seen.monitor[m].mode # "changed" => Holds(m, saw) /\ ~Remembers(seen.monitor[m])
  BY <1>0 DEF Triggered, Holds, Remembers
<1>3. Holds(m, saw) => saw # "denied"
  BY DEF Holds
<1>4. p = "announce" => Triggered(m, saw)
  OBVIOUS
<1>5. p \in {"announce", "move", "caught"} /\ (p = "caught" => saw = "denied")
  OBVIOUS
<1> HIDE DEF saw, p
<1>6. tick'.at = p /\ tick'.src = m /\ tick'.saw = saw /\ m \notin tick'.todo /\ Serving(m)'
  BY <1>0, <1>1, <1>5 DEF Ticks, Serving
<1>7. monitor'[m].state # "absent"
  BY <1>1 DEF AnnouncedOnce
<1>8. Holds(m, tick.saw)' <=> Holds(m, saw)
  BY <1>1, <1>6 DEF Holds
<1>9. CASE fired'[m] <= faults' + crashes'
  <2>1. (Serving(m) /\ tick.at = "announce" /\ seen.monitor[m].mode # "changed" => Holds(m, tick.saw))'
    BY <1>1, <1>2, <1>4, <1>6, <1>8
  <2> QED BY <1>6, <1>7, <1>9, <2>1, AnnouncedFew
<1>10. CASE ~(fired'[m] <= faults' + crashes')
  <2>1. Holds(m, saw) /\ fired' = fired
    BY <1>0, <1>1, <1>10
  <2>2. Remembers(seen.monitor[m]) /\ SameRule(m)
    BY <1>1, <1>10, <2>1 DEF AnnouncedOnce, Upsets
  <2>3. p = "move"
    BY <1>2, <1>3, <1>4, <1>5, <2>1, <2>2 DEF Remembers
  <2>4. SameRule(m)'
    BY <1>1, <2>2 DEF SameRule, Idle
  <2>5. fired'[m] <= 1 + Upsets'
    BY <1>1, <2>1 DEF AnnouncedOnce, Upsets
  <2> QED BY <1>6, <1>7, <1>8, <2>1, <2>3, <2>4, <2>5 DEF AnnouncedOnce
<1> QED BY <1>9, <1>10

LEMMA AnnouncedAlarm ==
    ASSUME Typed, Typed', NEW m \in Monitors, AnnouncedOnce(m), Alarm(m)
    PROVE  AnnouncedOnce(m)'
<1>0. fired[m] \in Nat /\ crashes \in Nat /\ faults \in Nat /\ m \in Rows /\ tick \in Ticks
      /\ fired \in [Rows -> Nat]
  BY AutomationAssumption DEF Typed, FiredOK, UsedOK, DaemonOK, Rows
<1>1. PICK p \in {"move", "caught"} :
        TickGoto(p) /\ Announce(m, seen.monitor[m].target, tick.saw, p)
  BY DEF Alarm
<1>2. tick' = [tick EXCEPT !.at = p] /\ seen' = seen /\ monitor' = monitor
  BY <1>1 DEF Alarm, TickGoto, rows
<1>3. crashes' = crashes /\ faults' = IF p = "caught" THEN faults + 1 ELSE faults
  BY <1>1 DEF Announce, Fail, used
<1>4. Serving(m) /\ tick.at = "announce"
  BY DEF Alarm, At, Serving
<1>5. fired[m] <= faults + crashes /\ m \notin tick.todo /\ monitor[m].state # "absent"
      /\ (seen.monitor[m].mode # "changed" => Holds(m, tick.saw))
  BY <1>4 DEF AnnouncedOnce, Upsets
<1>6. tick'.at = p /\ tick'.src = m /\ m \notin tick'.todo /\ tick'.saw = tick.saw
  BY <1>0, <1>2, <1>4, <1>5 DEF Ticks, Serving
<1>7. CASE Announcing(m) /\ p = "move"
  <2>1. fired'[m] <= fired[m] + 1
    BY <1>0, <1>7 DEF Alarm, Count
  <2>2. fired'[m] <= 1 + Upsets'
    <3>1. fired'[m] \in Nat
      BY <1>0 DEF Typed, FiredOK
    <3> QED BY <1>0, <1>3, <1>5, <1>7, <2>1, <3>1 DEF Upsets
  <2>3. Holds(m, tick.saw)'
    BY <1>2, <1>5, <1>6, <1>7 DEF Announcing, Holds
  <2>4. SameRule(m)'
    BY <1>2, <1>7 DEF Announcing, SameRule
  <2> QED BY <1>2, <1>5, <1>6, <1>7, <2>2, <2>3, <2>4 DEF AnnouncedOnce, Serving
<1>8. CASE ~(Announcing(m) /\ p = "move")
  <2>1. fired'[m] <= faults' + crashes'
    <3>1. CASE Announcing(m)
      <4>1. fired'[m] <= fired[m] + 1 /\ fired'[m] \in Nat
        BY <1>0, <3>1 DEF Alarm, Count, Typed, FiredOK
      <4> QED BY <1>0, <1>1, <1>3, <1>5, <1>8, <3>1, <4>1
    <3>2. CASE ~Announcing(m)
      BY <1>0, <1>3, <1>5, <3>2 DEF Alarm
    <3> QED BY <3>1, <3>2
  <2> QED BY <1>1, <1>2, <1>5, <1>6, <2>1, AnnouncedFew
<1> QED BY <1>7, <1>8

LEMMA AnnouncedMoved ==
    ASSUME Typed, Typed', NEW m \in Monitors, AnnouncedOnce(m),
           MoveMonitor(m) \/ CannotMoveMonitor(m)
    PROVE  AnnouncedOnce(m)'
<1>0. fired[m] \in Nat /\ crashes \in Nat /\ faults \in Nat /\ m \in Rows /\ tick \in Ticks
      /\ fired \in [Rows -> Nat] /\ monitor \in [Monitors -> MonitorRows] /\ NoTick \in Ticks
  BY AutomationAssumption, NoneTyped DEF Typed, FiredOK, UsedOK, DaemonOK, RowsOK, Rows
<1>1. Serving(m) /\ tick.at \in {"move", "caught"} /\ UNCHANGED <<fired, faults, crashes>>
  BY DEF MoveMonitor, CannotMoveMonitor, Moving, At, Serving, used
<1>2. monitor[m].state # "absent" /\ m \notin tick.todo
  BY <1>1 DEF AnnouncedOnce
<1>3. CASE MoveMonitor(m)
  <2>1. tick'.at = "next" /\ m \notin tick'.todo
    BY <1>0, <1>2, <1>3 DEF MoveMonitor, NextSource, Ticks
  <2>2. ~Serving(m)'
    BY <2>1 DEF Serving
  <2>3. monitor'[m] = IF At("caught") THEN AfterThrow(m) ELSE AfterLook(m)
    BY <1>0, <1>3 DEF MoveMonitor
  <2>4. monitor'[m].state = monitor[m].state /\ monitor'[m].mode = monitor[m].mode
    <3>1. monitor[m] \in MonitorRows
      BY <1>0
    <3> QED BY <2>3, <3>1 DEF AfterThrow, AfterLook, MonitorRows
  <2>5. CASE fired[m] <= faults + crashes
    BY <1>1, <1>2, <2>1, <2>2, <2>4, <2>5, AnnouncedFew
  <2>6. CASE ~(fired[m] <= faults + crashes)
    <3>1. monitor[m].state # "gone"
      BY <1>3 DEF MoveMonitor, Exists
    <3>2. tick.at = "move" /\ Holds(m, tick.saw) /\ SameRule(m)
      BY <1>1, <2>6, <3>1 DEF AnnouncedOnce, Upsets
    <3>3. CASE Idle(m)
      <4>1. Idle(m)'
        BY <2>4, <3>3 DEF Idle
      <4> QED BY <1>1, <1>2, <2>1, <2>2, <2>4, <4>1 DEF AnnouncedOnce, Upsets
    <3>4. CASE ~Idle(m)
      <4>1. monitor[m].mode = seen.monitor[m].mode
        BY <3>2, <3>4 DEF SameRule
      <4>2. monitor'[m] = AfterLook(m)
        BY <2>3, <3>2 DEF At
      <4>3. monitor'[m].status = Verdict(m, tick.saw)
        <5>1. monitor[m] \in MonitorRows
          BY <1>0
        <5> QED BY <4>2, <5>1 DEF AfterLook, MonitorRows
      <4>4. Remembers(monitor'[m])
        BY <2>4, <3>2, <4>1, <4>3 DEF Remembers, Verdict, Holds
      <4>5. Remembers(monitor[m])'
        BY <4>4 DEF Remembers
      <4> QED BY <1>1, <1>2, <2>1, <2>2, <2>4, <4>5 DEF AnnouncedOnce, Upsets
    <3> QED BY <3>3, <3>4
  <2> QED BY <2>5, <2>6
<1>4. CASE CannotMoveMonitor(m)
  <2>1. monitor' = monitor /\ monitor[m].state = "gone"
    <3>1. monitor[m].state \in States
      BY <1>0 DEF MonitorRows
    <3> QED BY <1>2, <1>4, <3>1 DEF CannotMoveMonitor, Exists, rows, States
  <2>2. Idle(m)'
    BY <2>1 DEF Idle
  <2>3. m \notin tick'.todo /\ (Serving(m)' => tick'.at = "caught")
    <3>1. CASE At("move")
      <4>1. tick' = [tick EXCEPT !.at = "caught"]
        BY <1>4, <3>1 DEF CannotMoveMonitor, TickGoto
      <4> QED BY <1>0, <1>2, <4>1 DEF Ticks
    <3>2. CASE ~At("move")
      <4>1. tick'.at = "off" /\ tick'.todo = {}
        BY <1>4, <3>2 DEF CannotMoveMonitor, TickEnds, NoTick
      <4> QED BY <4>1 DEF Serving
    <3> QED BY <3>1, <3>2
  <2> QED BY <1>1, <2>1, <2>2, <2>3 DEF AnnouncedOnce, Upsets
<1> QED BY <1>3, <1>4

\* A failed update sends the monitor to its catch block, or ends the tick: a failed
\* write that accounts for the announcement.
LEMMA AnnouncedLost ==
    ASSUME Typed, Typed', NEW m \in Monitors, AnnouncedOnce(m), UpdateFails, tick.src = m
    PROVE  AnnouncedOnce(m)'
<1>0. fired[m] \in Nat /\ crashes \in Nat /\ faults \in Nat /\ tick \in Ticks /\ NoTick \in Ticks
  BY NoneTyped DEF Typed, FiredOK, UsedOK, DaemonOK, Rows
<1>1. /\ Serving(m) /\ UNCHANGED <<fired, monitor, crashes>> /\ faults' = faults + 1
  BY DEF UpdateFails, Fail, At, Serving, rows
<1>2. monitor[m].state # "absent" /\ m \notin tick.todo /\ fired[m] <= 1 + Upsets
  BY <1>1 DEF AnnouncedOnce
<1>3. fired'[m] <= faults' + crashes'
  BY <1>0, <1>1, <1>2 DEF Upsets
<1>4. m \notin tick'.todo /\ tick'.at \in {"off", "caught"}
  <2>1. CASE At("move")
    <3>1. tick' = [tick EXCEPT !.at = "caught"]
      BY <2>1 DEF UpdateFails, TickGoto
    <3> QED BY <1>0, <1>2, <3>1 DEF Ticks
  <2>2. CASE ~At("move")
    <3>1. tick'.at = "off" /\ tick'.todo = {}
      BY <2>2 DEF UpdateFails, TickEnds, NoTick
    <3> QED BY <3>1
  <2> QED BY <2>1, <2>2
<1> QED BY <1>1, <1>2, <1>3, <1>4, AnnouncedFew

LEMMA AnnouncedEdited ==
    ASSUME Typed, Typed', NEW m \in Monitors, AnnouncedOnce(m), NEW x \in Monitors,
           NEW t \in Targets, NEW mode \in Modes,
           \/ CreateMonitor(x, t, mode) \/ EnableMonitor(x, t, mode)
           \/ PauseMonitor(x, t, mode)  \/ DeleteMonitor(x)
    PROVE  AnnouncedOnce(m)'
<1>0. fired[m] \in Nat /\ crashes \in Nat /\ faults \in Nat /\ fired \in [Rows -> Nat]
      /\ m \in Rows /\ x \in Rows /\ monitor \in [Monitors -> MonitorRows]
  BY AutomationAssumption DEF Typed, FiredOK, UsedOK, RowsOK, Rows
<1>1. UNCHANGED <<tick, seen, faults, crashes>>
  BY DEF CreateMonitor, EnableMonitor, PauseMonitor, DeleteMonitor, Edit, daemon
<1>2. CASE x # m
  <2>1. monitor'[m] = monitor[m] /\ fired'[m] = fired[m]
    BY <1>0, <1>2 DEF CreateMonitor, EnableMonitor, PauseMonitor, DeleteMonitor
  <2> QED BY <1>0, <1>1, <2>1, AnnouncedFrame
<1>3. CASE x = m
  <2>0. /\ Serving(m)' <=> Serving(m)
        /\ Holds(m, tick.saw)' <=> Holds(m, tick.saw)
        /\ Remembers(seen.monitor[m])' <=> Remembers(seen.monitor[m])
        /\ Upsets' = Upsets
    BY <1>1 DEF Serving, Holds, Remembers, Upsets
  <2>1. CASE CreateMonitor(m, t, mode)
    <3>1. monitor[m].state = "absent" /\ fired' = fired /\ monitor'[m].state = "on"
      BY <1>0, <2>1 DEF CreateMonitor, NoMonitor
    <3>2. ~Serving(m) /\ m \notin tick.todo /\ fired[m] <= faults + crashes
      BY <3>1 DEF AnnouncedOnce, Upsets
    <3> QED BY <1>1, <2>0, <3>1, <3>2, AnnouncedFew
  <2>2. CASE EnableMonitor(m, t, mode)
    <3>1. fired'[m] = 0 /\ monitor'[m].state = "on"
      BY <1>0, <2>2 DEF EnableMonitor, MonitorRows
    <3>2. fired'[m] <= faults' + crashes'
      BY <1>0, <1>1, <3>1
    <3>3. /\ m \in tick.todo => ~Serving(m)
          /\ Serving(m) /\ tick.at = "announce" /\ seen.monitor[m].mode # "changed" => Holds(m, tick.saw)
      BY DEF AnnouncedOnce
    <3> QED BY <1>1, <2>0, <3>1, <3>2, <3>3, AnnouncedFew
  <2>3. CASE PauseMonitor(m, t, mode) \/ DeleteMonitor(m)
    <3>1. monitor'[m].state \in {"off", "gone"} /\ fired' = fired
      <4>0. monitor[m] \in MonitorRows
        BY <1>0
      <4>1. CASE PauseMonitor(m, t, mode)
        <5>1. monitor'[m] = [monitor[m] EXCEPT !.state = "off", !.target = t, !.mode = mode, !.status = "paused"]
          BY <1>0, <4>1 DEF PauseMonitor
        <5> QED BY <4>0, <4>1, <5>1 DEF PauseMonitor, MonitorRows
      <4>2. CASE DeleteMonitor(m)
        <5>1. monitor'[m] = [monitor[m] EXCEPT !.state = "gone"]
          BY <1>0, <4>2 DEF DeleteMonitor
        <5> QED BY <4>0, <4>2, <5>1 DEF DeleteMonitor, MonitorRows
      <4> QED BY <2>3, <4>1, <4>2
    <3>2. Idle(m)' /\ SameRule(m)'
      BY <3>1 DEF Idle, SameRule
    <3>3. monitor[m].state # "gone"
      BY <2>3 DEF PauseMonitor, DeleteMonitor, Exists
    <3> QED BY <1>1, <2>0, <3>1, <3>2, <3>3 DEF AnnouncedOnce
  <2> QED BY <1>3, <2>1, <2>2, <2>3
<1> QED BY <1>2, <1>3

LEMMA AnnouncedScheduleEdited ==
    ASSUME Typed, Typed', NEW m \in Monitors, AnnouncedOnce(m), NEW x \in Schedules,
           NEW c \in Crons,
           CreateSchedule(x, c) \/ EnableSchedule(x, c) \/ PauseSchedule(x, c) \/ DeleteSchedule(x)
    PROVE  AnnouncedOnce(m)'
<1>1. UNCHANGED <<tick, seen, monitor, faults, crashes>> /\ faults \in Int /\ crashes \in Int
  BY DEF CreateSchedule, EnableSchedule, PauseSchedule, DeleteSchedule, Edit, daemon, Typed, UsedOK
<1>2. fired'[m] = fired[m]
  BY AutomationAssumption DEF CreateSchedule, EnableSchedule, PauseSchedule, DeleteSchedule, Typed, FiredOK, Rows
<1> QED BY <1>1, <1>2, AnnouncedFrame

\* For every set of monitors: a condition that lasts is announced once, and again only
\* for a crash or a failed write; what the user edits meanwhile adds none.
THEOREM AlarmedOnce == Spec => []AlarmsOnce
<1> DEFINE Inv == Typed /\ \A m \in Monitors : AnnouncedOnce(m)
<1>1. Init => Inv
  <2> SUFFICES ASSUME Init PROVE Inv
    OBVIOUS
  <2>1. ASSUME NEW m \in Monitors PROVE AnnouncedOnce(m)
    <3>1. fired[m] = 0 /\ faults = 0 /\ crashes = 0
      BY DEF Init, Rows
    <3>2. tick.at = "off" /\ tick.todo = {}
      BY DEF Init, NoTick
    <3> QED BY <3>1, <3>2 DEF AnnouncedOnce, Serving, Upsets
  <2> QED BY <2>1, TypedInit
<1>2. Inv /\ [Next]_vars => Inv'
  <2> SUFFICES ASSUME Inv, [Next]_vars PROVE Inv'
    OBVIOUS
  <2>1. Typed'
    BY TypedNext
  <2>2. ASSUME NEW m \in Monitors PROVE AnnouncedOnce(m)'
    <3>0. AnnouncedOnce(m)
      OBVIOUS
    <3>1. CASE TickStep
      <4>1. CASE TickBegin
        BY <2>1, <3>0, <4>1, AnnouncedDue
      <4>2. CASE \/ BeginHeartbeat \/ MoveHeartbeat
                 \/ \E s \in Schedules : BeginSchedule(s) \/ MoveSchedule(s) \/ CannotMoveSchedule(s)
                 \/ \E x \in Monitors \ {m} :
                       Look(x) \/ Alarm(x) \/ MoveMonitor(x) \/ CannotMoveMonitor(x)
        BY <2>1, <3>0, <4>2, AnnouncedElse
      <4>3. CASE Look(m) \/ Alarm(m) \/ MoveMonitor(m) \/ CannotMoveMonitor(m)
        BY <2>1, <3>0, <4>3, AnnouncedLook, AnnouncedAlarm, AnnouncedMoved
      <4>4. CASE TakeBatch \/ \E i \in Runs : CallModel(i) \/ Skip(i) \/ FinishRun(i)
        BY <2>1, <3>0, <4>4, AnnouncedAside
      <4> QED BY <3>1, <4>1, <4>2, <4>3, <4>4 DEF TickStep
    <3>2. CASE User
      <4>0. PICK c \in Crons, t \in Targets, mode \in Modes : TRUE
        BY AutomationAssumption
      <4>1. ASSUME NEW x \in Monitors, NEW u \in Targets, NEW rule \in Modes,
                   \/ CreateMonitor(x, u, rule) \/ EnableMonitor(x, u, rule)
                   \/ PauseMonitor(x, u, rule)  \/ DeleteMonitor(x)
            PROVE  AnnouncedOnce(m)'
        BY <2>1, <3>0, <4>1, AnnouncedEdited
      <4>2. ASSUME NEW s \in Schedules, NEW k \in Crons,
                   CreateSchedule(s, k) \/ EnableSchedule(s, k) \/ PauseSchedule(s, k) \/ DeleteSchedule(s)
            PROVE  AnnouncedOnce(m)'
        BY <2>1, <3>0, <4>2, AnnouncedScheduleEdited
      <4>3. CASE Wake \/ WakeNudge \/ (\E n \in nudges : Dismiss(n))
                 \/ (\E state \in {"on", "off"} : SetHeartbeat(state))
        BY <2>1, <3>0, <4>3, AnnouncedAside
      <4> QED BY <3>2, <4>0, <4>1, <4>2, <4>3 DEF User
    <3>3. CASE ~TickStep /\ ~User
      BY <2>1, <3>0, <3>3, AnnouncedAside, AnnouncedElse, AnnouncedLost DEF Next
    <3> QED BY <3>1, <3>2, <3>3
  <2> QED BY <2>1, <2>2
<1>3. Inv => AlarmsOnce
  BY DEF AlarmsOnce, AnnouncedOnce, Upsets, Typed, FiredOK, UsedOK, Rows
<1> QED BY <1>1, <1>2, <1>3, PTL DEF Spec
=============================================================================

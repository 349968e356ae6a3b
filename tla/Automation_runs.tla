---------------------------- MODULE Automation_runs ----------------------------
(***************************************************************************)
(* Proofs about the unattended runs of Automation: the hourly budget, and  *)
(* that only failures leave a run marked running.                          *)
(***************************************************************************)
EXTENDS Automation_proofs

\* The tick is waiting for the model of this run.
Asking(i) == tick.at = "call" /\ Current(i)

\* The batch of a tick is queued, but for the run it has claimed.
BatchOK ==
    /\ ~daemonUp => tick.at = "off"
    /\ tick.at \notin {"claim", "call"} => tick.batch = {}
    /\ \A i \in tick.batch : run[i].state = IF Asking(i) THEN "running" ELSE "queued"

\* What was spent of the budget of this hour, and the runs left behind.
Spent == {i \in Runs : (run[i].state = "succeeded" \/ Asking(i)) /\ run[i].created >= now - Hour}
Left  == {i \in Runs : run[i].state = "running" /\ ~Asking(i)}

Accounted ==
    /\ BatchOK
    /\ Cardinality(Spent) <= MaxPerHour
    /\ Cardinality(Left) <= Upsets

LEMMA RunsFinite ==
    ASSUME NEW S, S \subseteq Runs
    PROVE  IsFiniteSet(S) /\ Cardinality(S) \in Nat
<1>1. IsFiniteSet(Runs)
  BY FS_Interval, AutomationAssumption DEF Runs
<1> QED BY <1>1, FS_Subset, FS_CardinalityType

LEMMA Numbers ==
    ASSUME Typed
    PROVE  /\ now \in Nat /\ faults \in Nat /\ crashes \in Nat /\ Hour \in Nat /\ MaxPerHour \in Nat
           /\ tick \in Ticks /\ tick.batch \subseteq Runs
           /\ run \in [Runs -> RunRows]
           /\ \A i \in Runs : run[i].created \in Nat
BY AutomationAssumption DEF Typed, SurroundingsOK, UsedOK, DaemonOK, ToldOK, Ticks, RunRows

LEMMA Sums ==
    /\ \A a, b \in Nat : a + b \in Nat
    /\ \A a, b, c, d \in Nat : a <= c /\ b <= d => a + b <= c + d
OBVIOUS

LEMMA NumbersNext ==
    ASSUME Typed'
    PROVE  /\ now' \in Nat /\ faults' \in Nat /\ crashes' \in Nat
           /\ \A i \in Runs : run'[i].created \in Nat
<1>1. upsets' \in Nat
  BY AutomationAssumption DEF Typed, UsedOK
<1>2. faults' \in Nat /\ crashes' \in Nat
  BY <1>1 DEF Typed, UsedOK
<1>3. now' \in Nat
  BY AutomationAssumption DEF Typed, SurroundingsOK
<1> QED BY <1>2, <1>3 DEF Typed, ToldOK, RunRows

\* Less is spent and no more is left behind than before, or one failure more.
LEMMA AccountedLess ==
    ASSUME Typed, Typed', Accounted, BatchOK', Spent' \subseteq Spent,
           \/ Left' \subseteq Left /\ Upsets <= Upsets'
           \/ \E i : Left' \subseteq Left \cup {i} /\ Upsets' = Upsets + 1
    PROVE  Accounted'
<1>0. Upsets \in Nat /\ Upsets' \in Nat /\ MaxPerHour \in Nat
  <2>1. faults \in Nat /\ crashes \in Nat /\ faults' \in Nat /\ crashes' \in Nat
    BY Numbers, NumbersNext
  <2> QED BY <2>1, Sums, AutomationAssumption DEF Upsets
<1>1. /\ IsFiniteSet(Spent) /\ Cardinality(Spent) \in Nat
      /\ IsFiniteSet(Left) /\ Cardinality(Left) \in Nat
      /\ Cardinality(Spent') \in Nat /\ Cardinality(Left') \in Nat
  <2>1. Spent \subseteq Runs /\ Left \subseteq Runs /\ Spent' \subseteq Runs /\ Left' \subseteq Runs
    BY DEF Spent, Left
  <2> HIDE DEF Spent, Left
  <2> QED BY <2>1, RunsFinite
<1>2. Cardinality(Spent') <= Cardinality(Spent)
  BY <1>1, FS_Subset
<1>3. CASE Left' \subseteq Left /\ Upsets <= Upsets'
  <2>1. Cardinality(Left') <= Cardinality(Left)
    BY <1>1, <1>3, FS_Subset
  <2> QED BY <1>0, <1>1, <1>2, <1>3, <2>1 DEF Accounted
<1>4. ASSUME NEW i, Left' \subseteq Left \cup {i}, Upsets' = Upsets + 1
      PROVE  Accounted'
  <2>1. IsFiniteSet(Left \cup {i}) /\ Cardinality(Left \cup {i}) <= Cardinality(Left) + 1
        /\ Cardinality(Left \cup {i}) \in Nat
    <3>1. /\ IsFiniteSet(Left \cup {i})
          /\ Cardinality(Left \cup {i}) = IF i \in Left THEN Cardinality(Left) ELSE Cardinality(Left) + 1
      BY <1>1, FS_AddElement
    <3> HIDE DEF Left
    <3> QED BY <1>1, <3>1
  <2>2. Cardinality(Left') <= Cardinality(Left \cup {i})
    BY <1>4, <2>1, FS_Subset
  <2> QED BY <1>0, <1>1, <1>2, <1>4, <2>1, <2>2 DEF Accounted
<1> QED BY <1>3, <1>4

\* Steps that leave the batch alone, and the runs but for one they may queue.
LEMMA AccountedFrame ==
    ASSUME Typed, Typed', Accounted,
           \A i \in Runs : \/ run'[i] = run[i]
                           \/ run[i].state = "absent" /\ run'[i].state = "queued",
           \/ tick' = tick /\ (~daemonUp' => ~daemonUp)
           \/ /\ {tick.at, tick'.at} \cap {"claim", "call"} = {}
              /\ tick'.batch = tick.batch
              /\ daemonUp',
           now <= now', faults <= faults', crashes <= crashes'
    PROVE  Accounted'
<1>0. /\ now \in Nat /\ now' \in Nat /\ Hour \in Nat /\ tick.batch \subseteq Runs
      /\ faults \in Nat /\ faults' \in Nat /\ crashes \in Nat /\ crashes' \in Nat
      /\ \A i \in Runs : run[i].created \in Nat
  BY Numbers, NumbersNext
<1>1. \A i \in Runs : Asking(i)' <=> Asking(i)
  BY DEF Asking, Current
<1>2. BatchOK'
  <2>1. tick'.batch = tick.batch
    OBVIOUS
  <2>2. \A i \in tick.batch : run'[i] = run[i]
    BY <1>0 DEF Accounted, BatchOK
  <2>3. (~daemonUp => tick.at = "off")' /\ (tick.at \notin {"claim", "call"} => tick.batch = {})'
    BY DEF Accounted, BatchOK
  <2> QED BY <1>0, <1>1, <2>1, <2>2, <2>3 DEF Accounted, BatchOK
<1>3. Spent' \subseteq Spent
  <2> SUFFICES ASSUME NEW i \in Spent' PROVE i \in Spent
    OBVIOUS
  <2>1. i \in Runs /\ (run'[i].state = "succeeded" \/ Asking(i)') /\ run'[i].created >= now' - Hour
    BY DEF Spent
  <2>2. run'[i] = run[i]
    <3>1. Asking(i) => run[i].state = "running"
      BY DEF Asking, Current, Accounted, BatchOK
    <3> QED BY <1>1, <2>1, <3>1
  <2> QED BY <1>0, <1>1, <2>1, <2>2 DEF Spent
<1>4. Left' \subseteq Left
  <2> SUFFICES ASSUME NEW i \in Left' PROVE i \in Left
    OBVIOUS
  <2>1. i \in Runs /\ run'[i].state = "running" /\ ~Asking(i)'
    BY DEF Left
  <2> QED BY <1>1, <2>1 DEF Left
<1>5. Upsets <= Upsets'
  <2>1. faults \in Nat /\ crashes \in Nat /\ faults' \in Nat /\ crashes' \in Nat
    BY Numbers, NumbersNext
  <2>2. faults <= faults' /\ crashes <= crashes'
    OBVIOUS
  <2> QED BY <2>1, <2>2, Sums DEF Upsets
<1> HIDE DEF Spent, Left
<1> QED BY <1>2, <1>3, <1>4, <1>5, AccountedLess

\* Delivering a trigger queues one run at the most.
LEMMA EnqueueQueues ==
    ASSUME Typed, Enqueue
    PROVE  \A i \in Runs : \/ run'[i] = run[i]
                           \/ run[i].state = "absent" /\ run'[i].state = "queued"
<1>1. PICK j \in Runs : run[j].state = "absent"
                        /\ run' = [run EXCEPT ![j] = [state |-> "queued", created |-> now]]
  BY DEF Enqueue
<1> QED BY <1>1, Numbers

LEMMA DeliverQueues ==
    ASSUME Typed, NEW x, NEW of, NEW saw, Deliver(x, of, saw)
    PROVE  \A i \in Runs : \/ run'[i] = run[i]
                           \/ run[i].state = "absent" /\ run'[i].state = "queued"
<1>1. CASE x \in Background
  BY <1>1, EnqueueQueues DEF Deliver
<1>2. CASE x \notin Background
  BY <1>2 DEF Deliver, Nudge
<1> QED BY <1>1, <1>2

LEMMA AnnounceQueues ==
    ASSUME Typed, NEW x, NEW of, NEW saw, NEW p, Announce(x, of, saw, p)
    PROVE  /\ faults <= faults' /\ crashes <= crashes'
           /\ \A i \in Runs : \/ run'[i] = run[i]
                              \/ run[i].state = "absent" /\ run'[i].state = "queued"
<1>1. faults \in Nat /\ crashes \in Nat
  BY Numbers
<1>2. Deliver(x, of, saw) \/ UNCHANGED told
  BY DEF Announce
<1> QED BY <1>1, <1>2, DeliverQueues DEF Announce, Fail, used, told

LEMMA AccountedAside ==
    ASSUME Typed, Typed', Accounted,
           \/ UNCHANGED vars \/ Clock \/ Restart \/ User \/ TickBegin \/ BeginHeartbeat \/ MoveHeartbeat
           \/ UpdateFails
           \/ \E t \in Targets : Change(t)
           \/ \E s \in Schedules : BeginSchedule(s) \/ MoveSchedule(s) \/ CannotMoveSchedule(s)
           \/ \E m \in Monitors : Look(m) \/ Alarm(m) \/ MoveMonitor(m) \/ CannotMoveMonitor(m)
    PROVE  Accounted'
<1> DEFINE Queues == \A i \in Runs : \/ run'[i] = run[i]
                                     \/ run[i].state = "absent" /\ run'[i].state = "queued"
<1>0. /\ now \in Nat /\ faults \in Nat /\ crashes \in Nat /\ tick \in Ticks
      /\ now' \in Nat /\ faults' \in Nat /\ crashes' \in Nat
  BY Numbers, NumbersNext
<1>n. NoTick.at = "off" /\ NoTick.batch = {} /\ NoTick \in Ticks
  BY NoneTyped DEF NoTick
<1>1. CASE User
  <2> DEFINE Still == UNCHANGED <<now, daemonUp, tick, faults, crashes>>
  <2>a. \A s \in Schedules, c \in Crons :
           CreateSchedule(s, c) \/ EnableSchedule(s, c) \/ PauseSchedule(s, c) => Still /\ UNCHANGED run
    BY DEF CreateSchedule, EnableSchedule, PauseSchedule, Edit, daemon, told
  <2>b. \A s \in Schedules : DeleteSchedule(s) => Still /\ UNCHANGED run
    BY DEF DeleteSchedule, Edit, daemon, told
  <2>c. \A m \in Monitors, t \in Targets, mode \in Modes :
           CreateMonitor(m, t, mode) \/ EnableMonitor(m, t, mode) \/ PauseMonitor(m, t, mode)
           => Still /\ UNCHANGED run
    BY DEF CreateMonitor, EnableMonitor, PauseMonitor, Edit, daemon, told
  <2>d. \A m \in Monitors : DeleteMonitor(m) => Still /\ UNCHANGED run
    BY DEF DeleteMonitor, Edit, daemon, told
  <2>e. \A state \in {"on", "off"} : SetHeartbeat(state) => Still /\ UNCHANGED run
    BY DEF SetHeartbeat, Edit, daemon, told
  <2>f. \A n \in nudges : Dismiss(n) => Still /\ UNCHANGED run
    BY DEF Dismiss, Edit, daemon
  <2>g. WakeNudge => Still /\ UNCHANGED run
    BY DEF WakeNudge, daemon, used
  <2>h. Wake => Still /\ (Enqueue \/ UNCHANGED run)
    BY DEF Wake, Edit, daemon
  <2>i. Still /\ (Enqueue \/ UNCHANGED run)
    <3> HIDE DEF Still
    <3> QED BY <1>1, <2>a, <2>b, <2>c, <2>d, <2>e, <2>f, <2>g, <2>h DEF User
  <2>1. Still
    BY <2>i
  <2>2. Queues
    BY <2>i, EnqueueQueues
  <2> QED BY <1>0, <2>1, <2>2, AccountedFrame
<1>2. CASE UNCHANGED vars \/ Clock \/ Restart \/ \E t \in Targets : Change(t)
  <2>1. UNCHANGED <<run, tick, faults, crashes>> /\ now <= now' /\ (~daemonUp' => ~daemonUp)
    BY <1>0, <1>2 DEF vars, Clock, Restart, Change, daemon, used, told
  <2> QED BY <1>0, <2>1, AccountedFrame
<1>3. ASSUME NEW x, NEW p \in {"announce", "move", "caught"}, NEW saw, Begin(x, p, saw),
             Queues, faults <= faults', crashes <= crashes'
      PROVE  Accounted'
  <2>1. /\ daemonUp' /\ tick.at = "next" /\ now' = now
        /\ tick' = [tick EXCEPT !.at = p, !.src = x, !.began = now, !.saw = saw, !.todo = @ \ {x}]
    BY <1>3 DEF Begin, At
  <2>2. tick'.at = p /\ tick'.batch = tick.batch
    BY <1>0, <2>1 DEF Ticks
  <2> QED BY <1>0, <1>3, <2>1, <2>2, AccountedFrame
<1>4. ASSUME tick.at \in {"announce", "move", "caught"}, daemonUp, Queues,
             UNCHANGED <<now, daemonUp>>, faults <= faults', crashes <= crashes',
             NextSource \/ TickEnds \/ \E p \in {"move", "caught"} : TickGoto(p)
      PROVE  Accounted'
  <2>1. tick.batch = {}
    BY <1>4 DEF Accounted, BatchOK
  <2>2. tick'.at \in {"next", "off", "move", "caught"} /\ tick'.batch = tick.batch
    <3>1. NextSource => tick'.at = "next" /\ tick'.batch = {}
      BY <1>n DEF NextSource, Ticks
    <3>2. TickEnds => tick'.at = "off" /\ tick'.batch = {}
      BY <1>n DEF TickEnds
    <3>3. ASSUME NEW p \in {"move", "caught"}, TickGoto(p)
          PROVE  tick'.at = p /\ tick'.batch = tick.batch
      BY <1>0, <3>3 DEF TickGoto, Ticks
    <3> QED BY <1>4, <2>1, <3>1, <3>2, <3>3
  <2> QED BY <1>0, <1>4, <2>2, AccountedFrame
<1>5. \A x, of, saw, p : Announce(x, of, saw, p) => Queues /\ faults <= faults' /\ crashes <= crashes'
  BY AnnounceQueues
<1>6. CASE TickBegin
  <2>1. /\ UNCHANGED <<now, run, faults, crashes, daemonUp>> /\ tick.at = "off" /\ daemonUp
        /\ tick'.at = "next" /\ tick'.batch = {}
    BY <1>6, <1>n DEF TickBegin, At, told, used, Ticks
  <2>2. tick.batch = {}
    BY <2>1 DEF Accounted, BatchOK
  <2> QED BY <1>0, <2>1, <2>2, AccountedFrame
<1>7. CASE BeginHeartbeat
  <2>1. PICK p \in {"announce", "move", "caught"}, saw \in {"a", "gone"} : Begin("heartbeat", p, saw)
    BY <1>7 DEF BeginHeartbeat
  <2>2. Queues /\ faults <= faults' /\ crashes <= crashes'
    <3>1. UNCHANGED <<told, used>> => Queues /\ faults <= faults' /\ crashes <= crashes'
      BY <1>0 DEF told, used
    <3> QED BY <1>5, <1>7, <3>1 DEF BeginHeartbeat
  <2> HIDE DEF Queues
  <2> QED BY <1>3, <2>1, <2>2
<1>8. CASE MoveHeartbeat
  <2>1. /\ UNCHANGED <<now, run, faults, crashes, daemonUp>> /\ NextSource
        /\ tick.at \in {"announce", "move", "caught"} /\ daemonUp
    BY <1>8 DEF MoveHeartbeat, Moving, At, NextSource, told, used
  <2> QED BY <1>0, <1>4, <2>1
<1>9. ASSUME NEW s \in Schedules, BeginSchedule(s) \/ MoveSchedule(s) \/ CannotMoveSchedule(s)
      PROVE  Accounted'
  <2>1. CASE BeginSchedule(s)
    <3>1. PICK p \in {"move", "caught"} :
            Begin(s, p, "a") /\ Announce(s, seen.schedule[s].cron, "a", p)
      BY <2>1 DEF BeginSchedule
    <3> HIDE DEF Queues
    <3> QED BY <1>3, <1>5, <3>1
  <2>2. CASE MoveSchedule(s) \/ CannotMoveSchedule(s)
    <3>1. /\ UNCHANGED <<now, run, faults, crashes, daemonUp>>
          /\ tick.at \in {"announce", "move", "caught"} /\ daemonUp
          /\ NextSource \/ TickEnds \/ TickGoto("caught")
      BY <2>2 DEF MoveSchedule, CannotMoveSchedule, Moving, At, NextSource, TickEnds, TickGoto, told, used
    <3> QED BY <1>0, <1>4, <3>1
  <2> QED BY <1>9, <2>1, <2>2
<1>10. ASSUME NEW m \in Monitors, Look(m) \/ Alarm(m) \/ MoveMonitor(m) \/ CannotMoveMonitor(m)
       PROVE  Accounted'
  <2>1. CASE Look(m)
    <3>1. PICK p \in {"announce", "move", "caught"} :
            Begin(m, p, world[seen.monitor[m].target])
      BY <2>1 DEF Look
    <3>2. Queues /\ faults <= faults' /\ crashes <= crashes'
      BY <1>0, <2>1 DEF Look, told, used
    <3> HIDE DEF Queues
    <3> QED BY <1>3, <3>1, <3>2
  <2>2. CASE Alarm(m)
    <3>1. PICK p \in {"move", "caught"} :
            TickGoto(p) /\ Announce(m, seen.monitor[m].target, tick.saw, p)
      BY <2>2 DEF Alarm
    <3>2. UNCHANGED <<now, daemonUp>> /\ tick.at \in {"announce", "move", "caught"} /\ daemonUp
      BY <2>2, <3>1 DEF Alarm, At, TickGoto
    <3> HIDE DEF Queues
    <3> QED BY <1>4, <1>5, <3>1, <3>2
  <2>3. CASE MoveMonitor(m) \/ CannotMoveMonitor(m)
    <3>1. /\ UNCHANGED <<now, run, faults, crashes, daemonUp>>
          /\ tick.at \in {"announce", "move", "caught"} /\ daemonUp
          /\ NextSource \/ TickEnds \/ TickGoto("caught")
      BY <2>3 DEF MoveMonitor, CannotMoveMonitor, Moving, At, NextSource, TickEnds, TickGoto, told, used
    <3> QED BY <1>0, <1>4, <3>1
  <2> QED BY <1>10, <2>1, <2>2, <2>3
<1>11. CASE UpdateFails
  <2>1. /\ UNCHANGED <<now, run, crashes, daemonUp>> /\ faults' = faults + 1
        /\ tick.at \in {"announce", "move", "caught"} /\ daemonUp
        /\ TickEnds \/ TickGoto("caught")
    BY <1>11 DEF UpdateFails, Fail, At, TickEnds, TickGoto, told
  <2> QED BY <1>0, <1>4, <2>1
<1> QED BY <1>1, <1>2, <1>6, <1>7, <1>8, <1>9, <1>10, <1>11

\* A tick leaves the run it is at, and that run is marked.
LEMMA LeaveRun ==
    ASSUME Typed, Typed', Accounted, NEW i \in Runs, Current(i), tick.at \in {"claim", "call"},
           daemonUp, daemonUp', NEW state, SetRun(i, state), state = "succeeded" => tick.at = "call",
           NextOfBatch(i) \/ TickEnds, now' = now
    PROVE  /\ BatchOK' /\ Spent' \subseteq Spent
           /\ Left' \subseteq Left \cup {i}
           /\ state # "running" => Left' \subseteq Left
<1>0. tick \in Ticks /\ run \in [Runs -> RunRows] /\ tick.batch \subseteq Runs
  BY Numbers
<1>n. NoTick.at = "off" /\ NoTick.batch = {} /\ NoTick \in Ticks
  BY NoneTyped DEF NoTick
<1>1. tick'.at \in {"off", "claim"} /\ tick'.batch \subseteq tick.batch \ {i}
      /\ (tick'.at = "off" => tick'.batch = {})
  <2>1. TickEnds => tick'.at = "off" /\ tick'.batch = {}
    BY <1>n DEF TickEnds
  <2>2. CASE tick' = [NoTick EXCEPT !.at = "claim", !.batch = tick.batch \ {i}]
    BY <1>n, <2>2 DEF Ticks
  <2> QED BY <2>1, <2>2 DEF NextOfBatch
<1>2. \A j \in Runs : ~Asking(j)'
  BY <1>1 DEF Asking
<1>3. ASSUME NEW j \in Runs, Current(j) PROVE j = i
  <2>1. i <= j /\ j <= i
    BY <1>3 DEF Current
  <2> QED BY <2>1 DEF Runs
<1>4. \A j \in Runs : run'[j] = IF j = i THEN [run[j] EXCEPT !.state = state] ELSE run[j]
  BY <1>0 DEF SetRun
<1>5. \A j \in Runs : run'[j].created = run[j].created
  BY <1>0, <1>4 DEF RunRows
<1>6. run'[i].state = state
  BY <1>0, <1>4 DEF RunRows
<1>7. BatchOK'
  <2>1. ASSUME NEW j \in tick'.batch PROVE run'[j].state = "queued"
    <3>1. j \in tick.batch /\ j # i /\ j \in Runs
      BY <1>0, <1>1
    <3>2. ~Asking(j)
      BY <1>3, <3>1 DEF Asking
    <3> QED BY <1>4, <3>1, <3>2 DEF Accounted, BatchOK
  <2>2. tick'.batch \subseteq Runs
    BY <1>0, <1>1
  <2> QED BY <1>1, <1>2, <2>1, <2>2 DEF BatchOK
<1>8. Spent' \subseteq Spent
  <2> SUFFICES ASSUME NEW j \in Spent' PROVE j \in Spent
    OBVIOUS
  <2>1. j \in Runs /\ run'[j].state = "succeeded" /\ run'[j].created >= now - Hour
    BY <1>2 DEF Spent
  <2>2. run[j].state = "succeeded" \/ Asking(j)
    <3>1. CASE j = i
      <4>1. state = "succeeded"
        BY <1>6, <2>1, <3>1
      <4> QED BY <3>1, <4>1 DEF Asking
    <3>2. CASE j # i
      BY <1>4, <2>1, <3>2
    <3> QED BY <3>1, <3>2
  <2> QED BY <1>5, <2>1, <2>2 DEF Spent
<1>9. \A j \in Left' : j \in Left \/ (j = i /\ state = "running")
  <2> SUFFICES ASSUME NEW j \in Left', j \notin Left PROVE j = i /\ state = "running"
    OBVIOUS
  <2>1. j \in Runs /\ run'[j].state = "running"
    BY DEF Left
  <2>2. j = i
    <3>1. CASE j # i
      <4>1. run[j].state = "running" /\ ~Asking(j)
        BY <1>3, <1>4, <2>1, <3>1 DEF Asking
      <4> QED BY <2>1, <4>1 DEF Left
    <3> QED BY <3>1
  <2> QED BY <1>6, <2>1, <2>2
<1> QED BY <1>7, <1>8, <1>9

LEMMA AccountedRuns ==
    ASSUME Typed, Typed', Accounted, NEW i \in Runs, Skip(i) \/ FinishRun(i) \/ RunThrows(i)
    PROVE  Accounted'
<1>0. faults \in Nat /\ crashes \in Nat
  BY Numbers
<1>1. PICK state : SetRun(i, state)
                   /\ (state = "succeeded" => tick.at = "call")
                   /\ (state = "running" => RunThrows(i))
  BY DEF Skip, FinishRun, RunThrows, At
<1>2. /\ Current(i) /\ tick.at \in {"claim", "call"} /\ daemonUp /\ daemonUp' /\ now' = now
      /\ NextOfBatch(i) \/ TickEnds
  BY DEF Skip, FinishRun, RunThrows, At, NextOfBatch, TickEnds
<1>3. /\ BatchOK' /\ Spent' \subseteq Spent
      /\ Left' \subseteq Left \cup {i}
      /\ state # "running" => Left' \subseteq Left
  BY <1>1, <1>2, LeaveRun
<1>4. RunThrows(i) => Upsets' = Upsets + 1
  BY <1>0 DEF RunThrows, Fail, Upsets
<1>5. Skip(i) \/ FinishRun(i) => Upsets' = Upsets
  BY DEF Skip, FinishRun, used, Upsets
<1>6. Upsets \in Int
  BY <1>0 DEF Upsets
<1> HIDE DEF Spent, Left
<1> QED BY <1>1, <1>3, <1>4, <1>5, <1>6, AccountedLess

LEMMA AccountedCall ==
    ASSUME Typed, Typed', Accounted, NEW i \in Runs, CallModel(i)
    PROVE  Accounted'
<1>0. /\ tick \in Ticks /\ run \in [Runs -> RunRows] /\ tick.batch \subseteq Runs
      /\ MaxPerHour \in Nat
  BY Numbers
<1>1. /\ tick.at = "claim" /\ daemonUp /\ daemonUp' /\ Current(i) /\ SetRun(i, "running")
      /\ tick' = [tick EXCEPT !.at = "call"] /\ UNCHANGED <<now, faults, crashes>>
  BY DEF CallModel, At, TickGoto, used
<1>2. tick'.at = "call" /\ tick'.batch = tick.batch
  BY <1>0, <1>1 DEF Ticks
<1>3. ASSUME NEW j \in Runs PROVE Asking(j)' <=> j = i
  <2>1. Current(j)' <=> Current(j)
    BY <1>2 DEF Current
  <2>2. Current(j) => j = i
    <3>1. Current(j) => i <= j /\ j <= i
      BY <1>1 DEF Current
    <3> QED BY <3>1 DEF Runs
  <2> QED BY <1>1, <1>2, <2>1, <2>2 DEF Asking
<1>4. \A j \in Runs : ~Asking(j)
  BY <1>1 DEF Asking
<1>5. \A j \in Runs : run'[j] = IF j = i THEN [run[j] EXCEPT !.state = "running"] ELSE run[j]
  BY <1>0, <1>1 DEF SetRun
<1>6. run'[i].state = "running" /\ \A j \in Runs : run'[j].created = run[j].created
  BY <1>0, <1>5 DEF RunRows
<1>7. run[i].state = "queued" /\ \A j \in tick.batch : run[j].state = "queued"
  BY <1>0, <1>1, <1>4 DEF Accounted, BatchOK, Current
<1>8. BatchOK'
  <2>1. ASSUME NEW j \in tick.batch
        PROVE  run'[j].state = IF j = i THEN "running" ELSE "queued"
    BY <1>0, <1>5, <1>6, <1>7
  <2> QED BY <1>0, <1>1, <1>2, <1>3, <2>1 DEF BatchOK
<1>9. Cardinality(Spent') <= MaxPerHour
  <2>1. Spent' \subseteq RecentOnes(i)
    <3> SUFFICES ASSUME NEW j \in Spent' PROVE j \in RecentOnes(i)
      OBVIOUS
    <3>1. j \in Runs /\ (run'[j].state = "succeeded" \/ j = i) /\ run'[j].created >= now - Hour
      BY <1>1, <1>3 DEF Spent
    <3>2. run[j].state \in {"succeeded", "queued"}
      BY <1>5, <1>7, <3>1
    <3> QED BY <1>6, <3>1, <3>2 DEF RecentOnes
  <2>2. RecentOnes(i) \subseteq Runs
    BY DEF RecentOnes
  <2>3. IsFiniteSet(RecentOnes(i)) /\ Cardinality(RecentOnes(i)) \in Nat /\ Cardinality(Spent') \in Nat
    <3>1. Spent' \subseteq Runs
      BY <2>1, <2>2
    <3> HIDE DEF Spent
    <3> QED BY <2>2, <3>1, RunsFinite
  <2>4. Cardinality(Spent') <= Cardinality(RecentOnes(i))
    BY <2>1, <2>3, FS_Subset
  <2>5. Cardinality(RecentOnes(i)) <= MaxPerHour
    BY DEF CallModel
  <2> QED BY <1>0, <2>3, <2>4, <2>5
<1>10. Left' = Left
  <2>1. \A j \in Runs : j \in Left' <=> j \in Left
    BY <1>3, <1>4, <1>5, <1>7 DEF Left
  <2> QED BY <2>1 DEF Left
<1>11. Upsets' = Upsets
  BY <1>1 DEF Upsets
<1> QED BY <1>8, <1>9, <1>10, <1>11 DEF Accounted

LEMMA AccountedBreaks ==
    ASSUME Typed, Typed', Accounted, TakeBatch \/ Crash
    PROVE  Accounted'
<1>0. /\ tick \in Ticks /\ tick.batch \subseteq Runs /\ now \in Nat /\ faults \in Nat /\ crashes \in Nat
  BY Numbers
<1>n. NoTick.at = "off" /\ NoTick.batch = {} /\ NoTick \in Ticks
  BY NoneTyped DEF NoTick
<1>u. Upsets \in Nat
  BY <1>0 DEF Upsets
<1>1. CASE TakeBatch
  <2>1. tick.at = "next" /\ daemonUp /\ daemonUp' /\ UNCHANGED <<run, now, faults, crashes>>
    BY <1>1 DEF TakeBatch, At, TickEnds, told, used
  <2>2. tick.batch = {}
    BY <2>1 DEF Accounted, BatchOK
  <2>3. CASE OldestQueued = {}
    <3>1. tick'.at = "off" /\ tick'.batch = {}
      BY <1>1, <1>n, <2>3 DEF TakeBatch, TickEnds
    <3> QED BY <1>0, <2>1, <2>2, <3>1, AccountedFrame
  <2>4. CASE OldestQueued # {}
    <3>1. tick'.at = "claim" /\ tick'.batch = OldestQueued
      BY <1>1, <1>n, <2>4 DEF TakeBatch, Ticks
    <3>2. \A j \in Runs : ~Asking(j)' /\ ~Asking(j)
      BY <2>1, <3>1 DEF Asking
    <3>3. \A j \in OldestQueued : j \in Runs /\ run[j].state = "queued"
      BY DEF OldestQueued, Queued
    <3>4. BatchOK'
      BY <2>1, <3>1, <3>2, <3>3 DEF BatchOK
    <3>5. Spent' \subseteq Spent /\ Left' \subseteq Left
      BY <2>1, <3>2 DEF Spent, Left
    <3>6. Upsets' = Upsets
      BY <2>1 DEF Upsets
    <3> HIDE DEF Spent, Left
    <3> QED BY <1>u, <3>4, <3>5, <3>6, AccountedLess
  <2> QED BY <2>3, <2>4
<1>2. CASE Crash
  <2>1. UNCHANGED <<run, now, faults>> /\ crashes' = crashes + 1 /\ tick'.at = "off" /\ tick'.batch = {}
    BY <1>2, <1>n DEF Crash, told
  <2>2. \A j \in Runs : ~Asking(j)'
    BY <2>1 DEF Asking
  <2>3. BatchOK'
    BY <2>1 DEF BatchOK
  <2>4. Spent' \subseteq Spent
    BY <2>1, <2>2 DEF Spent
  <2>5. \E i : Left' \subseteq Left \cup {i}
    <3>1. CASE \E i \in Runs : Asking(i)
      <4>1. PICK i \in Runs : Asking(i)
        BY <3>1
      <4>2. \A j \in Runs : Asking(j) => j = i
        <5>1. \A j \in Runs : Asking(j) => i <= j /\ j <= i
          BY <4>1 DEF Asking, Current
        <5> QED BY <5>1 DEF Runs
      <4>3. Left' \subseteq Left \cup {i}
        BY <2>1, <4>2 DEF Left
      <4> QED BY <4>3
    <3>2. CASE ~\E i \in Runs : Asking(i)
      <4>1. Left' \subseteq Left \cup {0}
        BY <2>1, <3>2 DEF Left
      <4> QED BY <4>1
    <3> QED BY <3>1, <3>2
  <2>6. Upsets' = Upsets + 1
    BY <1>0, <2>1 DEF Upsets
  <2> HIDE DEF Spent, Left
  <2> QED BY <2>3, <2>4, <2>5, <2>6, AccountedLess
<1> QED BY <1>1, <1>2

LEMMA AccountedInit == Init => Accounted
<1> SUFFICES ASSUME Init PROVE Accounted
  OBVIOUS
<1>1. tick.at = "off" /\ tick.batch = {} /\ \A i \in Runs : run[i].state = "absent"
  BY DEF Init, NoTick, NoRun
<1>2. Spent = {} /\ Left = {}
  BY <1>1 DEF Spent, Left, Asking
<1>3. Cardinality({}) = 0
  BY FS_EmptySet
<1>4. Upsets = 0
  BY DEF Init, Upsets
<1> QED BY <1>1, <1>2, <1>3, <1>4, AutomationAssumption DEF Accounted, BatchOK

LEMMA AccountedNext == Typed /\ Typed' /\ Accounted /\ [Next]_vars => Accounted'
<1> SUFFICES ASSUME Typed, Typed', Accounted, [Next]_vars PROVE Accounted'
  OBVIOUS
<1>1. CASE TickStep
  BY <1>1, AccountedAside, AccountedRuns, AccountedCall, AccountedBreaks DEF TickStep
<1>2. CASE ~TickStep
  BY <1>2, AccountedAside, AccountedRuns, AccountedBreaks DEF Next
<1> QED BY <1>1, <1>2

\* For every budget and batch: whatever is queued and however late it is executed, of the
\* unattended runs created within an hour no more than the budget succeed.
THEOREM BudgetIsKept == Spec => []BudgetKept
<1>1. Typed /\ Accounted => BudgetKept
  <2> SUFFICES ASSUME Typed, Accounted PROVE BudgetKept
    OBVIOUS
  <2> DEFINE Won == {i \in Runs : run[i].state = "succeeded" /\ run[i].created >= now - Hour}
  <2>1. Won \subseteq Spent /\ Won \subseteq Runs /\ Spent \subseteq Runs
    BY DEF Spent
  <2> HIDE DEF Spent, Won
  <2>2. IsFiniteSet(Spent) /\ Cardinality(Spent) \in Nat /\ Cardinality(Won) \in Nat
    BY <2>1, RunsFinite
  <2>3. Cardinality(Won) <= Cardinality(Spent)
    BY <2>1, <2>2, FS_Subset
  <2>4. Cardinality(Won) <= MaxPerHour
    BY <2>2, <2>3, Numbers DEF Accounted
  <2> QED BY <2>4 DEF Won, BudgetKept
<1> QED BY <1>1, TypedInit, TypedNext, AccountedInit, AccountedNext, PTL DEF Spec

\* For every number of runs: only a crash or a failed write leaves an unattended run
\* marked running that no tick is waiting for, one run each.
THEOREM StrandedOnlyByFailure == Spec => []StrandedByFailure
<1>1. Typed /\ Accounted => StrandedByFailure
  <2> SUFFICES ASSUME Typed, Accounted PROVE StrandedByFailure
    OBVIOUS
  <2>1. \A i \in Runs : At("call") /\ Current(i) <=> Asking(i)
    BY DEF At, Asking, Accounted, BatchOK
  <2>2. {i \in Runs : run[i].state = "running" /\ ~(At("call") /\ Current(i))} = Left
    BY <2>1 DEF Left
  <2> QED BY <2>2 DEF StrandedByFailure, Accounted, Upsets
<1> QED BY <1>1, TypedInit, TypedNext, AccountedInit, AccountedNext, PTL DEF Spec
=============================================================================

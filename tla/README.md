# PeakUI in TLA+

Specifications of the concurrent core of PeakUI, the TLC configurations that
check them on small instances, and TLAPS proofs of the properties that matter
most for every size. File references are relative to the repository root
(`src/lib/...`, `scripts/...`).

## 1. The system

PeakUI is a Next.js application (`src/app`, `src/lib`) over PostgreSQL (Prisma),
with several long-lived processes beside it. What they share is rows, files and
HTTP; there is no other coordination, so everything that is hard here happens
between two awaited calls.

| Component | State | Operations | Interacts with |
|---|---|---|---|
| Durable WorkSpaces runs (`workspace-agent-run.ts`, `scripts/workspace-daemon.ts`) | `WorkspaceAgentRun` rows: status, heartbeat, checkpoint, encrypted secrets; in the daemon `inFlightRunOwners`, detached `executeRun` calls | queue, dispatch, execute, stop, retry, sweep, crash, restart | the app creates and stops rows; the daemon executes them, calling the app's own routes; both write chat sessions and the event log |
| Run event log (`workspace-agent-run.ts`, `runs/[id]/events`) | `WorkspaceAgentRunEvent(runId, sequence)`, a counter in the execution, a cursor in each reader | append, append-next, read after a cursor, prune | written by daemon and app, read by browsers |
| Knowledge Base ingestion (`api/rag/route.ts`, `rag-spool.ts`, `scripts/rag-worker.ts`, `rag-queue.ts`, `rag-engine.ts`) | `Document` and `DocumentChunk` rows, the spool directory | upload, delete, reindex, claim, extract, embed, index, clean up, recover | app and worker share rows and files without locks |
| Automation scheduler (`workspace-tool-automation.ts`, `...-execution.ts`) | heartbeats, schedules, monitors, notifications, unattended runs | one tick in the daemon every five seconds; edits by the app | shares the daemon process; writes chat sessions |
| Tool approvals, shell (`workspace-tool-tool-approvals.ts`, `shell-execution.ts`) | signed tokens only | request, approve, execute | called by runs and by the browser |
| Image downloads (`image-download-manager.ts`) | `ImageModelDownload` rows, partial files, `activeDownloads` | queue, start, pause, delete, resume at boot | app only |
| Coder router (`scripts/coder-lxd/workspace-router.mjs`) | `runtimes`, `starts`, `modelRefreshes` by directory | start, refresh, proxy, child exit | app's coder routes |
| Browser pool (`uwaf-pool.ts`), live browser | managed sessions, launch promises | ensure, evict, expire, close | tool routes |
| Context ledger, session summaries, memory files, backup | rows and small files | recompute, read-modify-write, export and import | sessions |
| Chat completion, documents, settings, accounts, UI, install scripts | none of protocol interest | | |

### What is hard, and what makes each part correct

* **Runs.** A Stop may arrive between any two awaits of the execution; the
  daemon may die anywhere, leaving rows that say `running`; executions are
  detached, so dispatch decides on two counts that disagree. Correct means: one
  run per account, never more than the configured slots, a row is not taken from
  an execution that is alive, a tool call whose result is unknown is not
  repeated, a completed row stays completed, credentials go when the run is
  done, the session is saved before completion is reported, and every queued
  run is completed in the end.
* **Ingestion.** The app, the worker and its recovery each act on a row read
  earlier. Correct means: a ready document can be indexed again, a deleted one
  stays gone, an accepted upload is not failed by an older job, a file that
  kills the parser does so a bounded number of times, and every upload settles.
* **Event log.** No reader misses a frame that was appended before the run was
  reported complete; sequences never go backwards.
* **Automation.** A due trigger is delivered, once per period except across a
  crash or failing writes; an item that is deleted or disabled does not stop the others
  for good.
* **Downloads.** A file marked done has the bytes of the model, whatever starts,
  pauses, deletions and restarts crossed it (overlapping requests break this).
* **Router, pool.** A directory or context has one live runtime, and a caller is
  only handed one that is ready; limits hold while launches are in progress.

The full list of hazards, each at its line and with the property that covers it
or the reason none does yet, is in `PROJECT.json`.

## 2. Modules

| Module | What it is |
|---|---|
| `DurableRun` | abstract: the seven phases of a run and its one tool call, as the documentation promises them |
| `AgentRun` | rows, dispatcher, executions, Stop requests and faults, with the properties |
| `MCAgentRun` | instances for TLC |
| `AgentRun_proofs` | the theorems about `AgentRun` |
| `AgentRun_refines` | the proof that `AgentRun` implements `DurableRun` |
| `KnowledgeBase` | abstract: documents, what is stored and what is found of them, one job, as the documentation promises them |
| `RagIngest` | ingestion of one file name: app, worker, recovery, spool |
| `MCRagIngest` | instances for TLC |
| `RagIngest_proofs` | the theorems about `RagIngest` |
| `RagIngest_refines` | the proof that `RagIngest` implements `KnowledgeBase` |
| `ImageDownload` | one model file: its row, its transfers, pause, deletion, restart |
| `MCImageDownload` | instances for TLC |
| `ImageDownload_proofs` | the theorems about `ImageDownload` |
| `RunEvents` | composes `AgentRun` with the event log: its writers, their numbers, pruning, and a client of the event stream |
| `MCRunEvents` | instance for TLC |
| `RunEvents_proofs` | the theorems about `RunEvents` |
| `Automation` | the automation tick of the daemon against the edits of the user, with unattended runs |
| `MCAutomation` | instance for TLC |
| `Automation_proofs` | types, deliveries, alarms and nudges of `Automation`, proved |
| `Automation_runs` | the budget of unattended runs, and those left behind, proved |

Operators whose comment starts with "Defect:" are variants of the operator that
follows them. They are not part of the specification; each is a plausible mistake in
that code, used to confirm that a property notices it.

### AgentRun

One action per awaited step. `exec[r].at` is the place in `executeRun`; the
place names follow the code (`lookup`, `claim`, `load`, `prepare`, `vision`,
`round`, `think`, `model`, `plan`, `mark`, `send`, `call`, `settle`, ...). The
dispatcher is `Sweep`, `CountActive`, `SelectRuns`, three steps because its three
queries are three awaits; `workspaceDispatchRunning` makes it one call at a time. A
Stop is `PressStop`, `ClaimStop`, `SaveStop`, `AppendStop`.

| Variable | Code |
|---|---|
| `status`, `secrets`, `age` | columns `status`, `secretsCiphertext`, `heartbeatAt` |
| `pending` | `requestJson.__peakui_checkpoint.pendingTool` |
| `transcript` | what the saved session ends with for this turn |
| `inFlight`, `exec`, `dispatcher`, `daemonUp` | memory of the daemon, lost when it dies |
| `stop` | a `cancelWorkspaceAgentRun` call in the app |
| `clash` | the Stop frame took the number the execution's counter will use next, so that its next append throws |
| `open`, `late` | history: a call whose result is not recorded; calls that left after the row was cancelled |

Abstractions. A run is known by its creation order. Adjacent frames with no read
between them are one step. The request and execute pair of an approved tool
(`callApprovedTool`) is one call. Text, images and the model's answer
are choices: tool, reply, or a reply that reads as waiting for an approval, which
is how line 800 decides. Of the event log this module keeps only `clash`;
`RunEvents` adds the rest. A database that fails is not modelled; the app being unreachable is
(`AppUnreachable`), and so is a session that is deleted while `finalizeChatSession` saves
its message: the update of a row that is gone throws, into the catch block (`Throws`), or, when it
was the failure message that was to be saved, into that save's own catch block
(`FailureUnsaved`). Each run has its own transcript: two runs queued in one
session overwrite one another's turns, which is listed as a hazard without a
property.

`KeepsPromise` states that `AgentRun` implements `DurableRun`. The mapping is
`PhaseOf` and `CallOf`: statuses map to phases (`queued`, `running`, `stopped`,
`done`, `failed`, `parked`, and absent), and a call is *held* while its execution is
between sending it and recording it, *lost* if the execution ended without
recording it. `DurableRun` lets nobody open a second call on a lost one, record it as
answered, or let its run succeed or park.

### RagIngest

The rows that may exist under one file name, in creation order; a file is its
content hash. `Retained` are the types whose bytes stay in `originalContent`,
`Unreadable` those no text comes out of, `Poison` those whose extraction exhausts
the worker's memory. Worker, upload, deletion and reindexing each have their own
place and the values they read earlier: that is where the races are. Chunks and
status are one step because they are one transaction. The check for the spool
file and the conditional update of recovery are one step: every step that could
come between them either makes the update a no-op or commutes with it.
Nothing is assumed about an upload that is under way when the worker restarts. Only the
fifteen minute sweep needs an assumption: a request that is still
staging touched its row more recently than that.

| Variable | Code |
|---|---|
| `doc`, `chunks` | `Document` rows with `status`, `contentHash`, `originalContent`, `indexingAttempts`; the file their `DocumentChunk` rows were cut from |
| `spool` | `rag-spool/<id>.bin` |
| `worker`, `todo` | local variables of `processNextDocument` and `recoverInterrupted`; forgotten between two documents, since the next one reads them anew |
| `upload`, `deleting`, `reindexing` | `POST`, `DELETE` and `reindexDocumentsIfModelChanged` calls in the app |

Whether a file's bytes are kept in the row (`Retained`) is decided anew by each upload from
its name and MIME type, and browsers disagree about types, so one name may be kept by one upload
and not by the next. `SpoolKeptForReindex` therefore has an exception, which the
code does meet: a document of a retained type that is replaced, while it is being embedded, by
one that is not retained ends ready with the old chunks (the finding of `rag_replaced`), and
what was staged for the new file may be gone.

`KeepsPromise` states that `RagIngest` implements `KnowledgeBase`. The mapping:

| `KnowledgeBase` | `RagIngest` |
|---|---|
| `state` | the status column, in the words of the promise (`StateOf`) |
| `found` | `chunks` |
| `held` | the spool file and `originalContent` (`Held`) |
| `offer` | the document and file of a request between its row and its settling (`Offer`) |
| `asked` | `reindexing` |
| `job` | the worker's document from the pick to the last write, with what it has read of it (`Job`) |

Cleanup and recovery are not jobs: what they may do is `Release` (never the last copy of a
ready document) and `Recover` (only while no job is at work). Attempts, retries, the
choice of the oldest row, crashes and the difference between spool and row vanish. The
promise does not say which of the files brought for a document is found: that is the
finding of `rag_replaced`.

### RunEvents

Extends `AgentRun`: every action of it occurs once in `EventNext`, conjoined with what it
does to the log, so that the next-state relation is that of `AgentRun` with `clash`
decided by the log instead of by choice. The writers are the execution
(`seq`, line 561 on), the output stream (`owed`, which draws a number in `queueEvent` and
writes it later; `stray` when the round threw and nobody awaits the queue), and the Stop
request (`nextRunSequence`). The reader is one `GET .../events` call: it
reads the row, then the frames beyond its cursor, and closes on a terminal
status. Frames have a kind, not a content; adjacent frames are one frame. Pruning
takes a completed run's frames when no execution, stream or open reader is left
(they are a day old at least; a reader is closed after fifteen minutes).

### Automation

One account. `tick` is one `runAutomationTick` call: `TickBegin` reads the due
rows of all three kinds at once (`seen`), then each source is an iteration that delivers
(`BeginHeartbeat`, `BeginSchedule`, or `Look` and `Alarm`) and moves the due time
(`MoveHeartbeat`, `MoveSchedule`, `MoveMonitor`), in its body or in its catch block. Either update
may throw: the row is gone or has no next time (`CannotMove...`), or the write fails
(`UpdateFails`). From the body that leads to the catch block, from there it ends the tick. Then `TakeBatch` and the unattended
runs: `CallModel`, `Skip`, `FinishRun`, `RunThrows`. Steps are cut where the code awaits
something another actor can change; a delivery and the event row after it are one step.

`createAutomationNotification` looks for a duplicate and creates a row in two awaits. For the
rows of the tick the two are one step (`Nudge`), since the one tick of the one daemon is the only
creator of nudges from its sources. Wake requests come from the app, several at a time: they look
in `Wake` and create in `WakeNudge`, so two of them may create equal nudges, and `NoDoubleNudge`
is about the nudges of the tick only.

`OncePerDue` counts in halves: a due time is delivered once more for each crash, and for each
two failed writes, one of the event row or the update in the body and one of the update in the catch
block. One failed write alone never delivers a due time again, because the catch block moves it.
`StuckFiresAgain` is about the stuck schedule the tick comes to first; a later one is not even
delivered.

| Variable | Code |
|---|---|
| `schedule`, `monitor`, `heartbeat` | the rows, with `nextRunAt`, `lastFingerprint`, `lastStatus` |
| `nudges`, `run` | `AutomationNotification` rows not dismissed, `AutomationExecutionRun` rows |
| `waking` | wake requests between their lookup and their create |
| `daemonUp`, `tick`, `seen` | memory of the daemon |
| `world` | what the monitored files and pages hold |
| `fired`, `faults`, `crashes` | history |

Abstractions. A cron expression is the set of minutes it names (`Fires`) and a horizon. A look
finds one of two contents, nothing, or throws. There is one list of stale threads. An id that was
deleted is not used again. Left out: parsing of cron fields and time zones, marks of
seen notifications, the notifications about unattended runs, the session an
unattended run writes.

### ImageDownload

A file has `Size` chunks; what is on disk is the sequence of chunk numbers
written, so that a gap, a repetition and a truncation all show. A path names a
file and an open writer keeps its file when the path is removed or renamed,
hence file identities. `calls[c]` is one run of `startImageDownload`: what it read
of the row, how much it found on disk (`from`), how much it wrote (`got`), and
the file its writer holds.

| Variable | Code |
|---|---|
| `row` | the `ImageModelDownload` row: status and target folder, with an identity of its own per creation |
| `disk`, `content` | the models directory: the folder the file was queued for (`target`) and the one its header belongs in (`proper`) |
| `calls`, `pausing`, `deleting` | `startImageDownload`, `pauseImageDownload` and `deleteImageDownload` calls in the app, lost when it dies |
| `used` | what was used of the bounds |

Abstractions. `activeDownloads` and its abort controllers are left out: nothing
calls `abortImageDownload`, so they change no behaviour. The server honours a Range request and
answers 416 beyond the end; it may fail or break off at any chunk. Progress
numbers are not modelled.

Nothing keeps a user from asking while an earlier request is at work, and the model does not
either: a start is accepted whatever the row says and whatever transfers it, a queueing at any time.
Such a request is counted in `used.overlaps`; it is the bound of a run and the history the
properties speak of. The awaits between the look at the partial file and the
writer are steps of their own (`Stat`, `Fetch`, `Total`, `Open`), so a deletion of row and file can
fall between; the append flag then creates a file without its first chunks, and
`past.torn` keeps that it happened. `WholeUnlessCrossed` says that these two are the only
ways to a download that is done and not whole. `past.unsaved` keeps that the update of the catch
block failed as well, after which the row says `downloading` until the next start of the app.

## 3. Runs

| Run | Instance | Shows | Size |
|---|---|---|---|
| `agent_run_stop` | 1 run with images, 2 rounds, a Stop, 3 faults, code's own queue window (8, 16) | type, row kept, secrets dropped, saved before reported, at most one late call, no saved turn served again without a failure, completion is final, the promise | 34 thousand states |
| `agent_run_dispatch` | 3 accounts, 2 slots, window 1, a fault | capacity | 2.9 million |
| `agent_run_account` | 2 runs of one account, 2 slots, a Stop, a fault, fairness | one run per account, the promise with two runs, completion, stopped runs let go | 110 thousand |
| `agent_run_late_call` | 1 run, no fault | **violation** of "No further tools will run" | |
| `agent_run_lost_stop` | 1 run, no fault | **violation** of "a saved stop message" | |
| `rag_settle` | 2 uploads of 3 files (one kept in the row, one not, one that kills the parser and is kept), 2 rows, 2 attempts, 1 reindex, 1 fault, deletions, fairness | everything in `RagIngest` that holds, the promise of `KnowledgeBase` included | 460 thousand |
| `rag_replaced` | 2 files, 2 uploads, 1 row | **violation**: ready with the chunks of the file that was replaced | |
| `rag_removed` | a readable and an unreadable file, 2 uploads, 1 row | **violation**: queued without bytes | |
| `image_resume` | a misfiled file of 2 chunks, 2 rows, 2 queueings, a pause, 2 faults, deletions, 1 overlapping request, fairness | type, done is whole unless requests overlapped or a resume lost its file, bytes are kept, an interrupted download resumes | 1.1 million |
| `image_overlap` | 1 row, 3 chunks, a pause, 2 transfers that overlap, no fault | **violation**: done over a file that is not whole | |
| `run_events` | 1 run with images, a streamed round, a Stop, a fault, a client that comes and goes | numbering, collisions, nothing skipped by a reader, closing after the last frame | 1.8 million |
| `automation_tick` | 2 schedules of one expression that runs dry, 1 monitor of mode "contains", the heartbeat, 2 unattended runs, 2 upsets (edits, changes, failed writes, crashes), fairness | deliveries, alarms, nudges, the budget, stranded runs, due rows served, the queue drained, and the stuck schedule | 410 thousand |

Why these bounds. Every race of a run with itself needs one run, one Stop and
the faults between them; three faults allow a crash, a retry and a crash again.
Races between runs need two of one account, and contention for slots one run
more than slots. Two rounds distinguish a first from a later round. The window of
candidates is set to 1 where accounts compete so that it does exclude someone.
Time is in ticks: `RunTimeout < StaleAfter` is all the code guarantees
(fifteen minutes or less against twenty). In `rag_settle`, two uploads give a
replacement of a live job, two rows a deletion followed by a new row, and two
attempts instead of three a first try, a retry and the refusal of another. The
one fault may fall on any step of the app or the worker, and the poisonous file
kills the worker without counting as one. In `image_resume`, two chunks give a transfer that breaks off before, inside
and after the file, two faults a resume that is interrupted itself, two rows a deletion followed by a new
download of the same file, and the one overlapping request may be any start or queueing. The theorems
hold for any number of each. In `run_events` one streamed round suffices for a number drawn early and
written late, and the fault for an execution that continues the log of
another, or for a stream given up. In `automation_tick`, two upsets are what it takes for a crash
and a crash again, an edit under a failed write, two edits of one row, or a failed write in the body
and in the catch block; two minutes let a due time be moved and come again; the expression names two
minutes and then none within the horizon, so that both schedules may be stuck at once. Monitors of
the modes "changed" and "missing" are covered by the theorem `AlarmedOnce` and not by this run. One run an hour and a batch of one put both limits within reach of two runs.

Deadlock is not checked: users owe
nothing, uploads and reindexings are bounded, and the system may rest.

Fairness. `AgentRun`: the five-second timer (`Dispatch`), the restart policy of
the container (`Restart`), time (`Tick`), the executions and the requests in
progress, whose every await either resolves or is aborted by its own timer
(`callAppApi` 120 s, `readModelRound` 15 min). Users and faults have none.
`RagIngest`: the worker's loop and restart policy, requests once accepted, and
strong fairness for the sweep, which is possible only between two documents
but which the loop tries every minute. `ImageDownload`: requests once accepted,
transfers, which deliver or break, and the restart of the app, which calls
`resumeInterruptedDownloads`. `Automation`: the tick (the daemon calls it again seconds
after it ended, and every call in it returns or times out) and the restart policy; the user, the
watched world and the clock owe nothing.

## 4. Findings

* **A call leaves after the stop message** (`NoCallAfterStopMessage`). The last
  status check is before the planning frames and the checkpoint
  (`workspace-agent-run.ts:707`), the call is at line 743. At most one call does
  so, which is proved.
* **A stop message is lost** (`StopMessageKept`). After line 778, and in the catch
  block, the transcript is replaced without another look at the status, so the
  session of a cancelled run may end with the reply or a failure message. The
  Stop frame itself can cause the second: it takes the sequence number the
  execution uses next, the append throws, and the catch block saves
  "Server WorkSpaces run failed".
* **A replaced document keeps its old chunks** (`SearchableIsCurrent`). The check
  that an older job must not overwrite its new file runs before the embeddings,
  the write after them is by id alone (`rag-engine.ts:1211`), and it sets the
  status to ready, so the new file is never indexed.
* **Queued bytes are removed** (`QueuedHasBytes`). `rag-worker.ts:71` reads the
  status, line 75 removes the spool file; an upload staged in between loses it.
* **Two transfers of one file** (`DoneIsWhole` under `image_overlap`). Nothing keeps
  two `startImageDownload` calls for one row apart (`image-download-manager.ts:187`):
  Resume after Pause, while the paused transfer still runs, writes the same
  range twice and reports the download done.
* **A rare schedule blocks the tick** (`StuckFiresAgain`, `workspace-tool-automation.ts:1186`).
  `getNextCronRun` throws when an expression has no time within 366 days. One
  like `0 9 29 2 *` is accepted while its time is near; once it was delivered,
  moving it throws in the body and in the catch block, the tick ends, and the next tick
  delivers it again, before anything behind it. `DueIsServed` and `QueueDrains`
  hold except then.

Seen on the way, without a run of their own:

*Downloads and ingestion.* A user who never overlaps two transfers can get a file that is done and not
whole: deleting a download between the look at its partial file and the opening of the writer
(`image-download-manager.ts:154`, `187`) leaves a file without its first chunks at the path, and a
download that is queued later continues it. When the update of the catch block (246) fails, the row says
`downloading` until the app starts again. A pause only writes the status, although the
comment at `image-download-manager.ts:100` says it stops the fetch, and the
transfer then reports done. An app that dies after the last chunk and before the
file was moved to its proper folder finds the file complete when it resumes (416)
and leaves it where it is. A queued row whose start was lost waits for the user.
Deleting a document while it is being staged leaves its spool file behind
(`docs/settings-and-rag.md` says deletion removes it), and that document still
describes an `after()` queue with cancellation, which is the unused first half of
`rag-queue.ts`. Recovery may queue a row whose upload is still staging; the job then reads
the old spool file under the new hash.

*Automation.* When a write fails in the body and in the catch block of an iteration, the tick throws with
the due time unmoved and the next tick delivers it again, without any crash. Two wake requests at once
may create equal nudges. A row deleted during a tick makes the update of the body and of the
catch block throw, which ends the tick. A crash, or settings that cannot be read, leave
an unattended run `running` for ever, and it counts against the budget for an hour. A
schedule edited during a tick gets a due time from its old expression; editing a
due schedule drops that occurrence; a delivery that failed still moves the due time.
A monitor whose target is edited keeps the fingerprint of the old one and raises a
false alarm; one whose event could not be written is set to `error` and alarms again. The
budget counts runs by creation time: an older run that is executed now is not counted, and
failed calls are free. Equal nudges within the window are one.

*Events.* A Stop of a waiting run whose frames were pruned numbers its frame
one; no reader is left that could have a higher cursor. The stream may close on `cancelled` before the Stop frame is written.

*Not modelled, read only.* `workspace-router.mjs` publishes a runtime before its health check, so a
second request may be handed one that is not ready. `uwaf-pool.ts` does not
count launches in progress against its limit.

## 5. Proofs

`AgentRun_proofs` proves, for every number of runs, accounts, rounds, faults and
every admissible capacity:

| Theorem | Statement | Inductive invariant |
|---|---|---|
| `TypeCorrect` | `Spec => []TypeOK` | `TypeInv`: `TypeOK` and `RoundsLeft` (an execution that may still begin a round has a round left, so the counter cannot pass `MaxRounds`) |
| `OneRun` | `Spec => []OneRunPerUser` | `SlotInv`: executions are held in `inFlight`; users a dispatch call counted still cover everyone occupying a slot; `OneRunPerUser` |
| `LiveRunKeepsRow` | `Spec => []LiveRunKeepsItsRow` | `RowInv`: adds that a live execution's heartbeat is no older than `RunTimeout`, so the sweep cannot see it as stale |
| `TerminalFinal` | `Spec => TerminalIsFinal` | `RowInv`: the writer of a completing status holds a row that is running or cancelled |
| `CapacityKept` | `Spec => []CapacityRespected` | `CapacityInv`: `SlotInv` and that the slots a dispatch call counted are still free when it uses them |
| `SecretsGone` | `Spec => []SecretsDropped` | `SecretInv` |
| `OneLateCall` | `Spec => []OneLateCallAtMost` | `LateInv`: a run with a late call is cancelled, and its execution is at a point from which it only looks at the status again or fails |
| `TurnSavedOnce` | `Spec => []SavedTurnNotRepeated` | `TurnInv`: `SavedInv`, and while nothing has failed (`Unfailed`) no frame collides, a running row has its execution, nothing is retried, and a row whose session is saved is on its way to a final status (`TurnOnce`) |
| `SavedFirst` | `Spec => []ReportedAfterSaved` | `SavedInv`: from the decision on an answer to the report of it the transcript ends with that answer; only a Stop, which holds a cancelled row, writes the session in between |
| `ImplementsPromise` (in `AgentRun_refines`) | `Spec => KeepsPromise` | `PromiseInv`: `SlotInv` and `RowInv`; an open call is on record in the checkpoint, and the execution that serves the run again has read it |

The only assumption is `AgentRunAssumption`: at least one run, one owner per
run, capacity between 1 and 4, rounds between 1 and 100 (both are clamped in the
code) and `RunTimeout < StaleAfter`. TLC evaluates it on every run. `Users` may
be any set, and is never assumed finite.

The argument is organised around `ExecuteKinds`: every step of an execution
either walks on without touching its row's status, completes its row, claims it,
gives it back, leaves, or kills the daemon. Most invariants need only that
classification, not forty cases each. `ImplementsPromise` rests on
`LiveRunKeepsRow`: a row whose execution is alive is not requeued, so a held call
is never taken for a lost one while its result can still arrive.

`RagIngest_proofs` proves, for every set of files, however they are kept, read or crash the
parser, and every number of rows, attempts, reindexings and faults:

| Theorem | Statement | Inductive invariant |
|---|---|---|
| `TypeCorrect` | `Spec => []TypeOK` | `Typed`: adds `RequestOK`, that a request past its lookup has a file, and one that settles its row has a row |
| `DeletedGone` | `Spec => []DeletedStaysGone` | `DeletedStaysGone` itself: the transaction that writes chunks is the one that needs the row |
| `NotFailed` | `Spec => AcceptedNotFailed` | from `Typed` and the steps: every update to `error` but that of a request names the status it expects |
| `CopyIsKept` | `Spec => []SpoolKeptForReindex` | `SpoolInv`: only retained types are kept in rows, and in the worker's copy of one (`OriginalsRetained`); what a `DELETE` is about to remove has no row (`DeletingGone`); what a job has read from the spool is still there, or of a retained type, or the document is deleted (`BytesStayed`); what the cleanup is about to remove is not the copy of a ready document (`RemovalSafe`) |
| `AttemptsAreBounded` | `Spec => []AttemptsBounded` | `AttemptInv`: a row that is still as recovery read it has no more attempts than it read (`SnapshotInv`), and a queued row has an attempt left (`AttemptLeft`) |
| `CurrentWhenApart` | `[]Apart` and `[][Stages]_upload` give `Spec => []SearchableIsCurrent` | `FileInv`: originals, spool files that no request is about to replace (`Pending`), files of staging requests, and the bytes of a job that can still pass its check or has passed it (`JobFits`), are those of the row's hash; so are the chunks of a ready row |
| `BytesUndisturbed` | `[]Undisturbed` and `[][Stages]_upload` give `Spec => []QueuedHasBytes` | `BytesInv`: every row that has not failed has a spool file, an original or a request about to stage one (`RowHas`), one about to be queued a spool file (`QueueHas`); what re-indexing is about to queue is ready (`ReindexReady`), what the cleanup is about to remove is not needed (`RemoveFits`), nobody but a job fails its row (`JobAlive`) |
| `ImplementsPromise` (in `RagIngest_refines`) | `Spec => KeepsPromise` | `SpoolInv`, and that a job has no bytes before it reads them (`NoBytesYet`) |

The assumption is `RagIngestAssumption`: the kinds of file are files, there is at least
one row and one attempt, and finitely many requests. The arguments are
organised around `RowStep`: whatever happens to a row is one of eight things, each with the row it names.

`CurrentWhenApart` and `BytesUndisturbed` delimit two findings. The system violates both
properties (`rag_replaced`, `rag_removed`), so the theorems say what it takes. A request has a document
*in hand* from its row to its settling. `Apart`: no two requests have one document in hand, and none has
that of a job which is about to read its bytes or is past its check. `Undisturbed`: no
document in hand is about to be queued by a re-indexing or to lose its spool copy to the
worker. `Stages`: a request that has its row stages its file. Everything else stays free:
replacing a document at another moment of its job, deletions, re-indexing,
recovery from older reads and crashes of the worker; for `BytesUndisturbed` also two requests for one
document. TLC agreed with both invariants on two and three uploads before they were proved,
and found a violation of the conclusion with any one clause of the hypotheses dropped.

`Automation_proofs` and `Automation_runs` prove, for every number of schedules, monitors,
expressions, targets, runs and upsets:

| Theorem | Statement | Inductive invariant |
|---|---|---|
| `TypeCorrect` | `Spec => []TypeOK` | `Typed` |
| `DueDeliveredOnce` | `Spec => []OncePerDue` | `ServedOnce`: twice the deliveries of a due time are at most two more than `Cost`, which is two for a crash and one for a failed write; at most `Cost` while the schedule waits for its turn, at most one more in its catch block, unless it is gone |
| `AlarmedOnce` | `Spec => []AlarmsOnce` | `AnnouncedOnce`: what was announced is remembered by the row (`Remembers`), or by the tick that still has the rule it announced by (`SameRule`), or a failure was counted |
| `NudgesSpaced` | `Spec => []NoDoubleNudge` | `NoDoubleNudge`, and that no nudge is younger than now (`NudgesPast`) |
| `BudgetIsKept` | `Spec => []BudgetKept` | `Accounted`: the runs created within the hour that succeeded, or whose model is being called (`Spent`), are within the budget |
| `StrandedOnlyByFailure` | `Spec => []StrandedByFailure` | `Accounted`: the batch holds queued runs but for the one being called (`BatchOK`), and the others that are running (`Left`) are paid for |

They assume `AutomationAssumption` only.

`ImageDownload_proofs` proves, for files of every size and every number of calls, overlapping
requests, rows and faults:

| Theorem | Statement | Inductive invariant |
|---|---|---|
| `TypeCorrect` | `Spec => []TypeOK` | `TypeInv`: for each part of the state |
| `DoneWhole` | `Spec => []WholeUnlessCrossed` | while no request has overlapped and no resume has lost its file: `QuietInv`, that there is one call at a time, and no row while a deletion is about to remove the file (`Patience`) and what a call knows of the disk is so, and `WholeInv`, that every file holds the first chunks of the model, a transfer has continued the file it found (`Fits`), and what it knows of the row is so as well, unless the row was deleted (`RowWaits`) |
| `FilesGrow` | `Spec => GrowsOnly` | while no request has overlapped: `QuietInv`; the file a call truncates was empty (`Looked`) |

They assume `ImageDownloadAssumption` only. The exception for overlapping requests cannot be dropped: the run
`image_overlap` shows `DoneIsWhole` violated by two transfers of one file.

`RunEvents_proofs` proves, for every number of runs, stream frames, executions and faults:

| Theorem | Statement | Inductive invariant |
|---|---|---|
| `RunsCarryOver` | `EventSpec => KeepsPromise`, and each safety property of `AgentRun` | none: from `LogIsAddition` and `AgentRun_refines` |
| `LogIsAddition` | `EventSpec => Spec` | none: every step with its effect on the log is a step of `AgentRun`, or leaves its variables alone |
| `ClashFromStop` | `EventSpec => []ClashIsCollision` | `LogInv`: no number is beyond the one the execution writes next (`CountOK`); a stream that was given up writes behind the last frame, or behind the one the catch block is about to write (`StrayOK`); a Stop that was noticed is over, so there is no second one |
| `CounterFollows` | `EventSpec => []CounterIsLast` | `LogInv` |
| `EndsAnnounced` | `EventSpec => AnnouncedFirst` | `LogInv`: between the announcing frame and the status the frame is in the log (`TellOK`) |
| `ClientMissesNothing` | `EventSpec => []NothingSkipped` | `ReadInv`: a cursor stands on a frame or at the beginning (`ReadOK`), and all writers but an abandoned stream write behind the last frame (`Logged`) |
| `CloseIsInformed` | `EventSpec => []ClosesInformed` | `ReadInv`: after a client saw a run complete, no execution serves it again |
| `EventTypes` | `EventSpec => []EventTypeOK` | `ReadInv` |

They assume `AgentRunAssumption` and `RunEventsAssumption`. `LogInv` contains the
invariants of `OneRun` and `LiveRunKeepsRow`: a run is picked only while no execution
of it is left, and a serving execution has not lost its row. By `LogIsAddition` every theorem
about `AgentRun` holds of the runs with their log; `RunsCarryOver` says so of the promise
and of each safety property.

Only model-checked: `RunsComplete`, `StoppedRunLetsGo`, `UploadsSettle`,
`InterruptedResumes`, `DueIsServed`, `QueueDrains`, `StuckFiresAgain` (liveness under fairness is
out of this prover's reach, as is `ENABLED`). Every other property of a passing run is
proved. No module declares a recursive operator; what a recursive definition
computes for every input could not be proved, for want of induction over data.

## 6. Plan

Done: durable runs with their promise, the refinement and the event log; Knowledge Base
ingestion; image downloads; the automation tick. Of what is left, in order:

1. `CoderRouter` (one runtime per directory, concurrent starts over one map) and
   `BrowserPool` (launches against a limit, eviction).
2. Two runs of one chat over what `finalizeChatSession` replaces; creation of runs with one
   idempotency key.

## 7. Not modelled

Chat completion, rendering and extraction transform data and have no protocol; accounts
and settings are row lookups; tool approvals are signed tokens without state; backup is sequential; session
summaries and memory files are small read-modify-writes; the live browser proxies
input and frames; UI and installation have no state others rely on.
The coder router, the browser pool and the coder's event stream have a protocol, and are
planned rather than left out.

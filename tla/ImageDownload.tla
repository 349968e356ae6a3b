---------------------------- MODULE ImageDownload ----------------------------
(***************************************************************************)
(* One model file being downloaded: its row, the calls that transfer it,   *)
(* pauses, deletions, and the restart that resumes what was interrupted.   *)
(*                                                                         *)
(* The file has Size chunks; what is on disk is the sequence of chunk      *)
(* numbers written.  A path names a file and an open writer keeps its file *)
(* when the path goes, so files have identities of their own.              *)
(***************************************************************************)
EXTENDS Integers, Sequences, SequencesExt, FiniteSets, FiniteSetsExt

CONSTANTS
    Size,        \* chunks of the complete file
    Misfiled,    \* its header belongs in another folder than it was queued for
    MaxRows,     \* bound: rows created for the file (it may be deleted)
    MaxQueues,   \* bound: times the file is queued
    MaxPauses,   \* bound: pauses
    MaxOverlaps, \* bound: queueings and starts while an earlier request is at work
    MaxFaults,   \* bound: crashes, broken transfers and failed updates
    MaxCalls     \* bound: startImageDownload calls at a time

ASSUME ImageDownloadAssumption ==
    /\ {Size, MaxRows, MaxQueues, MaxCalls} \subseteq Nat \ {0}
    /\ {MaxPauses, MaxOverlaps, MaxFaults} \subseteq Nat
    /\ Misfiled \in BOOLEAN

Calls == 1..MaxCalls
Files == 1..(MaxCalls + 2)
Paths == {"target", "proper"}     \* the folder it was queued for, the right one

VARIABLES
    row,      \* the ImageModelDownload row; id 0 when there is none
    disk,     \* disk[p]: the file at path p, or 0
    content,  \* content[f]: the chunks in file f
    calls,    \* calls[c]: a startImageDownload call
    pausing,  \* id a pauseImageDownload call is about to pause, or 0
    deleting, \* a deleteImageDownload call
    appUp,
    used,     \* rows, queues, pauses, overlaps and faults used of the bounds
    past      \* history: a resume lost its file before it opened it (torn), a failed
              \* transfer could not say so (unsaved)

store == <<disk, content>>
vars  == <<row, store, calls, pausing, deleting, appUp, used, past>>

-----------------------------------------------------------------------------
Whole == [k \in 1..Size |-> k]

RowStatuses == {"queued", "downloading", "paused", "done", "error"}
NoRow == [id |-> 0, status |-> "queued", folder |-> "target"]

CallPoints == {"off", "read", "mark", "stat", "fetch", "total", "open", "pump", "inspect",
               "move", "finish", "already", "fail"}

\* Inside the try block; what goes wrong while the file is moved is caught there.
Trying == {"mark", "stat", "fetch", "total", "open", "pump", "finish", "already"}

\* What a call remembers: the row as it read it, how much it found on disk, how
\* much it has written since, and the file its writer holds.
NoCall == [at |-> "off", id |-> 0, folder |-> "target", from |-> 0, got |-> 0, file |-> 0]

NoDelete == [at |-> "off", id |-> 0, folder |-> "target"]

Live(c) == calls[c].at # "off"
Present(id) == row.id = id
Found(p) == disk[p] # 0
SizeAt(p) == IF Found(p) THEN Len(content[disk[p]]) ELSE 0

Step(c, p) == calls' = [calls EXCEPT ![c].at = p]
CallAt(c, p) == appUp /\ calls[c].at = p

\* prisma update of a row by its id: possible, or attempted for what it is worth.
SetStatus(id, s) == Present(id) /\ row' = [row EXCEPT !.status = s]
TrySetStatus(id, s) == IF Present(id) THEN SetStatus(id, s) ELSE UNCHANGED row

Unused == Files \ ({disk[p] : p \in Paths} \cup {calls[c].file : c \in Calls})

-----------------------------------------------------------------------------
(* Requests of the user *)

\* Nobody keeps the user from asking while a transfer runs, or while a deletion that
\* has removed the row is about to remove the file.
Busy == deleting.at = "file" \/ \E c \in Calls : Live(c)

MayAsk == Busy => used.overlaps < MaxOverlaps

\* The bounds after asking: u, and an overlap if there is one.
Asked(u) == [u EXCEPT !.overlaps = IF Busy THEN @ + 1 ELSE @]

\* queueImageDownload: upsert on the user, the model and the file name.
Queue ==
    /\ appUp
    /\ MayAsk
    /\ used.queues < MaxQueues
    /\ \/ /\ row.id # 0
          /\ row' = [row EXCEPT !.status = "queued", !.folder = "target"]
          /\ used' = Asked([used EXCEPT !.queues = @ + 1])
       \/ /\ row.id = 0
          /\ used.rows < MaxRows
          /\ row' = [id |-> used.rows + 1, status |-> "queued", folder |-> "target"]
          /\ used' = Asked([used EXCEPT !.queues = @ + 1, !.rows = @ + 1])
    /\ UNCHANGED <<store, calls, pausing, deleting, appUp, past>>

\* startImageDownload begins for the row called id; c only names the call.
Begin(c, id) ==
    /\ ~Live(c) /\ \A d \in Calls : d < c => Live(d)
    /\ calls' = [calls EXCEPT ![c] = [NoCall EXCEPT !.at = "read", !.id = id]]

\* The start that follows queueing, or a later one, whatever the row says.
Start(c) ==
    /\ appUp
    /\ row.id # 0
    /\ MayAsk
    /\ Begin(c, row.id)
    /\ used' = Asked(used)
    /\ UNCHANGED <<row, store, pausing, deleting, appUp, past>>

\* pauseImageDownload reads the row, then writes the status; nothing tells the
\* transfer, abortImageDownload has no caller.
PauseRead ==
    /\ appUp
    /\ pausing = 0
    /\ used.pauses < MaxPauses
    /\ row.id # 0
    /\ row.status \in {"downloading", "queued"}
    /\ pausing' = row.id
    /\ used' = [used EXCEPT !.pauses = @ + 1]
    /\ UNCHANGED <<row, store, calls, deleting, appUp, past>>

PauseWrite ==
    /\ appUp
    /\ pausing # 0
    /\ pausing' = 0
    /\ TrySetStatus(pausing, "paused")
    /\ UNCHANGED <<store, calls, deleting, appUp, used, past>>

DeleteRead ==
    /\ appUp
    /\ deleting.at = "off"
    /\ row.id # 0
    /\ deleting' = [at |-> "row", id |-> row.id, folder |-> row.folder]
    /\ UNCHANGED <<row, store, calls, pausing, appUp, used, past>>

DeleteRow ==
    /\ appUp
    /\ deleting.at = "row"
    /\ IF Present(deleting.id)
         THEN row' = NoRow /\ deleting' = [deleting EXCEPT !.at = "file"]
         ELSE UNCHANGED row /\ deleting' = NoDelete
    /\ UNCHANGED <<store, calls, pausing, appUp, used, past>>

DeleteFile ==
    /\ appUp
    /\ deleting.at = "file"
    /\ disk' = [disk EXCEPT ![deleting.folder] = 0]
    /\ deleting' = NoDelete
    /\ UNCHANGED <<row, content, calls, pausing, appUp, used, past>>

-----------------------------------------------------------------------------
(* The transfer: startImageDownload *)

Over(c) == calls' = [calls EXCEPT ![c] = NoCall]
Elsewhere == UNCHANGED <<pausing, deleting, appUp, used, past>>

ReadRow(c) ==
    /\ CallAt(c, "read")
    /\ IF Present(calls[c].id) /\ row.status # "done"
         THEN calls' = [calls EXCEPT ![c].at = "mark", ![c].folder = row.folder]
         ELSE Over(c)
    /\ UNCHANGED <<row, store>> /\ Elsewhere

\* Every update of a row that is gone throws, and ends in the catch block.
Mark(c) ==
    /\ CallAt(c, "mark")
    /\ \/ SetStatus(calls[c].id, "downloading") /\ Step(c, "stat")
       \/ ~Present(calls[c].id) /\ UNCHANGED row /\ Step(c, "fail")
    /\ UNCHANGED store /\ Elsewhere

Stat(c) ==
    /\ CallAt(c, "stat")
    /\ calls' = [calls EXCEPT ![c].at = "fetch", ![c].from = SizeAt(calls[c].folder)]
    /\ UNCHANGED <<row, store>> /\ Elsewhere

\* The Range request: answered by 416 when the file is already complete.
Fetch(c) ==
    /\ CallAt(c, "fetch")
    /\ Step(c, IF calls[c].from >= Size THEN "already" ELSE "total")
    /\ UNCHANGED <<row, store>> /\ Elsewhere

\* The total is recorded, which throws when the row is gone.
Total(c) ==
    /\ CallAt(c, "total")
    /\ Step(c, IF Present(calls[c].id) THEN "open" ELSE "fail")
    /\ UNCHANGED <<row, store>> /\ Elsewhere

\* Defect: the writer is opened without the append flag.
OpenedOver(c, s) == <<>>

\* What the file holds once it is open: flag "a" after a resume, else "w".
Opened(c, s) == IF calls[c].from > 0 THEN s ELSE <<>>

\* The writer opens, and creates what is not there any more; the history keeps
\* that a file to be continued was not.
Open(c) ==
    /\ CallAt(c, "open")
    /\ LET p == calls[c].folder
           f == IF Found(p) THEN disk[p] ELSE Min(Unused)
           s == IF Found(p) THEN content[f] ELSE <<>>
       IN /\ disk' = [disk EXCEPT ![p] = f]
          /\ content' = [content EXCEPT ![f] = Opened(c, s)]
          /\ calls' = [calls EXCEPT ![c].at = "pump", ![c].file = f]
          /\ past' = [past EXCEPT !.torn = @ \/ (calls[c].from > 0 /\ ~Found(p))]
    /\ UNCHANGED <<row, pausing, deleting, appUp, used>>

\* s with v at position i, zeros in any gap before it.
Put(s, i, v) ==
    [k \in 1..Max({Len(s), i}) |-> IF k = i THEN v ELSE IF k <= Len(s) THEN s[k] ELSE 0]

\* Defect: the range begins one chunk too late.
NextChunkLate(c) == calls[c].from + calls[c].got + 2

\* Defect: the request carries no Range header.
NextChunkFromStart(c) == calls[c].got + 1

NextChunk(c) == calls[c].from + calls[c].got + 1

\* A chunk arrives and is written: at the end of the file after a resume, else at
\* the writer's own place.  Now and then the progress is saved, too.
Pump(c) ==
    /\ CallAt(c, "pump")
    /\ calls[c].from + calls[c].got < Size
    /\ LET f == calls[c].file IN
       content' = [content EXCEPT ![f] =
                     IF calls[c].from > 0 THEN Append(@, NextChunk(c))
                                          ELSE Put(@, calls[c].got + 1, NextChunk(c))]
    /\ \/ calls' = [calls EXCEPT ![c].got = @ + 1]
       \/ ~Present(calls[c].id) /\ Step(c, "fail")
    /\ UNCHANGED <<row, disk>> /\ Elsewhere

PumpEnds(c) ==
    /\ CallAt(c, "pump")
    /\ calls[c].from + calls[c].got = Size
    /\ calls' = [calls EXCEPT ![c].at = IF calls[c].folder = "target" THEN "inspect" ELSE "finish",
                              ![c].file = 0]
    /\ UNCHANGED <<row, store>> /\ Elsewhere

\* inspectSafetensorsFile: what it cannot read stays where it is.
Inspect(c) ==
    /\ CallAt(c, "inspect")
    /\ LET f == disk["target"]
           misplaced == Misfiled /\ Found("target") /\ content[f] # <<>> /\ content[f][1] = 1
       IN Step(c, IF misplaced THEN "move" ELSE "finish")
    /\ UNCHANGED <<row, store>> /\ Elsewhere

\* rename, which fails when the file was removed since.
Move(c) ==
    /\ CallAt(c, "move")
    /\ IF Found("target")
         THEN /\ disk' = [disk EXCEPT !["target"] = 0, !["proper"] = disk["target"]]
              /\ calls' = [calls EXCEPT ![c].at = "finish", ![c].folder = "proper"]
         ELSE UNCHANGED disk /\ Step(c, "finish")
    /\ UNCHANGED <<row, content>> /\ Elsewhere

Finish(c) ==
    /\ CallAt(c, "finish")
    /\ IF Present(calls[c].id)
         THEN /\ row' = [row EXCEPT !.status = "done", !.folder = calls[c].folder]
              /\ Over(c)
         ELSE UNCHANGED row /\ Step(c, "fail")
    /\ UNCHANGED store /\ Elsewhere

Already(c) ==
    /\ CallAt(c, "already")
    /\ \/ SetStatus(calls[c].id, "done") /\ Over(c)
       \/ ~Present(calls[c].id) /\ UNCHANGED row /\ Step(c, "fail")
    /\ UNCHANGED store /\ Elsewhere

\* The connection breaks, the server answers with an error, or an update fails.
Break(c) ==
    /\ appUp
    /\ calls[c].at \in Trying
    /\ used.faults < MaxFaults
    /\ used' = [used EXCEPT !.faults = @ + 1]
    /\ Step(c, "fail")
    /\ UNCHANGED <<row, store, pausing, deleting, appUp, past>>

Fail(c) ==
    /\ CallAt(c, "fail")
    /\ TrySetStatus(calls[c].id, "error")
    /\ Over(c)
    /\ UNCHANGED store /\ Elsewhere

\* The update of the catch block fails as well, and nobody hears of it.
FailUnsaved(c) ==
    /\ CallAt(c, "fail")
    /\ Present(calls[c].id)
    /\ used.faults < MaxFaults
    /\ used' = [used EXCEPT !.faults = @ + 1]
    /\ past' = [past EXCEPT !.unsaved = TRUE]
    /\ Over(c)
    /\ UNCHANGED <<row, store, pausing, deleting, appUp>>

-----------------------------------------------------------------------------
(* The app process *)

Crash ==
    /\ appUp
    /\ used.faults < MaxFaults
    /\ used' = [used EXCEPT !.faults = @ + 1]
    /\ appUp' = FALSE
    /\ calls' = [c \in Calls |-> NoCall]
    /\ pausing' = 0
    /\ deleting' = NoDelete
    /\ UNCHANGED <<row, store, past>>

\* Defect: the rows to resume are taken for the paused ones.
InterruptedPaused == row.id # 0 /\ row.status = "paused"

Interrupted == row.id # 0 /\ row.status = "downloading"

\* resumeInterruptedDownloads, called when the server starts.
Boot ==
    /\ ~appUp
    /\ appUp' = TRUE
    /\ IF Interrupted THEN Begin(1, row.id) ELSE UNCHANGED calls
    /\ UNCHANGED <<row, store, pausing, deleting, used, past>>

-----------------------------------------------------------------------------
Init ==
    /\ row = NoRow
    /\ disk = [p \in Paths |-> 0]
    /\ content = [f \in Files |-> <<>>]
    /\ calls = [c \in Calls |-> NoCall]
    /\ pausing = 0
    /\ deleting = NoDelete
    /\ appUp = TRUE
    /\ used = [rows |-> 0, queues |-> 0, pauses |-> 0, overlaps |-> 0, faults |-> 0]
    /\ past = [torn |-> FALSE, unsaved |-> FALSE]

Transfer(c) ==
    \/ ReadRow(c) \/ Mark(c) \/ Stat(c) \/ Fetch(c) \/ Total(c) \/ Open(c) \/ Pump(c)
    \/ PumpEnds(c) \/ Inspect(c) \/ Move(c) \/ Finish(c) \/ Already(c) \/ Fail(c)

Answer == PauseWrite \/ DeleteRow \/ DeleteFile

Next ==
    \/ Queue \/ PauseRead \/ DeleteRead \/ Answer \/ Crash \/ Boot
    \/ \E c \in Calls : Start(c) \/ Transfer(c) \/ Break(c) \/ FailUnsaved(c)

\* Accepted requests run on, transfers deliver or break, and the container's
\* restart policy brings the app back.  The user owes nothing.
Fairness == WF_vars(Answer) /\ WF_vars(Boot) /\ \A c \in Calls : WF_vars(Transfer(c))

Spec == Init /\ [][Next]_vars
FairSpec == Spec /\ Fairness

-----------------------------------------------------------------------------
(* Properties *)

\* Every variable keeps its type; a new file always finds a free identity.
TypeOK ==
    /\ row \in [id: 0..MaxRows, status: RowStatuses, folder: Paths]
    /\ disk \in [Paths -> {0} \cup Files]
    /\ DOMAIN content = Files /\ \A f \in Files : content[f] \in Seq(0..Size)
    /\ calls \in [Calls -> [at: CallPoints, id: 0..MaxRows, folder: Paths,
                            from: Nat, got: 0..Size, file: {0} \cup Files]]
    /\ pausing \in 0..MaxRows
    /\ deleting \in [at: {"off", "row", "file"}, id: 0..MaxRows, folder: Paths]
    /\ appUp \in BOOLEAN
    /\ used \in [rows: 0..MaxRows, queues: 0..MaxQueues, pauses: 0..MaxPauses,
                 overlaps: 0..MaxOverlaps, faults: 0..MaxFaults]
    /\ past \in [torn: BOOLEAN, unsaved: BOOLEAN]

\* "Resumable, with persistent state that survives restarts": a download called
\* done has every chunk once, in order, where its row says.
DoneIsWhole ==
    row.status = "done" =>
       Found(row.folder) /\ content[disk[row.folder]] = Whole

\* However often a download was interrupted, paused, queued again, broken off,
\* moved or deleted on the way, it takes a request that overlaps an earlier one, or
\* a deletion between the look at a partial file and its opening, to call it done
\* when it is not whole.
WholeUnlessCrossed == used.overlaps = 0 /\ ~past.torn => DoneIsWhole

\* "Appends to it": a file that stays in its place only grows.  No restart,
\* resume, deletion or second queueing throws away bytes that were already
\* fetched, unless a request overlapped an earlier one.
GrowsOnly ==
    [][used'.overlaps = 0 =>
         \A p \in Paths :
          Found(p) /\ disk'[p] = disk[p] =>
             IsPrefix(content[disk[p]], content'[disk[p]])]_store

\* "Downloads resume automatically if interrupted": a row never says downloading
\* for ever while nothing transfers it, however requests overlap, unless the very
\* update that tells of a failure failed.
InterruptedResumes ==
    row.status = "downloading" ~> row.status # "downloading" \/ past.unsaved
=============================================================================

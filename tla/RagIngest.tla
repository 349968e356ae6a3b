----------------------------- MODULE RagIngest -----------------------------
(***************************************************************************)
(* Knowledge Base ingestion of one file name: uploads and deletions served *)
(* by the app, the settings route that asks for re-indexing, and the one   *)
(* rag-worker process, over the Document rows and chunks in PostgreSQL and *)
(* the spool directory both containers mount.                              *)
(*                                                                         *)
(* A file is its content hash.  A document id is its creation order, so    *)
(* the row a new upload finds is the largest one that still exists.        *)
(***************************************************************************)
EXTENDS Integers, FiniteSets

CONSTANTS
    Files,        \* contents the user uploads under this name
    Unreadable,   \* contents no text can be extracted from
    Poison,       \* contents whose extraction kills the worker process
    Retained,     \* contents whose type keeps its bytes in originalContent
    NoFile,
    Uploads,      \* bound: POST requests
    MaxDocs,      \* bound: document ids ever created
    MaxAttempts,  \* three in the code
    MaxReindexes, \* bound: settings changes
    MaxFaults     \* bound: crashes besides Poison, failed stagings

Docs == 1..MaxDocs

ASSUME RagIngestAssumption ==
    /\ Unreadable \subseteq Files /\ Poison \subseteq Files
    /\ Retained \subseteq Files
    /\ NoFile \notin Files
    /\ MaxDocs \in Nat \ {0}
    /\ IsFiniteSet(Uploads)
    /\ MaxAttempts \in Nat \ {0}
    /\ MaxReindexes \in Nat /\ MaxFaults \in Nat

VARIABLES
    doc,        \* doc[d]: the Document row
    chunks,     \* chunks[d]: the file its DocumentChunk rows were cut from
    spool,      \* spool[d]: the file in rag-spool/<id>.bin
    worker,     \* the rag-worker process: its place and its local variables
    todo,       \* rows recoverInterrupted has read and not handled yet
    upload,     \* upload[u]: a POST request
    deleting,   \* rows a DELETE has removed, their spool file not yet
    reindexing, \* rows the settings route has read as ready and will queue
    reindexes,  \* settings changes so far
    faults      \* faults injected so far

store == <<doc, chunks, spool>>
app   == <<upload, deleting, reindexing, reindexes>>
vars  == <<store, worker, todo, app, faults>>

-----------------------------------------------------------------------------
(* Vocabulary *)

Statuses == {"absent", "staging", "queued", "processing", "ready", "error", "deleted"}
Interrupted == {"staging", "processing"}
Reusable == {"ready", "queued", "processing", "staging"}

SomeFile == Files \cup {NoFile}

Rows == [status: Statuses, hash: SomeFile, original: SomeFile, attempts: Nat]
NoRow == [status |-> "absent", hash |-> NoFile, original |-> NoFile, attempts |-> 0]

WorkerPoints == {"down", "recover", "idle", "claim", "read", "extract", "check",
                 "index", "fail", "clean", "remove"}

\* id, contentHash and originalContent as findFirst returned them, and the
\* bytes read for them.
Workers == [at: WorkerPoints, id: Docs, hash: SomeFile, original: SomeFile, bytes: SomeFile]

UploadPoints == {"off", "row", "stage", "queue", "giveUp", "done"}

\* The request has updated its row and still has to settle it.
Accepting == {"stage", "queue", "giveUp"}

\* id 0: the lookup found no row of this name.
UploadStates == [at: UploadPoints, file: SomeFile, id: 0..MaxDocs]

Exists(d) == doc[d].status \notin {"absent", "deleted"}
Existing == {d \in Docs : Exists(d)}

\* The newest and the oldest row of S, as sets.
Newest(S) == {d \in S : \A e \in S : e <= d}
Oldest(S) == {d \in S : \A e \in S : d <= e}

\* The status column of the rows in S becomes s.
Restatus(S, s) ==
    doc' = [d \in Docs |-> IF d \in S THEN [doc[d] EXCEPT !.status = s] ELSE doc[d]]

WorkerAt(p) == worker.at = p
WorkerGoto(p) == worker' = [worker EXCEPT !.at = p]

\* Between two documents the worker remembers nothing.
Idle == [at |-> "idle", id |-> 1, hash |-> NoFile, original |-> NoFile, bytes |-> NoFile]
WorkerIdles == worker' = Idle

UploadGoto(u, p) == upload' = [upload EXCEPT ![u].at = p]
UploadEnds(u) == upload' = [upload EXCEPT ![u] = [@ EXCEPT !.at = "done", !.file = NoFile]]
OnlyUpload == UNCHANGED <<worker, todo, deleting, reindexing, reindexes>>

-----------------------------------------------------------------------------
(* The app: POST /api/rag *)

\* The same bytes under a row that is not in error are answered "reused".
UploadLook(u) ==
    /\ upload[u].at = "off"
    /\ \E f \in Files, found \in IF Existing = {} THEN {0} ELSE Newest(Existing) :
          LET reused == found # 0 /\ doc[found].hash = f /\ doc[found].status \in Reusable
          IN upload' = [upload EXCEPT ![u] =
                           IF reused THEN [at |-> "done", file |-> NoFile, id |-> found]
                                     ELSE [at |-> "row", file |-> f, id |-> found]]
    /\ OnlyUpload /\ UNCHANGED <<store, faults>>

Staged(f) ==
    [status |-> "staging", hash |-> f, original |-> IF f \in Retained THEN f ELSE NoFile,
     attempts |-> 0]

\* document.update throws when the row it looked up is gone.
UploadRow(u) ==
    /\ upload[u].at = "row"
    /\ \/ /\ upload[u].id # 0 /\ Exists(upload[u].id)
          /\ doc' = [doc EXCEPT ![upload[u].id] = Staged(upload[u].file)]
          /\ UploadGoto(u, "stage")
       \/ /\ upload[u].id # 0 /\ ~Exists(upload[u].id)
          /\ UploadEnds(u)
          /\ UNCHANGED doc
       \/ /\ upload[u].id = 0
          /\ \E d \in Oldest({e \in Docs : doc[e].status = "absent"}) :
                /\ doc' = [doc EXCEPT ![d] = Staged(upload[u].file)]
                /\ upload' = [upload EXCEPT ![u] = [@ EXCEPT !.at = "stage", !.id = d]]
    /\ OnlyUpload /\ UNCHANGED <<chunks, spool, faults>>

\* stageRagUpload: a temporary file renamed over the target.
UploadStage(u) ==
    /\ upload[u].at = "stage"
    /\ spool' = [spool EXCEPT ![upload[u].id] = upload[u].file]
    /\ UploadGoto(u, "queue")
    /\ OnlyUpload /\ UNCHANGED <<doc, chunks, faults>>

StageFails(u) ==
    /\ upload[u].at = "stage"
    /\ faults < MaxFaults
    /\ faults' = faults + 1
    /\ UploadGoto(u, "giveUp")
    /\ OnlyUpload /\ UNCHANGED store

\* An update by id alone; without the row both this and the catch throw.
Finish(u, from, s) ==
    /\ upload[u].at = from
    /\ Restatus({upload[u].id} \cap Existing, s)
    /\ UploadEnds(u)
    /\ OnlyUpload /\ UNCHANGED <<chunks, spool, faults>>

UploadQueue(u)  == Finish(u, "queue", "queued")
UploadGiveUp(u) == Finish(u, "giveUp", "error")

\* The app restarts while it serves the request.
UploadDies(u) ==
    /\ upload[u].at \in {"row", "stage", "queue", "giveUp"}
    /\ faults < MaxFaults
    /\ faults' = faults + 1
    /\ UploadEnds(u)
    /\ OnlyUpload /\ UNCHANGED store

-----------------------------------------------------------------------------
(* The app: DELETE /api/rag and the settings route *)

\* The row goes first, and its chunks with it.
DeleteRow(d) ==
    /\ Exists(d)
    /\ doc' = [doc EXCEPT ![d] = [NoRow EXCEPT !.status = "deleted"]]
    /\ chunks' = [chunks EXCEPT ![d] = NoFile]
    /\ deleting' = deleting \cup {d}
    /\ UNCHANGED <<spool, worker, todo, upload, reindexing, reindexes, faults>>

DeleteSpool(d) ==
    /\ d \in deleting
    /\ spool' = [spool EXCEPT ![d] = NoFile]
    /\ deleting' = deleting \ {d}
    /\ UNCHANGED <<doc, chunks, worker, todo, upload, reindexing, reindexes, faults>>

\* reindexDocumentsIfModelChanged reads the ready rows; those already indexed
\* with the new model are skipped.
ReindexRead ==
    /\ reindexing = {}
    /\ reindexes < MaxReindexes
    /\ reindexes' = reindexes + 1
    /\ \E S \in SUBSET {d \in Docs : doc[d].status = "ready"} : reindexing' = S
    /\ UNCHANGED <<store, worker, todo, upload, deleting, faults>>

\* ... and queues each of them whatever has become of it since; a row that is
\* gone makes the update throw and ends the loop.
ReindexQueue(d) ==
    /\ d \in reindexing
    /\ IF Exists(d)
         THEN /\ doc' = [doc EXCEPT ![d].status = "queued", ![d].attempts = 0]
              /\ reindexing' = reindexing \ {d}
         ELSE reindexing' = {} /\ UNCHANGED doc
    /\ UNCHANGED <<chunks, spool, worker, todo, upload, deleting, reindexes, faults>>

-----------------------------------------------------------------------------
(* The worker: processNextDocument *)

OnlyWorker == UNCHANGED <<todo, app, faults>>

QueuedDocs == {d \in Docs : doc[d].status = "queued"}

\* findFirst: the oldest queued row; its hash and bytes are remembered.
PickDocument ==
    /\ WorkerAt("idle")
    /\ \E d \in Oldest(QueuedDocs) :
          worker' = [at |-> "claim", id |-> d, hash |-> doc[d].hash,
                     original |-> doc[d].original, bytes |-> NoFile]
    /\ OnlyWorker /\ UNCHANGED store

ClaimDocument ==
    /\ WorkerAt("claim")
    /\ IF doc[worker.id].status = "queued"
         THEN /\ doc' = [doc EXCEPT ![worker.id].status = "processing",
                                    ![worker.id].attempts = @ + 1]
              /\ WorkerGoto("read")
         ELSE WorkerIdles /\ UNCHANGED doc
    /\ OnlyWorker /\ UNCHANGED <<chunks, spool>>

\* The spool first, then the bytes that came with the row.
ReadSpool ==
    /\ WorkerAt("read")
    /\ LET found == IF spool[worker.id] # NoFile THEN spool[worker.id] ELSE worker.original
       IN worker' = [worker EXCEPT !.at = IF found = NoFile THEN "fail" ELSE "extract",
                                   !.bytes = found]
    /\ OnlyWorker /\ UNCHANGED store

Extract ==
    /\ WorkerAt("extract")
    /\ worker.bytes \notin Poison
    /\ WorkerGoto(IF worker.bytes \in Unreadable THEN "fail" ELSE "check")
    /\ OnlyWorker /\ UNCHANGED store

\* A job is current while its row still has its hash and its status.
CheckCurrent ==
    /\ WorkerAt("check")
    /\ WorkerGoto(IF /\ doc[worker.id].hash = worker.hash
                     /\ doc[worker.id].status = "processing"
                  THEN "index" ELSE "clean")
    /\ OnlyWorker /\ UNCHANGED store

\* Defect: the row may be gone by the time the chunks are written.
IndexChunksAlways ==
    /\ WorkerAt("index")
    /\ chunks' = [chunks EXCEPT ![worker.id] = worker.bytes]
    /\ Restatus({worker.id} \cap Existing, "ready")
    /\ WorkerGoto("clean")
    /\ OnlyWorker /\ UNCHANGED spool

\* After the embeddings: chunks and status in one transaction, by id alone.
\* Without its row the transaction throws.
IndexChunks ==
    /\ WorkerAt("index")
    /\ IF Exists(worker.id)
         THEN /\ chunks' = [chunks EXCEPT ![worker.id] = worker.bytes]
              /\ Restatus({worker.id}, "ready")
              /\ WorkerGoto("clean")
         ELSE WorkerGoto("fail") /\ UNCHANGED <<doc, chunks>>
    /\ OnlyWorker /\ UNCHANGED spool

\* Defect: the failure is recorded whatever the row has become.
FailedRowsBlindly == {worker.id} \cap Existing

\* Rows whose status and hash the catch block's conditional update matches.
FailedRows ==
    {d \in {worker.id} : doc[d].status = "processing" /\ doc[d].hash = worker.hash}

FailDocument ==
    /\ WorkerAt("fail")
    /\ Restatus(FailedRows, "error")
    /\ WorkerGoto("clean")
    /\ OnlyWorker /\ UNCHANGED <<chunks, spool>>

\* Defect: an indexed file needs no spool copy.
DisposableOnceReady(d) == ~Exists(d) \/ doc[d].status \in {"error", "ready"}

\* The spool copy is no longer needed, going by the row as it is now.
Disposable(d) ==
    \/ ~Exists(d)
    \/ doc[d].status = "error"
    \/ doc[d].status = "ready" /\ doc[d].original # NoFile

CleanUp ==
    /\ WorkerAt("clean")
    /\ IF Disposable(worker.id) THEN WorkerGoto("remove") ELSE WorkerIdles
    /\ OnlyWorker /\ UNCHANGED store

RemoveSpool ==
    /\ WorkerAt("remove")
    /\ spool' = [spool EXCEPT ![worker.id] = NoFile]
    /\ WorkerIdles
    /\ OnlyWorker /\ UNCHANGED <<doc, chunks>>

-----------------------------------------------------------------------------
(* The worker: recoverInterrupted, crashes and restarts *)

\* Defect: only uploads are recovered, not jobs.
InterruptedUploads == {d \in Docs : doc[d].status = "staging"}

\* Defect: every unfinished row is taken for interrupted.
UnfinishedDocs == {d \in Docs : doc[d].status \in Interrupted \cup {"queued"}}

InterruptedDocs == {d \in Docs : doc[d].status \in Interrupted}

\* What findMany returned: id, status, attempts and retained bytes.
Snapshot(S) ==
    {[id |-> d, status |-> doc[d].status, attempts |-> doc[d].attempts,
      original |-> doc[d].original] : d \in S}

\* The fifteen minute sweep, between two documents.  A request that is still
\* staging has updated its row more recently than that.
SweepOld ==
    /\ WorkerAt("idle")
    /\ LET live == {upload[u].id : u \in {v \in Uploads : upload[v].at \in Accepting}}
       IN \E S \in SUBSET (InterruptedDocs \ live) :
             S # {} /\ todo' = Snapshot(S)
    /\ WorkerGoto("recover")
    /\ UNCHANGED <<store, app, faults>>

\* At start every interrupted row is taken for abandoned.
RestartWorker ==
    /\ WorkerAt("down")
    /\ todo' = Snapshot(InterruptedDocs)
    /\ WorkerGoto("recover")
    /\ UNCHANGED <<store, app, faults>>

\* Defect: one attempt too many.
CanRetryInclusive(t) == t.attempts <= MaxAttempts

CanRetry(t) == t.attempts < MaxAttempts

\* Defect: the row is updated whatever has become of it.
StillThere(t) == {t.id} \cap Existing

\* The conditional update after the spool was looked at.
StillAs(t) == {d \in {t.id} : doc[d].status = t.status}

RecoverOne ==
    /\ WorkerAt("recover")
    /\ \E t \in todo :
          /\ Restatus(StillAs(t),
                      IF CanRetry(t) /\ (t.original # NoFile \/ spool[t.id] # NoFile)
                        THEN "queued" ELSE "error")
          /\ todo' = todo \ {t}
    /\ UNCHANGED <<chunks, spool, worker, app, faults>>

RecoverDone ==
    /\ WorkerAt("recover")
    /\ todo = {}
    /\ WorkerIdles
    /\ UNCHANGED <<store, todo, app, faults>>

Dead == worker' = [Idle EXCEPT !.at = "down"] /\ todo' = {}

WorkerCrash ==
    /\ ~WorkerAt("down")
    /\ faults < MaxFaults
    /\ faults' = faults + 1
    /\ Dead
    /\ UNCHANGED <<store, app>>

\* The parser exhausts the container's memory, every time.
KilledByFile ==
    /\ WorkerAt("extract")
    /\ worker.bytes \in Poison
    /\ Dead
    /\ UNCHANGED <<store, app, faults>>

-----------------------------------------------------------------------------
Init ==
    /\ doc = [d \in Docs |-> NoRow]
    /\ chunks = [d \in Docs |-> NoFile]
    /\ spool = [d \in Docs |-> NoFile]
    /\ worker = Idle
    /\ todo = {}
    /\ upload = [u \in Uploads |-> [at |-> "off", file |-> NoFile, id |-> 0]]
    /\ deleting = {}
    /\ reindexing = {}
    /\ reindexes = 0
    /\ faults = 0

Upload(u) ==
    \/ UploadLook(u) \/ UploadRow(u) \/ UploadStage(u) \/ UploadQueue(u)
    \/ UploadGiveUp(u)

Work ==
    \/ PickDocument \/ ClaimDocument \/ ReadSpool \/ Extract \/ CheckCurrent
    \/ IndexChunks \/ FailDocument \/ CleanUp \/ RemoveSpool
    \/ RestartWorker \/ RecoverOne \/ RecoverDone \/ KilledByFile

Next ==
    \/ \E u \in Uploads : Upload(u) \/ StageFails(u) \/ UploadDies(u)
    \/ \E d \in Docs : DeleteRow(d) \/ DeleteSpool(d) \/ ReindexQueue(d)
    \/ ReindexRead \/ Work \/ SweepOld \/ WorkerCrash

\* The worker's loop, its container's restart policy and its minute timer run
\* on; an accepted request is served.  Nobody has to upload or delete.
Fairness ==
    /\ WF_vars(Work)
    /\ SF_vars(SweepOld)
    /\ \A u \in Uploads : WF_vars(upload[u].at # "off" /\ Upload(u))

Spec == Init /\ [][Next]_vars
FairSpec == Spec /\ Fairness

-----------------------------------------------------------------------------
(* Properties *)

TypeOK ==
    /\ doc \in [Docs -> Rows]
    /\ chunks \in [Docs -> SomeFile]
    /\ spool \in [Docs -> SomeFile]
    /\ worker \in Workers
    /\ todo \subseteq [id: Docs, status: Interrupted, attempts: Nat, original: SomeFile]
    /\ upload \in [Uploads -> UploadStates]
    /\ deleting \subseteq Docs
    /\ reindexing \subseteq Docs
    /\ reindexes \in 0..MaxReindexes
    /\ faults \in 0..MaxFaults

\* "For formats whose originals are not retained in PostgreSQL, the worker keeps
\* the spool copy for future reindexing": no cleanup that was decided for an
\* earlier upload, failure or deletion takes the only copy of a ready document.  The
\* exception is one that was replaced while it was embedded, by an upload of the same
\* name whose type is not retained, and that has the chunks of the old file still.
SpoolKeptForReindex ==
    \A d \in Docs :
        doc[d].status = "ready" /\ doc[d].original = NoFile =>
            spool[d] # NoFile \/ chunks[d] \in Retained

\* "Interrupted jobs are requeued, up to three attempts": a file that kills the
\* worker does so a bounded number of times.  Each request that queues the row
\* after recovery already did grants it one attempt more.
AttemptsBounded ==
    \A d \in Docs :
        doc[d].attempts <=
            MaxAttempts + Cardinality({u \in Uploads : upload[u].id = d /\ upload[u].at = "done"})

\* Deleting a document while its embeddings are being computed, re-indexed,
\* recovered or replaced never brings it, or its chunks, back.
DeletedStaysGone ==
    \A d \in Docs : ~Exists(d) => chunks[d] = NoFile

\* An upload that was queued, or a document already searchable, is not marked as
\* failed by somebody who read its row before that: only a request that could
\* not stage its own file does so.
AcceptedNotFailed ==
    [][\A d \in Docs :
          doc[d].status \in {"queued", "ready"} /\ doc'[d].status = "error" =>
             \E u \in Uploads : upload[u].at = "giveUp" /\ upload[u].id = d]_doc

\* Where a document stands, in the words of the promise.
StateOf(s) ==
    CASE s = "staging" -> "offered"
      [] s = "queued" -> "waiting"
      [] s = "processing" -> "working"
      [] s = "error" -> "failed"
      [] s = "deleted" -> "gone"
      [] OTHER -> s

State == [d \in Docs |-> StateOf(doc[d].status)]
Held  == [d \in Docs |-> {spool[d], doc[d].original} \ {NoFile}]

OfferOf(u) ==
    IF upload[u].at \in Accepting THEN {[doc |-> upload[u].id, file |-> upload[u].file]} ELSE {}
Offer == [u \in Uploads |-> OfferOf(u)]

\* From the pick on; the copy that findFirst returned has been read with it.
AtJob == {"claim", "read", "extract", "check", "index", "fail"}
Job ==
    IF worker.at \in AtJob
      THEN {[doc |-> worker.id, files |-> {worker.original, worker.bytes} \ {NoFile},
             begun |-> worker.at # "claim"]}
      ELSE {}

Promise == INSTANCE KnowledgeBase WITH
    Requests <- Uploads, Nothing <- NoFile,
    state <- State, found <- chunks, held <- Held, offer <- Offer, asked <- reindexing,
    job <- Job

\* Rows, chunks, spool and worker behave as the Knowledge Base promises: whatever is
\* replaced, deleted, re-indexed or recovered meanwhile, search results change only with
\* the status, by the one job at work on that document, to a file a request brought for
\* it; recovery never touches the document of a job; no last copy is lost.
KeepsPromise == Promise!Spec

\* Whatever dies, and however often, an upload ends searchable, failed with a
\* message, or deleted; it is never left pending.
UploadsSettle ==
    \A d \in Docs :
        doc[d].status \in {"staging", "queued", "processing"} ~>
            doc[d].status \in {"ready", "error", "deleted"}

\* Nobody is about to change row d.
Settled(d) ==
    /\ \A u \in Uploads : upload[u].id = d => upload[u].at \notin {"row"} \cup Accepting
    /\ worker.at \in {"idle", "down"} \/ worker.id # d
    /\ d \notin reindexing \cup deleting

\* "Never let an older job overwrite its new file's status or search chunks":
\* what is searched for a ready document is the file it was last replaced with.
SearchableIsCurrent ==
    \A d \in Docs : doc[d].status = "ready" /\ Settled(d) => chunks[d] = doc[d].hash

\* "Uploads return after the original is staged ... and the document is queued":
\* a queued document has bytes to be indexed from.
QueuedHasBytes ==
    \A d \in Docs :
        doc[d].status = "queued" /\ Settled(d) => spool[d] # NoFile \/ doc[d].original # NoFile
=============================================================================

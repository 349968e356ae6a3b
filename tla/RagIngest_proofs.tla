-------------------------- MODULE RagIngest_proofs --------------------------
(***************************************************************************)
(* Proofs about RagIngest: its types, that a deleted document stays gone,  *)
(* that the only copy of a ready document is kept, that attempts are       *)
(* bounded, and that nobody fails an accepted upload from an older read.   *)
(* TLC checks the same properties on the instance of MCRagIngest.          *)
(***************************************************************************)
EXTENDS RagIngest, FiniteSetTheorems, TLAPS

-----------------------------------------------------------------------------
(* Types *)

StoreOK ==
    /\ doc \in [Docs -> Rows]
    /\ chunks \in [Docs -> SomeFile]
    /\ spool \in [Docs -> SomeFile]

Snapshots == [id: Docs, status: Interrupted, attempts: Nat, original: SomeFile]

WorkerOK ==
    /\ worker \in Workers
    /\ todo \subseteq Snapshots

AppOK ==
    /\ upload \in [Uploads -> UploadStates]
    /\ deleting \subseteq Docs
    /\ reindexing \subseteq Docs
    /\ reindexes \in 0..MaxReindexes

FaultsOK == faults \in 0..MaxFaults

\* A request at work has a file, and past its row it has a row.
RequestOK ==
    \A u \in Uploads :
        /\ upload[u].at \in {"row"} \cup Accepting => upload[u].file \in Files
        /\ upload[u].at \in Accepting => upload[u].id \in Docs

Typed == StoreOK /\ WorkerOK /\ AppOK /\ FaultsOK /\ RequestOK

LEMMA TypedInit == Init => Typed
<1> SUFFICES ASSUME Init PROVE Typed
  OBVIOUS
<1>1. NoRow \in Rows /\ NoFile \in SomeFile
  BY DEF NoRow, Rows, Statuses, SomeFile
<1>2. StoreOK
  BY <1>1 DEF Init, StoreOK
<1>3. WorkerOK
  BY <1>1, RagIngestAssumption DEF Init, WorkerOK, Workers, WorkerPoints, Idle, Docs
<1>4. AppOK
  BY <1>1, RagIngestAssumption DEF Init, AppOK, UploadStates, UploadPoints
<1>5. FaultsOK /\ RequestOK
  BY RagIngestAssumption DEF Init, FaultsOK, RequestOK, Accepting
<1> QED BY <1>2, <1>3, <1>4, <1>5 DEF Typed

\* A new status keeps the types of the rows, and everything else in them.
LEMMA RestatusRows ==
    ASSUME StoreOK, NEW S, NEW s \in Statuses, Restatus(S, s)
    PROVE  /\ doc' \in [Docs -> Rows]
           /\ \A d \in Docs : d \notin S => doc'[d] = doc[d]
           /\ \A d \in Docs :
                 doc'[d].hash = doc[d].hash /\ doc'[d].original = doc[d].original
                 /\ doc'[d].attempts = doc[d].attempts
           /\ \A d \in Docs : d \in S => doc'[d].status = s
BY DEF StoreOK, Restatus, Rows

LEMMA StagedRow ==
    ASSUME NEW f \in Files
    PROVE  Staged(f) \in Rows
BY DEF Staged, Rows, Statuses, SomeFile

\* What the places of a request may become.
LEMMA UploadMoves ==
    ASSUME AppOK, RequestOK, NEW u \in Uploads
    PROVE  /\ \A p \in UploadPoints :
                 UploadGoto(u, p) => upload' \in [Uploads -> UploadStates]
           /\ UploadEnds(u) => upload' \in [Uploads -> UploadStates] /\ RequestOK'
           /\ \A p \in {"queue", "giveUp"} :
                 UploadGoto(u, p) /\ upload[u].at \in Accepting => RequestOK'
<1>1. NoFile \in SomeFile
  BY DEF SomeFile
<1>2. \A p \in UploadPoints : UploadGoto(u, p) => upload' \in [Uploads -> UploadStates]
  BY DEF AppOK, UploadGoto, UploadStates
<1>3. UploadEnds(u) => upload' \in [Uploads -> UploadStates]
  BY <1>1 DEF AppOK, UploadEnds, UploadStates, UploadPoints
<1>4. UploadEnds(u) => RequestOK'
  BY DEF AppOK, UploadEnds, UploadStates, RequestOK, Accepting
<1>5. \A p \in {"queue", "giveUp"} :
         UploadGoto(u, p) /\ upload[u].at \in Accepting => RequestOK'
  BY DEF AppOK, UploadGoto, UploadStates, RequestOK, Accepting
<1> QED BY <1>2, <1>3, <1>4, <1>5

LEMMA UploadTyped ==
    ASSUME Typed, NEW u \in Uploads, Upload(u) \/ StageFails(u) \/ UploadDies(u)
    PROVE  Typed'
<1> USE DEF Typed
<1>1. OnlyUpload /\ UNCHANGED upload => WorkerOK' /\ AppOK' /\ RequestOK'
  BY DEF OnlyUpload, WorkerOK, AppOK, RequestOK
<1>2. OnlyUpload /\ upload' \in [Uploads -> UploadStates] => WorkerOK' /\ AppOK'
  BY DEF OnlyUpload, WorkerOK, AppOK
<1>3. UNCHANGED faults => FaultsOK'
  BY DEF FaultsOK
<1>4. faults < MaxFaults /\ faults' = faults + 1 => FaultsOK'
  BY RagIngestAssumption DEF FaultsOK
<1>5. UNCHANGED store => StoreOK'
  BY DEF store, StoreOK
<1>6. CASE UploadLook(u)
  <2>1. PICK f \in Files, found \in IF Existing = {} THEN {0} ELSE Newest(Existing) :
           \/ upload' = [upload EXCEPT ![u] = [at |-> "done", file |-> NoFile, id |-> found]]
           \/ upload' = [upload EXCEPT ![u] = [at |-> "row", file |-> f, id |-> found]]
    BY <1>6 DEF UploadLook
  <2>2. found \in 0..MaxDocs
    BY RagIngestAssumption DEF Newest, Existing, Docs
  <2>3. upload' \in [Uploads -> UploadStates]
    BY <2>1, <2>2 DEF AppOK, UploadStates, UploadPoints, SomeFile
  <2>4. RequestOK'
    BY <2>1, <2>2 DEF AppOK, RequestOK, Accepting
  <2> QED BY <1>2, <1>3, <1>5, <1>6, <2>3, <2>4 DEF UploadLook
<1>7. CASE UploadRow(u)
  <2>0. upload[u].at = "row" /\ upload[u].file \in Files
    BY <1>7 DEF UploadRow, RequestOK
  <2>1. Staged(upload[u].file) \in Rows
    BY <2>0, StagedRow
  <2>2. CASE upload[u].id # 0 /\ Exists(upload[u].id) /\ UploadGoto(u, "stage")
             /\ doc' = [doc EXCEPT ![upload[u].id] = Staged(upload[u].file)]
    <3>1. doc' \in [Docs -> Rows]
      BY <2>1, <2>2 DEF StoreOK
    <3>2. upload[u].id \in Docs
      BY <2>2, RagIngestAssumption DEF AppOK, UploadStates, Docs
    <3>3. upload' \in [Uploads -> UploadStates]
      BY <2>2, UploadMoves DEF UploadPoints
    <3>4. RequestOK'
      BY <2>0, <2>2, <3>2 DEF UploadGoto, AppOK, UploadStates, RequestOK, Accepting
    <3> QED BY <1>2, <1>3, <1>7, <3>1, <3>3, <3>4 DEF UploadRow, StoreOK
  <2>3. CASE UploadEnds(u) /\ UNCHANGED doc
    BY <1>2, <1>3, <1>7, <2>3, UploadMoves DEF UploadRow, StoreOK
  <2>4. ASSUME NEW d \in Docs,
               doc' = [doc EXCEPT ![d] = Staged(upload[u].file)],
               upload' = [upload EXCEPT ![u] = [@ EXCEPT !.at = "stage", !.id = d]]
        PROVE  Typed'
    <3>1. doc' \in [Docs -> Rows]
      BY <2>1, <2>4 DEF StoreOK
    <3>2. upload' \in [Uploads -> UploadStates]
      <4>1. d \in 0..MaxDocs
        BY RagIngestAssumption DEF Docs
      <4>2. [upload[u] EXCEPT !.at = "stage", !.id = d] \in UploadStates
        BY <4>1 DEF AppOK, UploadStates, UploadPoints
      <4> QED BY <2>4, <4>2 DEF AppOK
    <3>3. RequestOK'
      BY <2>0, <2>4 DEF AppOK, UploadStates, RequestOK, Accepting
    <3> QED BY <1>2, <1>3, <1>7, <3>1, <3>2, <3>3 DEF UploadRow, StoreOK
  <2> QED BY <1>7, <2>2, <2>3, <2>4 DEF UploadRow, Oldest
<1>8. CASE UploadStage(u)
  <2>1. spool' \in [Docs -> SomeFile]
    BY <1>8 DEF UploadStage, StoreOK, AppOK, UploadStates
  <2>2. upload' \in [Uploads -> UploadStates] /\ RequestOK'
    BY <1>8, UploadMoves DEF UploadStage, UploadPoints, Accepting
  <2> QED BY <1>2, <1>3, <1>8, <2>1, <2>2 DEF UploadStage, StoreOK
<1>9. ASSUME NEW s \in Statuses, NEW from, Finish(u, from, s)
      PROVE  Typed'
  <2>1. doc' \in [Docs -> Rows]
    BY <1>9, RestatusRows DEF Finish
  <2> QED BY <1>2, <1>3, <1>9, <2>1, UploadMoves DEF Finish, StoreOK
<1>10. UploadQueue(u) \/ UploadGiveUp(u) => Typed'
  BY <1>9 DEF UploadQueue, UploadGiveUp, Statuses
<1>11. CASE StageFails(u)
  <2>1. upload' \in [Uploads -> UploadStates] /\ RequestOK'
    BY <1>11, UploadMoves DEF StageFails, UploadPoints, Accepting
  <2> QED BY <1>2, <1>4, <1>5, <1>11, <2>1 DEF StageFails
<1>12. CASE UploadDies(u)
  BY <1>2, <1>4, <1>5, <1>12, UploadMoves DEF UploadDies
<1> QED BY <1>6, <1>7, <1>8, <1>10, <1>11, <1>12 DEF Upload

LEMMA RequestsTyped ==
    ASSUME Typed,
           \/ \E d \in Docs : DeleteRow(d) \/ DeleteSpool(d) \/ ReindexQueue(d)
           \/ ReindexRead
    PROVE  Typed'
<1> USE DEF Typed
<1>1. NoFile \in SomeFile
  BY DEF SomeFile
<1>2. ASSUME NEW d \in Docs, DeleteRow(d)
      PROVE  Typed'
  <2>1. [NoRow EXCEPT !.status = "deleted"] \in Rows
    BY <1>1 DEF NoRow, Rows, Statuses
  <2>2. StoreOK'
    BY <1>1, <1>2, <2>1 DEF DeleteRow, StoreOK
  <2> QED BY <1>2, <2>2 DEF DeleteRow, WorkerOK, AppOK, FaultsOK, RequestOK
<1>3. ASSUME NEW d \in Docs, DeleteSpool(d)
      PROVE  Typed'
  <2>1. StoreOK'
    BY <1>1, <1>3 DEF DeleteSpool, StoreOK
  <2> QED BY <1>3, <2>1 DEF DeleteSpool, WorkerOK, AppOK, FaultsOK, RequestOK
<1>4. ASSUME NEW d \in Docs, ReindexQueue(d)
      PROVE  Typed'
  <2>1. StoreOK'
    BY <1>4 DEF ReindexQueue, StoreOK, Rows, Statuses
  <2> QED BY <1>4, <2>1 DEF ReindexQueue, WorkerOK, AppOK, FaultsOK, RequestOK
<1>5. CASE ReindexRead
  <2>1. reindexes' \in 0..MaxReindexes
    BY <1>5, RagIngestAssumption DEF ReindexRead, AppOK
  <2> QED BY <1>5, <2>1 DEF ReindexRead, store, StoreOK, WorkerOK, AppOK, FaultsOK, RequestOK
<1> QED BY <1>2, <1>3, <1>4, <1>5

\* The worker leaves the requests alone.
LEMMA WorkerAlone ==
    ASSUME Typed, UNCHANGED <<app, faults>>
    PROVE  AppOK' /\ FaultsOK' /\ RequestOK'
BY DEF Typed, app, AppOK, FaultsOK, RequestOK

LEMMA WorkerMoves ==
    ASSUME Typed
    PROVE  /\ \A p \in WorkerPoints : WorkerGoto(p) => worker' \in Workers
           /\ WorkerIdles => worker' \in Workers
           /\ Dead => WorkerOK'
<1>1. Idle \in Workers
  BY RagIngestAssumption DEF Idle, Workers, WorkerPoints, SomeFile, Docs
<1>2. [Idle EXCEPT !.at = "down"] \in Workers
  BY <1>1 DEF Workers, WorkerPoints
<1> QED BY <1>1, <1>2 DEF Typed, WorkerOK, WorkerGoto, WorkerIdles, Dead, Workers

LEMMA JobTyped ==
    ASSUME Typed,
           \/ PickDocument \/ ClaimDocument \/ ReadSpool \/ Extract \/ CheckCurrent
           \/ IndexChunks \/ FailDocument \/ CleanUp \/ RemoveSpool
    PROVE  Typed'
<1> USE DEF Typed
<1>1. OnlyWorker => AppOK' /\ FaultsOK' /\ RequestOK'
  BY WorkerAlone DEF OnlyWorker
<1>2. OnlyWorker /\ worker' \in Workers => WorkerOK'
  BY DEF OnlyWorker, WorkerOK
<1>3. UNCHANGED store => StoreOK'
  BY DEF store, StoreOK
<1>4. CASE PickDocument
  <2>1. worker' \in Workers
    BY <1>4 DEF PickDocument, Oldest, QueuedDocs, Workers, WorkerPoints, StoreOK, Rows, SomeFile
  <2> QED BY <1>1, <1>2, <1>3, <1>4, <2>1 DEF PickDocument
<1>5. CASE ClaimDocument
  <2>1. worker' \in Workers
    BY <1>5, WorkerMoves DEF ClaimDocument, WorkerPoints
  <2>2. StoreOK'
    BY <1>5 DEF ClaimDocument, StoreOK, Rows, Statuses
  <2> QED BY <1>1, <1>2, <1>5, <2>1, <2>2 DEF ClaimDocument
<1>6. CASE ReadSpool
  <2>1. worker' \in Workers
    BY <1>6 DEF ReadSpool, WorkerOK, Workers, WorkerPoints, StoreOK
  <2> QED BY <1>1, <1>2, <1>3, <1>6, <2>1 DEF ReadSpool
<1>7. CASE Extract
  <2>1. worker' \in Workers
    BY <1>7, WorkerMoves DEF Extract, WorkerPoints
  <2> QED BY <1>1, <1>2, <1>3, <1>7, <2>1 DEF Extract
<1>8. CASE CheckCurrent
  <2>1. worker' \in Workers
    BY <1>8, WorkerMoves DEF CheckCurrent, WorkerPoints
  <2> QED BY <1>1, <1>2, <1>3, <1>8, <2>1 DEF CheckCurrent
<1>9. CASE IndexChunks
  <2>1. worker' \in Workers
    BY <1>9, WorkerMoves DEF IndexChunks, WorkerPoints
  <2>2. chunks' \in [Docs -> SomeFile]
    BY <1>9 DEF IndexChunks, StoreOK, WorkerOK, Workers
  <2>3. doc' \in [Docs -> Rows]
    BY <1>9, RestatusRows DEF IndexChunks, StoreOK, Statuses
  <2> QED BY <1>1, <1>2, <1>9, <2>1, <2>2, <2>3 DEF IndexChunks, StoreOK
<1>10. CASE FailDocument
  <2>1. worker' \in Workers
    BY <1>10, WorkerMoves DEF FailDocument, WorkerPoints
  <2>2. doc' \in [Docs -> Rows]
    BY <1>10, RestatusRows DEF FailDocument, Statuses
  <2> QED BY <1>1, <1>2, <1>10, <2>1, <2>2 DEF FailDocument, StoreOK
<1>11. CASE CleanUp
  <2>1. worker' \in Workers
    BY <1>11, WorkerMoves DEF CleanUp, WorkerPoints
  <2> QED BY <1>1, <1>2, <1>3, <1>11, <2>1 DEF CleanUp
<1>12. CASE RemoveSpool
  <2>1. worker' \in Workers
    BY <1>12, WorkerMoves DEF RemoveSpool
  <2>2. StoreOK'
    BY <1>12 DEF RemoveSpool, StoreOK, SomeFile
  <2> QED BY <1>1, <1>2, <1>12, <2>1, <2>2 DEF RemoveSpool
<1> QED BY <1>4, <1>5, <1>6, <1>7, <1>8, <1>9, <1>10, <1>11, <1>12

LEMMA SnapshotTyped ==
    ASSUME Typed, NEW S \in SUBSET InterruptedDocs
    PROVE  Snapshot(S) \subseteq Snapshots
BY DEF Typed, StoreOK, Rows, Snapshot, InterruptedDocs, Snapshots

LEMMA RecoveryTyped ==
    ASSUME Typed,
           \/ RestartWorker \/ RecoverOne \/ RecoverDone \/ KilledByFile
           \/ SweepOld \/ WorkerCrash
    PROVE  Typed'
<1> USE DEF Typed
<1>1. UNCHANGED <<app, faults>> => AppOK' /\ FaultsOK' /\ RequestOK'
  BY WorkerAlone
<1>2. UNCHANGED store => StoreOK'
  BY DEF store, StoreOK
<1>3. CASE RestartWorker
  <2>1. WorkerOK'
    BY <1>3, WorkerMoves, SnapshotTyped DEF RestartWorker, WorkerOK, WorkerPoints
  <2> QED BY <1>1, <1>2, <1>3, <2>1 DEF RestartWorker
<1>4. CASE SweepOld
  <2>1. PICK S \in SUBSET InterruptedDocs : todo' = Snapshot(S)
    BY <1>4 DEF SweepOld
  <2>2. WorkerOK'
    BY <1>4, <2>1, WorkerMoves, SnapshotTyped DEF SweepOld, WorkerOK, WorkerPoints
  <2> QED BY <1>1, <1>2, <1>4, <2>2 DEF SweepOld
<1>5. CASE RecoverOne
  <2>1. PICK t \in todo, s \in {"queued", "error"} :
           Restatus(StillAs(t), s) /\ todo' = todo \ {t}
    BY <1>5 DEF RecoverOne
  <2>2. doc' \in [Docs -> Rows]
    BY <2>1, RestatusRows DEF Statuses
  <2>3. StoreOK' /\ WorkerOK'
    BY <1>5, <2>1, <2>2 DEF RecoverOne, StoreOK, WorkerOK
  <2> QED BY <1>1, <1>5, <2>3 DEF RecoverOne
<1>6. CASE RecoverDone
  <2>1. WorkerOK'
    BY <1>6, WorkerMoves DEF RecoverDone, WorkerOK, WorkerPoints
  <2> QED BY <1>1, <1>2, <1>6, <2>1 DEF RecoverDone
<1>7. CASE KilledByFile
  BY <1>1, <1>2, <1>7, WorkerMoves DEF KilledByFile
<1>8. CASE WorkerCrash
  <2>1. FaultsOK'
    BY <1>8, RagIngestAssumption DEF WorkerCrash, FaultsOK
  <2>2. AppOK' /\ RequestOK'
    BY <1>8 DEF WorkerCrash, app, AppOK, RequestOK
  <2> QED BY <1>2, <1>8, <2>1, <2>2, WorkerMoves DEF WorkerCrash
<1> QED BY <1>3, <1>4, <1>5, <1>6, <1>7, <1>8

LEMMA TypedNext == Typed /\ [Next]_vars => Typed'
<1> SUFFICES ASSUME Typed, [Next]_vars PROVE Typed'
  OBVIOUS
<1>1. CASE UNCHANGED vars
  BY <1>1 DEF vars, store, app, Typed, StoreOK, WorkerOK, AppOK, FaultsOK, RequestOK
<1>2. CASE Next
  BY <1>2, UploadTyped, RequestsTyped, JobTyped, RecoveryTyped DEF Next, Work
<1> QED BY <1>1, <1>2

LEMMA TypedAlways == Spec => []Typed
BY TypedInit, TypedNext, PTL DEF Spec

\* Every variable keeps its type, for any number of files, requests, documents,
\* attempts and faults.
THEOREM TypeCorrect == Spec => []TypeOK
<1>1. Typed => TypeOK
  BY DEF Typed, StoreOK, WorkerOK, AppOK, FaultsOK, Snapshots, TypeOK
<1> QED BY <1>1, TypedAlways, PTL

-----------------------------------------------------------------------------
(* What a step may do to a row, its chunks and its spool file *)

\* The row stays the same but for its status and its attempts.
Kept(d) ==
    /\ Exists(d)
    /\ doc'[d].hash = doc[d].hash
    /\ doc'[d].original = doc[d].original

Becomes(d, s) == Kept(d) /\ doc'[d].status = s /\ doc'[d].attempts = doc[d].attempts

Replaced(d) ==
    /\ doc[d].status # "deleted"
    /\ \E f \in Files : doc'[d] = Staged(f)

Requeued(d) ==
    \/ \E u \in Uploads : UploadQueue(u) /\ upload[u].id = d /\ Becomes(d, "queued")
    \/ ReindexQueue(d) /\ Kept(d) /\ doc'[d].status = "queued" /\ doc'[d].attempts = 0

GivenUp(d) == \E u \in Uploads : UploadGiveUp(u) /\ upload[u].id = d /\ Becomes(d, "error")

Claimed(d) ==
    /\ ClaimDocument /\ worker.id = d
    /\ Kept(d)
    /\ doc[d].status = "queued" /\ doc'[d].status = "processing"
    /\ doc'[d].attempts = doc[d].attempts + 1

Indexed(d) == IndexChunks /\ worker.id = d /\ Becomes(d, "ready")

JobFailed(d) ==
    FailDocument /\ worker.id = d /\ doc[d].status = "processing" /\ Becomes(d, "error")

Recovered(d) ==
    /\ RecoverOne
    /\ \E t \in todo :
          /\ t.id = d /\ doc[d].status = t.status
          /\ Becomes(d, "error") \/ (CanRetry(t) /\ Becomes(d, "queued"))

RowStep(d) ==
    \/ doc'[d] = doc[d]
    \/ Replaced(d) \/ DeleteRow(d) \/ Requeued(d) \/ GivenUp(d)
    \/ Claimed(d) \/ Indexed(d) \/ JobFailed(d) \/ Recovered(d)

LEMMA UploadRowSteps ==
    ASSUME Typed, NEW d \in Docs, NEW u \in Uploads,
           Upload(u) \/ StageFails(u) \/ UploadDies(u)
    PROVE  RowStep(d)
<1>1. UNCHANGED doc => RowStep(d)
  BY DEF RowStep
<1>2. UploadLook(u) \/ UploadStage(u) \/ StageFails(u) \/ UploadDies(u) => UNCHANGED doc
  BY DEF UploadLook, UploadStage, StageFails, UploadDies, store
<1>3. CASE UploadRow(u)
  <2>1. upload[u].file \in Files /\ doc \in [Docs -> Rows]
    BY <1>3 DEF UploadRow, Typed, RequestOK, StoreOK
  <2>2. ASSUME NEW e \in Docs, doc[e].status # "deleted",
               doc' = [doc EXCEPT ![e] = Staged(upload[u].file)]
        PROVE  RowStep(d)
    BY <2>1, <2>2 DEF RowStep, Replaced
  <2>3. CASE upload[u].id # 0 /\ Exists(upload[u].id)
             /\ doc' = [doc EXCEPT ![upload[u].id] = Staged(upload[u].file)]
    <3>1. upload[u].id \in Docs
      BY <2>3, RagIngestAssumption DEF Typed, AppOK, UploadStates, Docs
    <3> QED BY <2>2, <2>3, <3>1 DEF Exists
  <2>4. CASE \E e \in Oldest({e \in Docs : doc[e].status = "absent"}) :
                doc' = [doc EXCEPT ![e] = Staged(upload[u].file)]
    BY <2>2, <2>4 DEF Oldest
  <2> QED BY <1>1, <1>3, <2>3, <2>4 DEF UploadRow
<1>4. ASSUME NEW s \in Statuses, NEW from, Finish(u, from, s)
      PROVE  doc'[d] = doc[d] \/ (upload[u].id = d /\ Becomes(d, s))
  <2>1. Restatus({upload[u].id} \cap Existing, s) /\ StoreOK
    BY <1>4 DEF Finish, Typed
  <2>2. CASE d \in {upload[u].id} \cap Existing
    BY <2>1, <2>2, RestatusRows DEF Existing, Becomes, Kept
  <2>3. CASE d \notin {upload[u].id} \cap Existing
    BY <2>1, <2>3, RestatusRows
  <2> QED BY <2>2, <2>3
<1>5. UploadQueue(u) => RowStep(d)
  BY <1>4 DEF UploadQueue, RowStep, Requeued, Statuses
<1>6. UploadGiveUp(u) => RowStep(d)
  BY <1>4 DEF UploadGiveUp, RowStep, GivenUp, Statuses
<1> QED BY <1>1, <1>2, <1>3, <1>5, <1>6 DEF Upload

LEMMA WorkerRowSteps ==
    ASSUME Typed, NEW d \in Docs, Work \/ SweepOld \/ WorkerCrash
    PROVE  RowStep(d)
<1>1. UNCHANGED doc => RowStep(d)
  BY DEF RowStep
<1>2. \/ PickDocument \/ ReadSpool \/ Extract \/ CheckCurrent \/ CleanUp \/ RemoveSpool
      \/ RestartWorker \/ RecoverDone \/ KilledByFile \/ SweepOld \/ WorkerCrash
      => UNCHANGED doc
  BY DEF PickDocument, ReadSpool, Extract, CheckCurrent, CleanUp, RemoveSpool, RestartWorker,
         RecoverDone, KilledByFile, SweepOld, WorkerCrash, store
<1>3. CASE ClaimDocument
  BY <1>3 DEF ClaimDocument, Typed, StoreOK, Rows, RowStep, Claimed, Kept, Exists
<1>4. CASE IndexChunks
  <2>1. CASE Exists(worker.id)
    <3>1. Restatus({worker.id}, "ready") /\ StoreOK
      BY <1>4, <2>1 DEF IndexChunks, Typed
    <3>2. d # worker.id => doc'[d] = doc[d]
      BY <3>1, RestatusRows DEF Statuses
    <3>3. d = worker.id => Becomes(d, "ready")
      BY <2>1, <3>1, RestatusRows DEF Statuses, Becomes, Kept
    <3> QED BY <1>4, <3>2, <3>3 DEF RowStep, Indexed
  <2> QED BY <1>1, <1>4, <2>1 DEF IndexChunks
<1>5. CASE FailDocument
  <2>1. Restatus(FailedRows, "error") /\ StoreOK
    BY <1>5 DEF FailDocument, Typed
  <2>2. d \notin FailedRows => doc'[d] = doc[d]
    BY <2>1, RestatusRows DEF Statuses
  <2>3. d \in FailedRows => worker.id = d /\ doc[d].status = "processing" /\ Exists(d)
    BY DEF FailedRows, Exists
  <2>4. d \in FailedRows => Becomes(d, "error")
    BY <2>1, <2>3, RestatusRows DEF Statuses, Becomes, Kept
  <2> QED BY <1>5, <2>2, <2>3, <2>4 DEF RowStep, JobFailed
<1>6. CASE RecoverOne
  <2>1. PICK t \in todo :
           Restatus(StillAs(t),
                    IF CanRetry(t) /\ (t.original # NoFile \/ spool[t.id] # NoFile)
                      THEN "queued" ELSE "error")
    BY <1>6 DEF RecoverOne
  <2>2. t.status \in Interrupted
    BY DEF Typed, WorkerOK, Snapshots
  <2>3. d \in StillAs(t) => t.id = d /\ doc[d].status = t.status /\ Exists(d)
    BY <2>2 DEF StillAs, Exists, Interrupted
  <2>4. ASSUME NEW s \in {"queued", "error"}, Restatus(StillAs(t), s),
               s = "queued" => CanRetry(t)
        PROVE  RowStep(d)
    <3>1. d \notin StillAs(t) => doc'[d] = doc[d]
      BY <2>4, RestatusRows DEF Typed, Statuses
    <3>2. d \in StillAs(t) => Becomes(d, s)
      BY <2>3, <2>4, RestatusRows DEF Typed, Statuses, Becomes, Kept
    <3> QED BY <1>6, <2>3, <2>4, <3>1, <3>2 DEF RowStep, Recovered
  <2> QED BY <2>1, <2>4
<1> QED BY <1>1, <1>2, <1>3, <1>4, <1>5, <1>6 DEF Work

LEMMA RowSteps ==
    ASSUME Typed, NEW d \in Docs, [Next]_vars
    PROVE  RowStep(d)
<1>1. UNCHANGED doc => RowStep(d)
  BY DEF RowStep
<1>2. UNCHANGED vars \/ ReindexRead \/ (\E e \in Docs : DeleteSpool(e)) => UNCHANGED doc
  BY DEF vars, store, ReindexRead, DeleteSpool
<1>3. ASSUME NEW e \in Docs, DeleteRow(e)
      PROVE  RowStep(d)
  BY <1>3 DEF DeleteRow, RowStep, Typed, StoreOK
<1>4. ASSUME NEW e \in Docs, ReindexQueue(e)
      PROVE  RowStep(d)
  BY <1>4 DEF ReindexQueue, RowStep, Requeued, Kept, Exists, Typed, StoreOK, Rows
<1> QED BY <1>1, <1>2, <1>3, <1>4, UploadRowSteps, WorkerRowSteps DEF Next

\* Chunks are written by the worker for a row that exists, and go with the row.
LEMMA ChunkSteps ==
    ASSUME Typed, NEW d \in Docs, [Next]_vars
    PROVE  \/ chunks'[d] = chunks[d]
           \/ DeleteRow(d) /\ chunks'[d] = NoFile /\ doc'[d].status = "deleted"
           \/ IndexChunks /\ worker.id = d /\ chunks'[d] = worker.bytes
              /\ Exists(d) /\ doc'[d].status = "ready"
<1>1. UNCHANGED vars \/ ReindexRead \/ SweepOld \/ WorkerCrash => UNCHANGED chunks
  BY DEF vars, store, ReindexRead, SweepOld, WorkerCrash
<1>2. \A u \in Uploads : Upload(u) \/ StageFails(u) \/ UploadDies(u) => UNCHANGED chunks
  BY DEF Upload, UploadLook, UploadRow, UploadStage, UploadQueue, UploadGiveUp, Finish,
         StageFails, UploadDies, store
<1>3. \A e \in Docs : DeleteSpool(e) \/ ReindexQueue(e) => UNCHANGED chunks
  BY DEF DeleteSpool, ReindexQueue
<1>4. ASSUME NEW e \in Docs, DeleteRow(e)
      PROVE  chunks'[d] = chunks[d] \/ (DeleteRow(d) /\ chunks'[d] = NoFile /\ doc'[d].status = "deleted")
  BY <1>4 DEF DeleteRow, Typed, StoreOK, NoRow
<1>5. CASE IndexChunks
  <2>1. CASE Exists(worker.id)
    <3>1. Restatus({worker.id}, "ready") /\ chunks' = [chunks EXCEPT ![worker.id] = worker.bytes]
      BY <1>5, <2>1 DEF IndexChunks
    <3>2. worker.id = d => doc'[d].status = "ready"
      BY <3>1, RestatusRows DEF Typed, Statuses
    <3> QED BY <1>5, <2>1, <3>1, <3>2 DEF Typed, StoreOK
  <2> QED BY <1>5, <2>1 DEF IndexChunks
<1>6. Work => UNCHANGED chunks \/ IndexChunks
  BY DEF Work, PickDocument, ClaimDocument, ReadSpool, Extract, CheckCurrent, FailDocument,
         CleanUp, RemoveSpool, RestartWorker, RecoverOne, RecoverDone, KilledByFile, store
<1> QED BY <1>1, <1>2, <1>3, <1>4, <1>5, <1>6 DEF Next

\* A row that does not exist has no chunks and gets none.
LEMMA GoneStaysGone == Typed /\ DeletedStaysGone /\ [Next]_vars => DeletedStaysGone'
<1> SUFFICES ASSUME Typed, DeletedStaysGone, [Next]_vars, NEW d \in Docs, ~Exists(d)'
             PROVE  chunks'[d] = NoFile
  BY DEF DeletedStaysGone
<1>1. CASE DeleteRow(d)
  BY <1>1 DEF DeleteRow, Typed, StoreOK
<1>2. CASE ~DeleteRow(d)
  <2>1. ~Exists(d)
    <3>1. Replaced(d) => Exists(d)'
      BY DEF Replaced, Staged, Exists
    <3>2. Requeued(d) \/ GivenUp(d) \/ Claimed(d) \/ Indexed(d) \/ JobFailed(d) \/ Recovered(d)
          => Exists(d)'
      BY DEF Requeued, GivenUp, Claimed, Indexed, JobFailed, Recovered, Becomes, Exists
    <3>3. doc'[d] = doc[d] => Exists(d)' = Exists(d)
      BY DEF Exists
    <3> QED BY <1>2, <3>1, <3>2, <3>3, RowSteps DEF RowStep
  <2>2. chunks'[d] = chunks[d]
    BY <1>2, <2>1, ChunkSteps
  <2> QED BY <2>1, <2>2 DEF DeletedStaysGone
<1> QED BY <1>1, <1>2

\* A document that was deleted, whatever was going on with it, has no chunks again.
THEOREM DeletedGone == Spec => []DeletedStaysGone
<1>1. Init => DeletedStaysGone
  BY DEF Init, DeletedStaysGone
<1> QED BY <1>1, TypedAlways, GoneStaysGone, PTL DEF Spec

\* Only a request that could not stage its file fails a queued or a ready row.
THEOREM NotFailed == Spec => AcceptedNotFailed
<1>1. ASSUME Typed, [Next]_vars, NEW d \in Docs,
             doc[d].status \in {"queued", "ready"}, doc'[d].status = "error"
      PROVE  \E u \in Uploads : upload[u].at = "giveUp" /\ upload[u].id = d
  <2>1. CASE GivenUp(d)
    BY <2>1 DEF GivenUp, UploadGiveUp, Finish
  <2>2. CASE Recovered(d)
    BY <1>1, <2>2 DEF Recovered, Typed, WorkerOK, Snapshots, Interrupted
  <2>3. CASE DeleteRow(d)
    BY <1>1, <2>3 DEF DeleteRow, Typed, StoreOK, NoRow
  <2>4. ~Replaced(d)
    <3>1. Replaced(d) => doc'[d].status = "staging"
      BY DEF Replaced, Staged
    <3> QED BY <1>1, <3>1
  <2>5. ~Requeued(d) /\ ~Claimed(d) /\ ~Indexed(d) /\ ~JobFailed(d)
    BY <1>1 DEF Requeued, Claimed, Indexed, JobFailed, Becomes
  <2>6. doc'[d] # doc[d]
    BY <1>1
  <2> QED BY <1>1, <2>1, <2>2, <2>3, <2>4, <2>5, <2>6, RowSteps DEF RowStep
<1>2. Typed /\ [Next]_vars => [\A d \in Docs :
          doc[d].status \in {"queued", "ready"} /\ doc'[d].status = "error" =>
             \E u \in Uploads : upload[u].at = "giveUp" /\ upload[u].id = d]_doc
  BY <1>1
<1> QED BY <1>2, TypedAlways, PTL DEF Spec, AcceptedNotFailed

-----------------------------------------------------------------------------
(* The spool copy *)

\* Spool files are staged, or removed after a deletion or by the worker's cleanup.
LEMMA SpoolSteps ==
    ASSUME Typed, NEW d \in Docs, [Next]_vars
    PROVE  \/ spool'[d] = spool[d]
           \/ spool'[d] \in Files
           \/ d \in deleting
           \/ RemoveSpool /\ worker.id = d /\ UNCHANGED <<doc, chunks>>
<1>1. \/ UNCHANGED vars \/ ReindexRead \/ SweepOld \/ WorkerCrash
      \/ \E e \in Docs : DeleteRow(e) \/ ReindexQueue(e)
      => UNCHANGED spool
  BY DEF vars, store, ReindexRead, SweepOld, WorkerCrash, DeleteRow, ReindexQueue
<1>2. \A u \in Uploads : Upload(u) \/ StageFails(u) \/ UploadDies(u)
         => UNCHANGED spool \/ UploadStage(u)
  BY DEF Upload, UploadLook, UploadRow, UploadQueue, UploadGiveUp, Finish, StageFails, UploadDies, store
<1>3. ASSUME NEW u \in Uploads, UploadStage(u)
      PROVE  spool'[d] = spool[d] \/ spool'[d] \in Files
  BY <1>3 DEF UploadStage, Typed, StoreOK, RequestOK, Accepting
<1>4. ASSUME NEW e \in Docs, DeleteSpool(e)
      PROVE  spool'[d] = spool[d] \/ d \in deleting
  BY <1>4 DEF DeleteSpool, Typed, StoreOK
<1>5. RemoveSpool => spool'[d] = spool[d] \/ (worker.id = d /\ UNCHANGED <<doc, chunks>>)
  BY DEF RemoveSpool, Typed, StoreOK
<1>6. Work => UNCHANGED spool \/ RemoveSpool
  BY DEF Work, PickDocument, ClaimDocument, ReadSpool, Extract, CheckCurrent, IndexChunks,
         FailDocument, CleanUp, RestartWorker, RecoverOne, RecoverDone, KilledByFile, store
<1> QED BY <1>1, <1>2, <1>3, <1>4, <1>5, <1>6 DEF Next

Kinds == Retained \cup {NoFile}

\* What a row retains, in the database and in the memory of the worker.
OriginalsRetained ==
    /\ \A d \in Docs : doc[d].original \in Kinds
    /\ worker.original \in Kinds

\* Spool files are removed for deleted rows only ...
DeletingGone == \A d \in deleting : doc[d].status = "deleted"

\* ... so that what the worker read from one is still there;
BytesStayed ==
    worker.at \in {"extract", "check", "index"} =>
        /\ worker.bytes # NoFile
        /\ worker.bytes \in Kinds \/ doc[worker.id].status = "deleted" \/ spool[worker.id] # NoFile

\* and what the worker is about to remove is not the only copy.
RemovalSafe ==
    worker.at = "remove" =>
        doc[worker.id].status # "ready" \/ doc[worker.id].original # NoFile

SpoolInv ==
    OriginalsRetained /\ DeletingGone /\ BytesStayed /\ RemovalSafe /\ SpoolKeptForReindex

\* A deleted row stays deleted, its original stays unless it is replaced, and only
\* the worker makes a row ready.
LEMMA RowFacts ==
    ASSUME Typed, NEW d \in Docs, [Next]_vars
    PROVE  /\ doc[d].status = "deleted" => doc'[d].status = "deleted"
           /\ \/ doc'[d].original = doc[d].original
              \/ doc'[d].original \in Kinds /\ doc'[d].status \in {"staging", "deleted"}
           /\ doc'[d].status = "ready" =>
                 \/ doc'[d] = doc[d]
                 \/ IndexChunks /\ worker.id = d
<1>1. CASE doc'[d] = doc[d]
  BY <1>1
<1>2. CASE Replaced(d)
  BY <1>2 DEF Replaced, Staged, Kinds
<1>3. CASE DeleteRow(d)
  BY <1>3 DEF DeleteRow, NoRow, Kinds, Typed, StoreOK
<1>4. CASE Indexed(d)
  BY <1>4 DEF Indexed, Becomes, Kept, Exists
<1>5. CASE Requeued(d) \/ GivenUp(d) \/ Claimed(d) \/ JobFailed(d) \/ Recovered(d)
  <2>1. Kept(d) /\ doc'[d].status # "ready"
    BY <1>5 DEF Requeued, GivenUp, Claimed, JobFailed, Recovered, Becomes
  <2> QED BY <2>1 DEF Kept, Exists
<1> QED BY <1>1, <1>2, <1>3, <1>4, <1>5, RowSteps DEF RowStep

LEMMA OriginalsKept == Typed /\ OriginalsRetained /\ [Next]_vars => OriginalsRetained'
<1> SUFFICES ASSUME Typed, OriginalsRetained, [Next]_vars PROVE OriginalsRetained'
  OBVIOUS
<1>1. \A d \in Docs : doc'[d].original \in Kinds
  BY RowFacts DEF OriginalsRetained
<1>2. worker'.original \in Kinds
  <2>1. UNCHANGED worker => worker'.original \in Kinds
    BY DEF OriginalsRetained
  <2>2. \/ UNCHANGED vars \/ ReindexRead
        \/ \E u \in Uploads : Upload(u) \/ StageFails(u) \/ UploadDies(u)
        \/ \E d \in Docs : DeleteRow(d) \/ DeleteSpool(d) \/ ReindexQueue(d)
        => UNCHANGED worker
    BY DEF vars, ReindexRead, Upload, UploadLook, UploadRow, UploadStage, UploadQueue,
           UploadGiveUp, Finish, StageFails, UploadDies, OnlyUpload, DeleteRow, DeleteSpool, ReindexQueue
  <2>3. \/ ClaimDocument \/ ReadSpool \/ Extract \/ CheckCurrent \/ IndexChunks
        \/ FailDocument \/ CleanUp \/ RemoveSpool \/ RestartWorker \/ RecoverOne
        \/ RecoverDone \/ KilledByFile \/ SweepOld \/ WorkerCrash
        => worker'.original \in {worker.original, NoFile}
    <3>1. worker \in Workers
      BY DEF Typed, WorkerOK
    <3>2. \A p : WorkerGoto(p) => worker'.original = worker.original
      BY <3>1 DEF WorkerGoto, Workers
    <3>3. WorkerIdles \/ Dead => worker'.original = NoFile
      BY DEF WorkerIdles, Dead, Idle
    <3>4. ReadSpool => worker'.original = worker.original
      BY <3>1 DEF ReadSpool, Workers
    <3> QED BY <3>2, <3>3, <3>4
            DEF ClaimDocument, Extract, CheckCurrent, IndexChunks, FailDocument, CleanUp,
                RemoveSpool, RestartWorker, RecoverOne, RecoverDone, KilledByFile, SweepOld, WorkerCrash
  <2>4. PickDocument => worker'.original \in Kinds
    BY DEF PickDocument, Oldest, QueuedDocs, OriginalsRetained
  <2> QED BY <2>1, <2>2, <2>3, <2>4 DEF Next, Work, OriginalsRetained, Kinds
<1> QED BY <1>1, <1>2 DEF OriginalsRetained

LEMMA DeletingKept == Typed /\ DeletingGone /\ [Next]_vars => DeletingGone'
<1> SUFFICES ASSUME Typed, DeletingGone, [Next]_vars, NEW d \in deleting'
             PROVE  doc'[d].status = "deleted"
  BY DEF DeletingGone
<1>1. CASE d \in deleting
  BY <1>1, RowFacts DEF DeletingGone, Typed, AppOK
<1>2. CASE d \notin deleting
  <2>1. \E e \in Docs : DeleteRow(e)
    BY <1>2 DEF Next, vars, app, ReindexRead, Upload, UploadLook, UploadRow, UploadStage, UploadQueue,
                UploadGiveUp, Finish, StageFails, UploadDies, OnlyUpload, DeleteSpool, ReindexQueue,
                Work, PickDocument, ClaimDocument, ReadSpool, Extract, CheckCurrent, IndexChunks,
                FailDocument, CleanUp, RemoveSpool, RestartWorker, RecoverOne, RecoverDone,
                KilledByFile, SweepOld, WorkerCrash, OnlyWorker
  <2> QED BY <1>2, <2>1 DEF DeleteRow, Typed, StoreOK, NoRow
<1> QED BY <1>1, <1>2

\* What happens to the worker's own document while it has it in hand.
LEMMA StaysPut ==
    ASSUME Typed, DeletingGone, [Next]_vars, ~RemoveSpool, NEW d \in Docs,
           doc[d].status = "deleted" \/ spool[d] # NoFile
    PROVE  doc'[d].status = "deleted" \/ spool'[d] # NoFile
BY RowFacts, SpoolSteps, RagIngestAssumption DEF DeletingGone

LEMMA BytesKept ==
    Typed /\ OriginalsRetained /\ DeletingGone /\ BytesStayed /\ [Next]_vars => BytesStayed'
<1> SUFFICES ASSUME Typed, OriginalsRetained, DeletingGone, BytesStayed, [Next]_vars,
                    worker'.at \in {"extract", "check", "index"}
             PROVE  /\ worker'.bytes # NoFile
                    /\ \/ worker'.bytes \in Kinds
                       \/ doc'[worker'.id].status = "deleted"
                       \/ spool'[worker'.id] # NoFile
  BY DEF BytesStayed
<1>0. worker \in Workers
  BY DEF Typed, WorkerOK
<1>1. CASE ReadSpool
  <2>1. UNCHANGED store /\ worker'.id = worker.id /\ worker'.bytes # NoFile
        /\ worker'.bytes \in {spool[worker.id], worker.original}
    BY <1>0, <1>1 DEF ReadSpool, Workers, OnlyWorker
  <2> QED BY <2>1 DEF store, OriginalsRetained
<1>2. CASE ~ReadSpool
  <2>1. /\ worker.at \in {"extract", "check", "index"}
        /\ worker'.bytes = worker.bytes /\ worker'.id = worker.id
        /\ ~RemoveSpool
    <3>1. CASE UNCHANGED worker
      BY <3>1 DEF RemoveSpool, WorkerAt
    <3>2. CASE Work \/ SweepOld \/ WorkerCrash
      BY <1>0, <1>2, <3>2
         DEF Work, PickDocument, ClaimDocument, Extract, CheckCurrent, IndexChunks,
             FailDocument, CleanUp, RemoveSpool, RestartWorker, RecoverOne, RecoverDone, KilledByFile,
             SweepOld, WorkerCrash, WorkerGoto, WorkerIdles, WorkerAt, Dead, Idle, Workers
    <3>3. \/ UNCHANGED vars \/ ReindexRead
          \/ \E u \in Uploads : Upload(u) \/ StageFails(u) \/ UploadDies(u)
          \/ \E d \in Docs : DeleteRow(d) \/ DeleteSpool(d) \/ ReindexQueue(d)
          => UNCHANGED worker
      BY DEF vars, ReindexRead, Upload, UploadLook, UploadRow, UploadStage, UploadQueue,
             UploadGiveUp, Finish, StageFails, UploadDies, OnlyUpload, DeleteRow, DeleteSpool, ReindexQueue
    <3> QED BY <3>1, <3>2, <3>3 DEF Next
  <2>2. worker.id \in Docs
    BY <1>0 DEF Workers
  <2> QED BY <2>1, <2>2, StaysPut DEF BytesStayed
<1> QED BY <1>1, <1>2

\* The worker comes to removing by its cleanup, and does nothing else meanwhile.
LEMMA RemoveSteps ==
    ASSUME Typed, [Next]_vars, worker'.at = "remove"
    PROVE  \/ CleanUp /\ UNCHANGED doc /\ worker'.id = worker.id /\ Disposable(worker.id)
           \/ UNCHANGED worker
<1>0. worker \in Workers
  BY DEF Typed, WorkerOK
<1>1. CASE CleanUp
  <2>1. ~WorkerIdles
    BY DEF WorkerIdles, Idle
  <2>2. Disposable(worker.id) /\ WorkerGoto("remove") /\ UNCHANGED doc
    BY <1>1, <2>1 DEF CleanUp, store
  <2>3. worker' = [worker EXCEPT !.at = "remove"]
    BY <2>2 DEF WorkerGoto
  <2>4. worker'.id = worker.id
    BY <1>0, <2>3 DEF Workers
  <2> QED BY <1>1, <2>2, <2>4
<1>2. CASE ~CleanUp
  <2>1. Work \/ SweepOld \/ WorkerCrash => RecoverOne
    <3>1. \A p : WorkerGoto(p) => worker'.at = p
      BY <1>0 DEF WorkerGoto, Workers
    <3>2. WorkerIdles \/ Dead => worker'.at # "remove"
      BY DEF WorkerIdles, Dead, Idle
    <3>3. ~PickDocument
      BY DEF PickDocument
    <3>4. ~ReadSpool
      <4>1. ReadSpool => worker'.at \in {"fail", "extract"}
        BY <1>0 DEF ReadSpool, Workers
      <4> QED BY <4>1
    <3>5. ~ClaimDocument /\ ~IndexChunks /\ ~RemoveSpool /\ ~FailDocument
      BY <3>1, <3>2 DEF ClaimDocument, IndexChunks, RemoveSpool, FailDocument
    <3>6. ~Extract /\ ~CheckCurrent
      BY <3>1 DEF Extract, CheckCurrent
    <3>7. ~RestartWorker /\ ~RecoverDone /\ ~KilledByFile /\ ~SweepOld /\ ~WorkerCrash
      BY <3>1, <3>2 DEF RestartWorker, RecoverDone, KilledByFile, SweepOld, WorkerCrash
    <3> QED BY <1>2, <3>3, <3>4, <3>5, <3>6, <3>7 DEF Work
  <2>2. \/ UNCHANGED vars \/ ReindexRead \/ RecoverOne
        \/ \E u \in Uploads : Upload(u) \/ StageFails(u) \/ UploadDies(u)
        \/ \E d \in Docs : DeleteRow(d) \/ DeleteSpool(d) \/ ReindexQueue(d)
        => UNCHANGED worker
    BY DEF vars, ReindexRead, Upload, UploadLook, UploadRow, UploadStage, UploadQueue, RecoverOne,
           UploadGiveUp, Finish, StageFails, UploadDies, OnlyUpload, DeleteRow, DeleteSpool, ReindexQueue
  <2> QED BY <2>1, <2>2 DEF Next
<1> QED BY <1>1, <1>2

LEMMA RemovalKept == Typed /\ RemovalSafe /\ [Next]_vars => RemovalSafe'
<1> SUFFICES ASSUME Typed, RemovalSafe, [Next]_vars, worker'.at = "remove"
             PROVE  doc'[worker'.id].status # "ready" \/ doc'[worker'.id].original # NoFile
  BY DEF RemovalSafe
<1>1. CASE UNCHANGED doc /\ worker'.id = worker.id /\ Disposable(worker.id)
  BY <1>1 DEF Disposable, Exists
<1>2. CASE UNCHANGED worker
  <2>1. worker.id \in Docs /\ ~IndexChunks
    BY <1>2 DEF Typed, WorkerOK, Workers, IndexChunks, WorkerAt
  <2> QED BY <1>2, <2>1, RowFacts DEF RemovalSafe
<1> QED BY <1>1, <1>2, RemoveSteps

LEMMA CopyKept == Typed /\ SpoolInv /\ [Next]_vars => SpoolKeptForReindex'
<1> SUFFICES ASSUME Typed, SpoolInv, [Next]_vars, NEW d \in Docs,
                    doc'[d].status = "ready", doc'[d].original = NoFile,
                    chunks'[d] \notin Retained
             PROVE  spool'[d] # NoFile
  BY DEF SpoolKeptForReindex
<1>0. NoFile \notin Files
  BY RagIngestAssumption
<1>1. CASE IndexChunks /\ worker.id = d
  <2>1. UNCHANGED spool /\ worker.at = "index"
    BY <1>1 DEF IndexChunks, WorkerAt
  <2>2. Exists(d) /\ chunks' = [chunks EXCEPT ![d] = worker.bytes]
    <3>1. ~Exists(d) => UNCHANGED doc
      BY <1>1 DEF IndexChunks
    <3>2. Exists(d)
      BY <3>1 DEF Exists
    <3> QED BY <1>1, <3>2 DEF IndexChunks
  <2>3. worker.bytes \notin Retained /\ worker.bytes # NoFile
    BY <2>1, <2>2 DEF Typed, StoreOK, SpoolInv, BytesStayed
  <2> QED BY <1>1, <2>1, <2>2, <2>3 DEF SpoolInv, BytesStayed, Kinds, Exists
<1>2. CASE ~(IndexChunks /\ worker.id = d)
  <2>1. doc'[d] = doc[d] /\ chunks'[d] = chunks[d]
    BY <1>2, RowFacts, ChunkSteps
  <2>2. spool[d] # NoFile
    BY <2>1 DEF SpoolInv, SpoolKeptForReindex
  <2>3. d \notin deleting
    BY <2>1 DEF SpoolInv, DeletingGone
  <2>4. ~(RemoveSpool /\ worker.id = d)
    BY <2>1 DEF SpoolInv, RemovalSafe, RemoveSpool, WorkerAt
  <2> QED BY <1>0, <2>2, <2>3, <2>4, SpoolSteps
<1> QED BY <1>1, <1>2

LEMMA SpoolAlways == Spec => []SpoolInv
<1>1. Init => SpoolInv
  BY DEF Init, SpoolInv, OriginalsRetained, Kinds, DeletingGone, BytesStayed, RemovalSafe,
         SpoolKeptForReindex, NoRow, Idle
<1>2. Typed /\ SpoolInv /\ [Next]_vars => SpoolInv'
  BY OriginalsKept, DeletingKept, BytesKept, RemovalKept, CopyKept DEF SpoolInv
<1> QED BY <1>1, <1>2, TypedAlways, PTL DEF Spec

\* A ready document whose bytes are not in the database keeps its spool copy, for
\* any files, requests, deletions, re-indexing and crashes.
THEOREM CopyIsKept == Spec => []SpoolKeptForReindex
<1>1. SpoolInv => SpoolKeptForReindex
  BY DEF SpoolInv
<1> QED BY <1>1, SpoolAlways, PTL

-----------------------------------------------------------------------------
(* Attempts *)

\* Requests that are over and had to do with row d.
Served(d) == {u \in Uploads : upload[u].id = d /\ upload[u].at = "done"}

\* While recovery goes through what it read, nothing is claimed, and a row that
\* still has the status it was read with has no more attempts than it had then.
SnapshotInv ==
    /\ todo # {} => worker.at = "recover"
    /\ \A t \in todo : doc[t.id].status = t.status => doc[t.id].attempts <= t.attempts

\* A queued row has an attempt left.
AttemptLeft ==
    \A d \in Docs :
        doc[d].status = "queued" => doc[d].attempts < MaxAttempts + Cardinality(Served(d))

AttemptInv == SnapshotInv /\ AttemptLeft /\ AttemptsBounded

LEMMA ServedFinite ==
    ASSUME NEW d
    PROVE  /\ IsFiniteSet(Served(d)) /\ Cardinality(Served(d)) \in Nat
           /\ IsFiniteSet(Served(d)') /\ Cardinality(Served(d)') \in Nat
<1>1. IsFiniteSet(Served(d)) /\ IsFiniteSet(Served(d)')
  BY RagIngestAssumption, FS_Subset DEF Served
<1> QED BY <1>1, FS_CardinalityType

\* A request that is over stays over.
LEMMA DoneStays ==
    ASSUME Typed, [Next]_vars, NEW v \in Uploads, upload[v].at = "done"
    PROVE  upload'[v] = upload[v]
<1>1. ASSUME NEW u \in Uploads, Upload(u) \/ StageFails(u) \/ UploadDies(u)
      PROVE  upload'[v] = upload[v]
  <2>1. u # v
    BY <1>1 DEF Upload, UploadLook, UploadRow, UploadStage, UploadQueue, UploadGiveUp, Finish,
                StageFails, UploadDies
  <2> QED BY <1>1, <2>1
          DEF Upload, UploadLook, UploadRow, UploadStage, UploadQueue, UploadGiveUp, Finish,
              StageFails, UploadDies, UploadGoto, UploadEnds, Typed, AppOK
<1>2. \/ UNCHANGED vars \/ ReindexRead \/ Work \/ SweepOld \/ WorkerCrash
      \/ \E d \in Docs : DeleteRow(d) \/ DeleteSpool(d) \/ ReindexQueue(d)
      => UNCHANGED upload
  BY DEF vars, app, ReindexRead, DeleteRow, DeleteSpool, ReindexQueue, Work, PickDocument,
         ClaimDocument, ReadSpool, Extract, CheckCurrent, IndexChunks, FailDocument, CleanUp,
         RemoveSpool, RestartWorker, RecoverOne, RecoverDone, KilledByFile, SweepOld, WorkerCrash,
         OnlyWorker
<1> QED BY <1>1, <1>2 DEF Next

LEMMA ServedGrows ==
    ASSUME Typed, [Next]_vars, NEW d \in Docs
    PROVE  /\ Cardinality(Served(d)) <= Cardinality(Served(d))'
           /\ \A u \in Uploads :
                 upload[u].at # "done" /\ upload'[u].at = "done" /\ upload'[u].id = d
                 => Cardinality(Served(d)) < Cardinality(Served(d))'
<1>1. Served(d) \subseteq Served(d)'
  BY DoneStays DEF Served
<1>2. IsFiniteSet(Served(d))'
  BY ServedFinite
<1>3. /\ Cardinality(Served(d)) \in Nat
      /\ Cardinality(Served(d))' \in Nat
  BY ServedFinite
<1>4. Cardinality(Served(d)) <= Cardinality(Served(d))'
  BY <1>1, <1>2, FS_Subset
<1>5. ASSUME NEW u \in Uploads, upload[u].at # "done", upload'[u].at = "done", upload'[u].id = d
      PROVE  Cardinality(Served(d)) < Cardinality(Served(d))'
  <2>1. Served(d) # Served(d)'
    BY <1>5 DEF Served
  <2> QED BY <1>1, <1>2, <1>3, <2>1, FS_Subset
<1> QED BY <1>4, <1>5

\* A request that queues a row is over with it.
LEMMA QueueingServes ==
    ASSUME Typed, NEW u \in Uploads, UploadQueue(u)
    PROVE  upload[u].at # "done" /\ upload'[u].at = "done" /\ upload'[u].id = upload[u].id
BY DEF UploadQueue, Finish, UploadEnds, Typed, AppOK, UploadStates

\* Recovery reads the interrupted rows, and then only drops what it has read.
LEMMA TodoSteps ==
    ASSUME Typed, SnapshotInv, [Next]_vars
    PROVE  \/ /\ \E S \in SUBSET InterruptedDocs : todo' = Snapshot(S)
              /\ worker'.at = "recover" /\ UNCHANGED <<store, upload>>
           \/ todo' \subseteq todo /\ (todo' # {} => worker'.at = "recover")
<1>1. CASE RestartWorker \/ SweepOld
  <2>1. \/ todo' = Snapshot(InterruptedDocs)
        \/ \E live : \E S \in SUBSET (InterruptedDocs \ live) : todo' = Snapshot(S)
    BY <1>1 DEF RestartWorker, SweepOld
  <2>2. worker'.at = "recover" /\ UNCHANGED <<store, upload>>
    BY <1>1 DEF RestartWorker, SweepOld, WorkerGoto, Typed, WorkerOK, Workers, app
  <2> QED BY <2>1, <2>2
<1>2. CASE ~(RestartWorker \/ SweepOld)
  <2>1. \/ UNCHANGED vars \/ ReindexRead
        \/ \E u \in Uploads : Upload(u) \/ StageFails(u) \/ UploadDies(u)
        \/ \E d \in Docs : DeleteRow(d) \/ DeleteSpool(d) \/ ReindexQueue(d)
        => UNCHANGED <<worker, todo>>
    BY DEF vars, ReindexRead, Upload, UploadLook, UploadRow, UploadStage, UploadQueue,
           UploadGiveUp, Finish, StageFails, UploadDies, OnlyUpload, DeleteRow, DeleteSpool, ReindexQueue
  <2>2. RecoverOne => UNCHANGED worker /\ todo' \subseteq todo
    BY DEF RecoverOne
  <2>3. RecoverDone \/ KilledByFile \/ WorkerCrash => todo' = {}
    BY DEF RecoverDone, KilledByFile, WorkerCrash, Dead
  <2>4. \/ PickDocument \/ ClaimDocument \/ ReadSpool \/ Extract \/ CheckCurrent
        \/ IndexChunks \/ FailDocument \/ CleanUp \/ RemoveSpool
        => worker.at # "recover" /\ UNCHANGED todo
    BY DEF PickDocument, ClaimDocument, ReadSpool, Extract, CheckCurrent, IndexChunks,
           FailDocument, CleanUp, RemoveSpool, WorkerAt, OnlyWorker
  <2> QED BY <1>2, <2>1, <2>2, <2>3, <2>4 DEF Next, Work, SnapshotInv
<1> QED BY <1>1, <1>2

LEMMA SnapshotKept == Typed /\ SnapshotInv /\ [Next]_vars => SnapshotInv'
<1> SUFFICES ASSUME Typed, SnapshotInv, [Next]_vars PROVE SnapshotInv'
  OBVIOUS
<1>0. todo \subseteq Snapshots /\ doc \in [Docs -> Rows]
  BY DEF Typed, WorkerOK, StoreOK
<1>1. CASE /\ \E S \in SUBSET InterruptedDocs : todo' = Snapshot(S)
           /\ worker'.at = "recover" /\ UNCHANGED <<store, upload>>
  <2>1. \A t \in todo' : doc'[t.id].attempts <= t.attempts
    BY <1>0, <1>1 DEF Snapshot, InterruptedDocs, Rows, store
  <2> QED BY <1>1, <2>1 DEF SnapshotInv
<1>2. CASE todo' \subseteq todo /\ (todo' # {} => worker'.at = "recover")
  <2>1. todo' \subseteq todo /\ (todo' # {} => worker'.at = "recover")
    BY <1>2
  <2>2. ASSUME NEW t \in todo', doc'[t.id].status = t.status
        PROVE  doc'[t.id].attempts <= t.attempts
    <3>0. /\ t \in todo /\ t.id \in Docs /\ t.status \in Interrupted /\ t.attempts \in Nat
          /\ worker.at = "recover"
      BY <1>0, <2>1, <2>2 DEF Snapshots, SnapshotInv
    <3>1. CASE doc'[t.id] = doc[t.id]
      BY <2>2, <3>0, <3>1 DEF SnapshotInv
    <3>2. CASE Replaced(t.id)
      BY <3>0, <3>2 DEF Replaced, Staged
    <3>3. CASE DeleteRow(t.id)
      BY <1>0, <2>2, <3>0, <3>3 DEF DeleteRow, NoRow, Interrupted
    <3>4. CASE Requeued(t.id) \/ GivenUp(t.id) \/ Indexed(t.id) \/ JobFailed(t.id) \/ Recovered(t.id)
      <4>1. doc'[t.id].status \in {"queued", "error", "ready"}
        BY <3>4 DEF Requeued, GivenUp, Indexed, JobFailed, Recovered, Becomes
      <4> QED BY <2>2, <3>0, <4>1 DEF Interrupted
    <3>5. ~Claimed(t.id)
      BY <3>0 DEF Claimed, ClaimDocument, WorkerAt
    <3> QED BY <3>0, <3>1, <3>2, <3>3, <3>4, <3>5, RowSteps DEF RowStep
  <2> QED BY <2>1, <2>2 DEF SnapshotInv
<1> QED BY <1>1, <1>2, TodoSteps

LEMMA AttemptKept ==
    ASSUME Typed, AttemptInv, [Next]_vars, NEW d \in Docs
    PROVE  /\ doc'[d].attempts <= MaxAttempts + Cardinality(Served(d))'
           /\ doc'[d].status = "queued" =>
                 doc'[d].attempts < MaxAttempts + Cardinality(Served(d))'
<1> DEFINE n == Cardinality(Served(d))
<1>1. n \in Nat /\ n' \in Nat /\ n <= n'
  BY ServedFinite, ServedGrows
<1>2. \A u \in Uploads : UploadQueue(u) /\ upload[u].id = d => n < n'
  BY ServedGrows, QueueingServes
<1> HIDE DEF n
<1>3. /\ doc[d].attempts <= MaxAttempts + n
      /\ doc[d].status = "queued" => doc[d].attempts < MaxAttempts + n
  BY DEF AttemptInv, AttemptsBounded, AttemptLeft, Served, n
<1>4. doc[d].attempts \in Nat /\ MaxAttempts \in Nat \ {0}
  BY RagIngestAssumption DEF Typed, StoreOK, Rows
<1>5. CASE doc'[d] = doc[d]
  BY <1>1, <1>3, <1>4, <1>5 DEF n
<1>6. CASE Replaced(d)
  <2>1. doc'[d].attempts = 0
    BY <1>6 DEF Replaced, Staged
  <2> QED BY <1>1, <1>4, <2>1 DEF n
<1>7. CASE DeleteRow(d)
  <2>1. doc'[d].attempts = 0
    BY <1>7 DEF DeleteRow, NoRow, Typed, StoreOK
  <2> QED BY <1>1, <1>4, <2>1 DEF n
<1>8. CASE Requeued(d)
  <2>1. CASE doc'[d].attempts = 0
    BY <1>1, <1>4, <2>1 DEF n
  <2>2. CASE doc'[d].attempts = doc[d].attempts /\ n < n'
    BY <1>1, <1>3, <1>4, <2>2 DEF n
  <2> QED BY <1>2, <1>8, <2>1, <2>2 DEF Requeued, Becomes
<1>9. CASE GivenUp(d) \/ Indexed(d) \/ JobFailed(d)
  <2>1. doc'[d].attempts = doc[d].attempts /\ doc'[d].status # "queued"
    BY <1>9 DEF GivenUp, Indexed, JobFailed, Becomes
  <2> QED BY <1>1, <1>3, <1>4, <2>1 DEF n
<1>10. CASE Claimed(d)
  <2>1. doc'[d].attempts = doc[d].attempts + 1 /\ doc'[d].status # "queued" /\ doc[d].status = "queued"
    BY <1>10 DEF Claimed
  <2> QED BY <1>1, <1>3, <1>4, <2>1 DEF n
<1>11. CASE Recovered(d)
  <2>1. PICK t \in todo : /\ t.id = d /\ doc[d].status = t.status
                          /\ Becomes(d, "error") \/ (CanRetry(t) /\ Becomes(d, "queued"))
    BY <1>11 DEF Recovered
  <2>2. doc'[d].attempts = doc[d].attempts
    BY <2>1 DEF Becomes
  <2>3. doc'[d].status = "queued" => doc[d].attempts <= t.attempts /\ t.attempts < MaxAttempts
    BY <2>1 DEF Becomes, CanRetry, AttemptInv, SnapshotInv
  <2>4. t.attempts \in Nat
    BY DEF Typed, WorkerOK, Snapshots
  <2> QED BY <1>1, <1>3, <1>4, <2>2, <2>3, <2>4 DEF n
<1> QED BY <1>5, <1>6, <1>7, <1>8, <1>9, <1>10, <1>11, RowSteps DEF RowStep, n

\* A file that kills the worker does so a bounded number of times: each request
\* grants its row at most one attempt more than recovery does.
THEOREM AttemptsAreBounded == Spec => []AttemptsBounded
<1>1. Init => AttemptInv
  <2> SUFFICES ASSUME Init PROVE AttemptInv
    OBVIOUS
  <2>1. SnapshotInv
    BY DEF Init, SnapshotInv
  <2>2. \A d \in Docs : doc[d].attempts = 0 /\ doc[d].status = "absent"
    BY DEF Init, NoRow
  <2>3. \A d \in Docs : Cardinality(Served(d)) \in Nat
    BY ServedFinite
  <2> QED BY <2>1, <2>2, <2>3, RagIngestAssumption
          DEF AttemptInv, AttemptLeft, AttemptsBounded, Served
<1>2. Typed /\ AttemptInv /\ [Next]_vars => AttemptInv'
  <2> SUFFICES ASSUME Typed, AttemptInv, [Next]_vars PROVE AttemptInv'
    OBVIOUS
  <2>1. SnapshotInv'
    BY SnapshotKept DEF AttemptInv
  <2>2. AttemptLeft' /\ AttemptsBounded'
    BY AttemptKept DEF AttemptLeft, AttemptsBounded, Served
  <2> QED BY <2>1, <2>2 DEF AttemptInv
<1>3. AttemptInv => AttemptsBounded
  BY DEF AttemptInv
<1> QED BY <1>1, <1>2, <1>3, TypedAlways, PTL DEF Spec

-----------------------------------------------------------------------------
(* When what is searched is what was uploaded *)

\* No two requests have one document in hand between its row and its settling, and none
\* has the document of a job that is about to read its bytes, or is past its check.
Apart ==
    \A u \in Uploads : upload[u].at \in Accepting =>
        /\ \A v \in Uploads \ {u} : upload[v].at \in Accepting => upload[v].id # upload[u].id
        /\ worker.at \in {"read", "index"} => worker.id # upload[u].id

\* A request that has its row stages its file: it neither fails nor dies before.
Stages == \A u \in Uploads : upload[u].at = "stage" => upload'[u].at \in {"stage", "queue"}

OriginalFits == \A d \in Docs : Exists(d) => doc[d].original \in {NoFile, doc[d].hash}

\* A request is about to put its file under d into the spool.
Pending(d) == \E u \in Uploads : upload[u].at = "stage" /\ upload[u].id = d

SpoolFits == \A d \in Docs : Exists(d) => spool[d] \in {NoFile, doc[d].hash} \/ Pending(d)

RequestFits ==
    \A u \in Uploads : upload[u].at = "stage" /\ Exists(upload[u].id) =>
        upload[u].file = doc[upload[u].id].hash

\* A job has the bytes it was picked for once the check can pass, and those of its row
\* from then on.
JobFits ==
    /\ worker.at \in AtJob => worker.original \in {NoFile, worker.hash}
    /\ /\ worker.at \in {"extract", "check"}
       /\ doc[worker.id].status = "processing" /\ doc[worker.id].hash = worker.hash
       => worker.bytes = worker.hash
    /\ worker.at = "index" /\ Exists(worker.id) => worker.bytes = doc[worker.id].hash

ReadyFits == \A d \in Docs : doc[d].status = "ready" => chunks[d] = doc[d].hash

FileInv == OriginalFits /\ SpoolFits /\ RequestFits /\ JobFits /\ ReadyFits

\* What a request that reaches its row leaves there.
LEMMA RowOfRequest ==
    ASSUME Typed, NEW u \in Uploads, UploadRow(u), upload'[u].at = "stage"
    PROVE  /\ upload'[u].id \in Docs
           /\ doc'[upload'[u].id] = Staged(upload'[u].file)
           /\ \A d \in Docs : d # upload'[u].id => doc'[d] = doc[d]
<1>0. /\ upload \in [Uploads -> UploadStates] /\ upload[u] \in UploadStates
      /\ doc \in [Docs -> Rows]
  BY DEF Typed, AppOK, StoreOK
<1>1. CASE /\ upload[u].id # 0 /\ Exists(upload[u].id) /\ UploadGoto(u, "stage")
           /\ doc' = [doc EXCEPT ![upload[u].id] = Staged(upload[u].file)]
  <2>1. upload[u].id \in Docs
    BY <1>0, <1>1, RagIngestAssumption DEF UploadStates, Docs
  <2>2. upload'[u].id = upload[u].id /\ upload'[u].file = upload[u].file
    BY <1>0, <1>1 DEF UploadGoto, UploadStates
  <2> QED BY <1>0, <1>1, <2>1, <2>2
<1>2. CASE UploadEnds(u)
  BY <1>0, <1>2 DEF UploadEnds, UploadStates
<1>3. ASSUME NEW d \in Docs, doc' = [doc EXCEPT ![d] = Staged(upload[u].file)],
             upload' = [upload EXCEPT ![u] = [@ EXCEPT !.at = "stage", !.id = d]]
      PROVE  /\ upload'[u].id \in Docs
             /\ doc'[upload'[u].id] = Staged(upload'[u].file)
             /\ \A e \in Docs : e # upload'[u].id => doc'[e] = doc[e]
  <2>1. upload'[u].id = d /\ upload'[u].file = upload[u].file
    BY <1>0, <1>3 DEF UploadStates
  <2> QED BY <1>0, <1>3, <2>1
<1> QED BY <1>1, <1>2, <1>3 DEF UploadRow, Oldest

\* Only one request at a time moves ...
LEMMA OthersWait ==
    ASSUME Typed, NEW u \in Uploads, NEW v \in Uploads \ {u},
           Upload(v) \/ StageFails(v) \/ UploadDies(v)
    PROVE  upload'[u] = upload[u]
BY DEF Typed, AppOK, Upload, UploadLook, UploadRow, UploadStage, UploadQueue, UploadGiveUp, Finish,
       StageFails, UploadDies, UploadGoto, UploadEnds

\* ... and it comes to staging from its row, and goes on from there to the spool.
LEMMA StageSteps ==
    ASSUME Typed, NEW u \in Uploads, [Next]_vars
    PROVE  /\ upload'[u].at = "stage" => upload'[u] = upload[u] \/ UploadRow(u)
           /\ upload[u].at = "stage" /\ upload'[u].at \in {"stage", "queue"} =>
                 upload'[u] = upload[u] \/ UploadStage(u)
           /\ upload'[u].at = "queue" => upload'[u] = upload[u] \/ UploadStage(u)
<1>0. upload \in [Uploads -> UploadStates] /\ upload[u] \in UploadStates
  BY DEF Typed, AppOK
<1>1. \/ UNCHANGED vars \/ ReindexRead \/ Work \/ SweepOld \/ WorkerCrash
      \/ \E d \in Docs : DeleteRow(d) \/ DeleteSpool(d) \/ ReindexQueue(d)
      => UNCHANGED upload
  BY DEF vars, app, ReindexRead, DeleteRow, DeleteSpool, ReindexQueue, Work, PickDocument, ClaimDocument,
         ReadSpool, Extract, CheckCurrent, IndexChunks, FailDocument, CleanUp, RemoveSpool, RestartWorker,
         RecoverOne, RecoverDone, KilledByFile, SweepOld, WorkerCrash, OnlyWorker
<1>2. ASSUME NEW v \in Uploads, v # u, Upload(v) \/ StageFails(v) \/ UploadDies(v)
      PROVE  upload'[u] = upload[u]
  BY <1>2, OthersWait
<1>3. UploadLook(u) => upload[u].at = "off" /\ upload'[u].at \in {"done", "row"}
  BY <1>0 DEF UploadLook
<1>4. UploadRow(u) => upload[u].at = "row" /\ upload'[u].at # "queue"
  BY <1>0 DEF UploadRow, UploadGoto, UploadEnds, UploadStates
<1>5. UploadStage(u) => upload'[u].at = "queue"
  BY <1>0 DEF UploadStage, UploadGoto, UploadStates
<1>6. StageFails(u) => upload'[u].at = "giveUp"
  BY <1>0 DEF StageFails, UploadGoto, UploadStates
<1>7. UploadQueue(u) \/ UploadGiveUp(u) \/ UploadDies(u) => upload'[u].at = "done"
  BY <1>0 DEF UploadQueue, UploadGiveUp, Finish, UploadDies, UploadEnds, UploadStates
<1> QED BY <1>1, <1>2, <1>3, <1>4, <1>5, <1>6, <1>7 DEF Next, Upload

\* A row comes to staging by a request that stages next.
LEMMA StagingSteps ==
    ASSUME Typed, NEW d \in Docs, [Next]_vars, doc'[d].status = "staging", doc'[d] # doc[d]
    PROVE  \E u \in Uploads : /\ UploadRow(u) /\ upload'[u].at = "stage"
                              /\ upload'[u].id = d /\ doc'[d] = Staged(upload'[u].file)
<1>1. ASSUME NEW u \in Uploads, UploadRow(u)
      PROVE  upload'[u].at = "stage" /\ upload'[u].id = d /\ doc'[d] = Staged(upload'[u].file)
  <2>1. upload'[u].at = "stage"
    <3>0. upload \in [Uploads -> UploadStates] /\ upload[u] \in UploadStates
      BY DEF Typed, AppOK
    <3>1. UploadGoto(u, "stage") => upload'[u].at = "stage"
      BY <3>0 DEF UploadGoto, UploadStates
    <3>2. \A e : upload' = [upload EXCEPT ![u] = [@ EXCEPT !.at = "stage", !.id = e]] =>
             upload'[u].at = "stage"
      BY <3>0 DEF UploadStates
    <3> QED BY <1>1, <3>1, <3>2 DEF UploadRow
  <2> QED BY <1>1, <2>1, RowOfRequest
<1>2. \/ \E u \in Uploads : UploadLook(u) \/ UploadStage(u) \/ StageFails(u) \/ UploadDies(u)
      \/ UNCHANGED vars \/ ReindexRead \/ \E e \in Docs : DeleteSpool(e)
      \/ PickDocument \/ ReadSpool \/ Extract \/ CheckCurrent \/ CleanUp \/ RemoveSpool
      \/ RestartWorker \/ RecoverDone \/ KilledByFile \/ SweepOld \/ WorkerCrash
      => UNCHANGED doc
  BY DEF UploadLook, UploadStage, StageFails, UploadDies, vars, ReindexRead, DeleteSpool, PickDocument,
         ReadSpool, Extract, CheckCurrent, CleanUp, RemoveSpool, RestartWorker, RecoverDone, KilledByFile,
         SweepOld, WorkerCrash, store
<1>3. \A e \in Docs : ~DeleteRow(e) /\ ~ReindexQueue(e)
  BY DEF DeleteRow, ReindexQueue, NoRow, Typed, StoreOK, Rows
<1>4. \A S, s : s \in Statuses \ {"staging"} => ~Restatus(S, s)
  BY RestatusRows DEF Typed
<1>5. /\ ~IndexChunks /\ ~FailDocument /\ ~RecoverOne
      /\ \A u \in Uploads : ~UploadQueue(u) /\ ~UploadGiveUp(u)
  BY <1>4 DEF IndexChunks, FailDocument, RecoverOne, UploadQueue, UploadGiveUp, Finish, Statuses
<1>6. ~ClaimDocument
  BY DEF ClaimDocument, Typed, StoreOK, Rows
<1> QED BY <1>1, <1>2, <1>3, <1>5, <1>6 DEF Next, Work, Upload

\* A row that exists has the hash and the original it had, or is the row of a request that
\* stages next.
LEMMA HashSteps ==
    ASSUME Typed, NEW d \in Docs, [Next]_vars, Exists(d)'
    PROVE  \/ Kept(d)
           \/ \E u \in Uploads : /\ UploadRow(u) /\ upload'[u].at = "stage"
                                 /\ upload'[u].id = d /\ doc'[d] = Staged(upload'[u].file)
<1>1. CASE doc'[d] = doc[d]
  BY <1>1 DEF Exists, Kept
<1>2. CASE Replaced(d) /\ doc'[d] # doc[d]
  <2>1. doc'[d].status = "staging"
    BY <1>2 DEF Replaced, Staged
  <2> QED BY <1>2, <2>1, StagingSteps
<1>3. ~DeleteRow(d)
  BY DEF DeleteRow, NoRow, Exists, Typed, StoreOK
<1> QED BY <1>1, <1>2, <1>3, RowSteps
        DEF RowStep, Requeued, GivenUp, Claimed, Indexed, JobFailed, Recovered, Becomes

\* A spool file is the one it was, is gone, or is the file of the request that staged it.
LEMMA SpoolSources ==
    ASSUME Typed, NEW d \in Docs, [Next]_vars
    PROVE  \/ spool'[d] \in {spool[d], NoFile}
           \/ \E u \in Uploads : /\ UploadStage(u) /\ upload[u].id = d
                                 /\ spool'[d] = upload[u].file
<1>1. \/ UNCHANGED vars \/ ReindexRead \/ SweepOld \/ WorkerCrash
      \/ \E e \in Docs : DeleteRow(e) \/ ReindexQueue(e)
      => UNCHANGED spool
  BY DEF vars, store, ReindexRead, SweepOld, WorkerCrash, DeleteRow, ReindexQueue
<1>2. \A u \in Uploads : Upload(u) \/ StageFails(u) \/ UploadDies(u)
         => UNCHANGED spool \/ UploadStage(u)
  BY DEF Upload, UploadLook, UploadRow, UploadQueue, UploadGiveUp, Finish, StageFails, UploadDies, store
<1>3. ASSUME NEW u \in Uploads, UploadStage(u)
      PROVE  spool'[d] = spool[d] \/ (upload[u].id = d /\ spool'[d] = upload[u].file)
  BY <1>3 DEF UploadStage, Typed, StoreOK
<1>4. ASSUME NEW e \in Docs, DeleteSpool(e)
      PROVE  spool'[d] \in {spool[d], NoFile}
  BY <1>4 DEF DeleteSpool, Typed, StoreOK
<1>5. RemoveSpool => spool'[d] \in {spool[d], NoFile}
  BY DEF RemoveSpool, Typed, StoreOK
<1>6. Work => UNCHANGED spool \/ RemoveSpool
  BY DEF Work, PickDocument, ClaimDocument, ReadSpool, Extract, CheckCurrent, IndexChunks,
         FailDocument, CleanUp, RestartWorker, RecoverOne, RecoverDone, KilledByFile, store
<1> QED BY <1>1, <1>2, <1>3, <1>4, <1>5, <1>6 DEF Next

\* A job stays on its document from the pick on, reads its bytes once, and comes to its
\* last write by the check.
LEMMA JobSteps ==
    ASSUME Typed, [Next]_vars, worker'.at \in AtJob
    PROVE  \/ PickDocument
           \/ /\ worker.at \in AtJob /\ worker'.id = worker.id
              /\ worker'.hash = worker.hash /\ worker'.original = worker.original
              /\ \/ ReadSpool
                 \/ /\ worker'.bytes = worker.bytes
                    /\ \/ CheckCurrent
                       \/ worker'.at \in {"extract", "check"} /\ worker.at \in {"extract", "check"}
                       \/ worker'.at = "index" /\ worker.at = "index"
                       \/ worker'.at \notin {"extract", "check", "index"}
<1>0. worker \in Workers
  BY DEF Typed, WorkerOK
<1>1. CASE UNCHANGED worker
  BY <1>1
<1>2. \/ UNCHANGED vars \/ ReindexRead \/ RecoverOne
      \/ \E u \in Uploads : Upload(u) \/ StageFails(u) \/ UploadDies(u)
      \/ \E d \in Docs : DeleteRow(d) \/ DeleteSpool(d) \/ ReindexQueue(d)
      => UNCHANGED worker
  BY DEF vars, ReindexRead, Upload, UploadLook, UploadRow, UploadStage, UploadQueue, RecoverOne,
         UploadGiveUp, Finish, StageFails, UploadDies, OnlyUpload, DeleteRow, DeleteSpool, ReindexQueue
<1>3. ~WorkerIdles /\ ~Dead
  BY DEF WorkerIdles, Dead, Idle, AtJob
<1>4. \A p : WorkerGoto(p) =>
         /\ worker'.at = p /\ worker'.id = worker.id /\ worker'.hash = worker.hash
         /\ worker'.original = worker.original /\ worker'.bytes = worker.bytes
  BY <1>0 DEF WorkerGoto, Workers
<1>5. CASE ReadSpool
  <2>1. /\ worker.at = "read" /\ worker'.id = worker.id
        /\ worker'.hash = worker.hash /\ worker'.original = worker.original
    BY <1>0, <1>5 DEF ReadSpool, WorkerAt, Workers
  <2> QED BY <1>5, <2>1 DEF AtJob
<1>6. CASE ClaimDocument \/ IndexChunks
  <2>1. worker.at \in AtJob
    BY <1>6 DEF ClaimDocument, IndexChunks, WorkerAt, AtJob
  <2>2. \E p \in {"read", "clean", "fail"} : WorkerGoto(p)
    BY <1>3, <1>6 DEF ClaimDocument, IndexChunks
  <2> QED BY <1>4, <2>1, <2>2
<1>7. CASE CheckCurrent
  <2>1. worker.at \in AtJob /\ \E p : WorkerGoto(p)
    BY <1>7 DEF CheckCurrent, WorkerAt, AtJob
  <2> QED BY <1>4, <1>7, <2>1
<1>8. CASE Extract
  <2>1. worker.at = "extract" /\ \E p \in {"fail", "check"} : WorkerGoto(p)
    BY <1>8 DEF Extract, WorkerAt
  <2> QED BY <1>4, <2>1 DEF AtJob
<1>9. ~FailDocument /\ ~CleanUp /\ ~RemoveSpool
  BY <1>3, <1>4 DEF FailDocument, CleanUp, RemoveSpool, AtJob
<1>10. ~RestartWorker /\ ~RecoverDone /\ ~KilledByFile /\ ~SweepOld /\ ~WorkerCrash
  BY <1>3, <1>4 DEF RestartWorker, RecoverDone, KilledByFile, SweepOld, WorkerCrash, AtJob
<1> QED BY <1>1, <1>2, <1>5, <1>6, <1>7, <1>8, <1>9, <1>10 DEF Next, Work

LEMMA OriginalFitsKept == Typed /\ OriginalFits /\ [Next]_vars => OriginalFits'
<1> SUFFICES ASSUME Typed, OriginalFits, [Next]_vars, NEW d \in Docs, Exists(d)'
             PROVE  doc'[d].original \in {NoFile, doc'[d].hash}
  BY DEF OriginalFits
<1>1. ASSUME NEW f, doc'[d] = Staged(f)
      PROVE  doc'[d].original \in {NoFile, doc'[d].hash}
  BY <1>1 DEF Staged
<1> QED BY <1>1, HashSteps DEF Kept, OriginalFits

LEMMA SpoolFitsKept ==
    Typed /\ SpoolFits /\ RequestFits /\ Stages /\ [Next]_vars => SpoolFits'
<1> SUFFICES ASSUME Typed, SpoolFits, RequestFits, Stages, [Next]_vars, NEW d \in Docs, Exists(d)'
             PROVE  \/ spool'[d] \in {NoFile, doc'[d].hash}
                    \/ \E u \in Uploads : upload'[u].at = "stage" /\ upload'[u].id = d
  BY DEF SpoolFits, Pending
<1>1. CASE Kept(d)
  <2>1. ASSUME NEW u \in Uploads, UploadStage(u), upload[u].id = d
        PROVE  spool'[d] = doc'[d].hash
    BY <1>1, <2>1 DEF Kept, UploadStage, RequestFits, Typed, StoreOK
  <2>2. ASSUME NEW u \in Uploads, upload[u].at = "stage", upload[u].id = d
        PROVE  UploadStage(u) \/ (upload'[u].at = "stage" /\ upload'[u].id = d)
    BY <2>2, StageSteps DEF Stages
  <2>3. CASE spool[d] \in {NoFile, doc[d].hash}
    BY <1>1, <2>1, <2>3, SpoolSources DEF Kept
  <2> QED BY <1>1, <2>1, <2>2, <2>3 DEF Kept, SpoolFits, Pending
<1> QED BY <1>1, HashSteps

LEMMA RequestFitsKept ==
    Typed /\ RequestFits /\ Apart' /\ [Next]_vars => RequestFits'
<1> SUFFICES ASSUME Typed, RequestFits, Apart', [Next]_vars, NEW u \in Uploads,
                    upload'[u].at = "stage", Exists(upload[u].id)'
             PROVE  upload'[u].file = doc'[upload'[u].id].hash
  BY DEF RequestFits
<1>1. CASE UploadRow(u)
  <2>1. doc'[upload'[u].id] = Staged(upload'[u].file)
    BY <1>1, RowOfRequest
  <2>2. \A f : Staged(f).hash = f
    BY DEF Staged
  <2> QED BY <2>1, <2>2
<1>2. CASE ~UploadRow(u) /\ upload'[u] = upload[u]
  <2>1. upload[u].at = "stage" /\ upload[u].id \in Docs
    BY <1>2 DEF Typed, RequestOK, Accepting
  <2>2. ASSUME NEW v \in Uploads, UploadRow(v), upload'[v].at = "stage", upload'[v].id = upload'[u].id
        PROVE  FALSE
    BY <1>2, <2>2 DEF Apart, Accepting
  <2>3. Exists(upload[u].id) /\ doc'[upload[u].id].hash = doc[upload[u].id].hash
    BY <1>2, <2>1, <2>2, HashSteps DEF Kept
  <2> QED BY <1>2, <2>1, <2>3 DEF RequestFits
<1> QED BY <1>1, <1>2, StageSteps

LEMMA JobFitsKept ==
    Typed /\ OriginalFits /\ SpoolFits /\ JobFits /\ Apart /\ Apart' /\ [Next]_vars => JobFits'
<1> SUFFICES ASSUME Typed, OriginalFits, SpoolFits, JobFits, Apart, Apart', [Next]_vars,
                    worker'.at \in AtJob
             PROVE  JobFits'
  BY DEF JobFits, AtJob
<1>0. worker \in Workers /\ worker.id \in Docs
  BY DEF Typed, WorkerOK, Workers
<1>1. CASE PickDocument
  <2>1. PICK d \in Docs :
            /\ doc[d].status = "queued" /\ worker'.at = "claim"
            /\ worker'.hash = doc[d].hash /\ worker'.original = doc[d].original
    BY <1>1 DEF PickDocument, Oldest, QueuedDocs
  <2> QED BY <2>1 DEF OriginalFits, Exists, JobFits
<1>2. CASE ReadSpool
  <2>1. /\ worker.at = "read" /\ UNCHANGED doc
        /\ worker'.at \in {"extract", "fail"} /\ worker'.id = worker.id
        /\ worker'.hash = worker.hash /\ worker'.original = worker.original
        /\ worker'.bytes = IF spool[worker.id] # NoFile THEN spool[worker.id] ELSE worker.original
        /\ worker'.at = "extract" => worker'.bytes # NoFile
    BY <1>0, <1>2 DEF ReadSpool, WorkerAt, Workers, store
  <2>2. worker.original \in {NoFile, worker.hash}
    BY <2>1 DEF JobFits, AtJob
  <2>3. Exists(worker.id) => spool[worker.id] \in {NoFile, doc[worker.id].hash}
    BY <1>0, <2>1 DEF SpoolFits, Pending, Apart, Accepting
  <2>4. doc[worker.id].status = "processing" => Exists(worker.id)
    BY DEF Exists
  <2> QED BY <2>1, <2>2, <2>3, <2>4 DEF JobFits
<1>3. CASE CheckCurrent /\ worker'.id = worker.id /\ worker'.hash = worker.hash
           /\ worker'.original = worker.original /\ worker'.bytes = worker.bytes
  <2>1. /\ worker.at = "check" /\ UNCHANGED doc /\ worker'.at \in {"index", "clean"}
        /\ worker'.at = "index" =>
              doc[worker.id].hash = worker.hash /\ doc[worker.id].status = "processing"
    BY <1>0, <1>3 DEF CheckCurrent, WorkerAt, WorkerGoto, Workers, store
  <2> QED BY <1>3, <2>1 DEF JobFits, AtJob
<1>4. ASSUME worker.at \in AtJob, worker'.id = worker.id, worker'.hash = worker.hash,
             worker'.original = worker.original, worker'.bytes = worker.bytes,
             \/ worker'.at \in {"extract", "check"} /\ worker.at \in {"extract", "check"}
             \/ worker'.at = "index" /\ worker.at = "index"
             \/ worker'.at \notin {"extract", "check", "index"}
      PROVE  JobFits'
  <2>1. worker'.original \in {NoFile, worker'.hash}
    BY <1>4 DEF JobFits
  <2>2. ASSUME worker'.at \in {"extract", "check"}, doc'[worker.id].status = "processing",
               doc'[worker.id].hash = worker.hash
        PROVE  worker.bytes = worker.hash
    <3>1. worker.at \in {"extract", "check"}
      BY <1>4, <2>2
    <3>2. ~Claimed(worker.id)
      BY <3>1 DEF Claimed, ClaimDocument, WorkerAt
    <3>3. Replaced(worker.id) => doc'[worker.id].status = "staging"
      BY DEF Replaced, Staged
    <3>4. DeleteRow(worker.id) => doc'[worker.id].status = "deleted"
      BY <1>0 DEF DeleteRow, NoRow, Typed, StoreOK
    <3>5. doc'[worker.id] = doc[worker.id]
      BY <1>0, <2>2, <3>2, <3>3, <3>4, RowSteps
         DEF RowStep, Requeued, GivenUp, Indexed, JobFailed, Recovered, Becomes
    <3> QED BY <2>2, <3>1, <3>5 DEF JobFits
  <2>3. ASSUME worker'.at = "index", Exists(worker.id)'
        PROVE  worker.bytes = doc'[worker.id].hash
    <3>1. \A u \in Uploads : upload'[u].at = "stage" => upload'[u].id # worker.id
      BY <1>4, <2>3 DEF Apart, Accepting
    <3>2. Kept(worker.id)
      BY <1>0, <1>4, <2>3, <3>1, HashSteps
    <3> QED BY <1>4, <2>3, <3>2 DEF JobFits, Kept
  <2> QED BY <1>4, <2>1, <2>2, <2>3 DEF JobFits, Exists
<1> QED BY <1>1, <1>2, <1>3, <1>4, JobSteps

LEMMA ReadyFitsKept == Typed /\ JobFits /\ ReadyFits /\ [Next]_vars => ReadyFits'
<1> SUFFICES ASSUME Typed, JobFits, ReadyFits, [Next]_vars, NEW d \in Docs,
                    doc'[d].status = "ready"
             PROVE  chunks'[d] = doc'[d].hash
  BY DEF ReadyFits
<1>1. CASE IndexChunks /\ worker.id = d
  <2>1. worker.at = "index" /\ Exists(d)
    BY <1>1 DEF IndexChunks, WorkerAt, Exists
  <2>2. chunks'[d] = worker.bytes /\ Restatus({d}, "ready")
    BY <1>1, <2>1 DEF IndexChunks, Typed, StoreOK
  <2>3. doc'[d].hash = doc[d].hash
    BY <2>2 DEF Restatus, Typed, StoreOK, Rows
  <2> QED BY <1>1, <2>1, <2>2, <2>3 DEF JobFits
<1>2. CASE ~(IndexChunks /\ worker.id = d)
  <2>1. doc'[d] = doc[d] /\ chunks'[d] = chunks[d]
    BY <1>2, RowFacts, ChunkSteps
  <2> QED BY <2>1 DEF ReadyFits
<1> QED BY <1>1, <1>2

\* SearchableIsCurrent, which the system violates (see the run rag_replaced), takes three
\* things to break: a request that reaches its row fails to stage its file, or has the row in
\* hand together with another request, or while a job on it is about to read its bytes or is
\* past its check.  Nothing else, no replacement at another moment, no deletion, re-indexing,
\* recovery or crash of the worker, leaves a ready document with the chunks of another file
\* than its row names.
THEOREM CurrentWhenApart ==
    Spec /\ []Apart /\ [][Stages]_upload => []SearchableIsCurrent
<1>1. Init => FileInv
  BY DEF Init, FileInv, OriginalFits, SpoolFits, RequestFits, JobFits, ReadyFits, NoRow, Idle, Exists, AtJob
<1>2. Typed /\ FileInv /\ Apart /\ Apart' /\ [Stages]_upload /\ [Next]_vars => FileInv'
  <2>1. [Stages]_upload => Stages
    BY DEF Stages
  <2> QED BY <2>1, OriginalFitsKept, SpoolFitsKept, RequestFitsKept, JobFitsKept, ReadyFitsKept
          DEF FileInv
<1>3. FileInv => SearchableIsCurrent
  BY DEF FileInv, ReadyFits, SearchableIsCurrent
<1> QED BY <1>1, <1>2, <1>3, TypedAlways, PTL DEF Spec

-----------------------------------------------------------------------------
(* When what is queued has bytes *)

\* A document whose request has its row and has not settled it is neither about to be queued
\* by the settings route nor about to lose its spool copy to the worker.
Undisturbed ==
    \A u \in Uploads : upload[u].at \in Accepting =>
        /\ upload[u].id \notin reindexing
        /\ worker.at = "remove" => worker.id # upload[u].id

RowHas ==
    \A d \in Docs : Exists(d) /\ doc[d].status # "error" =>
        spool[d] # NoFile \/ doc[d].original # NoFile \/ Pending(d)

QueueHas ==
    \A u \in Uploads : upload[u].at = "queue" =>
        doc[upload[u].id].status = "deleted" \/ spool[upload[u].id] # NoFile

NoGiveUp == \A u \in Uploads : upload[u].at # "giveUp"

ReindexReady == \A d \in reindexing : doc[d].status \in {"ready", "deleted"}

RemoveFits ==
    worker.at = "remove" /\ Exists(worker.id) =>
        doc[worker.id].status = "error" \/ doc[worker.id].original # NoFile

\* Nobody but the job itself fails the row of a job.
JobAlive == worker.at \in AtJob \ {"claim"} => doc[worker.id].status # "error"

BytesInv == RowHas /\ QueueHas /\ NoGiveUp /\ ReindexReady /\ RemoveFits /\ JobAlive

\* A request that is about to stage its file does so.
LEMMA PendingSteps ==
    ASSUME Typed, Stages, [Next]_vars, NEW u \in Uploads, upload[u].at = "stage"
    PROVE  upload'[u] = upload[u] \/ (UploadStage(u) /\ spool'[upload[u].id] # NoFile)
<1>1. upload[u].id \in Docs /\ upload[u].file # NoFile
  BY RagIngestAssumption DEF Typed, RequestOK, Accepting
<1>2. UploadStage(u) => spool'[upload[u].id] # NoFile
  BY <1>1 DEF UploadStage, Typed, StoreOK
<1> QED BY <1>2, StageSteps DEF Stages

LEMMA NoGiveUpKept == Typed /\ NoGiveUp /\ Stages /\ [Next]_vars => NoGiveUp'
<1> SUFFICES ASSUME Typed, NoGiveUp, Stages, [Next]_vars, NEW u \in Uploads
             PROVE  upload'[u].at # "giveUp"
  BY DEF NoGiveUp
<1>0. upload \in [Uploads -> UploadStates] /\ upload[u] \in UploadStates
  BY DEF Typed, AppOK
<1>1. CASE upload'[u] = upload[u]
  BY <1>1 DEF NoGiveUp
<1>2. UploadLook(u) => upload'[u].at # "giveUp"
  BY <1>0 DEF UploadLook
<1>3. UploadRow(u) => upload'[u].at # "giveUp"
  BY <1>0 DEF UploadRow, UploadGoto, UploadEnds, UploadStates
<1>4. UploadStage(u) \/ StageFails(u) => upload'[u].at # "giveUp"
  BY DEF UploadStage, StageFails, Stages
<1>5. UploadQueue(u) \/ UploadGiveUp(u) \/ UploadDies(u) => upload'[u].at # "giveUp"
  BY <1>0 DEF UploadQueue, UploadGiveUp, Finish, UploadDies, UploadEnds, UploadStates
<1>6. \/ UNCHANGED vars \/ ReindexRead \/ Work \/ SweepOld \/ WorkerCrash
      \/ \E d \in Docs : DeleteRow(d) \/ DeleteSpool(d) \/ ReindexQueue(d)
      => UNCHANGED upload
  BY DEF vars, app, ReindexRead, DeleteRow, DeleteSpool, ReindexQueue, Work, PickDocument, ClaimDocument,
         ReadSpool, Extract, CheckCurrent, IndexChunks, FailDocument, CleanUp, RemoveSpool, RestartWorker,
         RecoverOne, RecoverDone, KilledByFile, SweepOld, WorkerCrash, OnlyWorker
<1>7. ASSUME NEW v \in Uploads, v # u, Upload(v) \/ StageFails(v) \/ UploadDies(v)
      PROVE  upload'[u] = upload[u]
  BY <1>7, OthersWait
<1> QED BY <1>1, <1>2, <1>3, <1>4, <1>5, <1>6, <1>7 DEF Next, Upload

LEMMA QueueHasKept ==
    Typed /\ DeletingGone /\ Undisturbed /\ QueueHas /\ [Next]_vars => QueueHas'
<1> SUFFICES ASSUME Typed, DeletingGone, Undisturbed, QueueHas, [Next]_vars,
                    NEW u \in Uploads, upload'[u].at = "queue"
             PROVE  doc'[upload'[u].id].status = "deleted" \/ spool'[upload'[u].id] # NoFile
  BY DEF QueueHas
<1>1. CASE UploadStage(u)
  <2>1. upload[u].id \in Docs /\ upload[u].file # NoFile /\ upload'[u].id = upload[u].id
    BY <1>1, RagIngestAssumption
       DEF UploadStage, UploadGoto, Typed, AppOK, UploadStates, RequestOK, Accepting
  <2> QED BY <1>1, <2>1 DEF UploadStage, Typed, StoreOK
<1>2. CASE upload'[u] = upload[u]
  <2>1. upload[u].at = "queue" /\ upload[u].id \in Docs
    BY <1>2 DEF Typed, RequestOK, Accepting
  <2>2. doc[upload[u].id].status = "deleted" \/ spool[upload[u].id] # NoFile
    BY <2>1 DEF QueueHas
  <2>3. CASE RemoveSpool
    <3>1. worker.id # upload[u].id
      BY <2>1, <2>3 DEF RemoveSpool, WorkerAt, Undisturbed, Accepting
    <3>2. spool'[upload[u].id] = spool[upload[u].id] /\ UNCHANGED doc
      BY <2>1, <2>3, <3>1 DEF RemoveSpool, Typed, StoreOK
    <3> QED BY <1>2, <2>2, <3>2
  <2>4. CASE ~RemoveSpool
    BY <1>2, <2>1, <2>2, <2>4, StaysPut
  <2> QED BY <2>3, <2>4
<1> QED BY <1>1, <1>2, StageSteps

LEMMA ReindexReadyKept ==
    Typed /\ Undisturbed /\ Undisturbed' /\ ReindexReady /\ [Next]_vars => ReindexReady'
<1> SUFFICES ASSUME Typed, Undisturbed, Undisturbed', ReindexReady, [Next]_vars, NEW d \in reindexing'
             PROVE  doc'[d].status \in {"ready", "deleted"}
  BY DEF ReindexReady
<1>1. CASE ReindexRead
  BY <1>1 DEF ReindexRead, store
<1>2. CASE ~ReindexRead
  <2>1. d \in reindexing /\ ~ReindexQueue(d)
    <3>1. \/ UNCHANGED vars \/ Work \/ SweepOld \/ WorkerCrash
          \/ \E u \in Uploads : Upload(u) \/ StageFails(u) \/ UploadDies(u)
          \/ \E e \in Docs : DeleteRow(e) \/ DeleteSpool(e)
          => UNCHANGED reindexing
      BY DEF vars, app, Upload, UploadLook, UploadRow, UploadStage, UploadQueue, UploadGiveUp, Finish,
             StageFails, UploadDies, OnlyUpload, DeleteRow, DeleteSpool, Work, PickDocument, ClaimDocument,
             ReadSpool, Extract, CheckCurrent, IndexChunks, FailDocument, CleanUp, RemoveSpool,
             RestartWorker, RecoverOne, RecoverDone, KilledByFile, SweepOld, WorkerCrash, OnlyWorker
    <3>2. \A e \in Docs : ReindexQueue(e) => reindexing' \subseteq reindexing \ {e}
      BY DEF ReindexQueue
    <3>3. reindexing' \subseteq reindexing
      BY <1>2, <3>1, <3>2 DEF Next
    <3> QED BY <3>2, <3>3 DEF Typed, AppOK
  <2>2. d \in Docs /\ doc[d].status \in {"ready", "deleted"}
    BY <2>1 DEF Typed, AppOK, ReindexReady
  <2>3. doc[d].status = "deleted" => doc'[d].status = "deleted"
    BY <2>2, RowFacts
  <2>4. \A u \in Uploads : upload[u].id = d => ~UploadQueue(u) /\ ~UploadGiveUp(u)
    BY <2>1 DEF Undisturbed, UploadQueue, UploadGiveUp, Finish, Accepting
  <2>5. ~(Replaced(d) /\ doc'[d] # doc[d])
    <3>1. Replaced(d) => doc'[d].status = "staging"
      BY DEF Replaced, Staged
    <3>2. \A u \in Uploads : upload'[u].at = "stage" => upload'[u].id # d
      BY DEF Undisturbed, Accepting
    <3> QED BY <2>2, <3>1, <3>2, StagingSteps
  <2>6. DeleteRow(d) => doc'[d].status = "deleted"
    BY <2>2 DEF DeleteRow, NoRow, Typed, StoreOK
  <2>7. Indexed(d) => doc'[d].status = "ready"
    BY DEF Indexed, Becomes
  <2>8. Claimed(d) \/ JobFailed(d) \/ Recovered(d) => doc[d].status # "ready"
    BY DEF Claimed, JobFailed, Recovered, Typed, WorkerOK, Snapshots, Interrupted
  <2>9. ~Requeued(d) /\ ~GivenUp(d)
    BY <2>1, <2>4 DEF Requeued, GivenUp
  <2> QED BY <2>2, <2>3, <2>5, <2>6, <2>7, <2>8, <2>9, RowSteps DEF RowStep
<1> QED BY <1>1, <1>2

\* A document in error that is kept is queued again by a request only, and failed by its job or by
\* recovery only.
LEMMA ErrorSteps ==
    ASSUME Typed, BytesInv, [Next]_vars, NEW d \in Docs
    PROVE  /\ doc[d].status = "error" /\ Kept(d) =>
                 \/ doc'[d].status \in {"error", "staging", "deleted"}
                 \/ \E u \in Uploads : UploadQueue(u) /\ upload[u].id = d
           /\ doc'[d].status = "error" =>
                 doc'[d] = doc[d] \/ (FailDocument /\ worker.id = d) \/ RecoverOne
<1>1. CASE doc'[d] = doc[d]
  BY <1>1
<1>2. CASE Replaced(d)
  <2>1. doc'[d].status = "staging"
    BY <1>2 DEF Replaced, Staged
  <2> QED BY <2>1
<1>3. CASE DeleteRow(d)
  BY <1>3 DEF DeleteRow, NoRow, Kept, Exists, Typed, StoreOK
<1>4. CASE Requeued(d)
  <2>1. ReindexQueue(d) => doc[d].status # "error"
    BY DEF ReindexQueue, BytesInv, ReindexReady
  <2> QED BY <1>4, <2>1 DEF Requeued, Becomes
<1>5. ~GivenUp(d)
  BY DEF GivenUp, UploadGiveUp, Finish, BytesInv, NoGiveUp
<1>6. CASE Claimed(d)
  BY <1>6 DEF Claimed
<1>7. CASE Indexed(d)
  BY <1>7 DEF Indexed, Becomes, IndexChunks, WorkerAt, BytesInv, JobAlive, AtJob
<1>8. CASE JobFailed(d)
  BY <1>8 DEF JobFailed
<1>9. CASE Recovered(d)
  BY <1>9 DEF Recovered, Typed, WorkerOK, Snapshots, Interrupted
<1> QED BY <1>1, <1>2, <1>3, <1>4, <1>5, <1>6, <1>7, <1>8, <1>9, RowSteps DEF RowStep

LEMMA RowHasKept ==
    Typed /\ DeletingGone /\ Stages /\ BytesInv /\ [Next]_vars => RowHas'
<1> SUFFICES ASSUME Typed, DeletingGone, Stages, BytesInv, [Next]_vars, NEW d \in Docs,
                    Exists(d)', doc'[d].status # "error", doc'[d].original = NoFile,
                    \A u \in Uploads : upload'[u].at = "stage" => upload'[u].id # d
             PROVE  spool'[d] # NoFile
  BY DEF RowHas, Pending
<1>1. Kept(d)
  BY HashSteps
<1>2. doc[d].original = NoFile
  BY <1>1 DEF Kept
<1>3. CASE doc[d].status = "error"
  <2>1. doc'[d].status # "staging"
    BY <1>3, StagingSteps
  <2>2. PICK u \in Uploads : UploadQueue(u) /\ upload[u].id = d
    BY <1>1, <1>3, <2>1, ErrorSteps DEF Exists
  <2> QED BY <1>3, <2>2 DEF UploadQueue, Finish, BytesInv, QueueHas
<1>4. CASE doc[d].status # "error"
  <2>1. CASE spool[d] # NoFile
    <3>1. ~(RemoveSpool /\ worker.id = d)
      BY <1>1, <1>2, <1>4 DEF RemoveSpool, WorkerAt, BytesInv, RemoveFits, Kept
    <3>2. d \notin deleting
      BY <1>1 DEF DeletingGone, Kept, Exists
    <3> QED BY <2>1, <3>1, <3>2, SpoolSteps, RagIngestAssumption
  <2>2. ASSUME NEW u \in Uploads, upload[u].at = "stage", upload[u].id = d
        PROVE  spool'[d] # NoFile
    BY <2>2, PendingSteps
  <2> QED BY <1>1, <1>2, <1>4, <2>1, <2>2 DEF BytesInv, RowHas, Pending, Kept
<1> QED BY <1>3, <1>4

LEMMA RemoveFitsKept ==
    Typed /\ Undisturbed /\ Undisturbed' /\ BytesInv /\ [Next]_vars => RemoveFits'
<1> SUFFICES ASSUME Typed, Undisturbed, Undisturbed', BytesInv, [Next]_vars,
                    worker'.at = "remove", Exists(worker.id)'
             PROVE  doc'[worker'.id].status = "error" \/ doc'[worker'.id].original # NoFile
  BY DEF RemoveFits
<1>1. CASE UNCHANGED doc /\ worker'.id = worker.id /\ Disposable(worker.id)
  BY <1>1 DEF Disposable, Exists
<1>2. CASE UNCHANGED worker
  <2>1. worker.id \in Docs /\ worker.at = "remove" /\ worker' = worker
    BY <1>2 DEF Typed, WorkerOK, Workers
  <2>2. \A u \in Uploads : upload'[u].at = "stage" => upload'[u].id # worker.id
    BY <2>1 DEF Undisturbed, Accepting
  <2>3. Kept(worker.id) /\ doc'[worker.id].status # "deleted"
    BY <1>2, <2>1, <2>2, HashSteps DEF Exists
  <2>4. \A u \in Uploads : upload[u].id = worker.id => ~UploadQueue(u)
    BY <2>1 DEF Undisturbed, UploadQueue, Finish, Accepting
  <2>5. doc[worker.id].status = "error" => doc'[worker.id].status = "error"
    <3>1. doc[worker.id].status = "error" => doc'[worker.id].status # "staging"
      BY <2>1, <2>2, StagingSteps
    <3> QED BY <2>1, <2>3, <2>4, <3>1, ErrorSteps
  <2> QED BY <1>2, <2>3, <2>5 DEF BytesInv, RemoveFits, Kept
<1> QED BY <1>1, <1>2, RemoveSteps

LEMMA JobAliveKept == Typed /\ BytesInv /\ [Next]_vars => JobAlive'
<1> SUFFICES ASSUME Typed, BytesInv, [Next]_vars, worker'.at \in AtJob \ {"claim"},
                    doc'[worker'.id].status = "error"
             PROVE  FALSE
  BY DEF JobAlive
<1>0. worker \in Workers /\ worker.id \in Docs
  BY DEF Typed, WorkerOK, Workers
<1>1. ~PickDocument
  BY DEF PickDocument
<1>2. worker.at \in AtJob /\ worker'.id = worker.id
  BY <1>1, JobSteps
<1>3. CASE worker.at = "claim"
  <2>1. ClaimDocument
    <3>1. \/ UNCHANGED vars \/ ReindexRead \/ RecoverOne
          \/ \E u \in Uploads : Upload(u) \/ StageFails(u) \/ UploadDies(u)
          \/ \E d \in Docs : DeleteRow(d) \/ DeleteSpool(d) \/ ReindexQueue(d)
          => UNCHANGED worker
      BY DEF vars, ReindexRead, Upload, UploadLook, UploadRow, UploadStage, UploadQueue, RecoverOne,
             UploadGiveUp, Finish, StageFails, UploadDies, OnlyUpload, DeleteRow, DeleteSpool, ReindexQueue
    <3>2. /\ ~ReadSpool /\ ~Extract /\ ~CheckCurrent /\ ~IndexChunks /\ ~FailDocument /\ ~CleanUp
          /\ ~RemoveSpool /\ ~RestartWorker /\ ~RecoverDone /\ ~KilledByFile /\ ~SweepOld
      BY <1>3 DEF ReadSpool, Extract, CheckCurrent, IndexChunks, FailDocument, CleanUp,
                  RemoveSpool, RestartWorker, RecoverDone, KilledByFile, SweepOld, WorkerAt
    <3>3. ~WorkerCrash
      BY DEF WorkerCrash, Dead, Idle, AtJob
    <3>4. ~UNCHANGED worker
      BY <1>3
    <3>5. Work \/ SweepOld \/ WorkerCrash
      BY <3>1, <3>4 DEF Next
    <3> QED BY <1>1, <3>1, <3>2, <3>3, <3>4, <3>5 DEF Work
  <2>2. ~WorkerIdles
    BY DEF WorkerIdles, Idle, AtJob
  <2>3. doc'[worker.id].status = "processing"
    BY <1>0, <2>1, <2>2 DEF ClaimDocument, Typed, StoreOK, Rows
  <2> QED BY <1>2, <2>3
<1>4. CASE worker.at # "claim"
  <2>1. doc[worker.id].status # "error"
    BY <1>2, <1>4 DEF BytesInv, JobAlive
  <2>2. ~FailDocument
    BY <1>0 DEF FailDocument, WorkerGoto, Workers, AtJob
  <2>3. ~RecoverOne
    BY <1>2 DEF RecoverOne, WorkerAt, AtJob
  <2> QED BY <1>0, <1>2, <2>1, <2>2, <2>3, ErrorSteps
<1> QED BY <1>3, <1>4

\* QueuedHasBytes, which the system violates (see the run rag_removed), takes three things to
\* break: a request that reaches its row fails to stage its file, or settles the document
\* while re-indexing is about to queue it, or while the worker is about to remove its spool
\* copy.  Anything else, replacing a document under a job, two requests for one document,
\* recovery from whatever it read, crashes of the worker, queues none without bytes.
THEOREM BytesUndisturbed ==
    Spec /\ []Undisturbed /\ [][Stages]_upload => []QueuedHasBytes
<1>1. Init => BytesInv
  BY DEF Init, BytesInv, RowHas, QueueHas, NoGiveUp, ReindexReady, RemoveFits, JobAlive, NoRow, Idle,
         Exists, AtJob
<1>2. /\ Typed /\ SpoolInv /\ BytesInv /\ Undisturbed /\ Undisturbed' /\ [Stages]_upload /\ [Next]_vars
      => BytesInv'
  <2>1. [Stages]_upload => Stages
    BY DEF Stages
  <2>2. BytesInv => QueueHas /\ NoGiveUp /\ ReindexReady
    BY DEF BytesInv
  <2>3. SpoolInv => DeletingGone
    BY DEF SpoolInv
  <2> QED BY <2>1, <2>2, <2>3, NoGiveUpKept, QueueHasKept, ReindexReadyKept, RowHasKept, RemoveFitsKept,
             JobAliveKept
          DEF BytesInv
<1>3. BytesInv => QueuedHasBytes
  BY DEF BytesInv, RowHas, Pending, QueuedHasBytes, Settled, Exists, Accepting
<1> QED BY <1>1, <1>2, <1>3, TypedAlways, SpoolAlways, PTL DEF Spec
=============================================================================

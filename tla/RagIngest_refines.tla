------------------------- MODULE RagIngest_refines -------------------------
(***************************************************************************)
(* RagIngest implements KnowledgeBase: the proof of KeepsPromise, for any  *)
(* files, however they are kept and read, and any number of requests,      *)
(* documents, attempts, reindexings and faults.                            *)
(***************************************************************************)
EXTENDS RagIngest_proofs

-----------------------------------------------------------------------------
(* The words of the promise *)

LEMMA Words ==
    /\ StateOf("absent") = "absent" /\ StateOf("staging") = "offered"
    /\ StateOf("queued") = "waiting" /\ StateOf("processing") = "working"
    /\ StateOf("ready") = "ready" /\ StateOf("error") = "failed"
    /\ StateOf("deleted") = "gone"
BY DEF StateOf

LEMMA StateIs ==
    ASSUME Typed, NEW d \in Docs
    PROVE  /\ State[d] = StateOf(doc[d].status)
           /\ Promise!Exists(d) <=> Exists(d)
           /\ State[d] = "ready" => doc[d].status = "ready"
           /\ State[d] = "gone" => doc[d].status = "deleted"
<1>1. doc[d].status \in Statuses
  BY DEF Typed, StoreOK, Rows
<1>2. State[d] = StateOf(doc[d].status)
  BY DEF State
<1> QED BY <1>1, <1>2, Words DEF Statuses, Exists, Promise!Exists

LEMMA StateStays ==
    ASSUME \A d \in Docs : doc'[d].status = doc[d].status
    PROVE  State' = State
BY DEF State

LEMMA StateMoves ==
    ASSUME NEW d \in Docs, NEW s, doc'[d].status = s,
           \A e \in Docs \ {d} : doc'[e].status = doc[e].status
    PROVE  Promise!Becomes(d, StateOf(s))
<1>1. State' = [e \in Docs |-> StateOf(doc'[e].status)]
  BY DEF State
<1>2. \A e \in Docs : StateOf(doc'[e].status) = IF e = d THEN StateOf(s) ELSE State[e]
  BY DEF State
<1>3. [State EXCEPT ![d] = StateOf(s)] = [e \in Docs |-> IF e = d THEN StateOf(s) ELSE State[e]]
  BY DEF State
<1> QED BY <1>1, <1>2, <1>3 DEF Promise!Becomes

BytesOf(d) == {spool[d], doc[d].original} \ {NoFile}

LEMMA HeldStays ==
    ASSUME UNCHANGED spool, \A d \in Docs : doc'[d].original = doc[d].original
    PROVE  Held' = Held
BY DEF Held

LEMMA HeldMoves ==
    ASSUME NEW d \in Docs, NEW S, BytesOf(d)' \subseteq S,
           \A e \in Docs \ {d} : spool'[e] = spool[e] /\ doc'[e].original = doc[e].original
    PROVE  /\ Held' = [Held EXCEPT ![d] = BytesOf(d)']
           /\ Promise!Holds(d, S)
<1>1. Held' = [e \in Docs |-> {spool'[e], doc'[e].original} \ {NoFile}]
  BY DEF Held
<1>2. \A e \in Docs : {spool'[e], doc'[e].original} \ {NoFile}
                         = IF e = d THEN BytesOf(d)' ELSE Held[e]
  BY DEF Held, BytesOf
<1>3. [Held EXCEPT ![d] = BytesOf(d)'] = [e \in Docs |-> IF e = d THEN BytesOf(d)' ELSE Held[e]]
  BY DEF Held
<1>4. Held' = [Held EXCEPT ![d] = BytesOf(d)']
  BY <1>1, <1>2, <1>3
<1> QED BY <1>4 DEF Promise!Holds

LEMMA HeldIs == ASSUME NEW d \in Docs PROVE Held[d] = BytesOf(d)
BY DEF Held, BytesOf

LEMMA OfferMoves ==
    ASSUME Typed, NEW u \in Uploads, NEW x, upload' = [upload EXCEPT ![u] = x]
    PROVE  /\ Offer[u] = OfferOf(u)
           /\ Offer' = [Offer EXCEPT ![u] =
                 IF x.at \in Accepting THEN {[doc |-> x.id, file |-> x.file]} ELSE {}]
<1>1. \A v \in Uploads : upload'[v] = IF v = u THEN x ELSE upload[v]
  BY DEF Typed, AppOK
<1>2. Offer' = [v \in Uploads |-> OfferOf(v)']
  BY DEF Offer
<1> QED BY <1>1, <1>2 DEF Offer, OfferOf

LEMMA OfferStays == UNCHANGED upload => Offer' = Offer
BY DEF Offer, OfferOf

LEMMA JobStays == UNCHANGED worker => Job' = Job
BY DEF Job

PromiseStep == [Promise!Next]_<<State, chunks, Held, Offer, reindexing, Job>>

-----------------------------------------------------------------------------
(* Requests *)

\* A request that has nothing to settle, before and after.
LEMMA OfferNone ==
    ASSUME Typed, NEW u \in Uploads, NEW x, upload' = [upload EXCEPT ![u] = x],
           upload[u].at \notin Accepting, x.at \notin Accepting
    PROVE  Offer' = Offer
<1>1. Offer[u] = {} /\ Offer' = [Offer EXCEPT ![u] = {}]
  BY OfferMoves DEF OfferOf
<1> QED BY <1>1 DEF Offer

\* A request that still has the same to settle.
LEMMA OfferSame ==
    ASSUME Typed, NEW u \in Uploads, NEW p \in Accepting, UploadGoto(u, p),
           upload[u].at \in Accepting
    PROVE  Offer' = Offer
<1> DEFINE x == [upload[u] EXCEPT !.at = p]
<1>1. upload[u] \in UploadStates
  BY DEF Typed, AppOK
<1>2. x.at = p /\ x.id = upload[u].id /\ x.file = upload[u].file
  BY <1>1 DEF UploadStates
<1>3. upload' = [upload EXCEPT ![u] = x]
  BY DEF UploadGoto
<1> HIDE DEF x
<1>4. Offer' = [Offer EXCEPT ![u] = Offer[u]]
  BY <1>2, <1>3, OfferMoves DEF OfferOf
<1> QED BY <1>4 DEF Offer

LEMMA OfferOver ==
    ASSUME Typed, NEW u \in Uploads, UploadEnds(u)
    PROVE  Offer' = [Offer EXCEPT ![u] = {}]
<1> DEFINE x == [upload[u] EXCEPT !.at = "done", !.file = NoFile]
<1>1. x.at = "done"
  BY DEF Typed, AppOK, UploadStates
<1>2. upload' = [upload EXCEPT ![u] = x]
  BY DEF UploadEnds
<1> HIDE DEF x
<1> QED BY <1>1, <1>2, OfferMoves DEF Accepting

LEMMA OfferIs ==
    ASSUME Typed, NEW u \in Uploads, upload[u].at \in Accepting
    PROVE  Offer[u] = {[doc |-> upload[u].id, file |-> upload[u].file]} /\ Offer[u] # {}
BY DEF Offer, OfferOf

\* The row of a request, new or replaced.
LEMMA OfferStep ==
    ASSUME Typed, NEW u \in Uploads, UploadRow(u), NEW d \in Docs,
           doc[d].status # "deleted",
           doc' = [doc EXCEPT ![d] = Staged(upload[u].file)],
           upload' = [upload EXCEPT ![u] = [upload[u] EXCEPT !.at = "stage", !.id = d]]
    PROVE  Promise!Offer(u, d, upload[u].file)
<1> DEFINE f == upload[u].file
           x == [upload[u] EXCEPT !.at = "stage", !.id = d]
<1>1. f \in Files /\ upload[u].at = "row" /\ doc \in [Docs -> Rows] /\ spool' = spool
  BY DEF UploadRow, Typed, RequestOK, StoreOK
<1>2. x.at = "stage" /\ x.id = d /\ x.file = f
  BY DEF Typed, AppOK, UploadStates
<1>3. Offer[u] = {} /\ Offer' = [Offer EXCEPT ![u] = {[doc |-> d, file |-> f]}]
  <2> HIDE DEF x, f
  <2> QED BY <1>1, <1>2, OfferMoves DEF OfferOf, Accepting, x
<1>4. Promise!Becomes(d, "offered")
  BY <1>1, StateMoves, Words DEF Staged
<1>5. Promise!Holds(d, Held[d] \cup {f})
  <2>1. BytesOf(d)' \subseteq Held[d] \cup {f}
    BY <1>1, HeldIs DEF BytesOf, Staged
  <2> QED BY <1>1, <2>1, HeldMoves
<1>6. State[d] # "gone"
  BY StateIs
<1>7. UNCHANGED <<chunks, reindexing, Job>>
  BY JobStays DEF UploadRow, OnlyUpload
<1> QED BY <1>3, <1>4, <1>5, <1>6, <1>7 DEF Promise!Offer

LEMMA UploadLookPromise ==
    ASSUME Typed, NEW u \in Uploads, UploadLook(u)
    PROVE  PromiseStep
<1>1. PICK f \in Files, found \in IF Existing = {} THEN {0} ELSE Newest(Existing) :
         \/ upload' = [upload EXCEPT ![u] = [at |-> "done", file |-> NoFile, id |-> found]]
         \/ upload' = [upload EXCEPT ![u] = [at |-> "row", file |-> f, id |-> found]]
  BY DEF UploadLook
<1>2. Offer' = Offer
  BY <1>1, OfferNone DEF UploadLook, Accepting
<1> QED BY <1>2, StateStays, HeldStays, JobStays DEF PromiseStep, UploadLook, OnlyUpload, store

LEMMA UploadRowPromise ==
    ASSUME Typed, NEW u \in Uploads, UploadRow(u)
    PROVE  PromiseStep
<1>0. upload[u].file \in Files /\ upload[u].at = "row" /\ upload[u] \in UploadStates
  BY DEF UploadRow, Typed, RequestOK, AppOK
<1>1. ASSUME NEW d \in Docs, Promise!Offer(u, d, upload[u].file)
      PROVE  PromiseStep
  BY <1>0, <1>1 DEF PromiseStep, Promise!Next, Promise!Request
<1>2. CASE /\ upload[u].id # 0 /\ Exists(upload[u].id) /\ UploadGoto(u, "stage")
           /\ doc' = [doc EXCEPT ![upload[u].id] = Staged(upload[u].file)]
  <2>1. upload[u].id \in Docs
    BY <1>0, <1>2, RagIngestAssumption DEF UploadStates, Docs
  <2>2. [upload[u] EXCEPT !.at = "stage"] = [upload[u] EXCEPT !.at = "stage", !.id = upload[u].id]
    BY <1>0 DEF UploadStates
  <2>3. upload' = [upload EXCEPT ![u] = [upload[u] EXCEPT !.at = "stage", !.id = upload[u].id]]
    BY <1>2, <2>2 DEF UploadGoto
  <2>4. doc[upload[u].id].status # "deleted"
    BY <1>2 DEF Exists
  <2> QED BY <1>1, <1>2, <2>1, <2>3, <2>4, OfferStep
<1>3. CASE UploadEnds(u) /\ UNCHANGED doc
  <2>1. Offer' = Offer
    <3>1. Offer[u] = {}
      BY <1>0 DEF Offer, OfferOf, Accepting
    <3> QED BY <1>3, <3>1, OfferOver DEF Offer
  <2> QED BY <1>3, <2>1, StateStays, HeldStays, JobStays DEF PromiseStep, UploadRow, OnlyUpload
<1>4. ASSUME NEW d \in Docs, doc[d].status = "absent",
             doc' = [doc EXCEPT ![d] = Staged(upload[u].file)],
             upload' = [upload EXCEPT ![u] = [@ EXCEPT !.at = "stage", !.id = d]]
      PROVE  PromiseStep
  BY <1>1, <1>4, OfferStep
<1> QED BY <1>2, <1>3, <1>4 DEF UploadRow, Oldest

LEMMA UploadStagePromise ==
    ASSUME Typed, NEW u \in Uploads, UploadStage(u)
    PROVE  PromiseStep
<1>0. /\ upload[u].at = "stage" /\ doc' = doc /\ UploadGoto(u, "queue")
      /\ spool' = [spool EXCEPT ![upload[u].id] = upload[u].file]
  BY DEF UploadStage
<1>1. PICK d \in Docs, f \in Files : upload[u].id = d /\ upload[u].file = f
  BY <1>0 DEF Typed, RequestOK, Accepting
<1>2. Offer' = Offer /\ Offer[u] = {[doc |-> d, file |-> f]}
  BY <1>0, <1>1, OfferSame, OfferIs DEF Accepting
<1>3. Promise!Holds(d, Held[d] \cup {f})
  <2>1. BytesOf(d)' \subseteq Held[d] \cup {f}
    BY <1>0, <1>1, HeldIs DEF BytesOf, Typed, StoreOK
  <2>2. \A e \in Docs \ {d} : spool'[e] = spool[e]
    BY <1>0, <1>1 DEF Typed, StoreOK
  <2> QED BY <1>0, <2>1, <2>2, HeldMoves
<1>4. State' = State
  BY <1>0, StateStays
<1>5. UNCHANGED <<chunks, reindexing, Job>>
  BY JobStays DEF UploadStage, OnlyUpload
<1>6. Promise!Store(u)
  BY <1>2, <1>3, <1>4, <1>5 DEF Promise!Store
<1> QED BY <1>6 DEF PromiseStep, Promise!Next, Promise!Request

LEMMA FinishPromise ==
    ASSUME Typed, NEW u \in Uploads, NEW from \in Accepting,
           NEW s \in {"queued", "error"}, Finish(u, from, s)
    PROVE  PromiseStep
<1> DEFINE d == upload[u].id
           f == upload[u].file
<1>1. /\ upload[u].at = from /\ d \in Docs /\ UploadEnds(u)
      /\ Restatus({d} \cap Existing, s) /\ UNCHANGED <<spool, chunks, reindexing, worker>>
  BY DEF Finish, Typed, RequestOK, OnlyUpload
<1>2. Promise!Over(u) /\ Offer[u] = {[doc |-> d, file |-> f]}
  BY <1>1, OfferOver, OfferIs DEF Promise!Over
<1> HIDE DEF d, f
<1>3. /\ \A e \in Docs : doc'[e].original = doc[e].original
      /\ \A e \in Docs : e \notin {d} \cap Existing => doc'[e] = doc[e]
      /\ \A e \in Docs : e \in {d} \cap Existing => doc'[e].status = s
  BY <1>1, RestatusRows DEF Typed, Statuses
<1>4. UNCHANGED <<chunks, Held, reindexing, Job>>
  BY <1>1, <1>3, HeldStays, JobStays
<1>5. CASE Exists(d)
  <2>1. Promise!Becomes(d, StateOf(s))
    BY <1>1, <1>3, <1>5, StateMoves DEF Existing
  <2>2. Promise!Settle(u, StateOf(s))
    BY <1>1, <1>2, <1>4, <1>5, <2>1, StateIs DEF Promise!Settle
  <2>3. StateOf(s) \in {"waiting", "failed"}
    BY Words
  <2> QED BY <2>2, <2>3 DEF PromiseStep, Promise!Next, Promise!Request
<1>6. CASE ~Exists(d)
  <2>1. State' = State
    BY <1>3, <1>6, StateStays DEF Existing
  <2>2. Promise!Abandon(u)
    BY <1>2, <1>4, <2>1 DEF Promise!Abandon
  <2> QED BY <2>2 DEF PromiseStep, Promise!Next, Promise!Request
<1> QED BY <1>5, <1>6

LEMMA UploadDiesPromise ==
    ASSUME Typed, NEW u \in Uploads, UploadDies(u)
    PROVE  PromiseStep
<1>1. /\ upload[u].at \in {"row"} \cup Accepting /\ UploadEnds(u)
      /\ UNCHANGED <<doc, chunks, spool, reindexing, worker>>
  BY DEF UploadDies, OnlyUpload, store, Accepting
<1>2. UNCHANGED <<State, chunks, Held, reindexing, Job>>
  BY <1>1, StateStays, HeldStays, JobStays
<1>3. CASE upload[u].at \in Accepting
  <2>1. Promise!Abandon(u)
    BY <1>1, <1>2, <1>3, OfferOver, OfferIs DEF Promise!Abandon, Promise!Over
  <2> QED BY <2>1 DEF PromiseStep, Promise!Next, Promise!Request
<1>4. CASE upload[u].at \notin Accepting
  <2>1. Offer[u] = {}
    BY <1>4 DEF Offer, OfferOf
  <2>2. Offer' = Offer
    BY <1>1, <2>1, OfferOver DEF Offer
  <2> QED BY <1>2, <2>2 DEF PromiseStep
<1> QED BY <1>3, <1>4

LEMMA RequestPromise ==
    ASSUME Typed, NEW u \in Uploads, Upload(u) \/ StageFails(u) \/ UploadDies(u)
    PROVE  PromiseStep
<1>1. CASE StageFails(u)
  <2>1. Offer' = Offer
    BY <1>1, OfferSame DEF StageFails, Accepting
  <2> QED BY <1>1, <2>1, StateStays, HeldStays, JobStays
          DEF StageFails, OnlyUpload, store, PromiseStep
<1>2. CASE UploadQueue(u) \/ UploadGiveUp(u)
  BY <1>2, FinishPromise DEF UploadQueue, UploadGiveUp, Accepting
<1> QED BY <1>1, <1>2, UploadLookPromise, UploadRowPromise, UploadStagePromise, UploadDiesPromise
        DEF Upload

LEMMA DeletePromise ==
    ASSUME Typed, NEW d \in Docs, DeleteRow(d)
    PROVE  PromiseStep
<1>1. /\ Exists(d) /\ doc' = [doc EXCEPT ![d] = [NoRow EXCEPT !.status = "deleted"]]
      /\ chunks' = [chunks EXCEPT ![d] = NoFile]
      /\ UNCHANGED <<spool, upload, reindexing, worker>> /\ doc \in [Docs -> Rows]
  BY DEF DeleteRow, Typed, StoreOK
<1>2. doc'[d].status = "deleted" /\ doc'[d].original = NoFile
  BY <1>1 DEF NoRow
<1>3. Promise!Becomes(d, "gone")
  BY <1>1, <1>2, StateMoves, Words
<1>4. Promise!Holds(d, Held[d])
  <2>1. BytesOf(d)' \subseteq Held[d]
    BY <1>1, <1>2, HeldIs DEF BytesOf
  <2> QED BY <1>1, <2>1, HeldMoves
<1>5. Promise!Delete(d)
  BY <1>1, <1>3, <1>4, StateIs, OfferStays, JobStays DEF Promise!Delete
<1> QED BY <1>5 DEF PromiseStep, Promise!Next

\* A spool file goes: nothing of a deleted document is promised to stay, and of the
\* others the copy in the row is left.
LEMMA SpoolGone ==
    ASSUME Typed, NEW d \in Docs, spool' = [spool EXCEPT ![d] = NoFile],
           doc[d].status # "ready" \/ doc[d].original # NoFile,
           UNCHANGED <<doc, chunks, upload, reindexing, Job>>
    PROVE  PromiseStep
<1>1. BytesOf(d)' = {doc[d].original} \ {NoFile}
  BY DEF BytesOf, Typed, StoreOK
<1>2. BytesOf(d)' \in SUBSET Held[d]
  BY <1>1, HeldIs DEF BytesOf
<1>3. Held' = [Held EXCEPT ![d] = BytesOf(d)']
  <2>1. \A e \in Docs \ {d} : spool'[e] = spool[e]
    BY DEF Typed, StoreOK
  <2> QED BY <2>1, HeldMoves
<1>4. State[d] = "ready" => BytesOf(d)' # {}
  BY <1>1, StateIs
<1>5. Promise!Release(d)
  BY <1>2, <1>3, <1>4, StateStays, OfferStays DEF Promise!Release
<1> QED BY <1>5 DEF PromiseStep, Promise!Next, Promise!Work

LEMMA OthersPromise ==
    ASSUME Typed, DeletingGone,
           \/ \E d \in Docs : DeleteRow(d) \/ DeleteSpool(d) \/ ReindexQueue(d)
           \/ ReindexRead
    PROVE  PromiseStep
<1>1. CASE \E d \in Docs : DeleteRow(d)
  BY <1>1, DeletePromise
<1>2. ASSUME NEW d \in Docs, DeleteSpool(d)
      PROVE  PromiseStep
  BY <1>2, SpoolGone, JobStays DEF DeleteSpool, DeletingGone
<1>3. ASSUME NEW d \in Docs, ReindexQueue(d)
      PROVE  PromiseStep
  <2>1. UNCHANGED <<chunks, spool, worker, upload>> /\ d \in reindexing /\ doc \in [Docs -> Rows]
    BY <1>3 DEF ReindexQueue, Typed, StoreOK
  <2>2. CASE Exists(d)
    <3>1. /\ doc' = [doc EXCEPT ![d].status = "queued", ![d].attempts = 0]
          /\ reindexing' = reindexing \ {d}
      BY <1>3, <2>2 DEF ReindexQueue
    <3>2. /\ \A e \in Docs : doc'[e].original = doc[e].original
          /\ \A e \in Docs \ {d} : doc'[e] = doc[e]
          /\ doc'[d].status = "queued"
      BY <2>1, <3>1 DEF Rows
    <3>3. Promise!Becomes(d, "waiting")
      BY <3>2, StateMoves, Words
    <3>4. Promise!Again(d)
      BY <2>1, <2>2, <3>1, <3>2, <3>3, StateIs, HeldStays, OfferStays, JobStays DEF Promise!Again
    <3> QED BY <3>4 DEF PromiseStep, Promise!Next
  <2>3. CASE ~Exists(d)
    <3>1. reindexing' = {} /\ UNCHANGED doc
      BY <1>3, <2>3 DEF ReindexQueue
    <3>2. Promise!Forget
      BY <2>1, <3>1, StateStays, HeldStays, OfferStays, JobStays DEF Promise!Forget
    <3> QED BY <3>2 DEF PromiseStep, Promise!Next
  <2> QED BY <2>2, <2>3
<1>4. CASE ReindexRead
  <2>1. reindexing' \in SUBSET {d \in Docs : State[d] = "ready"}
    BY <1>4, StateIs, Words DEF ReindexRead
  <2>2. Promise!Ask
    BY <1>4, <2>1, StateStays, HeldStays, OfferStays, JobStays DEF ReindexRead, store, Promise!Ask
  <2> QED BY <2>2 DEF PromiseStep, Promise!Next
<1> QED BY <1>1, <1>2, <1>3, <1>4

-----------------------------------------------------------------------------
(* The job *)

\* Until the spool is read the worker has nothing but what came with the row.
NoBytesYet == worker.at \in {"claim", "read"} => worker.bytes = NoFile

LEMMA NoBytesKept == Typed /\ NoBytesYet /\ [Next]_vars => NoBytesYet'
<1> SUFFICES ASSUME Typed, NoBytesYet, [Next]_vars PROVE NoBytesYet'
  OBVIOUS
<1>0. worker \in Workers
  BY DEF Typed, WorkerOK
<1>1. CASE UNCHANGED worker
  BY <1>1 DEF NoBytesYet
<1>2. CASE PickDocument
  BY <1>2 DEF PickDocument, NoBytesYet
<1>6. CASE ClaimDocument
  <2>1. worker'.bytes = worker.bytes \/ worker'.bytes = NoFile
    BY <1>0, <1>6 DEF ClaimDocument, WorkerGoto, WorkerIdles, Idle, Workers
  <2> QED BY <1>6, <2>1 DEF ClaimDocument, WorkerAt, NoBytesYet
<1>3. ASSUME worker'.at \notin {"claim", "read"}
      PROVE  NoBytesYet'
  BY <1>3 DEF NoBytesYet
<1>4. \/ ReadSpool \/ Extract \/ CheckCurrent \/ IndexChunks \/ FailDocument \/ CleanUp
      \/ RemoveSpool \/ RestartWorker \/ SweepOld \/ RecoverDone \/ KilledByFile \/ WorkerCrash
      => worker'.at \notin {"claim", "read"}
  <2>1. \A p \in WorkerPoints : WorkerGoto(p) => worker'.at = p
    BY <1>0 DEF WorkerGoto, Workers
  <2>2. \/ Extract \/ CheckCurrent \/ IndexChunks \/ FailDocument \/ CleanUp \/ RestartWorker
        \/ SweepOld
        => \/ \E p \in WorkerPoints \ {"claim", "read"} : WorkerGoto(p)
           \/ WorkerIdles
    BY DEF Extract, CheckCurrent, IndexChunks, FailDocument, CleanUp, RestartWorker, SweepOld,
           WorkerPoints
  <2>3. ReadSpool => worker'.at \in {"fail", "extract"}
    BY <1>0 DEF ReadSpool, Workers
  <2>4. RemoveSpool \/ RecoverDone \/ KilledByFile \/ WorkerCrash => worker'.at \in {"idle", "down"}
    BY DEF RemoveSpool, RecoverDone, KilledByFile, WorkerCrash, Dead, WorkerIdles, Idle
  <2>5. WorkerIdles => worker'.at = "idle"
    BY DEF WorkerIdles, Idle
  <2> QED BY <2>1, <2>2, <2>3, <2>4, <2>5
<1>5. \/ UNCHANGED vars \/ ReindexRead \/ RecoverOne
      \/ \E u \in Uploads : Upload(u) \/ StageFails(u) \/ UploadDies(u)
      \/ \E d \in Docs : DeleteRow(d) \/ DeleteSpool(d) \/ ReindexQueue(d)
      => UNCHANGED worker
  BY DEF vars, ReindexRead, RecoverOne, Upload, UploadLook, UploadRow, UploadStage, UploadQueue,
         UploadGiveUp, Finish, StageFails, UploadDies, OnlyUpload, DeleteRow, DeleteSpool, ReindexQueue
<1> QED BY <1>1, <1>2, <1>6, <1>3, <1>4, <1>5 DEF Next, Work

LEMMA JobOver == worker'.at \notin AtJob => Job' = {}
BY DEF Job

LEMMA JobNone == worker.at \notin AtJob => Job = {}
BY DEF Job

LEMMA JobIs ==
    ASSUME worker.at \in AtJob
    PROVE  Job = {[doc |-> worker.id, files |-> {worker.original, worker.bytes} \ {NoFile},
                   begun |-> worker.at # "claim"]}
BY DEF Job

\* From one step of the job to the next.
LEMMA JobGoes ==
    ASSUME Typed, worker.at \in AtJob \ {"claim"}, NEW p \in AtJob \ {"claim"}, WorkerGoto(p)
    PROVE  Job' = Job
<1>1. /\ worker'.at = p /\ worker'.id = worker.id
      /\ worker'.original = worker.original /\ worker'.bytes = worker.bytes
  BY DEF Typed, WorkerOK, Workers, WorkerGoto
<1> QED BY <1>1 DEF Job

\* The job ends, and nothing else changes.
LEMMA QuitPromise ==
    ASSUME Typed, UNCHANGED <<doc, chunks, spool, upload, reindexing>>, worker'.at \notin AtJob
    PROVE  PromiseStep
<1>1. Promise!Quit
  BY StateStays, HeldStays, OfferStays, JobOver DEF Promise!Quit
<1> QED BY <1>1 DEF PromiseStep, Promise!Next, Promise!Work

\* A step of the job that the promise does not see.
LEMMA QuietPromise ==
    ASSUME Typed, UNCHANGED <<doc, chunks, spool, upload, reindexing, Job>>
    PROVE  PromiseStep
BY StateStays, HeldStays, OfferStays DEF PromiseStep

LEMMA PickPromise ==
    ASSUME Typed, PickDocument
    PROVE  PromiseStep
<1>1. PICK d \in Docs : /\ doc[d].status = "queued" /\ worker.at = "idle"
                        /\ worker' = [at |-> "claim", id |-> d, hash |-> doc[d].hash,
                                      original |-> doc[d].original, bytes |-> NoFile]
                        /\ UNCHANGED <<doc, chunks, spool, upload, reindexing>>
  BY DEF PickDocument, Oldest, QueuedDocs, WorkerAt, OnlyWorker, app, store
<1>2. Job = {}
  BY <1>1, JobNone DEF AtJob
<1>3. Job' = {[doc |-> d, files |-> {doc[d].original} \ {NoFile}, begun |-> FALSE]}
  <2>1. /\ worker'.at = "claim" /\ worker'.id = d
        /\ worker'.original = doc[d].original /\ worker'.bytes = NoFile
    BY <1>1
  <2> QED BY <2>1 DEF Job, AtJob
<1>4. {doc[d].original} \ {NoFile} \in SUBSET Held[d]
  BY HeldIs DEF BytesOf
<1>5. State[d] = "waiting"
  BY <1>1, StateIs, Words
<1>6. Promise!Pick(d)
  BY <1>1, <1>2, <1>3, <1>4, <1>5, StateStays, HeldStays, OfferStays DEF Promise!Pick
<1> QED BY <1>6 DEF PromiseStep, Promise!Next, Promise!Work

LEMMA ClaimPromise ==
    ASSUME Typed, NoBytesYet, ClaimDocument
    PROVE  PromiseStep
<1>0. /\ worker \in Workers /\ worker.at = "claim" /\ doc \in [Docs -> Rows]
      /\ UNCHANGED <<chunks, spool, upload, reindexing>>
  BY DEF Typed, WorkerOK, StoreOK, ClaimDocument, WorkerAt, OnlyWorker, app
<1>1. CASE doc[worker.id].status = "queued"
  <2>1. /\ doc' = [doc EXCEPT ![worker.id].status = "processing", ![worker.id].attempts = @ + 1]
        /\ WorkerGoto("read")
    BY <1>1 DEF ClaimDocument
  <2>2. PICK d \in Docs : worker.id = d
    BY <1>0 DEF Workers
  <2>3. PICK S : S = {worker.original, worker.bytes} \ {NoFile}
    OBVIOUS
  <2>4. /\ \A e \in Docs : doc'[e].original = doc[e].original
        /\ \A e \in Docs \ {d} : doc'[e] = doc[e]
        /\ doc'[d].status = "processing"
    BY <1>0, <2>1, <2>2 DEF Rows
  <2>5. Promise!Becomes(d, "working")
    BY <2>4, StateMoves, Words
  <2>6. Job = {[doc |-> d, files |-> S, begun |-> FALSE]}
    BY <1>0, <2>2, <2>3, JobIs DEF AtJob
  <2>7. Job' = {[doc |-> d, files |-> S, begun |-> TRUE]}
    <3>1. /\ worker'.at = "read" /\ worker'.id = d
          /\ worker'.original = worker.original /\ worker'.bytes = worker.bytes
      BY <1>0, <2>1, <2>2 DEF WorkerGoto, Workers
    <3> QED BY <2>3, <3>1 DEF Job, AtJob
  <2>8. State[d] = "waiting"
    BY <1>1, <2>2, StateIs, Words
  <2>9. Promise!Begin([doc |-> d, files |-> S, begun |-> FALSE])
    BY <1>0, <2>4, <2>5, <2>7, <2>8, HeldStays, OfferStays DEF Promise!Begin
  <2> QED BY <2>6, <2>9 DEF PromiseStep, Promise!Next, Promise!Work
<1>2. CASE doc[worker.id].status # "queued"
  <2>1. UNCHANGED doc /\ worker'.at = "idle"
    BY <1>2 DEF ClaimDocument, WorkerIdles, Idle
  <2> QED BY <1>0, <2>1, QuitPromise DEF AtJob
<1> QED BY <1>1, <1>2

LEMMA ReadPromise ==
    ASSUME Typed, NoBytesYet, ReadSpool
    PROVE  PromiseStep
<1>0. /\ worker \in Workers /\ worker.at = "read" /\ worker.bytes = NoFile
      /\ UNCHANGED <<doc, chunks, spool, upload, reindexing>>
  BY DEF Typed, WorkerOK, NoBytesYet, ReadSpool, WorkerAt, OnlyWorker, app, store
<1>1. PICK d \in Docs, o \in SomeFile : worker.id = d /\ worker.original = o
  BY <1>0 DEF Workers
<1>2. PICK f : f = IF spool[d] # NoFile THEN spool[d] ELSE o
  OBVIOUS
<1>3. /\ worker'.at \in AtJob \ {"claim"} /\ worker'.id = d
      /\ worker'.original = o /\ worker'.bytes = f
  BY <1>0, <1>1, <1>2 DEF ReadSpool, Workers, AtJob
<1>4. Job = {[doc |-> d, files |-> {o} \ {NoFile}, begun |-> TRUE]}
  BY <1>0, <1>1, JobIs DEF AtJob
<1>5. Job' = {[doc |-> d, files |-> {o, f} \ {NoFile}, begun |-> TRUE]}
  BY <1>3 DEF Job
<1>6. CASE f = NoFile
  <2>1. {o, f} \ {NoFile} = {o} \ {NoFile}
    BY <1>6
  <2> QED BY <1>0, <1>4, <1>5, <2>1, QuietPromise
<1>7. CASE f # NoFile
  <2>1. PICK S : S = {o} \ {NoFile}
    OBVIOUS
  <2>2. {o, f} \ {NoFile} = S \cup {f} /\ f \in S \cup Held[d]
    BY <1>2, <1>7, <2>1, HeldIs DEF BytesOf
  <2>3. PICK b \in BOOLEAN : b = TRUE
    OBVIOUS
  <2>4. PICK j : j = [doc |-> d, files |-> S, begun |-> b]
    OBVIOUS
  <2>5. j.begun /\ j.doc = d /\ j.files = S
    BY <2>3, <2>4
  <2>6. Job = {j} /\ Job' = {[j EXCEPT !.files = @ \cup {f}]}
    <3>1. PICK T : T = S \cup {f}
      OBVIOUS
    <3>2. [j EXCEPT !.files = T] = [doc |-> d, files |-> T, begun |-> b]
      BY <2>4
    <3>3. Job = {j} /\ Job' = {[doc |-> d, files |-> T, begun |-> b]}
      BY <1>4, <1>5, <2>1, <2>2, <2>3, <2>4, <3>1
    <3> QED BY <2>5, <3>1, <3>2, <3>3
  <2>7. Promise!Read(j)
    BY <1>0, <2>2, <2>5, <2>6, StateStays, HeldStays, OfferStays DEF Promise!Read
  <2> QED BY <2>6, <2>7 DEF PromiseStep, Promise!Next, Promise!Work
<1> QED BY <1>6, <1>7

LEMMA IndexPromise ==
    ASSUME Typed, BytesStayed, IndexChunks
    PROVE  PromiseStep
<1>0. /\ worker \in Workers /\ worker.at = "index" /\ worker.bytes # NoFile
      /\ doc \in [Docs -> Rows] /\ UNCHANGED <<spool, upload, reindexing>>
  BY DEF Typed, WorkerOK, StoreOK, BytesStayed, IndexChunks, WorkerAt, OnlyWorker, app
<1>1. PICK d \in Docs, f \in SomeFile : worker.id = d /\ worker.bytes = f
  BY <1>0 DEF Workers
<1>2. CASE Exists(d)
  <2>1. chunks' = [chunks EXCEPT ![d] = f] /\ Restatus({d}, "ready") /\ WorkerGoto("clean")
    BY <1>1, <1>2 DEF IndexChunks
  <2>2. /\ \A e \in Docs : doc'[e].original = doc[e].original
        /\ \A e \in Docs : e \notin {d} => doc'[e] = doc[e]
        /\ doc'[d].status = "ready"
    BY <2>1, RestatusRows DEF Typed, Statuses
  <2>3. Promise!Becomes(d, "ready")
    BY <2>2, StateMoves, Words
  <2>4. Job' = {}
    BY <1>0, <2>1, JobOver DEF WorkerGoto, Workers, AtJob
  <2>5. PICK j : j = [doc |-> d, files |-> {worker.original, f} \ {NoFile}, begun |-> TRUE]
    OBVIOUS
  <2>6. j.begun /\ j.doc = d /\ f \in j.files
    BY <1>0, <1>1, <2>5
  <2>7. Job = {j}
    BY <1>0, <1>1, <2>5, JobIs DEF AtJob
  <2>8. Promise!Index(j)
    BY <1>0, <1>2, <2>1, <2>2, <2>3, <2>4, <2>6, StateIs, HeldStays, OfferStays DEF Promise!Index
  <2> QED BY <2>7, <2>8 DEF PromiseStep, Promise!Next, Promise!Work
<1>3. CASE ~Exists(d)
  <2>1. WorkerGoto("fail") /\ UNCHANGED <<doc, chunks>>
    BY <1>1, <1>3 DEF IndexChunks
  <2> QED BY <1>0, <2>1, JobGoes, QuietPromise DEF AtJob
<1> QED BY <1>2, <1>3

LEMMA FailPromise ==
    ASSUME Typed, FailDocument
    PROVE  PromiseStep
<1>0. /\ worker \in Workers /\ worker.at = "fail" /\ Restatus(FailedRows, "error")
      /\ WorkerGoto("clean") /\ UNCHANGED <<chunks, spool, upload, reindexing>>
  BY DEF Typed, WorkerOK, FailDocument, WorkerAt, OnlyWorker, app
<1>1. PICK d \in Docs : worker.id = d
  BY <1>0 DEF Workers
<1>2. /\ doc' \in [Docs -> Rows]
      /\ \A e \in Docs : doc'[e].original = doc[e].original
      /\ \A e \in Docs : e \notin FailedRows => doc'[e] = doc[e]
      /\ \A e \in Docs : e \in FailedRows => doc'[e].status = "error"
  BY <1>0, RestatusRows DEF Typed, Statuses
<1>3. worker'.at = "clean"
  BY <1>0 DEF WorkerGoto, Workers
<1>4. CASE d \in FailedRows
  <2>1. \A e \in Docs : e # d => doc'[e] = doc[e]
    BY <1>1, <1>2 DEF FailedRows
  <2>2. Promise!Becomes(d, "failed")
    BY <1>2, <1>4, <2>1, StateMoves, Words
  <2>3. State[d] = "working"
    BY <1>4, StateIs, Words DEF FailedRows
  <2>4. PICK j : j = [doc |-> d, files |-> {worker.original, worker.bytes} \ {NoFile}, begun |-> TRUE]
    OBVIOUS
  <2>5. Job = {j} /\ j.begun /\ j.doc = d
    BY <1>0, <1>1, <2>4, JobIs DEF AtJob
  <2>6. Promise!Fail(j)
    BY <1>0, <1>2, <1>3, <2>2, <2>3, <2>5, HeldStays, OfferStays, JobOver DEF Promise!Fail, AtJob
  <2> QED BY <2>5, <2>6 DEF PromiseStep, Promise!Next, Promise!Work
<1>5. CASE d \notin FailedRows
  <2>1. \A e \in Docs : doc'[e] = doc[e]
    BY <1>1, <1>2, <1>5 DEF FailedRows
  <2>2. Promise!Quit
    BY <1>0, <1>3, <2>1, StateStays, HeldStays, OfferStays, JobOver DEF Promise!Quit, AtJob
  <2> QED BY <2>2 DEF PromiseStep, Promise!Next, Promise!Work
<1> QED BY <1>4, <1>5

LEMMA RecoverPromise ==
    ASSUME Typed, RecoverOne
    PROVE  PromiseStep
<1>1. PICK t \in todo, s \in {"queued", "error"} : Restatus(StillAs(t), s)
  BY DEF RecoverOne
<1>2. PICK d \in Docs : t.id = d
  BY DEF Typed, WorkerOK, Snapshots
<1>3. /\ t.status \in Interrupted /\ worker.at = "recover"
      /\ UNCHANGED <<chunks, spool, worker, upload, reindexing>>
  BY DEF Typed, WorkerOK, Snapshots, RecoverOne, WorkerAt, app
<1>4. /\ \A e \in Docs : doc'[e].original = doc[e].original
      /\ \A e \in Docs : e \notin StillAs(t) => doc'[e] = doc[e]
      /\ \A e \in Docs : e \in StillAs(t) => doc'[e].status = s
  BY <1>1, RestatusRows DEF Typed, Statuses
<1>5. Job = {} /\ Job' = Job
  BY <1>3, JobNone, JobStays DEF AtJob
<1>6. CASE d \in StillAs(t)
  <2>1. \A e \in Docs : e # d => doc'[e] = doc[e]
    BY <1>2, <1>4 DEF StillAs
  <2>2. Promise!Becomes(d, StateOf(s))
    BY <1>4, <1>6, <2>1, StateMoves
  <2>3. State[d] \in {"offered", "working"} /\ StateOf(s) \in {"waiting", "failed"}
    BY <1>3, <1>6, StateIs, Words DEF StillAs, Interrupted
  <2>4. Promise!Recover(d, StateOf(s))
    BY <1>3, <1>4, <1>5, <2>2, <2>3, HeldStays, OfferStays DEF Promise!Recover
  <2> QED BY <2>3, <2>4 DEF PromiseStep, Promise!Next, Promise!Work
<1>7. CASE d \notin StillAs(t)
  <2>1. \A e \in Docs : doc'[e] = doc[e]
    BY <1>2, <1>4, <1>7 DEF StillAs
  <2> QED BY <1>3, <1>5, <2>1, StateStays, HeldStays, OfferStays DEF PromiseStep
<1> QED BY <1>6, <1>7

LEMMA WorkPromise ==
    ASSUME Typed, SpoolInv, NoBytesYet, Work \/ SweepOld \/ WorkerCrash
    PROVE  PromiseStep
<1>0. worker \in Workers
  BY DEF Typed, WorkerOK
<1>1. CASE Extract
  <2>1. /\ WorkerGoto("fail") \/ WorkerGoto("check")
        /\ worker.at = "extract"
        /\ UNCHANGED <<doc, chunks, spool, upload, reindexing>>
    BY <1>1 DEF Extract, WorkerAt, OnlyWorker, app, store
  <2>2. Job' = Job
    BY <2>1, JobGoes DEF AtJob
  <2> QED BY <2>1, <2>2, QuietPromise
<1>2. CASE CheckCurrent
  <2>1. /\ WorkerGoto("index") \/ WorkerGoto("clean")
        /\ worker.at = "check"
        /\ UNCHANGED <<doc, chunks, spool, upload, reindexing>>
    BY <1>2 DEF CheckCurrent, WorkerAt, OnlyWorker, app, store
  <2>2. CASE WorkerGoto("index")
    BY <2>1, <2>2, JobGoes, QuietPromise DEF AtJob
  <2>3. CASE WorkerGoto("clean")
    <3>1. worker'.at = "clean"
      BY <1>0, <2>3 DEF WorkerGoto, Workers
    <3> QED BY <2>1, <3>1, QuitPromise DEF AtJob
  <2> QED BY <2>1, <2>2, <2>3
<1>3. CASE RemoveSpool
  <2>1. PICK d \in Docs : worker.id = d
    BY <1>0 DEF Workers
  <2>2. /\ worker.at = "remove" /\ worker'.at = "idle" /\ spool' = [spool EXCEPT ![d] = NoFile]
        /\ UNCHANGED <<doc, chunks, upload, reindexing>>
    BY <1>3, <2>1 DEF RemoveSpool, WorkerAt, WorkerIdles, Idle, OnlyWorker, app
  <2>3. Job' = Job
    BY <2>2, JobNone, JobOver DEF AtJob
  <2>4. doc[d].status # "ready" \/ doc[d].original # NoFile
    BY <2>1, <2>2 DEF SpoolInv, RemovalSafe
  <2> QED BY <2>2, <2>3, <2>4, SpoolGone
<1>4. CASE CleanUp \/ RestartWorker \/ SweepOld \/ RecoverDone \/ KilledByFile \/ WorkerCrash
  <2>1. /\ UNCHANGED <<doc, chunks, spool, upload, reindexing>>
        /\ worker'.at \in {"remove", "idle", "recover", "down"}
    BY <1>0, <1>4 DEF CleanUp, RestartWorker, SweepOld, RecoverDone, KilledByFile, WorkerCrash,
                      Dead, WorkerGoto, WorkerIdles, Idle, OnlyWorker, app, store, Workers
  <2> QED BY <2>1, QuitPromise DEF AtJob
<1> QED BY <1>1, <1>2, <1>3, <1>4, PickPromise, ClaimPromise, ReadPromise, IndexPromise,
           FailPromise, RecoverPromise DEF Work, SpoolInv

-----------------------------------------------------------------------------
(* The refinement *)

LEMMA StepPromise ==
    ASSUME Typed, SpoolInv, NoBytesYet, [Next]_vars
    PROVE  PromiseStep
<1>1. CASE UNCHANGED vars
  BY <1>1, QuietPromise, JobStays DEF vars, store, app
<1>2. CASE Next
  BY <1>2, RequestPromise, OthersPromise, WorkPromise DEF Next, SpoolInv
<1> QED BY <1>1, <1>2

LEMMA InitPromise == Init => NoBytesYet /\ Promise!Init
<1> SUFFICES ASSUME Init PROVE NoBytesYet /\ Promise!Init
  OBVIOUS
<1>1. NoBytesYet /\ Job = {}
  BY DEF Init, Idle, NoBytesYet, Job, AtJob
<1>2. State = [d \in Docs |-> "absent"] /\ Held = [d \in Docs |-> {}]
  BY Words DEF Init, NoRow, State, Held
<1>3. Offer = [u \in Uploads |-> {}]
  BY DEF Init, Offer, OfferOf, Accepting
<1> QED BY <1>1, <1>2, <1>3 DEF Init, Promise!Init

\* Rows, chunks, spool and worker implement the promise of the Knowledge Base, for any
\* files, however they are kept and read, and any requests, deletions, re-indexing,
\* recovery and crashes.
THEOREM ImplementsPromise == Spec => KeepsPromise
<1>1. Init => NoBytesYet /\ Promise!Init
  BY InitPromise
<1>2. Typed /\ NoBytesYet /\ [Next]_vars => NoBytesYet'
  BY NoBytesKept
<1>3. Typed /\ SpoolInv /\ NoBytesYet /\ [Next]_vars => [Promise!Next]_(Promise!vars)
  BY StepPromise DEF PromiseStep, Promise!vars
<1> QED
  BY <1>1, <1>2, <1>3, TypedAlways, SpoolAlways, PTL DEF Spec, KeepsPromise, Promise!Spec
=============================================================================

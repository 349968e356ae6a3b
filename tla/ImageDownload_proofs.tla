------------------------ MODULE ImageDownload_proofs ------------------------
(***************************************************************************)
(* Proofs about ImageDownload, whatever the user asks and whenever: its    *)
(* types, and what it takes to call a download done that is not whole, or  *)
(* to throw away bytes that were fetched.                                  *)
(***************************************************************************)
EXTENDS ImageDownload, SequenceTheorems, FiniteSetTheorems, NaturalsInduction,
        TLAPS

-----------------------------------------------------------------------------
(* What a file may hold *)

Chunks == Seq(0..Size)

\* The first n chunks of the model, in order.
Upto(n) == [k \in 1..n |-> k]
Partials == {Upto(n) : n \in 0..Size}

LEMMA Bounds == Size \in Nat \ {0} /\ MaxCalls \in Nat \ {0}
BY ImageDownloadAssumption

LEMMA UptoSeq ==
    ASSUME NEW n \in Nat
    PROVE  Upto(n) \in Seq(Nat) /\ Len(Upto(n)) = n /\ DOMAIN Upto(n) = 1..n
BY DEF Upto

LEMMA Partial ==
    /\ <<>> \in Partials /\ Upto(0) = <<>>
    /\ Whole \in Partials /\ Whole = Upto(Size)
    /\ \A s \in Partials : Len(s) \in 0..Size /\ s = Upto(Len(s))
    /\ \A n \in 0..Size : Upto(n) \in Partials
<1>1. Upto(0) = <<>>
  BY DEF Upto
<1>2. Whole = Upto(Size)
  BY DEF Whole, Upto
<1>3. \A n \in 0..Size : Upto(n) \in Partials
  BY DEF Partials
<1>4. \A s \in Partials : Len(s) \in 0..Size /\ s = Upto(Len(s))
  BY Bounds, UptoSeq DEF Partials
<1> QED BY <1>1, <1>2, <1>3, <1>4, Bounds

\* A chunk written at the end of a file, with either flag, is appended to it.
LEMMA PutAtEnd ==
    ASSUME NEW S, NEW s \in Seq(S), NEW v \in S
    PROVE  Put(s, Len(s) + 1, v) = Append(s, v)
<1> DEFINE n == Len(s)
<1>1. n \in Nat /\ n + 1 \in Nat
  BY LenProperties
<1>2. Max({n, n + 1}) = n + 1
  BY <1>1 DEF Max
<1>3. Put(s, n + 1, v) = [k \in 1..(n + 1) |-> IF k = n + 1 THEN v ELSE IF k <= n THEN s[k] ELSE 0]
  BY <1>2 DEF Put
<1>4. /\ Append(s, v) \in Seq(S) /\ Len(Append(s, v)) = n + 1
      /\ \A i \in 1..n : Append(s, v)[i] = s[i]
      /\ Append(s, v)[n + 1] = v
  BY AppendProperties
<1>5. Append(s, v) = [k \in 1..(n + 1) |-> Append(s, v)[k]]
  BY <1>4, LenProperties
<1> HIDE DEF n
<1>6. \A k \in 1..(n + 1) :
         Append(s, v)[k] = IF k = n + 1 THEN v ELSE IF k <= n THEN s[k] ELSE 0
  BY <1>1, <1>4
<1> QED BY <1>3, <1>5, <1>6 DEF n

LEMMA AppendExtends ==
    ASSUME NEW S, NEW s \in Seq(S), NEW v \in S
    PROVE  IsPrefix(s, s) /\ IsPrefix(s, Append(s, v))
<1>1. Len(s) \in Nat
  BY LenProperties
<1>2. SubSeq(s, 1, Len(s)) = s /\ SubSeq(Append(s, v), 1, Len(s)) = s
  BY <1>1, SubSeqFull, AppendProperties
<1>3. Len(Append(s, v)) = Len(s) + 1
  BY AppendProperties
<1> QED BY <1>1, <1>2, <1>3 DEF IsPrefix

\* The next chunk makes the next longer file.
LEMMA OneMore ==
    ASSUME NEW n \in Nat
    PROVE  Append(Upto(n), n + 1) = Upto(n + 1)
<1>1. Upto(n) \in Seq(Nat) /\ Len(Upto(n)) = n
  BY UptoSeq
<1>2. /\ Append(Upto(n), n + 1) \in Seq(Nat)
      /\ Len(Append(Upto(n), n + 1)) = n + 1
      /\ \A i \in 1..n : Append(Upto(n), n + 1)[i] = i
      /\ Append(Upto(n), n + 1)[n + 1] = n + 1
  BY <1>1, AppendProperties, n + 1 \in Nat DEF Upto
<1>3. DOMAIN Append(Upto(n), n + 1) = 1..(n + 1)
  BY <1>2, LenProperties
<1>4. Append(Upto(n), n + 1) = [i \in 1..(n + 1) |-> Append(Upto(n), n + 1)[i]]
  BY <1>2, <1>3, LenProperties
<1>5. \A i \in 1..(n + 1) : Append(Upto(n), n + 1)[i] = i
  BY <1>2
<1> QED BY <1>4, <1>5 DEF Upto

\* Wherever a chunk is put, the file stays a sequence of chunks.
LEMMA PutTyped ==
    ASSUME NEW s \in Chunks, NEW i \in Nat \ {0}, NEW v \in 0..Size
    PROVE  Put(s, i, v) \in Chunks
<1> DEFINE n == Len(s)
           m == Max({n, i})
<1>1. n \in Nat /\ \A k \in 1..n : s[k] \in 0..Size
  BY ElementOfSeq, LenProperties DEF Chunks
<1>2. m \in Nat
  <2> HIDE DEF n
  <2>1. CASE n >= i
    <3>1. m = n
      BY <1>1, <2>1 DEF Max
    <3> QED BY <1>1, <3>1
  <2>2. CASE n < i
    <3>1. m = i
      BY <1>1, <2>2 DEF Max
    <3> QED BY <3>1
  <2> QED BY <1>1, <2>1, <2>2
<1>3. 0 \in 0..Size
  BY Bounds
<1>4. Put(s, i, v) = [k \in 1..m |-> IF k = i THEN v ELSE IF k <= n THEN s[k] ELSE 0]
  BY DEF Put
<1> HIDE DEF m, n
<1>5. \A k \in 1..m : (IF k = i THEN v ELSE IF k <= n THEN s[k] ELSE 0) \in 0..Size
  BY <1>1, <1>3
<1>6. Put(s, i, v) \in [1..m -> 0..Size]
  BY <1>4, <1>5
<1> QED BY <1>2, <1>6, SeqDef DEF Chunks

-----------------------------------------------------------------------------
(* Types *)

CallRecords == [at: CallPoints, id: 0..MaxRows, folder: Paths,
                from: Nat, got: 0..Size, file: {0} \cup Files]

UsedRecords == [rows: 0..MaxRows, queues: 0..MaxQueues, pauses: 0..MaxPauses,
                overlaps: 0..MaxOverlaps, faults: 0..MaxFaults]

RowOK ==
    /\ row \in [id: 0..MaxRows, status: RowStatuses, folder: Paths]
    /\ row.id = 0 => row.status = "queued"

FilesOK ==
    /\ disk \in [Paths -> {0} \cup Files]
    /\ content \in [Files -> Chunks]

CallsOK ==
    /\ calls \in [Calls -> CallRecords]
    /\ \A c \in Calls : Live(c) => calls[c].id # 0

RestOK ==
    /\ pausing \in 0..MaxRows
    /\ deleting \in [at: {"off", "row", "file"}, id: 0..MaxRows, folder: Paths]
    /\ appUp \in BOOLEAN
    /\ used \in UsedRecords
    /\ past \in [torn: BOOLEAN, unsaved: BOOLEAN]

TypeInv == RowOK /\ FilesOK /\ CallsOK /\ RestOK

LEMMA TypeImplied == TypeInv => TypeOK
BY DEF TypeInv, RowOK, FilesOK, CallsOK, RestOK, TypeOK, CallRecords, UsedRecords, Chunks

LEMMA Constants ==
    /\ NoCall \in CallRecords
    /\ NoRow \in [id: 0..MaxRows, status: RowStatuses, folder: Paths] /\ NoRow.id = 0
    /\ NoDelete \in [at: {"off", "row", "file"}, id: 0..MaxRows, folder: Paths]
    /\ MaxRows \in Nat /\ MaxQueues \in Nat /\ MaxPauses \in Nat /\ MaxOverlaps \in Nat
    /\ MaxFaults \in Nat
<1>1. /\ MaxRows \in Nat /\ MaxQueues \in Nat /\ MaxPauses \in Nat /\ MaxOverlaps \in Nat
      /\ MaxFaults \in Nat
  BY ImageDownloadAssumption
<1> QED BY <1>1, Bounds DEF NoCall, NoRow, NoDelete, CallRecords, CallPoints, Paths, RowStatuses

LEMMA TypeInit == Init => TypeInv
<1> SUFFICES ASSUME Init PROVE TypeInv
  OBVIOUS
<1>1. <<>> \in Chunks
  BY DEF Chunks
<1> QED BY <1>1, Constants
        DEF Init, TypeInv, RowOK, FilesOK, CallsOK, RestOK, UsedRecords, NoRow, Live, NoCall

\* A call is replaced by another record.
LEMMA Replaced ==
    ASSUME TypeInv, NEW c \in Calls, NEW x \in CallRecords, x.at # "off" => x.id # 0,
           calls' = [calls EXCEPT ![c] = x]
    PROVE  CallsOK' /\ calls'[c] = x /\ \A d \in Calls : d # c => calls'[d] = calls[d]
<1>1. /\ calls' \in [Calls -> CallRecords] /\ calls'[c] = x
      /\ \A d \in Calls : d # c => calls'[d] = calls[d]
  BY DEF TypeInv, CallsOK
<1> QED BY <1>1 DEF TypeInv, CallsOK, Live

\* The steps of a call in that form.
LEMMA Steps ==
    ASSUME TypeInv, NEW c \in Calls
    PROVE  /\ calls[c] \in CallRecords
           /\ \A p \in CallPoints :
                 /\ [calls[c] EXCEPT !.at = p] \in CallRecords
                 /\ Step(c, p) => calls' = [calls EXCEPT ![c] = [calls[c] EXCEPT !.at = p]]
           /\ Over(c) => calls' = [calls EXCEPT ![c] = NoCall]
<1>1. calls[c] \in CallRecords
  BY DEF TypeInv, CallsOK
<1>2. \A p \in CallPoints : [calls[c] EXCEPT !.at = p] \in CallRecords
  BY <1>1 DEF CallRecords
<1>3. \A p \in CallPoints : Step(c, p) => calls' = [calls EXCEPT ![c] = [calls[c] EXCEPT !.at = p]]
  BY DEF Step
<1> QED BY <1>1, <1>2, <1>3 DEF Over

\* What Step and Over leave of the calls.
LEMMA StepTo ==
    ASSUME TypeInv, NEW c \in Calls, Live(c), NEW p \in CallPoints, Step(c, p)
    PROVE  /\ CallsOK'
           /\ calls'[c] = [calls[c] EXCEPT !.at = p]
           /\ calls'[c].at = p /\ calls'[c].id = calls[c].id
           /\ calls'[c].folder = calls[c].folder /\ calls'[c].from = calls[c].from
           /\ calls'[c].got = calls[c].got /\ calls'[c].file = calls[c].file
           /\ \A d \in Calls : d # c => calls'[d] = calls[d]
<1> DEFINE x == [calls[c] EXCEPT !.at = p]
<1>1. calls[c] \in CallRecords /\ x \in CallRecords /\ calls' = [calls EXCEPT ![c] = x]
  BY Steps
<1>2. /\ x.at = p /\ x.id = calls[c].id /\ x.folder = calls[c].folder
      /\ x.from = calls[c].from /\ x.got = calls[c].got /\ x.file = calls[c].file
  BY <1>1 DEF CallRecords
<1>3. calls[c].id # 0
  BY DEF TypeInv, CallsOK
<1> HIDE DEF x
<1>4. CallsOK' /\ calls'[c] = x /\ \A d \in Calls : d # c => calls'[d] = calls[d]
  BY <1>1, <1>2, <1>3, Replaced
<1> QED BY <1>2, <1>4 DEF x

LEMMA OverTo ==
    ASSUME TypeInv, NEW c \in Calls, Over(c)
    PROVE  /\ CallsOK' /\ calls'[c] = NoCall /\ calls'[c].at = "off"
           /\ \A d \in Calls : d # c => calls'[d] = calls[d]
<1>1. CallsOK' /\ calls'[c] = NoCall /\ \A d \in Calls : d # c => calls'[d] = calls[d]
  BY Constants, Steps, Replaced DEF NoCall
<1> QED BY <1>1 DEF NoCall

\* What a call knows of itself as it begins.
LEMMA BeginTo ==
    ASSUME TypeInv, NEW c \in Calls, NEW id \in 0..MaxRows, id # 0, Begin(c, id)
    PROVE  /\ CallsOK' /\ ~Live(c)
           /\ calls'[c].at = "read" /\ calls'[c].id = id /\ calls'[c].got = 0
           /\ \A d \in Calls : d # c => calls'[d] = calls[d]
<1> DEFINE x == [NoCall EXCEPT !.at = "read", !.id = id]
<1>1. x \in CallRecords /\ x.at = "read" /\ x.id = id /\ x.got = 0
  BY Constants DEF NoCall, CallRecords, CallPoints
<1>2. calls' = [calls EXCEPT ![c] = x] /\ ~Live(c)
  BY DEF Begin
<1> HIDE DEF x
<1>3. CallsOK' /\ calls'[c] = x /\ \A d \in Calls : d # c => calls'[d] = calls[d]
  BY <1>1, <1>2, Replaced
<1> QED BY <1>1, <1>2, <1>3

\* A request is granted, and counted when it overlaps.
LEMMA AskedTo ==
    ASSUME MayAsk, NEW u \in UsedRecords, u.overlaps = used.overlaps
    PROVE  /\ Asked(u) \in UsedRecords
           /\ Asked(u).overlaps = 0 => u.overlaps = 0 /\ ~Busy
<1>1. CASE Busy
  <2>1. u.overlaps \in Nat /\ u.overlaps + 1 \in 0..MaxOverlaps
    BY <1>1, Constants DEF MayAsk, UsedRecords
  <2>2. Asked(u) = [u EXCEPT !.overlaps = u.overlaps + 1]
    BY <1>1 DEF Asked
  <2>3. Asked(u).overlaps # 0
    BY <2>1, <2>2 DEF UsedRecords
  <2> QED BY <2>1, <2>2, <2>3 DEF UsedRecords
<1>2. CASE ~Busy
  <2>1. Asked(u) = u
    BY <1>2 DEF Asked, UsedRecords
  <2> QED BY <1>2, <2>1
<1> QED BY <1>1, <1>2

-----------------------------------------------------------------------------
(* The steps keep the types *)

\* A writer that creates its file finds a free identity: the calls and the other
\* path hold one file each, and there is one more.
LEMMA FreshFile ==
    ASSUME TypeInv, NEW p \in Paths, ~Found(p)
    PROVE  Min(Unused) \in Files /\ \A q \in Paths : disk[q] # Min(Unused)
<1>1. MaxCalls \in Nat \ {0} /\ Files \subseteq Nat
  BY Bounds DEF Files
<1>2. PICK q \in Paths : \A r \in Paths : r = p \/ r = q
  BY DEF Paths
<1>3. disk[p] = 0 /\ 0 \notin Files
  BY <1>1 DEF Found, Files
<1>4. ASSUME Unused = {} PROVE FALSE
  <2> DEFINE Slots == 1..(MaxCalls + 1)
             g == [f \in Files |-> IF disk[q] = f THEN MaxCalls + 1
                                   ELSE CHOOSE c \in Calls : calls[c].file = f]
  <2>1. \A f \in Files : disk[q] # f => \E c \in Calls : calls[c].file = f
    BY <1>2, <1>3, <1>4 DEF Unused
  <2>2. \A f \in Files : disk[q] # f => g[f] \in Calls /\ calls[g[f]].file = f
    BY <2>1
  <2>3. \A f \in Files : disk[q] = f => g[f] = MaxCalls + 1
    OBVIOUS
  <2> HIDE DEF g
  <2>4. \A f \in Files : g[f] \in Slots
    BY <1>1, <2>2, <2>3 DEF Calls
  <2>5. g \in [Files -> Slots]
    BY <2>4 DEF g
  <2>6. /\ IsFiniteSet(Files) /\ Cardinality(Files) = MaxCalls + 2
        /\ IsFiniteSet(Slots) /\ Cardinality(Slots) = MaxCalls + 1
    <3>1. \A n \in Nat : n > 0 => IsFiniteSet(1..n) /\ Cardinality(1..n) = n
      <4> SUFFICES ASSUME NEW n \in Nat, n > 0
                   PROVE  IsFiniteSet(1..n) /\ Cardinality(1..n) = n
        OBVIOUS
      <4>1. 1 \in Int /\ n \in Int /\ ~(1 > n) /\ n - 1 + 1 = n
        OBVIOUS
      <4> QED BY <4>1, FS_Interval
    <3>2. MaxCalls + 2 \in Nat /\ MaxCalls + 1 \in Nat /\ MaxCalls + 2 > 0 /\ MaxCalls + 1 > 0
      BY <1>1
    <3> DEFINE k == MaxCalls + 2
               l == MaxCalls + 1
    <3>3. k \in Nat /\ k > 0 /\ Files = 1..k /\ l \in Nat /\ l > 0 /\ Slots = 1..l
      BY <3>2 DEF Files
    <3> HIDE DEF k, l, Slots
    <3>4. IsFiniteSet(Files) /\ Cardinality(Files) = k /\ IsFiniteSet(Slots) /\ Cardinality(Slots) = l
      BY <3>1, <3>3
    <3> QED BY <3>4 DEF k, l
  <2> HIDE DEF Slots
  <2>7. PICK f, h \in Files : f # h /\ g[f] = g[h]
    <3>1. Cardinality(Slots) < Cardinality(Files)
      BY <1>1, <2>6
    <3>2. IsFiniteSet(Files) /\ IsFiniteSet(Slots)
      BY <2>6
    <3> QED BY <2>5, <3>1, <3>2, FS_PigeonHole
  <2>8. MaxCalls + 1 \notin Calls
    BY <1>1 DEF Calls
  <2> QED BY <2>2, <2>3, <2>7, <2>8
<1>5. Unused \subseteq Nat /\ Unused \subseteq Files /\ Unused # {}
  BY <1>1, <1>4 DEF Unused
<1>6. \E n \in Unused : \A m \in Unused : n <= m
  <2>1. PICK n \in Unused : \A m \in Unused : ~(<<m, n>> \in OpToRel(<, Nat))
    BY <1>5, NatLessThanWellFounded, WFMin
  <2>2. \A m \in Unused : m \in Nat /\ n \in Nat /\ ~(m < n)
    BY <1>5, <2>1 DEF OpToRel
  <2> QED BY <2>2
<1>7. Min(Unused) \in Unused
  BY <1>6 DEF Min
<1> QED BY <1>7 DEF Unused

LEMMA RestKept == TypeInv /\ Elsewhere => RestOK'
BY DEF TypeInv, RestOK, Elsewhere

LEMMA StoreKept == TypeInv /\ UNCHANGED store => FilesOK'
BY DEF TypeInv, FilesOK, store

LEMMA StatusTyped ==
    ASSUME TypeInv, NEW id \in 0..MaxRows, NEW s \in RowStatuses
    PROVE  /\ UNCHANGED row => RowOK'
           /\ id # 0 /\ SetStatus(id, s) => RowOK'
           /\ id # 0 /\ TrySetStatus(id, s) => RowOK'
<1>1. UNCHANGED row => RowOK'
  BY DEF TypeInv, RowOK
<1>2. id # 0 /\ SetStatus(id, s) => RowOK'
  BY DEF TypeInv, RowOK, SetStatus, Present
<1> QED BY <1>1, <1>2 DEF TrySetStatus

LEMMA SizeTyped ==
    ASSUME TypeInv, NEW p \in Paths
    PROVE  SizeAt(p) \in Nat
<1>1. CASE Found(p)
  <2>1. disk[p] \in Files /\ content[disk[p]] \in Chunks
    BY <1>1 DEF TypeInv, FilesOK, Found
  <2> QED BY <1>1, <2>1, LenProperties DEF SizeAt, Chunks
<1>2. CASE ~Found(p)
  BY <1>2 DEF SizeAt
<1> QED BY <1>1, <1>2

\* One more of what is bounded.
LEMMA UsedUp ==
    ASSUME used \in UsedRecords
    PROVE  /\ used.queues < MaxQueues =>
                 /\ [used EXCEPT !.queues = @ + 1] \in UsedRecords
                 /\ [used EXCEPT !.queues = @ + 1].overlaps = used.overlaps
           /\ used.queues < MaxQueues /\ used.rows < MaxRows =>
                 /\ [used EXCEPT !.queues = @ + 1, !.rows = @ + 1] \in UsedRecords
                 /\ [used EXCEPT !.queues = @ + 1, !.rows = @ + 1].overlaps = used.overlaps
                 /\ used.rows + 1 \in 1..MaxRows
           /\ used.pauses < MaxPauses =>
                 /\ [used EXCEPT !.pauses = @ + 1] \in UsedRecords
                 /\ [used EXCEPT !.pauses = @ + 1].overlaps = used.overlaps
           /\ used.faults < MaxFaults =>
                 /\ [used EXCEPT !.faults = @ + 1] \in UsedRecords
                 /\ [used EXCEPT !.faults = @ + 1].overlaps = used.overlaps
<1>1. /\ used.queues \in Nat /\ used.rows \in Nat /\ used.pauses \in Nat /\ used.faults \in Nat
      /\ used.queues < MaxQueues => used.queues + 1 \in 0..MaxQueues
      /\ used.rows < MaxRows => used.rows + 1 \in 0..MaxRows /\ used.rows + 1 \in 1..MaxRows
      /\ used.pauses < MaxPauses => used.pauses + 1 \in 0..MaxPauses
      /\ used.faults < MaxFaults => used.faults + 1 \in 0..MaxFaults
  BY Constants DEF UsedRecords
<1> QED BY <1>1 DEF UsedRecords

LEMMA RequestsTyped ==
    TypeInv /\ (Queue \/ PauseRead \/ DeleteRead \/ Answer \/ Crash \/ Boot) => TypeInv'
<1> SUFFICES ASSUME TypeInv, Queue \/ PauseRead \/ DeleteRead \/ Answer \/ Crash \/ Boot
             PROVE  TypeInv'
  OBVIOUS
<1> USE Constants
<1>1. CASE Queue
  <2>1. FilesOK' /\ CallsOK'
    BY <1>1, StoreKept DEF Queue, TypeInv, CallsOK, Live
  <2>2. CASE /\ row.id # 0
             /\ row' = [row EXCEPT !.status = "queued", !.folder = "target"]
             /\ used' = Asked([used EXCEPT !.queues = @ + 1])
    <3> DEFINE u == [used EXCEPT !.queues = @ + 1]
    <3>1. u \in UsedRecords /\ u.overlaps = used.overlaps
      BY <1>1, UsedUp DEF Queue, TypeInv, RestOK
    <3> HIDE DEF u
    <3>2. used' \in UsedRecords
      BY <1>1, <2>2, <3>1, AskedTo DEF Queue, u
    <3> QED BY <1>1, <2>1, <2>2, <3>2 DEF Queue, TypeInv, RowOK, RestOK, RowStatuses, Paths
  <2>3. CASE /\ used.rows < MaxRows
             /\ row' = [id |-> used.rows + 1, status |-> "queued", folder |-> "target"]
             /\ used' = Asked([used EXCEPT !.queues = @ + 1, !.rows = @ + 1])
    <3> DEFINE u == [used EXCEPT !.queues = @ + 1, !.rows = @ + 1]
    <3>1. u \in UsedRecords /\ u.overlaps = used.overlaps /\ used.rows + 1 \in 1..MaxRows
      BY <1>1, <2>3, UsedUp DEF Queue, TypeInv, RestOK
    <3> HIDE DEF u
    <3>2. used' \in UsedRecords
      BY <1>1, <2>3, <3>1, AskedTo DEF Queue, u
    <3> QED BY <1>1, <2>1, <2>3, <3>1, <3>2 DEF Queue, TypeInv, RowOK, RestOK, RowStatuses, Paths
  <2> QED BY <1>1, <2>2, <2>3 DEF Queue
<1>2. CASE PauseRead
  BY <1>2, StoreKept, UsedUp DEF PauseRead, TypeInv, RowOK, CallsOK, RestOK, Live
<1>3. CASE DeleteRead
  BY <1>3, StoreKept DEF DeleteRead, TypeInv, RowOK, CallsOK, RestOK, Live
<1>4. CASE PauseWrite
  <2>1. RowOK'
    BY <1>4, StatusTyped DEF PauseWrite, TypeInv, RestOK, RowStatuses
  <2> QED BY <1>4, <2>1, StoreKept DEF PauseWrite, TypeInv, CallsOK, RestOK, Live
<1>5. CASE DeleteRow
  <2>1. CASE Present(deleting.id)
    BY <1>5, <2>1, StoreKept DEF DeleteRow, TypeInv, RowOK, CallsOK, RestOK, Live, NoRow
  <2>2. CASE ~Present(deleting.id)
    BY <1>5, <2>2, StoreKept DEF DeleteRow, TypeInv, RowOK, CallsOK, RestOK, Live
  <2> QED BY <2>1, <2>2
<1>6. CASE DeleteFile
  BY <1>6 DEF DeleteFile, TypeInv, RowOK, FilesOK, CallsOK, RestOK, Live
<1>7. CASE Crash
  <2>1. \A c \in Calls : calls'[c] = NoCall
    BY <1>7 DEF Crash
  <2>2. CallsOK'
    <3>1. calls' \in [Calls -> CallRecords]
      BY <1>7 DEF Crash
    <3> QED BY <2>1, <3>1 DEF CallsOK, Live, NoCall
  <2>3. RestOK'
    BY <1>7, UsedUp DEF Crash, TypeInv, RestOK
  <2> QED BY <1>7, <2>2, <2>3, StoreKept DEF Crash, TypeInv, RowOK
<1>8. CASE Boot
  <2>1. RowOK' /\ FilesOK' /\ RestOK'
    BY <1>8, StoreKept DEF Boot, TypeInv, RowOK, RestOK
  <2>2. CASE Interrupted
    <3>1. 1 \in Calls /\ row.id \in 0..MaxRows /\ row.id # 0
      BY <2>2, Bounds DEF Calls, Interrupted, TypeInv, RowOK
    <3> QED BY <1>8, <2>1, <2>2, <3>1, BeginTo DEF Boot, TypeInv
  <2>3. CASE ~Interrupted
    BY <1>8, <2>1, <2>3 DEF Boot, TypeInv, CallsOK, Live
  <2> QED BY <2>2, <2>3
<1> QED BY <1>1, <1>2, <1>3, <1>4, <1>5, <1>6, <1>7, <1>8 DEF Answer

LEMMA StartTyped ==
    ASSUME TypeInv, NEW c \in Calls, Start(c)
    PROVE  TypeInv'
<1>1. row.id \in 0..MaxRows /\ used \in UsedRecords
  BY DEF TypeInv, RowOK, RestOK
<1>2. CallsOK'
  BY <1>1, BeginTo DEF Start
<1>3. used' \in UsedRecords
  BY <1>1, AskedTo DEF Start
<1> QED BY <1>2, <1>3, StoreKept DEF Start, TypeInv, RowOK, RestOK

\* The file a writer opens, and what it holds then.
LEMMA OpenTyped ==
    ASSUME TypeInv, NEW c \in Calls, Open(c)
    PROVE  TypeInv' /\ calls'[c].file \in Files
<1> DEFINE p == calls[c].folder
           f == IF Found(p) THEN disk[p] ELSE Min(Unused)
           s == IF Found(p) THEN content[f] ELSE <<>>
           x == [calls[c] EXCEPT !.at = "pump", !.file = f]
<1>1. p \in Paths /\ calls[c] \in CallRecords /\ Live(c) /\ calls[c].id # 0
  BY Steps DEF Open, CallAt, Live, TypeInv, CallsOK, CallRecords
<1>2. f \in Files
  BY <1>1, FreshFile DEF TypeInv, FilesOK, Found
<1>3. <<>> \in Chunks
  BY DEF Chunks
<1>4. Opened(c, s) \in Chunks
  BY <1>1, <1>2, <1>3 DEF Opened, TypeInv, FilesOK
<1>5. /\ disk' = [disk EXCEPT ![p] = f] /\ content' = [content EXCEPT ![f] = Opened(c, s)]
      /\ calls' = [calls EXCEPT ![c].at = "pump", ![c].file = f]
  BY DEF Open
<1> HIDE DEF f, s
<1>6. FilesOK'
  BY <1>1, <1>2, <1>4, <1>5 DEF TypeInv, FilesOK
<1>7. x \in CallRecords /\ x.id # 0 /\ calls' = [calls EXCEPT ![c] = x] /\ x.file = f
  BY <1>1, <1>2, <1>5 DEF CallRecords, CallPoints
<1> HIDE DEF x
<1>8. CallsOK' /\ calls'[c] = x
  BY <1>7, Replaced
<1>9. RowOK' /\ RestOK'
  BY DEF Open, TypeInv, RowOK, RestOK
<1> QED BY <1>2, <1>6, <1>7, <1>8, <1>9 DEF TypeInv

LEMMA PumpTyped ==
    ASSUME TypeInv, NEW c \in Calls, Pump(c)
    PROVE  /\ TypeInv'
           /\ calls[c].got + 1 \in 1..Size /\ NextChunk(c) \in 1..Size
<1> DEFINE f == calls[c].file
           x == [calls[c] EXCEPT !.got = @ + 1]
<1>1. calls[c] \in CallRecords /\ Live(c) /\ calls[c].id # 0
  BY Steps DEF Pump, CallAt, Live, TypeInv, CallsOK
<1>2. calls[c].got + 1 \in 1..Size /\ NextChunk(c) \in 1..Size
  <2>1. calls[c].from \in Nat /\ calls[c].got \in Nat /\ calls[c].from + calls[c].got < Size
    BY <1>1, Bounds DEF CallRecords, Pump
  <2> QED BY <2>1, Bounds DEF NextChunk
<1>3. FilesOK'
  <2>1. \A g \in Files : content[g] \in Chunks
    BY DEF TypeInv, FilesOK
  <2>2. \A g \in Files : /\ Append(content[g], NextChunk(c)) \in Chunks
                         /\ Put(content[g], calls[c].got + 1, NextChunk(c)) \in Chunks
    <3>1. NextChunk(c) \in 0..Size /\ calls[c].got + 1 \in Nat \ {0}
      BY <1>2, Bounds
    <3> HIDE DEF NextChunk
    <3> QED BY <2>1, <3>1, PutTyped, AppendProperties DEF Chunks
  <2>3. UNCHANGED disk
    BY DEF Pump
  <2> DEFINE y == IF calls[c].from > 0 THEN Append(content[f], NextChunk(c))
                                       ELSE Put(content[f], calls[c].got + 1, NextChunk(c))
  <2>4. content' = [content EXCEPT ![f] = y]
    BY DEF Pump
  <2>5. f \in Files => y \in Chunks
    BY <2>2
  <2> HIDE DEF y
  <2> QED BY <2>3, <2>4, <2>5 DEF TypeInv, FilesOK
<1>4. CallsOK'
  <2>1. CASE calls' = [calls EXCEPT ![c].got = @ + 1]
    <3>1. x \in CallRecords /\ x.id # 0 /\ calls' = [calls EXCEPT ![c] = x]
      BY <1>1, <1>2, <2>1 DEF CallRecords
    <3> HIDE DEF x
    <3> QED BY <3>1, Replaced
  <2>2. CASE Step(c, "fail")
    BY <1>1, <2>2, StepTo DEF CallPoints
  <2> QED BY <2>1, <2>2 DEF Pump
<1>5. RowOK' /\ RestOK'
  BY RestKept DEF Pump, TypeInv, RowOK
<1> QED BY <1>2, <1>3, <1>4, <1>5 DEF TypeInv

LEMMA TransferTyped ==
    ASSUME TypeInv, NEW c \in Calls, Transfer(c)
    PROVE  TypeInv'
<1>1. calls[c] \in CallRecords /\ (Live(c) => calls[c].id # 0 /\ calls[c].id \in 0..MaxRows)
  BY Steps DEF TypeInv, CallsOK, CallRecords
<1>2. CASE ReadRow(c)
  <2>1. CASE Over(c)
    BY <1>2, <2>1, OverTo, RestKept, StoreKept DEF ReadRow, TypeInv, RowOK
  <2>2. CASE ~Over(c)
    <3> DEFINE x == [calls[c] EXCEPT !.at = "mark", !.folder = row.folder]
    <3>1. Live(c)
      BY <1>2 DEF ReadRow, CallAt, Live
    <3>2. x \in CallRecords /\ x.id # 0 /\ calls' = [calls EXCEPT ![c] = x]
      BY <1>1, <1>2, <2>2, <3>1 DEF ReadRow, CallRecords, CallPoints, TypeInv, RowOK
    <3> HIDE DEF x
    <3> QED BY <1>2, <3>2, Replaced, RestKept, StoreKept DEF ReadRow, TypeInv, RowOK
  <2> QED BY <2>1, <2>2
<1>3. CASE Mark(c)
  <2>1. Live(c) /\ CallsOK'
    BY <1>3, StepTo DEF Mark, CallAt, Live, CallPoints
  <2>2. RowOK'
    BY <1>1, <1>3, <2>1, StatusTyped DEF Mark, RowStatuses
  <2> QED BY <1>3, <2>1, <2>2, RestKept, StoreKept DEF Mark, TypeInv
<1>4. CASE Stat(c)
  <2> DEFINE n == SizeAt(calls[c].folder)
             x == [calls[c] EXCEPT !.at = "fetch", !.from = n]
  <2>1. n \in Nat
    BY <1>1, SizeTyped DEF CallRecords
  <2>2. calls' = [calls EXCEPT ![c] = x] /\ Live(c)
    BY <1>4 DEF Stat, CallAt, Live
  <2> HIDE DEF n
  <2>3. x \in CallRecords /\ x.id # 0
    BY <1>1, <2>1, <2>2 DEF CallRecords, CallPoints
  <2> HIDE DEF x
  <2> QED BY <1>4, <2>2, <2>3, Replaced, RestKept, StoreKept DEF Stat, TypeInv, RowOK
<1>5. CASE Fetch(c)
  BY <1>5, StepTo, RestKept, StoreKept DEF Fetch, CallAt, Live, CallPoints, TypeInv, RowOK
<1>6. CASE Total(c)
  BY <1>6, StepTo, RestKept, StoreKept DEF Total, CallAt, Live, CallPoints, TypeInv, RowOK
<1>7. CASE PumpEnds(c)
  <2> DEFINE p == IF calls[c].folder = "target" THEN "inspect" ELSE "finish"
             x == [calls[c] EXCEPT !.at = p, !.file = 0]
  <2>1. x \in CallRecords /\ x.id # 0 /\ calls' = [calls EXCEPT ![c] = x]
    BY <1>1, <1>7 DEF PumpEnds, CallAt, Live, CallRecords, CallPoints
  <2> HIDE DEF x
  <2> QED BY <1>7, <2>1, Replaced, RestKept, StoreKept DEF PumpEnds, TypeInv, RowOK
<1>8. CASE Inspect(c)
  BY <1>8, StepTo, RestKept, StoreKept DEF Inspect, CallAt, Live, CallPoints, TypeInv, RowOK
<1>9. CASE Move(c)
  <2>1. RowOK' /\ RestOK' /\ Live(c)
    BY <1>9, RestKept DEF Move, TypeInv, RowOK, CallAt, Live
  <2>2. CASE Found("target")
    <3> DEFINE x == [calls[c] EXCEPT !.at = "finish", !.folder = "proper"]
    <3>1. x \in CallRecords /\ x.id # 0 /\ calls' = [calls EXCEPT ![c] = x]
      BY <1>1, <1>9, <2>1, <2>2 DEF Move, CallRecords, CallPoints, Paths
    <3>2. FilesOK'
      BY <1>9, <2>2 DEF Move, TypeInv, FilesOK, Paths
    <3> HIDE DEF x
    <3> QED BY <2>1, <3>1, <3>2, Replaced DEF TypeInv
  <2>3. CASE ~Found("target")
    BY <1>9, <2>1, <2>3, StepTo, StoreKept DEF Move, CallPoints, TypeInv, store
  <2> QED BY <2>2, <2>3
<1>10. CASE Finish(c)
  <2>1. FilesOK' /\ RestOK' /\ Live(c)
    BY <1>10, RestKept, StoreKept DEF Finish, CallAt, Live
  <2>2. CASE Present(calls[c].id)
    BY <1>1, <1>10, <2>1, <2>2, OverTo DEF Finish, TypeInv, RowOK, RowStatuses, CallRecords, Present
  <2>3. CASE ~Present(calls[c].id)
    BY <1>10, <2>1, <2>3, StepTo DEF Finish, TypeInv, RowOK, CallPoints
  <2> QED BY <2>2, <2>3
<1>11. CASE Already(c)
  <2>1. FilesOK' /\ RestOK' /\ Live(c)
    BY <1>11, RestKept, StoreKept DEF Already, CallAt, Live
  <2>2. RowOK'
    BY <1>1, <1>11, <2>1, StatusTyped DEF Already, RowStatuses
  <2> QED BY <1>11, <2>1, <2>2, OverTo, StepTo DEF Already, TypeInv, CallPoints
<1>12. CASE Fail(c)
  <2>1. FilesOK' /\ RestOK' /\ Live(c)
    BY <1>12, RestKept, StoreKept DEF Fail, CallAt, Live
  <2>2. RowOK'
    BY <1>1, <1>12, <2>1, StatusTyped DEF Fail, RowStatuses
  <2> QED BY <1>12, <2>1, <2>2, OverTo DEF Fail, TypeInv
<1> QED BY <1>2, <1>3, <1>4, <1>5, <1>6, <1>7, <1>8, <1>9, <1>10, <1>11, <1>12,
          OpenTyped, PumpTyped DEF Transfer

LEMMA FaultTyped ==
    ASSUME TypeInv, NEW c \in Calls, Break(c) \/ FailUnsaved(c)
    PROVE  TypeInv'
<1>1. used' \in UsedRecords /\ past' \in [torn: BOOLEAN, unsaved: BOOLEAN]
  BY UsedUp DEF Break, FailUnsaved, TypeInv, RestOK
<1>2. RestOK' /\ RowOK' /\ FilesOK'
  BY <1>1, StoreKept DEF Break, FailUnsaved, TypeInv, RestOK, RowOK
<1>3. CallsOK'
  BY StepTo, OverTo DEF Break, FailUnsaved, Trying, Live, CallPoints
<1> QED BY <1>2, <1>3 DEF TypeInv

LEMMA TypeStep == TypeInv /\ [Next]_vars => TypeInv'
<1> SUFFICES ASSUME TypeInv, [Next]_vars PROVE TypeInv'
  OBVIOUS
<1>1. CASE UNCHANGED vars
  BY <1>1 DEF vars, store, TypeInv, RowOK, FilesOK, CallsOK, RestOK, Live
<1> QED BY <1>1, RequestsTyped, StartTyped, TransferTyped, FaultTyped DEF Next

\* Every variable keeps its type, whatever overlaps: writers that hold a file
\* whose path is gone included, and a new file finds a free identity.
THEOREM TypeCorrect == Spec => []TypeOK
<1>1. Spec => []TypeInv
  BY TypeInit, TypeStep, PTL DEF Spec
<1> QED BY <1>1, TypeImplied, PTL

-----------------------------------------------------------------------------
(* Without overlapping requests: one call at a time *)

Clean == used.overlaps = 0

\* One call, none while the app is down; a deletion about to remove the file
\* leaves no row.
Patience ==
    /\ \A c, d \in Calls : Live(c) /\ Live(d) => c = d
    /\ ~appUp => deleting.at = "off" /\ \A c \in Calls : ~Live(c)
    /\ deleting.at = "file" => row.id = 0

\* The file did not change since the call looked, unless it is gone, and a writer
\* that began at the beginning wrote all that its file holds.
Looked(c) ==
    /\ calls[c].at \in {"read", "mark", "stat", "fetch", "total", "open"} => calls[c].got = 0
    /\ calls[c].at \in {"fetch", "total", "open", "already"} /\ Found(calls[c].folder) =>
          calls[c].from = SizeAt(calls[c].folder)
    /\ calls[c].at = "pump" =>
          /\ calls[c].file # 0
          /\ calls[c].from = 0 => Len(content[calls[c].file]) = calls[c].got

QuietInv == Patience /\ \A c \in Calls : Live(c) => Looked(c)

LEMMA QuietInit == Init => QuietInv
BY DEF Init, QuietInv, Patience, Live, NoCall, NoDelete

\* The only call moves on.
LEMMA QuietCall ==
    ASSUME QuietInv, NEW c \in Calls, Live(c),
           \A d \in Calls : d # c => calls'[d] = calls[d],
           UNCHANGED <<deleting, appUp>>, row'.id = row.id,
           Live(c)' => Looked(c)'
    PROVE  QuietInv'
<1>1. \A d \in Calls : d # c => ~Live(d)'
  BY DEF QuietInv, Patience, Live
<1>2. appUp
  BY DEF QuietInv, Patience
<1>3. Patience'
  BY <1>1, <1>2 DEF QuietInv, Patience
<1> QED BY <1>1, <1>3 DEF QuietInv

\* A call begins where there was none.
LEMMA QuietBegin ==
    ASSUME QuietInv, TypeInv, NEW c \in Calls, NEW id \in 0..MaxRows, id # 0, Begin(c, id),
           \A d \in Calls : ~Live(d), deleting.at # "file",
           UNCHANGED deleting, appUp'
    PROVE  QuietInv'
<1>1. /\ calls'[c].at = "read" /\ calls'[c].got = 0
      /\ \A d \in Calls : d # c => calls'[d] = calls[d]
  BY BeginTo
<1>2. \A d \in Calls : d # c => ~Live(d)'
  BY <1>1 DEF Live
<1>3. Looked(c)'
  BY <1>1 DEF Looked
<1> QED BY <1>2, <1>3 DEF QuietInv, Patience

\* Only a request counts as an overlap.
LEMMA OverlapsKept ==
    ASSUME TypeInv,
           \/ PauseRead \/ DeleteRead \/ Answer \/ Crash \/ Boot
           \/ \E c \in Calls : Transfer(c) \/ Break(c) \/ FailUnsaved(c)
    PROVE  used'.overlaps = used.overlaps
<1>1. /\ [used EXCEPT !.pauses = @ + 1].overlaps = used.overlaps
      /\ [used EXCEPT !.faults = @ + 1].overlaps = used.overlaps
  BY DEF TypeInv, RestOK, UsedRecords
<1>2. PauseRead => used' = [used EXCEPT !.pauses = @ + 1]
  BY DEF PauseRead
<1>3. Crash => used' = [used EXCEPT !.faults = @ + 1]
  BY DEF Crash
<1>4. \A c \in Calls : Break(c) \/ FailUnsaved(c) => used' = [used EXCEPT !.faults = @ + 1]
  BY DEF Break, FailUnsaved
<1>5. DeleteRead \/ Answer \/ Boot => UNCHANGED used
  BY DEF DeleteRead, Answer, PauseWrite, DeleteRow, DeleteFile, Boot
<1>6. \A c \in Calls : Transfer(c) => UNCHANGED used
  BY DEF Transfer, ReadRow, Mark, Stat, Fetch, Total, Open, Pump, PumpEnds, Inspect, Move,
         Finish, Already, Fail, Elsewhere
<1> QED BY <1>1, <1>2, <1>3, <1>4, <1>5, <1>6

LEMMA QuietRequests ==
    ASSUME TypeInv, QuietInv, Clean',
           Queue \/ PauseRead \/ DeleteRead \/ Answer \/ Crash \/ Boot
    PROVE  QuietInv' /\ Clean
<1>1. CASE Queue
  <2>1. PICK u \in UsedRecords : u.overlaps = used.overlaps /\ used' = Asked(u)
    BY <1>1, UsedUp DEF Queue, TypeInv, RestOK
  <2>2. Clean /\ ~Busy
    BY <1>1, <2>1, AskedTo DEF Queue, Clean
  <2>3. UNCHANGED <<calls, deleting, appUp>>
    BY <1>1 DEF Queue
  <2>4. \A c \in Calls : ~Live(c)'
    BY <2>2, <2>3 DEF Busy, Live
  <2>5. deleting.at # "file" /\ deleting'.at # "file"
    BY <2>2, <2>3 DEF Busy
  <2>6. Patience'
    BY <2>3, <2>4, <2>5 DEF QuietInv, Patience
  <2> QED BY <2>2, <2>4, <2>6 DEF QuietInv
<1>2. CASE PauseRead \/ DeleteRead
  <2>1. Clean
    BY <1>2, OverlapsKept DEF Clean
  <2>2. UNCHANGED <<row, calls, disk, content, appUp>>
    BY <1>2 DEF PauseRead, DeleteRead, store
  <2>3. \A c \in Calls : Live(c)' = Live(c) /\ Looked(c)' = Looked(c)
    BY <2>2 DEF Live, Looked, Found, SizeAt
  <2>4. Patience'
    BY <1>2, <2>2, <2>3 DEF PauseRead, DeleteRead, QuietInv, Patience
  <2> QED BY <2>1, <2>3, <2>4 DEF QuietInv
<1>3. CASE PauseWrite \/ DeleteRow
  <2>1. Clean
    BY <1>3 DEF PauseWrite, DeleteRow, Clean
  <2>2. UNCHANGED <<calls, disk, content, appUp>> /\ appUp
    BY <1>3 DEF PauseWrite, DeleteRow, store
  <2>3. \A c \in Calls : Live(c)' = Live(c) /\ Looked(c)' = Looked(c)
    BY <2>2 DEF Live, Looked, Found, SizeAt
  <2>4. deleting'.at = "file" => row'.id = 0
    BY <1>3 DEF PauseWrite, DeleteRow, TrySetStatus, SetStatus, NoRow, NoDelete, QuietInv,
                Patience, TypeInv, RowOK, RestOK
  <2> QED BY <2>1, <2>2, <2>3, <2>4 DEF QuietInv, Patience
<1>4. CASE DeleteFile
  <2>1. Clean /\ UNCHANGED <<row, content, calls, appUp>> /\ deleting'.at = "off"
        /\ disk' = [disk EXCEPT ![deleting.folder] = 0]
    BY <1>4 DEF DeleteFile, Clean, NoDelete
  <2>2. \A p \in Paths : Found(p)' => Found(p) /\ SizeAt(p)' = SizeAt(p)
    BY <2>1 DEF Found, SizeAt, TypeInv, FilesOK
  <2>3. ASSUME NEW c \in Calls PROVE Live(c)' = Live(c) /\ (Looked(c) => Looked(c)')
    <3>1. calls[c].folder \in Paths
      BY DEF TypeInv, CallsOK, CallRecords
    <3> QED BY <2>1, <2>2, <3>1 DEF Live, Looked
  <2> QED BY <2>1, <2>3 DEF QuietInv, Patience
<1>5. CASE Crash
  <2>1. Clean
    BY <1>5, OverlapsKept DEF Clean
  <2>2. \A c \in Calls : ~Live(c)'
    BY <1>5 DEF Crash, Live, NoCall
  <2> QED BY <1>5, <2>1, <2>2 DEF Crash, QuietInv, Patience, NoDelete
<1>6. CASE Boot
  <2>1. Clean /\ deleting.at = "off" /\ (\A c \in Calls : ~Live(c)) /\ appUp' /\ UNCHANGED deleting
    BY <1>6 DEF Boot, Clean, QuietInv, Patience
  <2>2. CASE Interrupted
    <3>1. 1 \in Calls /\ row.id \in 0..MaxRows /\ row.id # 0
      BY <2>2, Bounds DEF Calls, Interrupted, TypeInv, RowOK
    <3> QED BY <1>6, <2>1, <2>2, <3>1, QuietBegin DEF Boot
  <2>3. CASE ~Interrupted
    BY <1>6, <2>1, <2>3 DEF Boot, QuietInv, Patience, Live
  <2> QED BY <2>2, <2>3
<1> QED BY <1>1, <1>2, <1>3, <1>4, <1>5, <1>6 DEF Answer

LEMMA QuietStart ==
    ASSUME TypeInv, QuietInv, Clean', NEW c \in Calls, Start(c)
    PROVE  QuietInv' /\ Clean /\ ~Busy
<1>1. row.id \in 0..MaxRows /\ used \in UsedRecords
  BY DEF TypeInv, RowOK, RestOK
<1>2. Clean /\ ~Busy
  BY <1>1, AskedTo DEF Start, Clean
<1> QED BY <1>1, <1>2, QuietBegin DEF Start, Busy

\* A step of the call that leaves files alone and sends it to p.
LEMMA QuietGoes ==
    ASSUME TypeInv, QuietInv, NEW c \in Calls, Live(c), NEW p \in CallPoints, Step(c, p),
           UNCHANGED <<disk, content, deleting, appUp>>, row'.id = row.id,
           p = "stat" => calls[c].at = "mark",
           p = "open" => calls[c].at = "total",
           p \in {"total", "already"} => calls[c].at = "fetch",
           p \notin {"read", "mark", "fetch", "pump"}
    PROVE  QuietInv'
<1>1. /\ calls'[c].at = p /\ calls'[c].folder = calls[c].folder
      /\ calls'[c].from = calls[c].from /\ calls'[c].got = calls[c].got
      /\ \A d \in Calls : d # c => calls'[d] = calls[d]
  BY StepTo
<1>2. Looked(c)
  BY DEF QuietInv
<1>3. Looked(c)'
  BY <1>1, <1>2 DEF Looked, Found, SizeAt
<1> QED BY <1>1, <1>3, QuietCall

LEMMA QuietOver ==
    ASSUME TypeInv, QuietInv, NEW c \in Calls, Live(c), Over(c),
           UNCHANGED <<deleting, appUp>>, row'.id = row.id
    PROVE  QuietInv'
BY OverTo, QuietCall DEF Live

LEMMA QuietOpen ==
    ASSUME TypeInv, QuietInv, NEW c \in Calls, Open(c)
    PROVE  QuietInv'
<1>1. /\ Live(c) /\ calls[c].at = "open" /\ calls[c] \in CallRecords /\ Looked(c)
      /\ UNCHANGED <<row, deleting, appUp>>
  BY Steps DEF Open, CallAt, Live, QuietInv
<1> DEFINE p == calls[c].folder
           f == IF Found(p) THEN disk[p] ELSE Min(Unused)
           s == IF Found(p) THEN content[f] ELSE <<>>
           x == [calls[c] EXCEPT !.at = "pump", !.file = f]
<1>2. p \in Paths /\ f \in Files /\ f # 0 /\ 0 \notin Files
  BY <1>1, FreshFile DEF TypeInv, FilesOK, Found, CallRecords, Files
<1>3. calls' = [calls EXCEPT ![c] = x] /\ content' = [content EXCEPT ![f] = Opened(c, s)]
  BY DEF Open
<1> HIDE DEF f, s
<1>4. calls'[c] = x /\ \A d \in Calls : d # c => calls'[d] = calls[d]
  BY <1>3 DEF TypeInv, CallsOK
<1>5. x.at = "pump" /\ x.file = f /\ x.from = calls[c].from /\ x.got = calls[c].got
  BY <1>1 DEF CallRecords
<1>6. calls[c].from = 0 => content'[f] = <<>>
  BY <1>2, <1>3 DEF Opened, TypeInv, FilesOK
<1> HIDE DEF x
<1>7. Looked(c)'
  BY <1>1, <1>2, <1>4, <1>5, <1>6 DEF Looked
<1> QED BY <1>1, <1>4, <1>7, QuietCall

\* What a chunk does to the file of the only writer.
LEMMA PumpAppends ==
    ASSUME TypeInv, QuietInv, NEW c \in Calls, Pump(c)
    PROVE  /\ calls[c].file \in Files /\ UNCHANGED disk
           /\ content' = [content EXCEPT ![calls[c].file] =
                             Append(content[calls[c].file], NextChunk(c))]
<1> DEFINE f == calls[c].file
<1>1. calls[c] \in CallRecords /\ Live(c) /\ Looked(c) /\ calls[c].at = "pump"
  BY Steps DEF Pump, CallAt, Live, QuietInv
<1>2. f \in Files /\ content[f] \in Chunks
  BY <1>1 DEF CallRecords, Looked, TypeInv, FilesOK
<1>3. NextChunk(c) \in 0..Size
  BY PumpTyped, Bounds
<1>4. CASE calls[c].from > 0
  BY <1>2, <1>4 DEF Pump
<1>5. CASE ~(calls[c].from > 0)
  <2>1. calls[c].from = 0 /\ Len(content[f]) = calls[c].got
    BY <1>1, <1>5 DEF CallRecords, Looked
  <2> HIDE DEF NextChunk
  <2>2. Put(content[f], calls[c].got + 1, NextChunk(c)) = Append(content[f], NextChunk(c))
    BY <1>2, <1>3, <2>1, PutAtEnd DEF Chunks
  <2> QED BY <1>2, <1>5, <2>2 DEF Pump
<1> QED BY <1>4, <1>5

LEMMA QuietPump ==
    ASSUME TypeInv, QuietInv, NEW c \in Calls, Pump(c)
    PROVE  QuietInv'
<1> DEFINE f == calls[c].file
           x == [calls[c] EXCEPT !.got = @ + 1]
<1>1. /\ calls[c] \in CallRecords /\ Live(c) /\ Looked(c) /\ calls[c].at = "pump"
      /\ UNCHANGED <<row, deleting, appUp>>
  BY Steps DEF Pump, CallAt, Live, QuietInv, Elsewhere
<1>2. CASE calls' = [calls EXCEPT ![c].got = @ + 1]
  <2>1. calls' = [calls EXCEPT ![c] = x]
    BY <1>2
  <2>2. x.at = "pump" /\ x.file = f /\ x.from = calls[c].from /\ x.got = calls[c].got + 1
    BY <1>1 DEF CallRecords
  <2>3. calls'[c] = x /\ \A d \in Calls : d # c => calls'[d] = calls[d]
    BY <2>1 DEF TypeInv, CallsOK
  <2>4. f \in Files /\ content[f] \in Chunks /\ content'[f] = Append(content[f], NextChunk(c))
    BY PumpAppends DEF TypeInv, FilesOK
  <2>5. Len(content'[f]) = Len(content[f]) + 1
    <3>1. NextChunk(c) \in 0..Size
      BY PumpTyped, Bounds
    <3> QED BY <2>4, <3>1, AppendProperties DEF Chunks
  <2> HIDE DEF x
  <2>6. Looked(c)'
    BY <1>1, <2>2, <2>3, <2>5 DEF Looked
  <2> QED BY <1>1, <2>3, <2>6, QuietCall
<1>3. CASE Step(c, "fail")
  <2>1. calls'[c].at = "fail" /\ \A d \in Calls : d # c => calls'[d] = calls[d]
    BY <1>1, <1>3, StepTo DEF CallPoints
  <2>2. Looked(c)'
    BY <2>1 DEF Looked
  <2> QED BY <1>1, <2>1, <2>2, QuietCall
<1> QED BY <1>2, <1>3 DEF Pump

LEMMA QuietTransfer ==
    ASSUME TypeInv, QuietInv, NEW c \in Calls, Transfer(c)
    PROVE  QuietInv'
<1>1. ReadRow(c) \/ Mark(c) \/ Stat(c) \/ Fetch(c) \/ Total(c) \/ PumpEnds(c) \/ Inspect(c)
         \/ Move(c) \/ Finish(c) \/ Already(c) \/ Fail(c) => Live(c) /\ UNCHANGED <<deleting, appUp>>
  BY DEF ReadRow, Mark, Stat, Fetch, Total, PumpEnds, Inspect, Move, Finish, Already, Fail,
         CallAt, Live, Elsewhere
<1>2. calls[c] \in CallRecords /\ (Live(c) => Looked(c))
  BY Steps DEF QuietInv
<1>3. CASE ReadRow(c)
  <2>1. CASE Over(c)
    BY <1>1, <1>3, <2>1, QuietOver DEF ReadRow
  <2>2. CASE ~Over(c)
    <3> DEFINE x == [calls[c] EXCEPT !.at = "mark", !.folder = row.folder]
    <3>1. calls' = [calls EXCEPT ![c] = x]
      BY <1>3, <2>2 DEF ReadRow
    <3>2. x.at = "mark" /\ x.got = calls[c].got /\ calls[c].at = "read"
      BY <1>2, <1>3 DEF CallRecords, ReadRow, CallAt
    <3>3. calls'[c] = x /\ \A d \in Calls : d # c => calls'[d] = calls[d]
      BY <3>1 DEF TypeInv, CallsOK
    <3> HIDE DEF x
    <3>4. Looked(c)'
      BY <1>1, <1>2, <1>3, <3>2, <3>3 DEF Looked
    <3> QED BY <1>1, <1>3, <3>3, <3>4, QuietCall DEF ReadRow
  <2> QED BY <2>1, <2>2
<1>4. CASE Mark(c)
  <2>1. row'.id = row.id
    BY <1>4 DEF Mark, SetStatus, TypeInv, RowOK
  <2> QED BY <1>1, <1>4, <2>1, QuietGoes DEF Mark, CallAt, CallPoints, store
<1>5. CASE Stat(c)
  <2> DEFINE n == SizeAt(calls[c].folder)
             x == [calls[c] EXCEPT !.at = "fetch", !.from = n]
  <2>1. calls' = [calls EXCEPT ![c] = x] /\ UNCHANGED <<disk, content>> /\ calls[c].at = "stat"
    BY <1>5 DEF Stat, store, CallAt
  <2>2. /\ x.at = "fetch" /\ x.from = n /\ x.got = calls[c].got /\ x.folder = calls[c].folder
    BY <1>2 DEF CallRecords
  <2>3. calls'[c] = x /\ \A d \in Calls : d # c => calls'[d] = calls[d]
    BY <2>1 DEF TypeInv, CallsOK
  <2>4. SizeAt(calls[c].folder)' = n
    BY <2>1, <2>2, <2>3 DEF SizeAt, Found
  <2> HIDE DEF x, n
  <2>5. Looked(c)'
    BY <1>1, <1>2, <1>5, <2>1, <2>2, <2>3, <2>4 DEF Looked
  <2> QED BY <1>1, <1>5, <2>3, <2>5, QuietCall DEF Stat
<1>6. CASE Fetch(c)
  <2>1. PICK p \in {"already", "total"} : Step(c, p)
    BY <1>6 DEF Fetch
  <2> QED BY <1>1, <1>6, <2>1, QuietGoes DEF Fetch, CallAt, CallPoints, store
<1>7. CASE Total(c)
  <2>1. PICK p \in {"open", "fail"} : Step(c, p)
    BY <1>7 DEF Total
  <2> QED BY <1>1, <1>7, <2>1, QuietGoes DEF Total, CallAt, CallPoints, store
<1>8. CASE PumpEnds(c)
  <2> DEFINE p == IF calls[c].folder = "target" THEN "inspect" ELSE "finish"
             x == [calls[c] EXCEPT !.at = p, !.file = 0]
  <2>1. calls' = [calls EXCEPT ![c] = x] /\ x.at = p
    BY <1>2, <1>8 DEF PumpEnds, CallRecords
  <2>2. calls'[c] = x /\ \A d \in Calls : d # c => calls'[d] = calls[d]
    BY <2>1 DEF TypeInv, CallsOK
  <2> HIDE DEF x
  <2>3. Looked(c)'
    BY <2>1, <2>2 DEF Looked
  <2> QED BY <1>1, <1>8, <2>2, <2>3, QuietCall DEF PumpEnds
<1>9. CASE Inspect(c)
  <2>1. PICK p \in {"move", "finish"} : Step(c, p)
    BY <1>9 DEF Inspect
  <2> QED BY <1>1, <1>9, <2>1, QuietGoes DEF Inspect, CallAt, CallPoints, store
<1>10. CASE Move(c)
  <2>1. calls'[c].at = "finish" /\ \A d \in Calls : d # c => calls'[d] = calls[d]
    <3>1. CASE Found("target")
      <4> DEFINE x == [calls[c] EXCEPT !.at = "finish", !.folder = "proper"]
      <4>1. calls' = [calls EXCEPT ![c] = x] /\ x.at = "finish"
        BY <1>2, <1>10, <3>1 DEF Move, CallRecords
      <4> HIDE DEF x
      <4> QED BY <4>1 DEF TypeInv, CallsOK
    <3>2. CASE ~Found("target")
      BY <1>1, <1>10, <3>2, StepTo DEF Move, CallPoints
    <3> QED BY <3>1, <3>2
  <2>2. Looked(c)'
    BY <2>1 DEF Looked
  <2> QED BY <1>1, <1>10, <2>1, <2>2, QuietCall DEF Move
<1>11. CASE Finish(c)
  <2>1. row'.id = row.id
    BY <1>11 DEF Finish, TypeInv, RowOK
  <2> QED BY <1>1, <1>11, <2>1, QuietGoes, QuietOver DEF Finish, CallAt, CallPoints, store
<1>12. CASE Already(c)
  <2>1. row'.id = row.id
    BY <1>12 DEF Already, SetStatus, TypeInv, RowOK
  <2> QED BY <1>1, <1>12, <2>1, QuietGoes, QuietOver DEF Already, CallAt, CallPoints, store
<1>13. CASE Fail(c)
  <2>1. row'.id = row.id
    BY <1>13 DEF Fail, TrySetStatus, SetStatus, TypeInv, RowOK
  <2> QED BY <1>1, <1>13, <2>1, QuietOver DEF Fail
<1> QED BY <1>3, <1>4, <1>5, <1>6, <1>7, <1>8, <1>9, <1>10, <1>11, <1>12, <1>13,
          QuietOpen, QuietPump DEF Transfer

LEMMA QuietStep == TypeInv /\ (Clean => QuietInv) /\ [Next]_vars => (Clean' => QuietInv' /\ Clean)
<1> SUFFICES ASSUME TypeInv, Clean => QuietInv, [Next]_vars, Clean'
             PROVE  QuietInv' /\ Clean
  OBVIOUS
<1>1. used \in UsedRecords
  BY DEF TypeInv, RestOK
<1>2. Clean
  <2>1. CASE UNCHANGED vars
    BY <2>1 DEF vars, Clean
  <2>2. CASE Queue
    <3>1. PICK u \in UsedRecords : u.overlaps = used.overlaps /\ used' = Asked(u)
      BY <1>1, <2>2, UsedUp DEF Queue
    <3> QED BY <2>2, <3>1, AskedTo DEF Queue, Clean
  <2>3. CASE \E c \in Calls : Start(c)
    BY <1>1, <2>3, AskedTo DEF Start, Clean
  <2>4. CASE \/ PauseRead \/ DeleteRead \/ Answer \/ Crash \/ Boot
             \/ \E c \in Calls : Transfer(c) \/ Break(c) \/ FailUnsaved(c)
    BY <2>4, OverlapsKept DEF Clean
  <2> QED BY <2>1, <2>2, <2>3, <2>4 DEF Next
<1>3. QuietInv
  BY <1>2
<1>4. CASE UNCHANGED vars
  BY <1>2, <1>3, <1>4 DEF vars, store, QuietInv, Patience, Looked, Live, Found, SizeAt
<1>5. ASSUME NEW c \in Calls, Break(c) PROVE QuietInv'
  BY <1>3, <1>5, QuietGoes DEF Break, Trying, Live, CallPoints, store
<1>6. ASSUME NEW c \in Calls, FailUnsaved(c) PROVE QuietInv'
  BY <1>3, <1>6, QuietOver DEF FailUnsaved, CallAt, Live
<1> QED BY <1>2, <1>3, <1>4, <1>5, <1>6, QuietRequests, QuietStart, QuietTransfer DEF Next

-----------------------------------------------------------------------------
(* Files that only grow *)

LEMMA GrowsStep ==
    ASSUME TypeInv, Clean => QuietInv, [Next]_vars, Clean', Clean, NEW p \in Paths, Found(p),
           disk'[p] = disk[p]
    PROVE  IsPrefix(content[disk[p]], content'[disk[p]])
<1> DEFINE f == disk[p]
<1>1. f \in Files /\ content[f] \in Chunks /\ QuietInv
  BY DEF Found, TypeInv, FilesOK
<1>2. 0 \in 0..Size
  BY Bounds
<1>3. CASE content'[f] = content[f]
  BY <1>1, <1>2, <1>3, AppendExtends DEF Chunks
<1>4. ASSUME NEW c \in Calls, Pump(c) PROVE IsPrefix(content[f], content'[f])
  <2>1. NextChunk(c) \in 0..Size
    BY <1>4, PumpTyped, Bounds
  <2>2. content' = [content EXCEPT ![calls[c].file] = Append(content[calls[c].file], NextChunk(c))]
    BY <1>1, <1>4, PumpAppends
  <2>3. content'[f] = content[f] \/ content'[f] = Append(content[f], NextChunk(c))
    BY <1>1, <2>2 DEF TypeInv, FilesOK
  <2> HIDE DEF NextChunk, f
  <2> QED BY <1>1, <1>3, <2>1, <2>3, AppendExtends DEF Chunks
<1>5. ASSUME NEW c \in Calls, Open(c) PROVE content'[f] = content[f]
  <2> DEFINE q == calls[c].folder
             g == IF Found(q) THEN disk[q] ELSE Min(Unused)
             s == IF Found(q) THEN content[g] ELSE <<>>
  <2>1. q \in Paths /\ calls[c] \in CallRecords /\ calls[c].at = "open" /\ Live(c) /\ Looked(c)
    BY <1>1, <1>5, Steps DEF Open, CallAt, Live, CallRecords, QuietInv
  <2>2. content' = [content EXCEPT ![g] = Opened(c, s)]
    BY <1>5 DEF Open
  <2>3. CASE f # g
    BY <1>1, <2>2, <2>3 DEF TypeInv, FilesOK
  <2>4. CASE f = g
    <3>1. Found(q)
      BY <2>1, <2>4, FreshFile
    <3>2. calls[c].from = Len(content[f]) /\ s = content[f]
      BY <2>1, <2>4, <3>1 DEF Looked, SizeAt
    <3>3. calls[c].from = 0 => content[f] = <<>>
      BY <1>1, <3>2, EmptySeq DEF Chunks
    <3>4. Opened(c, s) = content[f]
      BY <1>1, <2>1, <3>2, <3>3, LenProperties DEF Opened, Chunks, CallRecords
    <3> HIDE DEF g, s
    <3> QED BY <1>1, <2>2, <2>4, <3>4 DEF TypeInv, FilesOK
  <2> QED BY <2>3, <2>4
<1>6. ASSUME NEW c \in Calls, Transfer(c), ~Pump(c), ~Open(c) PROVE content' = content
  BY <1>6 DEF Transfer, ReadRow, Mark, Stat, Fetch, Total, PumpEnds, Inspect,
              Move, Finish, Already, Fail, store
<1>7. Queue \/ PauseRead \/ DeleteRead \/ Answer \/ Crash \/ Boot => content' = content
  BY DEF Queue, PauseRead, DeleteRead, Answer, PauseWrite, DeleteRow, DeleteFile, Crash, Boot,
         store
<1>8. \A c \in Calls : Start(c) \/ Break(c) \/ FailUnsaved(c) => content' = content
  BY DEF Start, Break, FailUnsaved, store
<1>9. CASE UNCHANGED vars
  BY <1>3, <1>9 DEF vars, store
<1> QED BY <1>3, <1>4, <1>5, <1>6, <1>7, <1>8, <1>9 DEF Next

\* Whatever else the user and the faults do, a file in its place only grows while
\* no request overlaps an earlier one.
THEOREM FilesGrow == Spec => GrowsOnly
<1> DEFINE I == TypeInv /\ (Clean => QuietInv)
<1>1. Init => I
  BY TypeInit, QuietInit
<1>2. I /\ [Next]_vars => I'
  BY TypeStep, QuietStep
<1>3. I /\ [Next]_vars =>
        [used'.overlaps = 0 =>
           \A p \in Paths :
            Found(p) /\ disk'[p] = disk[p] =>
               IsPrefix(content[disk[p]], content'[disk[p]])]_store
  BY QuietStep, GrowsStep DEF Clean
<1> HIDE DEF I
<1> QED BY <1>1, <1>2, <1>3, PTL DEF Spec, GrowsOnly

-----------------------------------------------------------------------------
(* What is done is whole *)

\* A transfer that lost no file continued the one it found.
Fits(c) ==
    /\ calls[c].at \in {"inspect", "move"} => calls[c].folder = "target"
    /\ calls[c].at = "fetch" => calls[c].from <= Size
    /\ calls[c].at \in {"total", "open"} => calls[c].from < Size
    /\ calls[c].at = "already" => calls[c].from = Size
    /\ calls[c].at = "pump" =>
          /\ calls[c].from + calls[c].got <= Size
          /\ content[calls[c].file] = Upto(calls[c].from + calls[c].got)

\* What holds while its row was not deleted.
RowWaits(c) ==
    /\ row.id = calls[c].id
    /\ calls[c].at # "read" => row.status # "done"
    /\ calls[c].at \in {"mark", "stat", "fetch", "total", "open", "pump", "inspect", "move",
                       "already"} => row.folder = calls[c].folder
    /\ calls[c].at \in {"fetch", "total", "open", "already"} =>
          calls[c].from = SizeAt(calls[c].folder)
    /\ calls[c].at = "pump" => disk[calls[c].folder] = calls[c].file
    /\ calls[c].at \in {"inspect", "move", "finish"} =>
          Found(calls[c].folder) /\ content[disk[calls[c].folder]] = Whole

WholeInv ==
    /\ \A f \in Files : content[f] \in Partials
    /\ \A c \in Calls : Live(c) => Fits(c) /\ (row.id # 0 => RowWaits(c))
    /\ DoneIsWhole

LEMMA WholeInit == Init => WholeInv
BY Partial DEF Init, WholeInv, Live, NoCall, NoRow, DoneIsWhole

\* The only call moves on.
LEMMA WholeCall ==
    ASSUME QuietInv, NEW c \in Calls, Live(c),
           \A d \in Calls : d # c => calls'[d] = calls[d],
           \A f \in Files : content'[f] \in Partials,
           Live(c)' => Fits(c)' /\ (row'.id # 0 => RowWaits(c)'),
           DoneIsWhole'
    PROVE  WholeInv'
<1>1. \A d \in Calls : d # c => ~Live(d)'
  BY DEF QuietInv, Patience, Live
<1> QED BY <1>1 DEF WholeInv

\* ... to p, and nothing else changes but the status of the row.
LEMMA WholeGoes ==
    ASSUME TypeInv, QuietInv, WholeInv, NEW c \in Calls, Live(c), NEW p \in CallPoints, Step(c, p),
           UNCHANGED <<disk, content>>, row'.id = row.id, row'.folder = row.folder,
           row'.status # row.status => row'.status # "done" /\ row.id # 0,
           calls[c].at # "read",
           p = "stat" => calls[c].at = "mark",
           p = "total" => calls[c].at = "fetch" /\ calls[c].from < Size,
           p = "already" => calls[c].at = "fetch" /\ calls[c].from >= Size,
           p = "open" => calls[c].at = "total",
           p = "move" => calls[c].at = "inspect",
           p = "finish" => calls[c].at \in {"inspect", "move"},
           p \in {"stat", "total", "already", "open", "move", "finish", "fail"}
    PROVE  WholeInv'
<1>1. /\ calls'[c].at = p /\ calls'[c].folder = calls[c].folder /\ calls'[c].id = calls[c].id
      /\ calls'[c].from = calls[c].from /\ calls'[c].got = calls[c].got
      /\ calls'[c].file = calls[c].file
      /\ \A d \in Calls : d # c => calls'[d] = calls[d]
  BY StepTo
<1>2. Fits(c) /\ (row.id # 0 => RowWaits(c)) /\ calls[c].from \in Nat
  BY Steps DEF WholeInv, CallRecords
<1>3. Fits(c)'
  BY <1>1, <1>2, Bounds DEF Fits
<1>4. row'.id # 0 => RowWaits(c)'
  BY <1>1, <1>2 DEF RowWaits, Found, SizeAt, Trying
<1>5. DoneIsWhole'
  BY DEF DoneIsWhole, Found, WholeInv
<1>6. \A f \in Files : content'[f] \in Partials
  BY DEF WholeInv
<1> QED BY <1>1, <1>3, <1>4, <1>5, <1>6, WholeCall

LEMMA WholeOver ==
    ASSUME TypeInv, QuietInv, WholeInv, NEW c \in Calls, Live(c), Over(c),
           UNCHANGED content, DoneIsWhole'
    PROVE  WholeInv'
<1>1. \A d \in Calls : ~Live(d)'
  BY OverTo DEF QuietInv, Patience, Live
<1> QED BY <1>1 DEF WholeInv

LEMMA WholeBegin ==
    ASSUME TypeInv, WholeInv, NEW c \in Calls, row.id # 0, Begin(c, row.id),
           \A d \in Calls : ~Live(d), UNCHANGED <<row, disk, content>>
    PROVE  WholeInv'
<1>1. /\ calls'[c].at = "read" /\ calls'[c].id = row.id
      /\ \A d \in Calls : d # c => calls'[d] = calls[d]
  BY BeginTo DEF TypeInv, RowOK
<1>2. \A d \in Calls : d # c => ~Live(d)'
  BY <1>1 DEF Live
<1>3. Fits(c)' /\ RowWaits(c)'
  BY <1>1 DEF Fits, RowWaits, Trying
<1>4. DoneIsWhole' /\ \A f \in Files : content'[f] \in Partials
  BY DEF WholeInv, DoneIsWhole, Found
<1> QED BY <1>2, <1>3, <1>4 DEF WholeInv

LEMMA WholeRequests ==
    ASSUME TypeInv, QuietInv, WholeInv, Clean',
           Queue \/ PauseRead \/ DeleteRead \/ Answer \/ Crash \/ Boot
    PROVE  WholeInv'
<1>1. CASE Queue
  <2>1. PICK u \in UsedRecords : u.overlaps = used.overlaps /\ used' = Asked(u)
    BY <1>1, UsedUp DEF Queue, TypeInv, RestOK
  <2>2. ~Busy
    BY <1>1, <2>1, AskedTo DEF Queue, Clean
  <2>3. UNCHANGED <<calls, content>>
    BY <1>1 DEF Queue, store
  <2>4. \A c \in Calls : ~Live(c)'
    BY <2>2, <2>3 DEF Busy, Live
  <2>5. row'.status = "queued"
    <3>1. [row EXCEPT !.status = "queued", !.folder = "target"].status = "queued"
      BY DEF TypeInv, RowOK
    <3>2. \/ row' = [row EXCEPT !.status = "queued", !.folder = "target"]
          \/ row' = [id |-> used.rows + 1, status |-> "queued", folder |-> "target"]
      BY <1>1 DEF Queue
    <3>3. [id |-> used.rows + 1, status |-> "queued", folder |-> "target"].status = "queued"
      OBVIOUS
    <3> QED BY <3>1, <3>2, <3>3, Zenon
  <2> QED BY <2>3, <2>4, <2>5 DEF WholeInv, DoneIsWhole
<1>2. CASE PauseRead \/ DeleteRead
  <2>1. UNCHANGED <<row, calls, disk, content>>
    BY <1>2 DEF PauseRead, DeleteRead, store
  <2> QED BY <2>1 DEF WholeInv, Live, Fits, RowWaits, DoneIsWhole, Found, SizeAt
<1>3. CASE PauseWrite
  <2>1. /\ UNCHANGED <<calls, disk, content>>
        /\ row'.id = row.id /\ row'.folder = row.folder
        /\ row'.status = row.status \/ row'.status = "paused"
    BY <1>3 DEF PauseWrite, TrySetStatus, SetStatus, store, TypeInv, RowOK
  <2> QED BY <2>1 DEF WholeInv, Live, Fits, RowWaits, DoneIsWhole, Found, SizeAt
<1>4. CASE DeleteRow
  <2>1. UNCHANGED <<calls, disk, content>> /\ (UNCHANGED row \/ row' = NoRow)
    BY <1>4 DEF DeleteRow, store
  <2> QED BY <2>1 DEF WholeInv, Live, Fits, RowWaits, DoneIsWhole, Found, SizeAt, NoRow
<1>5. CASE DeleteFile
  <2>1. UNCHANGED <<row, calls, content>> /\ row.id = 0 /\ row.status = "queued"
    BY <1>5 DEF DeleteFile, QuietInv, Patience, TypeInv, RowOK
  <2> QED BY <2>1 DEF WholeInv, Live, Fits, DoneIsWhole
<1>6. CASE Crash
  <2>1. UNCHANGED <<row, disk, content>> /\ \A c \in Calls : ~Live(c)'
    BY <1>6 DEF Crash, store, Live, NoCall
  <2> QED BY <2>1 DEF WholeInv, DoneIsWhole, Found
<1>7. CASE Boot
  <2>1. UNCHANGED <<row, disk, content>> /\ \A c \in Calls : ~Live(c)
    BY <1>7 DEF Boot, store, QuietInv, Patience
  <2>2. CASE Interrupted
    BY <1>7, <2>1, <2>2, Bounds, WholeBegin DEF Boot, Interrupted, Calls
  <2>3. CASE ~Interrupted
    BY <1>7, <2>1, <2>3 DEF Boot, WholeInv, Live, DoneIsWhole, Found
  <2> QED BY <2>2, <2>3
<1> QED BY <1>1, <1>2, <1>3, <1>4, <1>5, <1>6, <1>7 DEF Answer

LEMMA WholeStart ==
    ASSUME TypeInv, QuietInv, WholeInv, Clean', NEW c \in Calls, Start(c)
    PROVE  WholeInv'
<1>1. ~Busy
  BY QuietStart
<1> QED BY <1>1, WholeBegin DEF Start, Busy, store

LEMMA WholeOpen ==
    ASSUME TypeInv, QuietInv, WholeInv, NEW c \in Calls, Open(c), ~past'.torn
    PROVE  WholeInv'
<1>1. /\ Live(c) /\ calls[c].at = "open" /\ calls[c] \in CallRecords /\ Looked(c) /\ Fits(c)
      /\ row.id # 0 => RowWaits(c)
      /\ UNCHANGED row
  BY Steps DEF Open, CallAt, Live, QuietInv, WholeInv
<1> DEFINE p == calls[c].folder
           n == calls[c].from
           f == IF Found(p) THEN disk[p] ELSE Min(Unused)
           s == IF Found(p) THEN content[f] ELSE <<>>
           x == [calls[c] EXCEPT !.at = "pump", !.file = f]
<1>2. p \in Paths /\ f \in Files /\ 0 \notin Files /\ n \in Nat
  BY <1>1, FreshFile DEF TypeInv, FilesOK, Found, CallRecords, Files
<1>3. /\ calls' = [calls EXCEPT ![c] = x]
      /\ content' = [content EXCEPT ![f] = Opened(c, s)]
      /\ disk' = [disk EXCEPT ![p] = f]
  BY DEF Open
<1>4. n > 0 => Found(p)
  BY DEF Open, TypeInv, RestOK
<1>5. n > 0 => Len(content[f]) = n /\ s = content[f] /\ content[f] = Upto(n)
  BY <1>1, <1>2, <1>4, Partial DEF Looked, SizeAt, WholeInv
<1>6. Opened(c, s) = Upto(n)
  BY <1>2, <1>5, Partial DEF Opened
<1> HIDE DEF f, s
<1>7. calls'[c] = x /\ \A d \in Calls : d # c => calls'[d] = calls[d]
  BY <1>3 DEF TypeInv, CallsOK
<1>8. /\ x.at = "pump" /\ x.file = f /\ x.from = n /\ x.got = calls[c].got
      /\ x.id = calls[c].id /\ x.folder = p
  BY <1>1 DEF CallRecords
<1>9. calls[c].got = 0 /\ n < Size
  BY <1>1 DEF Looked, Fits
<1>10. content'[f] = Upto(n) /\ disk'[p] = f
  BY <1>2, <1>3, <1>6 DEF TypeInv, FilesOK
<1>11. \A g \in Files : content'[g] \in Partials
  <2>1. Upto(n) \in Partials
    BY <1>2, <1>9, Partial, Bounds
  <2> QED BY <1>3, <1>6, <2>1 DEF WholeInv, TypeInv, FilesOK
<1> HIDE DEF x
<1>12. Fits(c)'
  BY <1>2, <1>7, <1>8, <1>9, <1>10, Bounds DEF Fits
<1>13. row'.id # 0 => RowWaits(c)'
  BY <1>1, <1>7, <1>8, <1>10 DEF RowWaits, Trying
<1>14. row.status # "done"
  BY <1>1 DEF RowWaits, TypeInv, RowOK
<1>15. DoneIsWhole'
  BY <1>1, <1>14 DEF DoneIsWhole
<1> QED BY <1>1, <1>7, <1>11, <1>12, <1>13, <1>15, WholeCall

LEMMA WholePump ==
    ASSUME TypeInv, QuietInv, WholeInv, NEW c \in Calls, Pump(c)
    PROVE  WholeInv'
<1>1. /\ Live(c) /\ calls[c].at = "pump" /\ calls[c] \in CallRecords /\ Fits(c)
      /\ row.id # 0 => RowWaits(c)
      /\ UNCHANGED row
  BY Steps DEF Pump, CallAt, Live, WholeInv
<1> DEFINE f == calls[c].file
           n == calls[c].from + calls[c].got
           x == [calls[c] EXCEPT !.got = @ + 1]
<1>2. f \in Files /\ UNCHANGED disk /\ content' = [content EXCEPT ![f] = Append(content[f], NextChunk(c))]
  BY PumpAppends
<1>3. n \in Nat /\ n + 1 \in 0..Size /\ NextChunk(c) = n + 1 /\ content[f] = Upto(n)
  BY <1>1, Bounds DEF Pump, NextChunk, Fits, CallRecords
<1>4. content'[f] = Upto(n + 1)
  <2> HIDE DEF n
  <2> QED BY <1>2, <1>3, OneMore DEF TypeInv, FilesOK
<1>5. \A g \in Files : content'[g] \in Partials
  <2>1. Upto(n + 1) \in Partials
    BY <1>3, Partial
  <2> QED BY <1>2, <1>4, <2>1 DEF WholeInv, TypeInv, FilesOK
<1>6. row.status # "done"
  BY <1>1 DEF RowWaits, TypeInv, RowOK
<1>7. DoneIsWhole'
  BY <1>1, <1>6 DEF DoneIsWhole
<1>8. CASE calls' = [calls EXCEPT ![c].got = @ + 1]
  <2>1. calls' = [calls EXCEPT ![c] = x]
    BY <1>8
  <2>2. /\ x.at = "pump" /\ x.file = f /\ x.from = calls[c].from /\ x.got = calls[c].got + 1
        /\ x.id = calls[c].id /\ x.folder = calls[c].folder
    BY <1>1 DEF CallRecords
  <2>3. calls'[c] = x /\ \A d \in Calls : d # c => calls'[d] = calls[d]
    BY <2>1 DEF TypeInv, CallsOK
  <2> HIDE DEF x
  <2>4. calls[c].from + (calls[c].got + 1) = n + 1
    BY <1>1 DEF CallRecords
  <2>5. Fits(c)'
    BY <1>3, <1>4, <2>2, <2>3, <2>4 DEF Fits
  <2>6. row'.id # 0 => RowWaits(c)'
    BY <1>1, <1>2, <2>2, <2>3 DEF RowWaits, Trying
  <2> QED BY <1>1, <1>5, <1>7, <2>3, <2>5, <2>6, WholeCall
<1>9. CASE Step(c, "fail")
  <2>1. /\ calls'[c].at = "fail" /\ calls'[c].id = calls[c].id
        /\ \A d \in Calls : d # c => calls'[d] = calls[d]
    BY <1>1, <1>9, StepTo DEF CallPoints
  <2>2. Fits(c)' /\ (row'.id # 0 => RowWaits(c)')
    BY <1>1, <2>1 DEF Fits, RowWaits, Trying
  <2> QED BY <1>1, <1>5, <1>7, <2>1, <2>2, WholeCall
<1> QED BY <1>8, <1>9 DEF Pump

LEMMA WholeTransfer ==
    ASSUME TypeInv, QuietInv, WholeInv, NEW c \in Calls, Transfer(c), ~past'.torn
    PROVE  WholeInv'
<1>1. /\ calls[c] \in CallRecords /\ (Live(c) => Fits(c) /\ Looked(c) /\ (row.id # 0 => RowWaits(c)))
      /\ Live(c) => calls[c].id # 0
      /\ \A f \in Files : content[f] \in Partials
  BY Steps DEF WholeInv, QuietInv, TypeInv, CallsOK
<1>2. UNCHANGED row => row'.id = row.id /\ row'.folder = row.folder /\ row'.status = row.status
  OBVIOUS
<1>3. CASE ReadRow(c)
  <2>1. Live(c) /\ calls[c].at = "read" /\ UNCHANGED <<row, disk, content>> /\ DoneIsWhole'
    BY <1>3 DEF ReadRow, CallAt, Live, store, WholeInv, DoneIsWhole, Found
  <2>2. CASE Over(c)
    BY <2>1, <2>2, WholeOver
  <2>3. CASE ~Over(c)
    <3> DEFINE x == [calls[c] EXCEPT !.at = "mark", !.folder = row.folder]
    <3>1. calls' = [calls EXCEPT ![c] = x] /\ row.status # "done" /\ Present(calls[c].id)
      BY <1>3, <2>3 DEF ReadRow
    <3>2. x.at = "mark" /\ x.id = calls[c].id /\ x.folder = row.folder
      BY <1>1 DEF CallRecords
    <3>3. calls'[c] = x /\ \A d \in Calls : d # c => calls'[d] = calls[d]
      BY <3>1 DEF TypeInv, CallsOK
    <3> HIDE DEF x
    <3>4. Fits(c)' /\ (row'.id # 0 => RowWaits(c)')
      BY <2>1, <3>1, <3>2, <3>3 DEF Fits, RowWaits, Present
    <3>5. \A f \in Files : content'[f] \in Partials
      BY <1>1, <2>1
    <3> QED BY <2>1, <3>3, <3>4, <3>5, WholeCall
  <2> QED BY <2>2, <2>3
<1>4. CASE Mark(c)
  <2>1. Live(c) /\ calls[c].at = "mark" /\ UNCHANGED <<disk, content>>
    BY <1>4 DEF Mark, CallAt, Live, store
  <2>2. CASE SetStatus(calls[c].id, "downloading") /\ Step(c, "stat")
    <3>1. row'.id = row.id /\ row'.folder = row.folder /\ row'.status # "done" /\ row.id # 0
      BY <1>1, <2>1, <2>2 DEF SetStatus, Present, TypeInv, RowOK
    <3> QED BY <2>1, <2>2, <3>1, WholeGoes DEF CallPoints
  <2>3. CASE UNCHANGED row /\ Step(c, "fail")
    BY <1>2, <2>1, <2>3, WholeGoes DEF CallPoints
  <2> QED BY <1>4, <2>2, <2>3 DEF Mark
<1>5. CASE Stat(c)
  <2> DEFINE n == SizeAt(calls[c].folder)
             x == [calls[c] EXCEPT !.at = "fetch", !.from = n]
  <2>1. /\ calls' = [calls EXCEPT ![c] = x] /\ UNCHANGED <<row, disk, content>>
        /\ calls[c].at = "stat" /\ Live(c)
    BY <1>5 DEF Stat, store, CallAt, Live
  <2>2. /\ x.at = "fetch" /\ x.from = n /\ x.id = calls[c].id /\ x.folder = calls[c].folder
    BY <1>1 DEF CallRecords
  <2>3. calls'[c] = x /\ \A d \in Calls : d # c => calls'[d] = calls[d]
    BY <2>1 DEF TypeInv, CallsOK
  <2>4. SizeAt(calls[c].folder)' = n
    BY <2>1, <2>2, <2>3 DEF SizeAt, Found
  <2>5. n <= Size
    BY <1>1, Partial, Bounds DEF SizeAt, Found, TypeInv, FilesOK, CallRecords
  <2> HIDE DEF x, n
  <2>6. Fits(c)' /\ (row'.id # 0 => RowWaits(c)')
    BY <1>1, <2>1, <2>2, <2>3, <2>4, <2>5 DEF Fits, RowWaits
  <2>7. DoneIsWhole' /\ \A f \in Files : content'[f] \in Partials
    BY <2>1 DEF WholeInv, DoneIsWhole, Found
  <2> QED BY <2>1, <2>3, <2>6, <2>7, WholeCall
<1>6. CASE Fetch(c)
  <2>1. PICK p \in {"already", "total"} :
            Step(c, p) /\ (p = "already" => calls[c].from >= Size) /\ (p = "total" => ~(calls[c].from >= Size))
    BY <1>6 DEF Fetch
  <2>2. p = "total" => calls[c].from < Size
    BY <1>1, <2>1, Bounds DEF CallRecords
  <2> QED BY <1>2, <1>6, <2>1, <2>2, WholeGoes DEF Fetch, CallAt, Live, CallPoints, store
<1>7. CASE Total(c)
  <2>1. PICK p \in {"open", "fail"} : Step(c, p)
    BY <1>7 DEF Total
  <2> QED BY <1>2, <1>7, <2>1, WholeGoes DEF Total, CallAt, Live, CallPoints, store
<1>8. CASE PumpEnds(c)
  <2> DEFINE p == IF calls[c].folder = "target" THEN "inspect" ELSE "finish"
             x == [calls[c] EXCEPT !.at = p, !.file = 0]
  <2>1. /\ calls' = [calls EXCEPT ![c] = x] /\ UNCHANGED <<row, disk, content>>
        /\ calls[c].at = "pump" /\ Live(c) /\ calls[c].from + calls[c].got = Size
    BY <1>8 DEF PumpEnds, CallAt, Live, store
  <2>2. x.at = p /\ x.id = calls[c].id /\ x.folder = calls[c].folder
    BY <1>1, <1>8 DEF CallRecords
  <2>3. calls'[c] = x /\ \A d \in Calls : d # c => calls'[d] = calls[d]
    BY <2>1 DEF TypeInv, CallsOK
  <2>4. content[calls[c].file] = Whole /\ calls[c].file # 0
    BY <1>1, <2>1, Partial DEF Fits, Looked
  <2> HIDE DEF x
  <2>5. Fits(c)' /\ (row'.id # 0 => RowWaits(c)')
    <3>1. Fits(c)'
      BY <2>2, <2>3 DEF Fits
    <3>2. CASE row.id # 0
      <4>1. /\ row.id = calls[c].id /\ row.status # "done" /\ row.folder = calls[c].folder
            /\ disk[calls[c].folder] = calls[c].file
        BY <1>1, <2>1, <3>2 DEF RowWaits
      <4>2. RowWaits(c)'
        BY <2>1, <2>2, <2>3, <2>4, <4>1 DEF RowWaits, Found
      <4> QED BY <3>1, <4>2
    <3> QED BY <2>1, <3>1, <3>2
  <2>6. DoneIsWhole' /\ \A f \in Files : content'[f] \in Partials
    BY <2>1 DEF WholeInv, DoneIsWhole, Found
  <2> QED BY <2>1, <2>3, <2>5, <2>6, WholeCall
<1>9. CASE Inspect(c)
  <2>1. PICK p \in {"move", "finish"} : Step(c, p)
    BY <1>9 DEF Inspect
  <2> QED BY <1>2, <1>9, <2>1, WholeGoes DEF Inspect, CallAt, Live, CallPoints, store
<1>10. CASE Move(c)
  <2>1. /\ UNCHANGED <<row, content>> /\ calls[c].at = "move" /\ Live(c)
        /\ calls[c].folder = "target"
    BY <1>1, <1>10 DEF Move, CallAt, Live, Fits
  <2>2. CASE Found("target")
    <3> DEFINE x == [calls[c] EXCEPT !.at = "finish", !.folder = "proper"]
    <3>1. /\ calls' = [calls EXCEPT ![c] = x]
          /\ disk' = [disk EXCEPT !["target"] = 0, !["proper"] = disk["target"]]
      BY <1>10, <2>2 DEF Move
    <3>2. x.at = "finish" /\ x.id = calls[c].id /\ x.folder = "proper"
      BY <1>1 DEF CallRecords
    <3>3. calls'[c] = x /\ \A d \in Calls : d # c => calls'[d] = calls[d]
      BY <3>1 DEF TypeInv, CallsOK
    <3>4. disk'["proper"] = disk["target"]
      BY <3>1 DEF TypeInv, FilesOK, Paths
    <3> HIDE DEF x
    <3>5. Fits(c)' /\ (row'.id # 0 => RowWaits(c)')
      BY <1>1, <2>1, <3>2, <3>3, <3>4 DEF Fits, RowWaits, Found
    <3>6. row.status # "done"
      BY <1>1, <2>1 DEF RowWaits, TypeInv, RowOK
    <3>7. DoneIsWhole' /\ \A f \in Files : content'[f] \in Partials
      BY <1>1, <2>1, <3>6 DEF DoneIsWhole
    <3> QED BY <2>1, <3>3, <3>5, <3>7, WholeCall
  <2>3. CASE ~Found("target")
    BY <1>2, <1>10, <2>1, <2>3, WholeGoes DEF Move, CallPoints
  <2> QED BY <2>2, <2>3
<1>11. CASE Finish(c)
  <2>1. UNCHANGED <<disk, content>> /\ calls[c].at = "finish" /\ Live(c)
    BY <1>11 DEF Finish, CallAt, Live, store
  <2>2. CASE Present(calls[c].id)
    <3>1. row'.folder = calls[c].folder /\ Over(c)
      BY <1>11, <2>2 DEF Finish, TypeInv, RowOK
    <3>2. Found(calls[c].folder) /\ content[disk[calls[c].folder]] = Whole
      BY <1>1, <2>1, <2>2 DEF RowWaits, Present
    <3>3. DoneIsWhole'
      BY <2>1, <3>1, <3>2 DEF DoneIsWhole, Found
    <3> QED BY <2>1, <3>1, <3>3, WholeOver
  <2>3. CASE ~Present(calls[c].id)
    BY <1>2, <1>11, <2>1, <2>3, WholeGoes DEF Finish, CallPoints
  <2> QED BY <2>2, <2>3
<1>12. CASE Already(c)
  <2>1. UNCHANGED <<disk, content>> /\ calls[c].at = "already" /\ Live(c)
    BY <1>12 DEF Already, CallAt, Live, store
  <2>2. CASE SetStatus(calls[c].id, "done") /\ Over(c)
    <3>1. row.id = calls[c].id /\ row.id # 0 /\ row'.folder = row.folder
      BY <1>1, <2>1, <2>2 DEF SetStatus, Present, TypeInv, RowOK
    <3> DEFINE p == row.folder
    <3>2. p = calls[c].folder /\ SizeAt(p) = Size /\ p \in Paths
      BY <1>1, <2>1, <3>1 DEF RowWaits, Fits, TypeInv, RowOK
    <3>3. Found(p) /\ Len(content[disk[p]]) = Size
      BY <3>2, Bounds DEF SizeAt
    <3>4. content[disk[p]] = Whole
      BY <1>1, <3>2, <3>3, Partial DEF Found, TypeInv, FilesOK
    <3>5. DoneIsWhole'
      BY <2>1, <3>1, <3>3, <3>4 DEF DoneIsWhole, Found
    <3> QED BY <2>1, <2>2, <3>5, WholeOver
  <2>3. CASE UNCHANGED row /\ Step(c, "fail")
    BY <1>2, <2>1, <2>3, WholeGoes DEF CallPoints
  <2> QED BY <1>12, <2>2, <2>3 DEF Already
<1>13. CASE Fail(c)
  <2>1. UNCHANGED <<disk, content>> /\ Live(c) /\ Over(c)
    BY <1>13 DEF Fail, CallAt, Live, store
  <2>2. row'.folder = row.folder /\ (row'.status = row.status \/ row'.status = "error")
    BY <1>13 DEF Fail, TrySetStatus, SetStatus, TypeInv, RowOK
  <2>3. DoneIsWhole'
    BY <2>1, <2>2 DEF DoneIsWhole, WholeInv, Found
  <2> QED BY <2>1, <2>3, WholeOver
<1> QED BY <1>3, <1>4, <1>5, <1>6, <1>7, <1>8, <1>9, <1>10, <1>11, <1>12, <1>13,
          WholeOpen, WholePump DEF Transfer

\* What was lost stays lost in the history.
LEMMA TornKept ==
    ASSUME TypeInv, [Next]_vars, ~past'.torn
    PROVE  ~past.torn
<1>1. past \in [torn: BOOLEAN, unsaved: BOOLEAN]
  BY DEF TypeInv, RestOK
<1>2. \A c \in Calls : Open(c) \/ FailUnsaved(c) => ~past.torn
  BY <1>1 DEF Open, FailUnsaved
<1>3. \A c \in Calls : ReadRow(c) \/ Mark(c) \/ Stat(c) \/ Fetch(c) \/ Total(c) \/ Pump(c)
        \/ PumpEnds(c) \/ Inspect(c) \/ Move(c) \/ Finish(c) \/ Already(c) \/ Fail(c)
        \/ Start(c) \/ Break(c) => UNCHANGED past
  BY DEF ReadRow, Mark, Stat, Fetch, Total, Pump, PumpEnds, Inspect, Move, Finish, Already,
         Fail, Elsewhere, Start, Break
<1>4. Queue \/ PauseRead \/ DeleteRead \/ Answer \/ Crash \/ Boot => UNCHANGED past
  BY DEF Queue, PauseRead, DeleteRead, Answer, PauseWrite, DeleteRow, DeleteFile, Crash, Boot
<1> QED BY <1>2, <1>3, <1>4 DEF Next, Transfer, vars

LEMMA WholeStep ==
    ASSUME TypeInv, Clean => QuietInv, Clean /\ ~past.torn => WholeInv, [Next]_vars,
           Clean', ~past'.torn
    PROVE  WholeInv'
<1>1. QuietInv /\ WholeInv
  BY QuietStep, TornKept
<1>2. CASE UNCHANGED vars
  BY <1>1, <1>2
     DEF vars, store, WholeInv, Live, Fits, RowWaits, DoneIsWhole, Found, SizeAt
<1>3. ASSUME NEW c \in Calls, Break(c) PROVE WholeInv'
  <2>1. UNCHANGED <<row, disk, content>> /\ Live(c) /\ calls[c].at # "read" /\ Step(c, "fail")
    BY <1>3 DEF Break, Trying, Live, store
  <2> QED BY <1>1, <2>1, WholeGoes DEF CallPoints
<1>4. ASSUME NEW c \in Calls, FailUnsaved(c) PROVE WholeInv'
  <2>1. UNCHANGED <<row, disk, content>> /\ Live(c) /\ Over(c)
    BY <1>4 DEF FailUnsaved, CallAt, Live, store
  <2>2. DoneIsWhole'
    BY <1>1, <2>1 DEF WholeInv, DoneIsWhole, Found
  <2> QED BY <1>1, <2>1, <2>2, WholeOver
<1> QED BY <1>1, <1>2, <1>3, <1>4, WholeRequests, WholeStart, WholeTransfer DEF Next

\* However the download was interrupted, resumed, paused, queued again, moved and
\* deleted, and however users overlap their requests or lose a file while it is
\* being resumed: what is called done is whole, or one of the two came before.
THEOREM DoneWhole == Spec => []WholeUnlessCrossed
<1> DEFINE I == TypeInv /\ (Clean => QuietInv) /\ (Clean /\ ~past.torn => WholeInv)
<1>1. Init => I
  BY TypeInit, QuietInit, WholeInit
<1>2. I /\ [Next]_vars => I'
  <2> SUFFICES ASSUME I, [Next]_vars PROVE I'
    OBVIOUS
  <2>1. TypeInv' /\ (Clean' => QuietInv')
    BY TypeStep, QuietStep
  <2>2. Clean' /\ ~past'.torn => WholeInv'
    BY WholeStep
  <2> QED BY <2>1, <2>2
<1>3. I => WholeUnlessCrossed
  BY DEF WholeInv, WholeUnlessCrossed, Clean
<1> HIDE DEF I
<1> QED BY <1>1, <1>2, <1>3, PTL DEF Spec
=============================================================================

---------------------------- MODULE ReadyProofs ----------------------------
(***************************************************************************)
(* What a ready document answers from: one version of its bytes, whole,    *)
(* and in the end the latest.                                              *)
(*                                                                         *)
(* Whatever is not a step of a worker is reduced to what one document sees *)
(* of it (Outside).  Each of the two invariants is then kept by that, and  *)
(* by the worker's steps one by one.                                       *)
(***************************************************************************)
EXTENDS DocumentLifecycleProofs

-----------------------------------------------------------------------------
(* What the clients, the requests and the reaper do to one document while  *)
(* a worker may be indexing it.                                            *)

\* A step of anybody but a worker, as the document d sees it.  The row, the object and
\* the points change each for its own reason, and events are only added.
Outside(d) ==
  /\ UNCHANGED workerVars
  /\ \/ points'[d] = points[d]
     \/ points'[d] = Blank /\ Finishing(d)
  /\ \/ object'[d] = object[d]
     \/ object'[d] = None /\ Finishing(d)
     \/ object'[d] \in Contents /\ \E e \in queue' : e.doc = d /\ e.etag = object'[d]
  /\ queue \subseteq queue' /\ dlq \subseteq dlq'
  /\ \/ /\ status'[d] = status[d] /\ etag'[d] = etag[d]
        /\ \/ lease'[d] = lease[d]
           \/ LeaseOverrun
           \/ \A w \in Workers : ~Indexing(w, d)
     \/ status[d] \in {"unborn", "uploading", "expired"} /\ status'[d] \in {"uploading", "expired"}
     \/ status[d] = "processing" /\ lease[d] = "lapsed" /\ status'[d] = "failed"
     \/ status[d] = "deleting" /\ status'[d] = "gone"
     \/ status'[d] = "deleting" /\ Deleters # {}
     \/ status'[d] = "uploading" /\ ~NothingFound
  /\ Finishing(d)' => Finishing(d) \/ status'[d] = "deleting"

\* A step that leaves the document and whoever has it in hand alone.
LEMMA Elsewhere ==
  ASSUME NEW d \in Docs, UNCHANGED workerVars, UNCHANGED brokerVars,
         UNCHANGED <<sweep, todo, cur, del, target>>, points'[d] = points[d], object'[d] = object[d],
         status'[d] = status[d], etag'[d] = etag[d], lease'[d] = lease[d]
  PROVE  Outside(d)
  BY SameSagas DEF Outside, brokerVars

LEMMA PutOutside ==
  ASSUME TypeOK, NEW e \in Docs, NEW c \in Contents, PutObject(e, c), NEW d \in Docs
  PROVE  /\ \/ object'[d] = object[d]
            \/ object'[d] \in Contents /\ \E v \in queue' : v.doc = d /\ v.etag = object'[d]
         /\ queue \subseteq queue' /\ dlq \subseteq dlq'
<1>1. CASE d = e
  <2>1. object'[d] = c
    BY <1>1 DEF PutObject, TypeOK, StoreTypeOK
  <2>2. [id |-> published + 1, doc |-> e, etag |-> c, tries |-> 0] \in queue'
    BY DEF PutObject
  <2> QED  BY <1>1, <2>1, <2>2 DEF PutObject
<1>2. CASE d # e
  BY <1>2 DEF PutObject, TypeOK, StoreTypeOK
<1> QED  BY <1>1, <1>2

LEMMA UploadOutside ==
  ASSUME TypeOK, UploadNext, NEW d \in Docs
  PROVE  Outside(d)
<1> USE DEF rowVars, storeVars, reaperVars, deleteVars
<1>1. ASSUME NEW e \in Docs, CreateSession(e) \/ RefreshSession(e) PROVE Outside(d)
  <2>1. /\ UNCHANGED <<etag, lease, object, points, workerVars, brokerVars>>
        /\ UNCHANGED <<sweep, todo, cur, del, target>>
        /\ status' = [status EXCEPT ![e] = "uploading"]
        /\ status[e] \in {"unborn", "uploading", "expired"}
    BY <1>1 DEF CreateSession, RefreshSession, SetStatus
  <2>2. CASE d = e
    <3>1. status'[d] = "uploading"
      BY <2>1, <2>2 DEF TypeOK, RowTypeOK
    <3> QED  BY <2>1, <2>2, <3>1, SameSagas DEF Outside, brokerVars
  <2>3. CASE d # e
    BY <2>1, <2>3, Elsewhere DEF TypeOK, RowTypeOK
  <2> QED  BY <2>2, <2>3
<1>2. ASSUME NEW e \in Docs, NEW c \in Contents, ClientPut(e, c) PROVE Outside(d)
  BY <1>2, PutOutside, SameSagas DEF ClientPut, Outside
<1>3. ASSUME NEW e \in Docs, UrlExpires(e) \/ WindowLapses(e) PROVE Outside(d)
  BY <1>3, Elsewhere DEF UrlExpires, WindowLapses
<1>4. ASSUME NEW e \in Docs, LeaseLapses(e) PROVE Outside(d)
  <2>1. CASE d = e
    BY <1>4, <2>1, SameSagas DEF LeaseLapses, Outside, brokerVars
  <2>2. CASE d # e
    BY <1>4, <2>2, Elsewhere DEF LeaseLapses, TypeOK, RowTypeOK
  <2> QED  BY <2>1, <2>2
<1>5. ASSUME NEW e \in queue, DuplicateEvent(e) PROVE Outside(d)
  BY <1>5, SameSagas DEF DuplicateEvent, Outside
<1> QED  BY <1>1, <1>2, <1>3, <1>4, <1>5 DEF UploadNext

\* The guarded DELETE and the DELETE of the object, as another document and the one
\* they are about see them.
LEMMA RowOutside ==
  ASSUME TypeOK, NEW e \in Docs, DeleteTombstonedRow(e), NEW d \in Docs,
         UNCHANGED <<object, points, workerVars, brokerVars>>,
         Finishing(d)' => Finishing(d)
  PROVE  Outside(d)
<1>1. CASE d = e /\ status[e] = "deleting"
  <2>1. status'[d] = "gone"
    BY <1>1 DEF DeleteTombstonedRow, SetStatus, TypeOK, RowTypeOK
  <2> QED  BY <1>1, <2>1 DEF Outside, brokerVars
<1>2. CASE d # e \/ status[e] # "deleting"
  <2>1. status'[d] = status[d] /\ lease'[d] = lease[d] /\ etag'[d] = etag[d]
    BY <1>2 DEF DeleteTombstonedRow, SetStatus, ReleaseLease, TypeOK, RowTypeOK, rowVars
  <2> QED  BY <2>1 DEF Outside, brokerVars
<1> QED  BY <1>1, <1>2

LEMMA ObjectOutside ==
  ASSUME TypeOK, NEW e \in Docs, DropObject(e), Finishing(e), NEW d \in Docs,
         UNCHANGED <<rowVars, points, workerVars, brokerVars>>,
         Finishing(d)' => Finishing(d)
  PROVE  Outside(d)
<1>1. object'[d] = object[d] \/ (object'[d] = None /\ d = e)
  BY DEF DropObject, TypeOK, StoreTypeOK
<1> QED  BY <1>1 DEF Outside, brokerVars, rowVars

LEMMA PointsOutside ==
  ASSUME TypeOK, NEW e \in Docs, DropPoints(e), Finishing(e), NEW d \in Docs,
         UNCHANGED <<rowVars, object, workerVars, brokerVars>>,
         Finishing(d)' => Finishing(d)
  PROVE  Outside(d)
<1>1. points'[d] = points[d] \/ (points'[d] = Blank /\ d = e)
  BY DEF DropPoints, TypeOK, StoreTypeOK
<1> QED  BY <1>1 DEF Outside, brokerVars, rowVars

LEMMA ReaperOutside ==
  ASSUME TypeOK, NEW r \in Reapers, ReaperStepOf(r) \/ SweepFails(r), NEW d \in Docs
  PROVE  Outside(d)
<1> USE DEF storeVars, deleteVars
<1>1. ASSUME ExpireUploads(r) PROVE Outside(d)
  <2>1. Finishing(d)' => Finishing(d)
    BY <1>1 DEF ExpireUploads, SweepTo, Finishing, TypeOK, ReaperTypeOK
  <2>2. \/ status'[d] = status[d]
        \/ status[d] = "uploading" /\ status'[d] = "expired"
    BY <1>1 DEF ExpireUploads, Abandoned
  <2> QED  BY <1>1, <2>1, <2>2 DEF ExpireUploads, Outside, brokerVars
<1>2. ASSUME ReclaimLeases(r) PROVE Outside(d)
  <2>1. Finishing(d)' => Finishing(d)
    BY <1>2 DEF ReclaimLeases, SweepTo, Finishing, TypeOK, ReaperTypeOK
  <2>2. \/ status'[d] = status[d] /\ lease'[d] = lease[d]
        \/ status[d] = "processing" /\ lease[d] = "lapsed" /\ status'[d] = "failed"
    BY <1>2 DEF ReclaimLeases, Stale
  <2> QED  BY <1>2, <2>1, <2>2 DEF ReclaimLeases, Outside, brokerVars
<1>3. ASSUME SelectDeletions(r) PROVE Outside(d)
  <2>1. Finishing(d)' => Finishing(d) \/ status[d] = "deleting"
    BY <1>3 DEF SelectDeletions, Finishing, Finishable, TypeOK, ReaperTypeOK
  <2> QED  BY <1>3, <2>1 DEF SelectDeletions, Outside, brokerVars, rowVars
<1>4. ASSUME SweepVectors(r) PROVE Outside(d)
  <2>1. PICK e \in todo[r] : /\ DropPoints(e)
                             /\ cur' = [cur EXCEPT ![r] = e]
                             /\ todo' = [todo EXCEPT ![r] = @ \ {e}]
    BY <1>4 DEF SweepVectors
  <2>2. e \in Docs /\ Finishing(e)
    BY <2>1 DEF Finishing, TypeOK, ReaperTypeOK
  <2>3. Finishing(d)' => Finishing(d)
    BY <1>4, <2>1 DEF SweepVectors, Finishing, TypeOK, ReaperTypeOK
  <2> QED  BY <1>4, <2>1, <2>2, <2>3, PointsOutside DEF SweepVectors
<1>5. ASSUME SweepObject(r) PROVE Outside(d)
  <2>1. Finishing(d)' => Finishing(d)
    BY <1>5 DEF SweepObject, SweepTo, Finishing, TypeOK, ReaperTypeOK
  <2>2. cur[r] \in Docs /\ Finishing(cur[r])
    BY <1>5 DEF SweepObject, Finishing, TypeOK, ReaperTypeOK
  <2> QED  BY <1>5, <2>1, <2>2, ObjectOutside DEF SweepObject
<1>6. ASSUME SweepRow(r) PROVE Outside(d)
  <2>1. Finishing(d)' => Finishing(d)
    BY <1>6 DEF SweepRow, Finishing, TypeOK, ReaperTypeOK
  <2>2. cur[r] \in Docs
    BY <1>6 DEF SweepRow, TypeOK, ReaperTypeOK
  <2> QED  BY <1>6, <2>1, <2>2, RowOutside DEF SweepRow
<1>7. ASSUME SweepFails(r) PROVE Outside(d)
  <2>1. Finishing(d)' => Finishing(d)
    BY <1>7 DEF SweepFails, Finishing, TypeOK, ReaperTypeOK
  <2> QED  BY <1>7, <2>1 DEF SweepFails, Outside, brokerVars, rowVars
<1> QED  BY <1>1, <1>2, <1>3, <1>4, <1>5, <1>6, <1>7 DEF ReaperStepOf

LEMMA DeleteOutside ==
  ASSUME TypeOK, NEW x \in Deleters, DeleteNext(x), NEW d \in Docs
  PROVE  Outside(d)
<1> USE DEF rowVars, storeVars, brokerVars, reaperVars
<1>1. ASSUME \/ \E e \in Docs : DeleteBegin(x, e)
             \/ Redact(x) \/ CloseAudit(x) \/ DeleteFails(x)
      PROVE  Outside(d)
  <2>1. Finishing(d)' => Finishing(d)
    BY <1>1 DEF DeleteBegin, Redact, DeleteFails, CloseAudit, DeleteTo, Finishing, TypeOK,
                DeleteTypeOK
  <2> QED
    BY <1>1, <2>1 DEF DeleteBegin, Redact, DeleteFails, CloseAudit, Outside
<1>2. ASSUME Tombstone(x) PROVE Outside(d)
  <2>1. target[x] \in Docs
    BY <1>2 DEF Tombstone, TypeOK, DeleteTypeOK
  <2>2. \/ status'[d] = status[d] /\ (Finishing(d)' => Finishing(d))
        \/ status'[d] = "deleting"
    <3>1. CASE UNCHANGED status
      BY <1>2, <2>1, <3>1
         DEF Tombstone, DeleteTo, SetStatus, Finishing, TypeOK, DeleteTypeOK, RowTypeOK
    <3>2. CASE SetStatus(target[x], "deleting") /\ d = target[x]
      BY <3>2 DEF SetStatus, TypeOK, RowTypeOK
    <3>3. CASE SetStatus(target[x], "deleting") /\ d # target[x]
      <4>1. status'[d] = status[d]
        BY <3>3 DEF SetStatus, TypeOK, RowTypeOK
      <4>2. Finishing(d)' => Finishing(d)
        BY <1>2, <3>3 DEF Tombstone, DeleteTo, Finishing, TypeOK, DeleteTypeOK
      <4> QED  BY <4>1, <4>2
    <3> QED  BY <1>2, <3>1, <3>2, <3>3 DEF Tombstone
  <2> QED  BY <1>2, <2>2 DEF Tombstone, Outside
<1>3. ASSUME DeleteVectors(x) PROVE Outside(d)
  <2>1. Finishing(d)' => Finishing(d)
    BY <1>3 DEF DeleteVectors, DeleteTo, Finishing, TypeOK, DeleteTypeOK
  <2>2. target[x] \in Docs /\ Finishing(target[x])
    BY <1>3 DEF DeleteVectors, Finishing, TypeOK, DeleteTypeOK
  <2> QED  BY <1>3, <2>1, <2>2, PointsOutside DEF DeleteVectors
<1>4. ASSUME DeleteObject(x) PROVE Outside(d)
  <2>1. Finishing(d)' => Finishing(d)
    BY <1>4 DEF DeleteObject, DeleteTo, Finishing, TypeOK, DeleteTypeOK
  <2>2. target[x] \in Docs /\ Finishing(target[x])
    BY <1>4 DEF DeleteObject, Finishing, TypeOK, DeleteTypeOK
  <2> QED  BY <1>4, <2>1, <2>2, ObjectOutside DEF DeleteObject
<1>5. ASSUME DeleteRow(x) PROVE Outside(d)
  <2>1. Finishing(d)' => Finishing(d)
    BY <1>5 DEF DeleteRow, DeleteTo, Finishing, TypeOK, DeleteTypeOK
  <2>2. target[x] \in Docs
    BY <1>5 DEF DeleteRow, TypeOK, DeleteTypeOK
  <2> QED  BY <1>5, <2>1, <2>2, RowOutside DEF DeleteRow
<1> QED  BY <1>1, <1>2, <1>3, <1>4, <1>5 DEF DeleteNext, DeleteStepOf

LEMMA IngestOutside ==
  ASSUME TypeOK, NEW g \in Ingesters, IngestNext(g), NEW d \in Docs
  PROVE  Outside(d)
<1> USE DEF rowVars, storeVars, reaperVars, deleteVars
<1>1. ASSUME NEW y \in ExternalIds \cup {None}, NEW c \in Contents, InlineSelect(g, y, c)
      PROVE  Outside(d)
  BY <1>1, Elsewhere DEF InlineSelect
<1>2. ASSUME InlineUpdate(g) PROVE Outside(d)
  <2>1. ~NothingFound
    BY <1>2 DEF InlineUpdate, NothingFound
  <2>2. status'[d] = status[d] \/ status'[d] = "uploading"
    BY <1>2 DEF InlineUpdate, SetStatus, TypeOK, RowTypeOK
  <2> QED  BY <1>2, <2>1, <2>2, SameSagas DEF InlineUpdate, Outside, brokerVars
<1>3. ASSUME InlineInsert(g) PROVE Outside(d)
  <2>1. CASE UNCHANGED rowVars
    BY <1>3, <2>1, Elsewhere DEF InlineInsert
  <2>2. CASE ~UNCHANGED rowVars
    <3>1. PICK e \in Docs : status[e] = "unborn" /\ SetStatus(e, "uploading")
      BY <1>3, <2>2 DEF InlineInsert
    <3>2. \/ status'[d] = status[d]
          \/ status[d] = "unborn" /\ status'[d] = "uploading"
      BY <3>1 DEF SetStatus, TypeOK, RowTypeOK
    <3> QED  BY <1>3, <2>2, <3>2, SameSagas DEF InlineInsert, Outside, brokerVars
  <2> QED  BY <2>1, <2>2
<1>4. ASSUME InlinePut(g) PROVE Outside(d)
  <2>1. ingDoc[g] \in Docs /\ ingText[g] \in Contents
    BY <1>4 DEF InlinePut, TypeOK, IngestTypeOK
  <2> QED  BY <1>4, <2>1, PutOutside, SameSagas DEF InlinePut, Outside, brokerVars
<1> QED  BY <1>1, <1>2, <1>3, <1>4 DEF IngestNext, IngestStepOf

LEMMA AskOutside ==
  ASSUME NEW a \in Askers, AskNext(a), NEW d \in Docs
  PROVE  Outside(d)
  BY Elsewhere DEF AskNext, AskRetrieve, AskPersist, AskFails, rowVars, storeVars, reaperVars,
                   deleteVars

\* Every step is one of a worker or one that the document sees from outside.
LEMMA OutsideOrWorker ==
  ASSUME TypeOK, [Next]_vars
  PROVE  \/ \E w \in Workers : WorkerNext(w)
         \/ \A d \in Docs : Outside(d)
<1>1. CASE UNCHANGED vars
  BY <1>1, Elsewhere DEF vars, rowVars, storeVars, reaperVars, deleteVars
<1> QED
  BY <1>1, UploadOutside, ReaperOutside, DeleteOutside, IngestOutside, AskOutside DEF Next

-----------------------------------------------------------------------------
(* Whoever erases a document.                                              *)

\* No caller's re-sync brings a tombstoned row back: there are no re-syncs, or no
\* deletions.
Undisturbed == ExternalIds = {} \/ Deleters = {}

\* Whoever erases d does so behind its tombstone, and without a deletion nobody does.
HandsOff(d) ==
  /\ Finishing(d) => status[d] \in {"deleting", "gone", "quarantined"}
  /\ Deleters = {} => ~Finishing(d) /\ status[d] # "deleting"

LEMMA OutsideHandsOff ==
  ASSUME NEW d \in Docs, HandsOff(d), Outside(d), ExternalIds = {} => NothingFound, Undisturbed
  PROVE  HandsOff(d)'
  BY DEF HandsOff, Outside, Undisturbed

LEMMA WorkerHandsOff ==
  ASSUME NEW d \in Docs, HandsOff(d), UNCHANGED <<sweep, todo, cur, del, target>>,
         \/ status'[d] = status[d]
         \/ status[d] \notin {"deleting", "gone", "quarantined"} /\ status'[d] # "deleting"
         \/ status'[d] = "quarantined"
  PROVE  HandsOff(d)'
  BY SameSagas DEF HandsOff

LEMMA WorkerHandsOffStep ==
  ASSUME TypeOK, NEW w \in Workers, WorkerNext(w), NEW d \in Docs, HandsOff(d)
  PROVE  HandsOff(d)'
<1>1. UNCHANGED <<sweep, todo, cur, del, target>>
  BY DEF WorkerNext, WorkerStepOf, Receive, Quarantine, Purge, Claim, Verify, Download,
         ClearPoints, Upsert, IngestError, MarkReady, MarkFailed, WorkerDbError, Disconnect,
         Crash, reaperVars, deleteVars
<1>2. ASSUME Quarantine(w) PROVE status'[d] = status[d] \/ status'[d] = "quarantined"
  BY <1>2 DEF Quarantine, SetStatus, TypeOK, RowTypeOK, rowVars
<1>3. ASSUME Claim(w)
      PROVE  \/ status'[d] = status[d]
             \/ status[d] \notin {"deleting", "gone", "quarantined"} /\ status'[d] # "deleting"
  BY <1>3 DEF Claim, Claimable, Exists, SetStatus, TypeOK, RowTypeOK, rowVars
<1>4. ASSUME MarkReady(w) \/ MarkFailed(w)
      PROVE  \/ status'[d] = status[d]
             \/ status[d] \notin {"deleting", "gone", "quarantined"} /\ status'[d] # "deleting"
  BY <1>4 DEF MarkReady, MarkFailed, FinishFromProcessing, SetStatus, TypeOK, RowTypeOK, rowVars
<1>5. \/ status'[d] = status[d]
      \/ Quarantine(w) \/ Claim(w) \/ MarkReady(w) \/ MarkFailed(w)
  BY DEF WorkerNext, WorkerStepOf, Receive, Purge, Verify, Download, ClearPoints, Upsert,
         IngestError, WorkerDbError, Disconnect, Crash, rowVars
<1> QED  BY <1>1, <1>2, <1>3, <1>4, <1>5, WorkerHandsOff

-----------------------------------------------------------------------------
(* One version, whole.                                                     *)

\* Nobody indexes a document beside another worker: there is one worker, or indexing
\* ends within its lease and no caller's re-sync writes over a claim.
SoleWorker == \A v, w \in Workers : v = w

Unhurried == ~LeaseOverrun /\ ExternalIds = {}

\* The points of d are those of one content, all of them.
OneVersion(d) == \E c \in Contents : points[d] = Whole(c)

WholeAt(d) ==
  /\ \A v, w \in Workers : Indexing(v, d) /\ Indexing(w, d) => v = w
  /\ Unhurried => \A w \in Workers : Indexing(w, d) =>
        /\ status[d] \in {"processing", "deleting", "quarantined", "gone"}
        /\ status[d] = "processing" => lease[d] = "running"
  /\ \A w \in Workers : step[w] = "cleared" /\ job[w].doc = d => points[d] = Blank
  /\ points[d] = Blank \/ OneVersion(d)
  /\ \A w \in Workers : Indexing(w, d) => status[d] # "ready"
  /\ \A w \in Workers :
        step[w] = "indexed" /\ job[w].doc = d /\ status[d] = "processing" => OneVersion(d)
  /\ status[d] = "ready" => OneVersion(d)

\* A step keeps it that adds no point, lets no worker in, leaves the claim of one that is
\* in alone or takes the document out of everybody's reach, and wipes nothing that is
\* ready or about to be.
LEMMA KeepWhole ==
  ASSUME NEW d \in Docs, WholeAt(d),
         points'[d] = points[d] \/ points'[d] = Blank,
         \A w \in Workers : Indexing(w, d)' => Indexing(w, d),
         \A w \in Workers : step'[w] = "cleared" /\ job'[w].doc = d =>
            points'[d] = Blank \/ (step[w] = "cleared" /\ job[w].doc = d),
         \/ \A w \in Workers : ~Indexing(w, d)'
         \/ status'[d] = status[d] /\ lease'[d] = lease[d]
         \/ status'[d] \in {"deleting", "quarantined", "gone"}
         \/ ~Unhurried,
         status'[d] = "ready" => status[d] = "ready" /\ points'[d] = points[d],
         \A w \in Workers :
            step'[w] = "indexed" /\ job'[w].doc = d /\ status'[d] = "processing" =>
              /\ points'[d] = points[d]
              /\ OneVersion(d)
                   \/ (step[w] = "indexed" /\ job[w].doc = d /\ status[d] = "processing")
  PROVE  WholeAt(d)'
<1>1. points'[d] = points[d] => (OneVersion(d)' <=> OneVersion(d))
  BY DEF OneVersion, Whole
<1> QED  BY <1>1 DEF WholeAt, Blank, Unhurried

\* Most steps of a worker leave the row and the points alone, and bring nobody further.
LEMMA QuietWhole ==
  ASSUME NEW d \in Docs, WholeAt(d), points'[d] = points[d],
         \A w \in Workers : Indexing(w, d)' => Indexing(w, d),
         \A w \in Workers : step'[w] = "cleared" /\ job'[w].doc = d =>
            step[w] = "cleared" /\ job[w].doc = d,
         \A w \in Workers : step'[w] = "indexed" /\ job'[w].doc = d =>
            step[w] = "indexed" /\ job[w].doc = d,
         \/ status'[d] = status[d] /\ lease'[d] = lease[d]
         \/ status'[d] = "quarantined"
  PROVE  WholeAt(d)'
  BY KeepWhole

LEMMA OutsideWhole ==
  ASSUME TypeOK, NEW d \in Docs, WholeAt(d), Outside(d), HandsOff(d), HandsOff(d)',
         ExternalIds = {} => NothingFound
  PROVE  WholeAt(d)'
<1>1. UNCHANGED <<step, job>>
  BY DEF Outside, workerVars
<1>2. \/ \A w \in Workers : ~Indexing(w, d)'
      \/ status'[d] = status[d] /\ lease'[d] = lease[d]
      \/ status'[d] \in {"deleting", "quarantined", "gone"}
      \/ ~Unhurried
  BY <1>1, SameWorkers DEF Outside, WholeAt, Unhurried
<1>3. status'[d] \in {"processing", "ready"} =>
        status'[d] = status[d] /\ points'[d] = points[d]
  BY DEF Outside, HandsOff
<1> QED  BY <1>1, <1>2, <1>3, SameWorkers, KeepWhole DEF Outside

LEMMA WorkerWhole ==
  ASSUME SoleWorker \/ Unhurried, TypeOK, NEW w \in Workers, WorkerNext(w),
         NEW d \in Docs, WholeAt(d)
  PROVE  WholeAt(d)'
<1> USE DEF rowVars, storeVars
<1> DEFINE Stays(s) == \A v \in Workers : step'[v] = s /\ job'[v].doc = d =>
                          step[v] = s /\ job[v].doc = d
<1>1. ASSUME Receive(w) PROVE WholeAt(d)'
  <2>1. \A v \in Workers : Indexing(v, d)' => Indexing(v, d)
    BY <1>1 DEF Receive, Indexing, TypeOK, WorkerTypeOK
  <2>2. Stays("cleared") /\ Stays("indexed")
    BY <1>1 DEF Receive, TypeOK, WorkerTypeOK
  <2> QED  BY <1>1, <2>1, <2>2, QuietWhole DEF Receive
<1>2. ASSUME Quarantine(w) PROVE WholeAt(d)'
  <2>1. job[w].doc \in Docs
    BY <1>2, JobTypes DEF Quarantine
  <2>2. \A v \in Workers : Indexing(v, d)' => Indexing(v, d)
    BY <1>2 DEF Quarantine, Nack, Idle, Goto, Indexing, TypeOK, WorkerTypeOK
  <2>3. Stays("cleared") /\ Stays("indexed")
    BY <1>2 DEF Quarantine, Nack, Idle, Goto, TypeOK, WorkerTypeOK
  <2>4. \/ status'[d] = status[d] /\ lease'[d] = lease[d]
        \/ status'[d] = "quarantined"
    BY <1>2, <2>1 DEF Quarantine, SetStatus, ReleaseLease, TypeOK, RowTypeOK
  <2> QED  BY <1>2, <2>2, <2>3, <2>4, QuietWhole DEF Quarantine
<1>3. ASSUME Idle(w), UNCHANGED <<status, lease, points>> PROVE WholeAt(d)'
  <2>1. Stays("cleared") /\ Stays("indexed")
    BY <1>3 DEF Idle, TypeOK, WorkerTypeOK
  <2> QED  BY <1>3, <2>1, IdleKeeps, QuietWhole
<1>4. ASSUME Claim(w) PROVE WholeAt(d)'
  <2>1. CASE Claimable(job[w])
    <3>1. job[w].doc \in Docs
      BY <1>4, JobTypes DEF Claim
    <3>2. /\ status' = [status EXCEPT ![job[w].doc] = "processing"]
          /\ lease' = [lease EXCEPT ![job[w].doc] = "running"]
          /\ Goto(w, "claimed")
          /\ UNCHANGED points
      BY <1>4, <2>1 DEF Claim, SetStatus
    <3>3. \A v \in Workers : Indexing(v, d)' =>
              Indexing(v, d) \/ (v = w /\ d = job[w].doc)
      BY <1>4, <3>2 DEF Claim, Goto, Indexing, TypeOK, WorkerTypeOK
    <3>4. Stays("cleared") /\ Stays("indexed")
      BY <3>2 DEF Goto, TypeOK, WorkerTypeOK
    <3>5. CASE d = job[w].doc
      <4>1. Exists(d) /\ status[d] \notin {"processing", "quarantined", "deleting"}
        BY <2>1, <3>5 DEF Claimable
      <4>2. \A u, v \in Workers : Indexing(u, d)' /\ Indexing(v, d)' => u = v
        BY <3>3, <4>1 DEF WholeAt, Exists, SoleWorker
      <4>3. status'[d] = "processing" /\ lease'[d] = "running"
        BY <3>1, <3>2, <3>5 DEF TypeOK, RowTypeOK
      <4>4. \A v \in Workers : ~(step'[v] = "indexed" /\ job'[v].doc = d)
        <5> SUFFICES ASSUME NEW v \in Workers, step'[v] = "indexed", job'[v].doc = d
                     PROVE  FALSE
          OBVIOUS
        <5>1. Indexing(v, d) /\ v # w
          BY <1>4, <3>4 DEF Indexing, Claim
        <5>2. ~SoleWorker
          BY <5>1 DEF SoleWorker
        <5> QED  BY <4>1, <5>1, <5>2 DEF WholeAt, Exists
      <4> QED  BY <3>2, <3>4, <4>2, <4>3, <4>4 DEF WholeAt, OneVersion, Blank, Whole, Unhurried
    <3>6. CASE d # job[w].doc
      BY <3>1, <3>2, <3>3, <3>4, <3>6, QuietWhole DEF TypeOK, RowTypeOK
    <3> QED  BY <3>5, <3>6
  <2>2. CASE ~Claimable(job[w])
    BY <1>3, <1>4, <2>2 DEF Claim, Ack
  <2> QED  BY <2>1, <2>2
<1>5. ASSUME NEW s \in WorkerStep \ {"cleared", "indexed"}, Goto(w, s),
             UNCHANGED <<status, lease, points>>,
             step[w] \in {"claimed", "verified", "fetched", "cleared"}
      PROVE  WholeAt(d)'
  <2>1. \A v \in Workers : Indexing(v, d)' => Indexing(v, d)
    BY <1>5, GotoKeeps
  <2>2. Stays("cleared") /\ Stays("indexed")
    BY <1>5 DEF Goto, TypeOK, WorkerTypeOK
  <2> QED  BY <1>5, <2>1, <2>2, QuietWhole
<1>6. ASSUME Verify(w) PROVE WholeAt(d)'
  BY <1>5, <1>6 DEF Verify, WorkerStep
<1>7. ASSUME Download(w) PROVE WholeAt(d)'
  <2>1. \A v \in Workers : Indexing(v, d)' => Indexing(v, d)
    BY <1>7 DEF Download, Goto, Indexing, TypeOK, WorkerTypeOK
  <2>2. Stays("cleared")
    BY <1>7 DEF Download, Goto, TypeOK, WorkerTypeOK
  <2>3. UNCHANGED <<status, lease, points>> /\ Indexing(w, job[w].doc)
    BY <1>7 DEF Download, Indexing
  <2>4. ASSUME NEW v \in Workers, step'[v] = "indexed", job'[v].doc = d,
               ~(step[v] = "indexed" /\ job[v].doc = d)
        PROVE  OneVersion(d)
    <3>1. CASE points[d] = Blank
      <4>1. v = w /\ object[job[w].doc] # None /\ ChunksOf[object[job[w].doc]] = {}
        BY <1>7, <2>4 DEF Download, Goto, TypeOK, WorkerTypeOK
      <4>2. object[job[w].doc] \in Contents
        BY <1>7, <4>1, JobTypes DEF Download, TypeOK, StoreTypeOK
      <4>3. points[d] = Whole(object[job[w].doc])
        BY <3>1, <4>1 DEF Blank, Whole
      <4> QED  BY <4>2, <4>3 DEF OneVersion
    <3> QED  BY <3>1 DEF WholeAt
  <2> QED  BY <2>1, <2>2, <2>3, <2>4, KeepWhole
<1>8. ASSUME ClearPoints(w) PROVE WholeAt(d)'
  <2>1. \A v \in Workers : Indexing(v, d)' => Indexing(v, d)
    BY <1>8, GotoKeeps DEF ClearPoints, WorkerStep
  <2>2. /\ points'[d] = points[d] \/ points'[d] = Blank
        /\ job[w].doc # d => points'[d] = points[d]
    BY <1>8 DEF ClearPoints, DropPoints, TypeOK, StoreTypeOK
  <2>3. \A v \in Workers : step'[v] = "cleared" /\ job'[v].doc = d =>
            points'[d] = Blank \/ (step[v] = "cleared" /\ job[v].doc = d)
    BY <1>8 DEF ClearPoints, DropPoints, Goto, TypeOK, StoreTypeOK, WorkerTypeOK
  <2>4. Stays("indexed")
    BY <1>8 DEF ClearPoints, Goto, TypeOK, WorkerTypeOK
  <2>5. UNCHANGED <<status, lease>> /\ Indexing(w, job[w].doc)
    BY <1>8 DEF ClearPoints, Indexing
  <2>6. job[w].doc = d =>
          /\ status[d] # "ready"
          /\ \A v \in Workers : ~(step'[v] = "indexed" /\ job'[v].doc = d)
    BY <1>8, <2>4, <2>5 DEF WholeAt, Indexing, ClearPoints
  <2> QED  BY <2>1, <2>2, <2>3, <2>4, <2>5, <2>6, KeepWhole
<1>9. ASSUME Upsert(w) PROVE WholeAt(d)'
  <2>1. job[w].doc \in Docs /\ text[w] \in Contents
    BY <1>9, JobTypes DEF Upsert, TypeOK, WorkerTypeOK
  <2>2. \A v \in Workers : Indexing(v, d)' => Indexing(v, d)
    BY <1>9, GotoKeeps DEF Upsert, WorkerStep
  <2>3. \A v \in Workers : step'[v] = "cleared" /\ job'[v].doc = d =>
            step[v] = "cleared" /\ job[v].doc = d /\ v # w
    BY <1>9 DEF Upsert, Goto, TypeOK, WorkerTypeOK
  <2>4. UNCHANGED <<status, lease>>
    BY <1>9 DEF Upsert
  <2>5. CASE d = job[w].doc
    <3>1. points[d] = Blank
      BY <1>9, <2>5 DEF Upsert, WholeAt
    <3>2. points'[d] = Whole(text[w])
      BY <1>9, <2>1, <2>5, <3>1 DEF Upsert, Whole, Blank, TypeOK, StoreTypeOK
    <3>3. \A v \in Workers : ~(step'[v] = "cleared" /\ job'[v].doc = d)
      BY <1>9, <2>3, <2>5 DEF Upsert, WholeAt, Indexing
    <3>4. OneVersion(d)'
      BY <2>1, <3>2 DEF OneVersion, Whole
    <3> QED  BY <2>2, <2>4, <3>3, <3>4 DEF WholeAt, Unhurried
  <2>6. CASE d # job[w].doc
    <3>1. points'[d] = points[d]
      BY <1>9, <2>6 DEF Upsert, TypeOK, StoreTypeOK
    <3>2. Stays("indexed")
      BY <1>9, <2>6 DEF Upsert, Goto, TypeOK, WorkerTypeOK
    <3> QED  BY <2>2, <2>3, <2>4, <3>1, <3>2, QuietWhole
  <2> QED  BY <2>5, <2>6
<1>10. ASSUME IngestError(w) PROVE WholeAt(d)'
  BY <1>5, <1>10 DEF IngestError, WorkerStep
<1>11. ASSUME NEW s \in {"ready", "failed"}, FinishFromProcessing(job[w].doc, s), Idle(w),
              Indexing(w, job[w].doc), UNCHANGED points, s = "ready" => step[w] = "indexed"
       PROVE  WholeAt(d)'
  <2>1. job[w].doc \in Docs
    BY <1>11, JobTypes DEF Indexing
  <2>2. CASE d = job[w].doc /\ status[d] = "processing"
    <3>1. status'[d] = s
      BY <1>11, <2>1, <2>2 DEF FinishFromProcessing, SetStatus, TypeOK, RowTypeOK
    <3>2. \A v \in Workers : ~Indexing(v, d)'
      BY <1>11, <2>2, IdleKeeps DEF WholeAt
    <3>3. \A v \in Workers : step'[v] \in {"cleared", "indexed"} => job'[v].doc # d
      BY <3>2 DEF Indexing
    <3>4. s = "ready" => OneVersion(d)
      BY <1>11, <2>2 DEF WholeAt
    <3>5. points'[d] = Blank \/ OneVersion(d)'
      BY <1>11 DEF WholeAt, OneVersion, Blank, Whole
    <3>6. s = "ready" => OneVersion(d)'
      BY <1>11, <3>4 DEF OneVersion, Whole
    <3> QED  BY <3>1, <3>2, <3>3, <3>5, <3>6 DEF WholeAt
  <2>3. CASE d # job[w].doc \/ status[d] # "processing"
    <3>1. Stays("cleared") /\ Stays("indexed")
      BY <1>11 DEF Idle, TypeOK, WorkerTypeOK
    <3>2. status'[d] = status[d] /\ lease'[d] = lease[d]
      BY <1>11, <2>1, <2>3
         DEF FinishFromProcessing, SetStatus, ReleaseLease, TypeOK, RowTypeOK
    <3> QED  BY <1>11, <3>1, <3>2, IdleKeeps, QuietWhole
  <2> QED  BY <2>2, <2>3
<1>12. ASSUME MarkReady(w) PROVE WholeAt(d)'
  BY <1>11, <1>12 DEF MarkReady, Ack, Indexing
<1>13. ASSUME MarkFailed(w) PROVE WholeAt(d)'
  <2>1. Idle(w) /\ Indexing(w, job[w].doc) /\ UNCHANGED points
    BY <1>13 DEF MarkFailed, Ack, Nack, Indexing
  <2> QED  BY <1>3, <1>11, <1>13, <2>1 DEF MarkFailed
<1>14. ASSUME Disconnect(w) PROVE WholeAt(d)'
  BY <1>14, SameWorkers, QuietWhole DEF Disconnect
<1> QED
  BY <1>1, <1>2, <1>3, <1>4, <1>6, <1>7, <1>8, <1>9, <1>10, <1>12, <1>13, <1>14
     DEF WorkerNext, WorkerStepOf, Purge, Ack, WorkerDbError, Crash, Nack

WholeIInv ==
  /\ TypeOK
  /\ ExternalIds = {} => NothingFound
  /\ \A d \in Docs : HandsOff(d) /\ WholeAt(d)

LEMMA WholeInit == Init => WholeIInv
  BY InitTypes DEF Init, WholeIInv, HandsOff, Finishing, WholeAt, Indexing, NothingFound, Blank

LEMMA WholeStep ==
  ASSUME SoleWorker \/ Unhurried, Undisturbed, WholeIInv, [Next]_vars
  PROVE  WholeIInv'
<1>1. TypeOK' /\ (ExternalIds = {} => NothingFound')
  BY StepTypes, NothingIsFound DEF WholeIInv
<1>2. ASSUME NEW d \in Docs PROVE HandsOff(d)' /\ WholeAt(d)'
  <2>1. CASE Outside(d)
    BY <2>1, OutsideHandsOff, OutsideWhole DEF WholeIInv
  <2>2. ASSUME NEW w \in Workers, WorkerNext(w) PROVE HandsOff(d)' /\ WholeAt(d)'
    BY <2>2, WorkerHandsOffStep, WorkerWhole DEF WholeIInv
  <2> QED  BY <2>1, <2>2, OutsideOrWorker DEF WholeIInv
<1> QED  BY <1>1, <1>2 DEF WholeIInv

\* A document that is reported ready is indexed, whole and from one version of its bytes
\* (ingest, point_id, mark_ready), whatever attempts failed half-way: no chunk of it is
\* missing and none is another version's.  No two workers may index it at once, and a
\* caller's re-sync may not bring a tombstoned row back, under whose erasure it would be
\* indexed.  With one worker it holds even if indexing outlives its lease, if callers
\* re-sync where nobody deletes, and if oversize objects write over any status.
THEOREM ReadyIsWholeHolds ==
  ASSUME SoleWorker \/ Unhurried, Undisturbed
  PROVE  Spec => []ReadyIsWhole
<1>1. WholeIInv /\ [Next]_vars => WholeIInv'
  BY WholeStep
<1>2. WholeIInv => ReadyIsWhole
  BY DEF WholeIInv, WholeAt, OneVersion, ReadyIsWhole
<1> QED  BY <1>1, <1>2, WholeInit, PTL DEF Spec

-----------------------------------------------------------------------------
(* Catching up.                                                            *)

\* Every content has text, and no caller's re-sync brings a tombstoned row back.
Steadfast == (\A c \in Contents : ChunksOf[c] # {}) /\ Undisturbed

\* A PUT that brings back, over other bytes, the bytes whose etag the row records: their
\* event is then taken for one that has been dealt with (claim_decision).
BytesReturn(d) ==
  /\ status[d] \in {"processing", "ready"}
  /\ object[d] \notin {None, etag[d]}
  /\ object'[d] = etag[d]

\* The behaviours in which no client does that.
SteadySpec == Spec /\ [][\A d \in Docs : ~BytesReturn(d)]_vars

\* An event of what the object of d holds is on its way or dead-lettered.
Told(d) == \E e \in queue \cup dlq : e.doc = d /\ e.etag = object[d]

InHand(d) == \E w \in Workers : step[w] = "received" /\ job[w].doc = d /\ job[w].etag = object[d]

\* A delivery that the broker no longer counts as a worker's own is back with it.
GivenBack ==
  \A w \in Workers : step[w] # "idle" /\ ~held[w] =>
    \E e \in queue \cup dlq : e.doc = job[w].doc /\ e.etag = job[w].etag

\* What the attempt of worker w at d has done, and that an overwrite it has not seen has
\* an event of its own, which the row will not take for old.
AttemptAt(w, d) ==
  /\ step[w] \notin {"idle", "received"} => status[d] # "ready"
  /\ step[w] = "cleared" => points[d] = Blank
  /\ status[d] = "processing" =>
      /\ step[w] \in {"verified", "fetched", "cleared", "indexed"} => object[d] # None
      /\ step[w] = "indexed" => text[w] \in Contents /\ points[d] = Whole(text[w])
      /\ step[w] \in {"fetched", "cleared", "indexed"} /\ object[d] # text[w] =>
            etag[d] # object[d] /\ Told(d)

\* A ready document has an object; it is that object which is indexed, or somebody has
\* yet to deal with the object's event, which the row will not take for old.
CaughtUpAt(d) ==
  status[d] = "ready" =>
    /\ object[d] # None
    /\ etag[d] = object[d] => points[d] = Whole(object[d])
    /\ points[d] = Whole(object[d]) \/ Told(d) \/ InHand(d)

CatchAt(d) ==
  /\ HandsOff(d)
  /\ \A w \in Workers : step[w] # "idle" /\ job[w].doc = d => AttemptAt(w, d)
  /\ CaughtUpAt(d)

CatchIInv ==
  /\ TypeOK
  /\ ExternalIds = {} => NothingFound
  /\ GivenBack
  /\ \A d \in Docs : CatchAt(d)

LEMMA CatchInit == Init => CatchIInv
  BY InitTypes
     DEF Init, CatchIInv, NothingFound, GivenBack, CatchAt, HandsOff, Finishing, CaughtUpAt

\* What is known of the object stays known when it is not overwritten, and an overwrite
\* brings its event along.
LEMMA OutsideTold ==
  ASSUME NEW d \in Docs, Outside(d)
  PROVE  /\ object'[d] = object[d] /\ Told(d) => Told(d)'
         /\ object'[d] # object[d] /\ object'[d] # None => Told(d)'
         /\ object'[d] = object[d] => (InHand(d)' <=> InHand(d))
<1>1. object'[d] = object[d] /\ Told(d) => Told(d)'
  BY DEF Outside, Told
<1>2. object'[d] # object[d] /\ object'[d] # None => Told(d)'
  BY DEF Outside, Told
<1>3. object'[d] = object[d] => (InHand(d)' <=> InHand(d))
  BY DEF Outside, InHand, workerVars
<1> QED  BY <1>1, <1>2, <1>3

LEMMA OutsideCatch ==
  ASSUME TypeOK, NEW d \in Docs, CatchAt(d), Outside(d), ExternalIds = {} => NothingFound,
         Steadfast, ~BytesReturn(d)
  PROVE  CatchAt(d)'
<1>1. HandsOff(d)'
  BY OutsideHandsOff DEF CatchAt, Steadfast
<1>2. UNCHANGED <<step, job, text>>
  BY DEF Outside, workerVars
<1>3. status'[d] \in {"processing", "ready"} =>
        /\ status'[d] = status[d] /\ etag'[d] = etag[d] /\ points'[d] = points[d]
        /\ object'[d] # object[d] => object'[d] \in Contents
  BY DEF Outside, CatchAt, HandsOff
<1>4. ASSUME NEW w \in Workers, step'[w] # "idle", job'[w].doc = d PROVE AttemptAt(w, d)'
  <2>1. AttemptAt(w, d)
    BY <1>2, <1>4 DEF CatchAt
  <2>2. points'[d] = points[d] \/ points'[d] = Blank
    BY DEF Outside
  <2>3. CASE status'[d] = "processing"
    <3>1. object'[d] # object[d] => object'[d] # None
      BY <1>3, <2>3, ContentAssumption
    <3>2. ASSUME step[w] \in {"fetched", "cleared", "indexed"}, object'[d] # text[w]
          PROVE  etag'[d] # object'[d] /\ Told(d)'
      <4>1. CASE object'[d] = object[d]
        BY <1>3, <2>1, <2>3, <3>2, <4>1, OutsideTold DEF AttemptAt
      <4>2. CASE object'[d] # object[d]
        <5>1. object[d] # None
          BY <1>3, <2>1, <2>3, <3>2 DEF AttemptAt
        <5>2. etag'[d] # object'[d]
          BY <1>3, <2>3, <4>2, <5>1 DEF BytesReturn
        <5> QED  BY <3>1, <4>2, <5>2, OutsideTold
      <4> QED  BY <4>1, <4>2
    <3> QED  BY <1>2, <1>3, <2>1, <2>3, <3>1, <3>2 DEF AttemptAt, Whole
  <2>4. CASE status'[d] # "processing"
    BY <1>2, <1>3, <2>1, <2>2, <2>4 DEF AttemptAt, Blank
  <2> QED  BY <2>3, <2>4
<1>5. CaughtUpAt(d)'
  <2> SUFFICES ASSUME status'[d] = "ready" PROVE CaughtUpAt(d)'
    BY DEF CaughtUpAt
  <2>1. CaughtUpAt(d) /\ status[d] = "ready" /\ object[d] # None
    BY <1>3 DEF CatchAt, CaughtUpAt
  <2>2. CASE object'[d] = object[d]
    BY <1>3, <2>1, <2>2, OutsideTold DEF CaughtUpAt, Whole
  <2>3. CASE object'[d] # object[d]
    <3>1. object'[d] # None
      BY <1>3, <2>3, ContentAssumption
    <3>2. etag'[d] # object'[d]
      BY <1>3, <2>1, <2>3 DEF BytesReturn
    <3> QED  BY <2>3, <3>1, <3>2, OutsideTold DEF CaughtUpAt
  <2> QED  BY <2>2, <2>3
<1> QED  BY <1>1, <1>4, <1>5, <1>2 DEF CatchAt

\* What goes back to the broker is there for somebody else, in one queue or the other.
LEMMA GiveBackReturns ==
  ASSUME TypeOK, GivenBack, NEW w \in Workers, step[w] # "idle", GiveBack(w)
  PROVE  /\ queue \subseteq queue' /\ dlq \subseteq dlq'
         /\ \E e \in queue' \cup dlq' : e.doc = job[w].doc /\ e.etag = job[w].etag
<1>1. job[w] \in Event
  BY JobTypes
<1>2. CASE ~held[w]
  BY <1>2 DEF GiveBack, GivenBack, brokerVars
<1>3. CASE held[w] /\ job[w].tries < DeliveryLimit
  <2>1. queue' = queue \cup {[job[w] EXCEPT !.tries = @ + 1]} /\ UNCHANGED dlq
    BY <1>1, <1>3, BoundAssumption DEF GiveBack, Redeliver, Event
  <2>2. /\ [job[w] EXCEPT !.tries = @ + 1].doc = job[w].doc
        /\ [job[w] EXCEPT !.tries = @ + 1].etag = job[w].etag
    BY <1>1 DEF Event
  <2> QED  BY <2>1, <2>2
<1>4. CASE held[w] /\ ~(job[w].tries < DeliveryLimit)
  BY <1>1, <1>4 DEF GiveBack, Redeliver
<1> QED  BY <1>2, <1>3, <1>4

\* A worker that goes idle leaves nothing undone at d.
LEMMA IdleCatch ==
  ASSUME SoleWorker, TypeOK, NEW w \in Workers, Idle(w), NEW d \in Docs, CatchAt(d), HandsOff(d)',
         Told(d) /\ object'[d] = object[d] => Told(d)',
         status'[d] = "ready" =>
            /\ status[d] = "ready"
            /\ etag'[d] = etag[d] /\ object'[d] = object[d] /\ points'[d] = points[d]
            /\ InHand(d) => Told(d)' \/ points[d] = Whole(object[d])
  PROVE  CatchAt(d)'
<1>1. \A v \in Workers : step'[v] = "idle"
  BY DEF Idle, SoleWorker, TypeOK, WorkerTypeOK
<1>2. CaughtUpAt(d)'
  BY DEF CatchAt, CaughtUpAt, Whole
<1> QED  BY <1>1, <1>2 DEF CatchAt

\* A worker past its claim goes on without touching the row, the object or the broker.
LEMMA OnwardCatch ==
  ASSUME SoleWorker, TypeOK, NEW w \in Workers, step[w] \notin {"idle", "received"},
         step'[w] \notin {"idle", "received"}, job'[w] = job[w],
         NEW d \in Docs, CatchAt(d), job[w].doc # d => points'[d] = points[d],
         UNCHANGED <<status, etag, object, queue, dlq, sweep, todo, cur, del, target>>,
         job[w].doc = d /\ AttemptAt(w, d) => AttemptAt(w, d)'
  PROVE  CatchAt(d)'
<1>1. HandsOff(d)'
  BY WorkerHandsOff DEF CatchAt
<1>2. \A v \in Workers : step'[v] # "idle" /\ job'[v].doc = d => AttemptAt(v, d)'
  BY DEF CatchAt, SoleWorker
<1>3. (Told(d)' <=> Told(d)) /\ ~InHand(d) /\ (job[w].doc = d => status[d] # "ready")
  BY DEF Told, InHand, SoleWorker, CatchAt, AttemptAt
<1>4. CaughtUpAt(d)'
  BY <1>3 DEF CatchAt, CaughtUpAt, Whole
<1> QED  BY <1>1, <1>2, <1>4 DEF CatchAt

LEMMA WorkerCatch ==
  ASSUME SoleWorker, Steadfast, TypeOK, GivenBack, NEW w \in Workers, WorkerNext(w),
         NEW d \in Docs, CatchAt(d)
  PROVE  CatchAt(d)'
<1> DEFINE j == job[w].doc
<1> USE DEF rowVars, storeVars, brokerVars, reaperVars, deleteVars
<1>0. step[w] # "idle" => j \in Docs /\ job[w].etag \in Contents
  BY JobTypes
<1>1. ASSUME Receive(w) PROVE CatchAt(d)'
  <2>1. PICK e \in queue : queue' = queue \ {e} /\ job' = [job EXCEPT ![w] = e]
    BY <1>1 DEF Receive
  <2>2. step'[w] = "received" /\ job'[w] = e
    BY <1>1, <2>1 DEF Receive, TypeOK, WorkerTypeOK
  <2>3. ~InHand(d) /\ (Told(d) => Told(d)' \/ InHand(d)')
    BY <1>1, <2>1, <2>2 DEF Receive, Told, InHand, SoleWorker
  <2>4. \A v \in Workers : AttemptAt(v, d)'
    BY <2>2 DEF AttemptAt, SoleWorker
  <2>5. CaughtUpAt(d)'
    BY <1>1, <2>3 DEF Receive, CatchAt, CaughtUpAt, Whole
  <2>6. HandsOff(d)'
    BY <1>1, WorkerHandsOff DEF Receive, CatchAt
  <2> QED  BY <2>4, <2>5, <2>6 DEF CatchAt
<1>2. ASSUME Quarantine(w) PROVE CatchAt(d)'
  <2>1. UNCHANGED <<object, points, sweep, todo, cur, del, target>>
    BY <1>2 DEF Quarantine
  <2>2. CASE Exists(j)
    <3>1. /\ status' = [status EXCEPT ![j] = "quarantined"]
          /\ Goto(w, "purging")
          /\ UNCHANGED <<etag, queue, dlq>>
      BY <1>2, <2>2 DEF Quarantine, SetStatus
    <3>2. step'[w] = "purging" /\ step[w] = "received" /\ UNCHANGED job
      BY <1>2, <3>1 DEF Quarantine, Goto, TypeOK, WorkerTypeOK
    <3>3. CASE d = j
      <4>1. status'[d] = "quarantined"
        BY <1>0, <3>1, <3>2, <3>3 DEF TypeOK, RowTypeOK
      <4>2. HandsOff(d)'
        BY <2>1, <4>1, WorkerHandsOff DEF CatchAt
      <4>3. \A v \in Workers : AttemptAt(v, d)'
        BY <3>2, <4>1 DEF AttemptAt, SoleWorker
      <4> QED  BY <4>1, <4>2, <4>3 DEF CatchAt, CaughtUpAt
    <3>4. CASE d # j
      <4>1. status'[d] = status[d]
        BY <1>0, <3>1, <3>2, <3>4 DEF TypeOK, RowTypeOK
      <4>2. HandsOff(d)'
        BY <2>1, <4>1, WorkerHandsOff DEF CatchAt
      <4>3. (Told(d)' <=> Told(d)) /\ ~InHand(d)
        BY <2>1, <3>1, <3>4 DEF Told, InHand, SoleWorker
      <4>4. CaughtUpAt(d)'
        BY <2>1, <3>1, <4>1, <4>3 DEF CatchAt, CaughtUpAt, Whole
      <4> QED  BY <3>2, <3>4, <4>2, <4>4 DEF CatchAt, SoleWorker
    <3> QED  BY <3>3, <3>4
  <2>3. CASE ~Exists(j)
    <3>1. Idle(w) /\ GiveBack(w) /\ UNCHANGED rowVars /\ step[w] = "received"
      BY <1>2, <2>3 DEF Quarantine, Nack
    <3>2. Told(d) => Told(d)'
      BY <2>1, <3>1, GiveBackReturns DEF Told
    <3>3. status[d] = "ready" => ~InHand(d)
      BY <2>3, <3>1 DEF InHand, SoleWorker, Exists
    <3>4. HandsOff(d)'
      BY <2>1, <3>1, WorkerHandsOff DEF CatchAt
    <3> QED  BY <2>1, <3>1, <3>2, <3>3, <3>4, IdleCatch
  <2> QED  BY <2>2, <2>3
<1>3. ASSUME Purge(w) PROVE CatchAt(d)'
  <2>1. /\ Idle(w) /\ step[w] = "purging"
        /\ UNCHANGED <<status, etag, points, queue, dlq, sweep, todo, cur, del, target>>
    BY <1>3 DEF Purge, Ack
  <2>2. d # j => object'[d] = object[d]
    BY <1>3 DEF Purge, DropObject, TypeOK, StoreTypeOK
  <2>3. d = j => status[d] # "ready"
    BY <2>1 DEF CatchAt, AttemptAt
  <2>4. ~InHand(d) /\ (Told(d) /\ object'[d] = object[d] => Told(d)')
    BY <2>1 DEF InHand, Told, SoleWorker
  <2>5. HandsOff(d)'
    BY <2>1, WorkerHandsOff DEF CatchAt
  <2> QED  BY <2>1, <2>2, <2>3, <2>4, <2>5, IdleCatch
<1>4. ASSUME Claim(w) PROVE CatchAt(d)'
  <2>1. /\ step[w] = "received"
        /\ UNCHANGED <<object, points, queue, dlq, sweep, todo, cur, del, target>>
    BY <1>4 DEF Claim, Ack
  <2>2. CASE Claimable(job[w])
    <3>1. /\ status' = [status EXCEPT ![j] = "processing"]
          /\ etag' = [etag EXCEPT ![j] = job[w].etag]
          /\ Goto(w, "claimed")
      BY <1>4, <2>2 DEF Claim, SetStatus
    <3>2. step'[w] = "claimed" /\ UNCHANGED job
      BY <3>1 DEF Goto, TypeOK, WorkerTypeOK
    <3>3. CASE d = j
      <4>1. status'[d] = "processing"
        BY <1>0, <2>1, <3>1, <3>3 DEF TypeOK, RowTypeOK
      <4>2. status[d] \notin {"deleting", "gone", "quarantined"}
        BY <2>2, <3>3 DEF Claimable, Exists
      <4>3. HandsOff(d)'
        BY <2>1, <4>1, <4>2, WorkerHandsOff DEF CatchAt
      <4>4. \A v \in Workers : AttemptAt(v, d)'
        BY <3>2, <4>1 DEF AttemptAt, SoleWorker
      <4> QED  BY <4>1, <4>3, <4>4 DEF CatchAt, CaughtUpAt
    <3>4. CASE d # j
      <4>1. status'[d] = status[d] /\ etag'[d] = etag[d]
        BY <1>0, <2>1, <3>1, <3>4 DEF TypeOK, RowTypeOK
      <4>2. HandsOff(d)'
        BY <2>1, <4>1, WorkerHandsOff DEF CatchAt
      <4>3. (Told(d)' <=> Told(d)) /\ ~InHand(d)
        BY <2>1, <3>4 DEF Told, InHand, SoleWorker
      <4>4. CaughtUpAt(d)'
        BY <2>1, <4>1, <4>3 DEF CatchAt, CaughtUpAt, Whole
      <4> QED  BY <3>2, <3>4, <4>2, <4>4 DEF CatchAt, SoleWorker
    <3> QED  BY <3>3, <3>4
  <2>3. CASE ~Claimable(job[w])
    <3>1. Idle(w) /\ UNCHANGED rowVars
      BY <1>4, <2>3 DEF Claim, Ack
    <3>2. Told(d) => Told(d)'
      BY <2>1 DEF Told
    <3>3. status[d] = "ready" /\ InHand(d) => points[d] = Whole(object[d])
      <4> SUFFICES ASSUME status[d] = "ready", InHand(d) PROVE points[d] = Whole(object[d])
        OBVIOUS
      <4>1. j = d /\ job[w].etag = object[d]
        BY DEF InHand, SoleWorker
      <4>2. etag[d] = object[d]
        BY <2>3, <4>1 DEF Claimable, Exists
      <4> QED  BY <4>2 DEF CatchAt, CaughtUpAt
    <3>4. HandsOff(d)'
      BY <2>1, <3>1, WorkerHandsOff DEF CatchAt
    <3> QED  BY <2>1, <3>1, <3>2, <3>3, <3>4, IdleCatch
  <2> QED  BY <2>2, <2>3
<1>5. ASSUME Verify(w) PROVE CatchAt(d)'
  <2>1. step[w] = "claimed" /\ UNCHANGED <<status, etag, object, points, text, job>>
    BY <1>5 DEF Verify, Goto
  <2>2. \/ step'[w] = "failed"
        \/ step'[w] = "verified" /\ object[j] # None
    BY <1>5 DEF Verify, Goto, TypeOK, WorkerTypeOK
  <2>3. j = d /\ AttemptAt(w, d) => AttemptAt(w, d)'
    BY <2>1, <2>2 DEF AttemptAt
  <2> QED  BY <1>5, <2>1, <2>2, <2>3, OnwardCatch DEF Verify
<1>6. ASSUME Download(w) PROVE CatchAt(d)'
  <2>1. step[w] = "verified" /\ UNCHANGED <<status, etag, object, points, job>>
    BY <1>6 DEF Download, Goto
  <2>2. object[j] # None => object[j] \in Contents /\ ChunksOf[object[j]] # {}
    BY <1>0, <2>1 DEF Steadfast, TypeOK, StoreTypeOK
  <2>3. \/ step'[w] = "failed"
        \/ step'[w] = "fetched" /\ text'[w] = object[j] /\ object[j] # None
    BY <1>6, <2>2 DEF Download, Goto, TypeOK, WorkerTypeOK
  <2>4. j = d /\ AttemptAt(w, d) => AttemptAt(w, d)'
    BY <2>1, <2>3 DEF AttemptAt
  <2> QED  BY <1>6, <2>1, <2>3, <2>4, OnwardCatch DEF Download
<1>7. ASSUME ClearPoints(w) PROVE CatchAt(d)'
  <2>1. step[w] = "fetched" /\ UNCHANGED <<status, etag, object, job, text, queue, dlq>>
    BY <1>7 DEF ClearPoints, Goto
  <2>2. step'[w] = "cleared" /\ (j # d => points'[d] = points[d]) /\ (j = d => points'[d] = Blank)
    BY <1>7 DEF ClearPoints, DropPoints, Goto, TypeOK, WorkerTypeOK, StoreTypeOK
  <2>3. Told(d)' <=> Told(d)
    BY <2>1 DEF Told
  <2>4. j = d /\ AttemptAt(w, d) => AttemptAt(w, d)'
    BY <2>1, <2>2, <2>3 DEF AttemptAt, Blank
  <2> QED  BY <1>7, <2>1, <2>2, <2>4, OnwardCatch DEF ClearPoints
<1>8. ASSUME Upsert(w) PROVE CatchAt(d)'
  <2>1. step[w] = "cleared" /\ UNCHANGED <<status, etag, object, job, text, queue, dlq>>
    BY <1>8 DEF Upsert, Goto
  <2>2. text[w] \in Contents /\ j \in Docs
    BY <1>0, <2>1 DEF TypeOK, WorkerTypeOK
  <2>3. step'[w] \in {"indexed", "failed"}
    BY <1>8 DEF Upsert, Goto, TypeOK, WorkerTypeOK
  <2>4. j # d => points'[d] = points[d]
    BY <1>8 DEF Upsert, TypeOK, StoreTypeOK
  <2>5. j = d /\ points[d] = Blank => points'[d] = Whole(text[w])
    BY <1>8, <2>2 DEF Upsert, Whole, Blank, TypeOK, StoreTypeOK
  <2>6. Told(d)' <=> Told(d)
    BY <2>1 DEF Told
  <2>7. j = d /\ AttemptAt(w, d) => AttemptAt(w, d)'
    BY <2>1, <2>2, <2>3, <2>5, <2>6 DEF AttemptAt, Whole
  <2> QED  BY <1>8, <2>1, <2>3, <2>4, <2>7, OnwardCatch DEF Upsert
<1>9. ASSUME IngestError(w) PROVE CatchAt(d)'
  <2>1. /\ step[w] \in {"claimed", "verified", "fetched", "cleared"}
        /\ UNCHANGED <<status, etag, object, points, job, text>>
    BY <1>9 DEF IngestError, Goto
  <2>2. step'[w] \in {"failed", "rejected"}
    BY <1>9 DEF IngestError, Goto, TypeOK, WorkerTypeOK
  <2>3. j = d /\ AttemptAt(w, d) => AttemptAt(w, d)'
    BY <2>1, <2>2 DEF AttemptAt
  <2> QED  BY <1>9, <2>1, <2>2, <2>3, OnwardCatch DEF IngestError
<1>10. ASSUME MarkReady(w) PROVE CatchAt(d)'
  <2>1. /\ Idle(w) /\ step[w] = "indexed" /\ FinishFromProcessing(j, "ready")
        /\ UNCHANGED <<object, points, queue, dlq, sweep, todo, cur, del, target>>
    BY <1>10 DEF MarkReady, Ack
  <2>2. ~InHand(d) /\ (Told(d)' <=> Told(d))
    BY <2>1 DEF InHand, Told, SoleWorker
  <2>3. CASE d = j /\ status[d] = "processing"
    <3>1. status'[d] = "ready" /\ etag'[d] = etag[d]
      BY <2>1, <2>3 DEF FinishFromProcessing, SetStatus, TypeOK, RowTypeOK
    <3>2. HandsOff(d)'
      BY <2>1, <2>3, <3>1, WorkerHandsOff DEF CatchAt
    <3>3. AttemptAt(w, d)
      BY <2>1, <2>3 DEF CatchAt
    <3>4. CaughtUpAt(d)'
      BY <2>1, <2>2, <2>3, <3>1, <3>3 DEF AttemptAt, CaughtUpAt, Whole
    <3>5. \A v \in Workers : step'[v] = "idle"
      BY <2>1 DEF Idle, SoleWorker, TypeOK, WorkerTypeOK
    <3> QED  BY <3>2, <3>4, <3>5 DEF CatchAt
  <2>4. CASE d # j \/ status[d] # "processing"
    <3>1. status'[d] = status[d] /\ etag'[d] = etag[d]
      BY <2>1, <2>4 DEF FinishFromProcessing, SetStatus, TypeOK, RowTypeOK
    <3>2. HandsOff(d)'
      BY <2>1, <3>1, WorkerHandsOff DEF CatchAt
    <3> QED  BY <2>1, <2>2, <3>1, <3>2, IdleCatch
  <2> QED  BY <2>3, <2>4
<1>11. ASSUME MarkFailed(w) PROVE CatchAt(d)'
  <2>1. /\ Idle(w) /\ step[w] \in {"failed", "rejected"} /\ (Ack(w) \/ Nack(w))
        /\ FinishFromProcessing(j, "failed") \/ UNCHANGED rowVars
        /\ UNCHANGED <<object, points, sweep, todo, cur, del, target>>
    BY <1>11 DEF MarkFailed, Ack, Nack
  <2>2. ~InHand(d) /\ (Told(d) => Told(d)')
    BY <2>1, GiveBackReturns DEF InHand, Told, SoleWorker, Ack, Nack
  <2>3. \/ status'[d] = status[d] /\ etag'[d] = etag[d]
        \/ status[d] = "processing" /\ status'[d] = "failed"
    BY <2>1 DEF FinishFromProcessing, SetStatus, TypeOK, RowTypeOK
  <2>4. HandsOff(d)'
    BY <2>1, <2>3, WorkerHandsOff DEF CatchAt
  <2> QED  BY <2>1, <2>2, <2>3, <2>4, IdleCatch
<1>12. ASSUME WorkerDbError(w) \/ Crash(w) PROVE CatchAt(d)'
  <2>1. /\ Idle(w) /\ step[w] # "idle" /\ GiveBack(w)
        /\ UNCHANGED <<status, etag, object, points, sweep, todo, cur, del, target>>
    BY <1>12 DEF WorkerDbError, Crash, Nack
  <2>2. (Told(d) => Told(d)') /\ (InHand(d) => Told(d)')
    BY <2>1, GiveBackReturns DEF InHand, Told, SoleWorker
  <2>3. HandsOff(d)'
    BY <2>1, WorkerHandsOff DEF CatchAt
  <2> QED  BY <2>1, <2>2, <2>3, IdleCatch
<1>13. ASSUME Disconnect(w) PROVE CatchAt(d)'
  <2>1. /\ step[w] # "idle" /\ GiveBack(w)
        /\ UNCHANGED <<status, etag, object, points, step, job, text>>
        /\ UNCHANGED <<sweep, todo, cur, del, target>>
    BY <1>13 DEF Disconnect, TypeOK, WorkerTypeOK
  <2>2. (Told(d) => Told(d)') /\ (InHand(d) <=> InHand(d)')
    BY <2>1, GiveBackReturns DEF InHand, Told
  <2>3. HandsOff(d)'
    BY <2>1, WorkerHandsOff DEF CatchAt
  <2>4. \A v \in Workers : AttemptAt(v, d) => AttemptAt(v, d)'
    BY <2>1, <2>2 DEF AttemptAt, Whole, Blank
  <2>5. CaughtUpAt(d)'
    BY <2>1, <2>2 DEF CatchAt, CaughtUpAt, Whole
  <2> QED  BY <2>1, <2>3, <2>4, <2>5 DEF CatchAt
<1> QED
  BY <1>1, <1>2, <1>3, <1>4, <1>5, <1>6, <1>7, <1>8, <1>9, <1>10, <1>11, <1>12, <1>13
     DEF WorkerNext, WorkerStepOf

LEMMA GivenBackStep ==
  ASSUME SoleWorker, TypeOK, GivenBack, [Next]_vars
  PROVE  GivenBack'
<1>1. CASE \E d \in Docs : Outside(d)
  BY <1>1 DEF Outside, GivenBack, workerVars
<1>2. ASSUME NEW w \in Workers, WorkerNext(w) PROVE GivenBack'
  <2>1. CASE Idle(w) \/ Receive(w)
    BY <2>1 DEF Idle, Receive, GivenBack, SoleWorker, TypeOK, WorkerTypeOK
  <2>2. CASE Disconnect(w)
    <3>1. step[w] # "idle" /\ GiveBack(w) /\ UNCHANGED job
      BY <2>2 DEF Disconnect, TypeOK, WorkerTypeOK
    <3> QED  BY <3>1, GiveBackReturns DEF GivenBack, SoleWorker
  <2>3. CASE UNCHANGED <<job, held, queue, dlq>> /\ step[w] # "idle"
    BY <2>3 DEF GivenBack, SoleWorker
  <2> QED
    BY <1>2, <2>1, <2>2, <2>3
       DEF WorkerNext, WorkerStepOf, Quarantine, Purge, Claim, Verify, Download, ClearPoints,
           Upsert, IngestError, MarkReady, MarkFailed, WorkerDbError, Crash, Ack, Nack, Goto,
           brokerVars
<1>3. CASE Docs = {}
  <2>1. TypeOK'
    BY StepTypes
  <2> QED  BY <1>3, <2>1 DEF GivenBack, TypeOK, WorkerTypeOK, Event
<1> QED  BY <1>1, <1>2, <1>3, OutsideOrWorker

LEMMA CatchStep ==
  ASSUME SoleWorker, Steadfast, CatchIInv, [Next]_vars, \A d \in Docs : ~BytesReturn(d)
  PROVE  CatchIInv'
<1>1. TypeOK' /\ (ExternalIds = {} => NothingFound') /\ GivenBack'
  BY StepTypes, NothingIsFound, GivenBackStep DEF CatchIInv
<1>2. ASSUME NEW d \in Docs PROVE CatchAt(d)'
  BY <1>2, OutsideOrWorker, OutsideCatch, WorkerCatch DEF CatchIInv
<1> QED  BY <1>1, <1>2 DEF CatchIInv

\* An overwritten object is re-indexed (claim_decision, verify_and_ingest): a document that
\* is ready, with no event of it on its way or dead-lettered, answers from the bytes now
\* stored, whatever the order in which the event, the HEAD and the GET saw the versions,
\* however often events were lost, doubled or given back and however long indexing took.
\* It rests on a single worker, on contents that have text, on no re-sync of a tombstoned
\* row, and on no PUT that brings back bytes the row has recorded.
THEOREM ReadyCatchesUpHolds ==
  ASSUME SoleWorker, Steadfast
  PROVE  SteadySpec => []ReadyCatchesUp
<1>1. CatchIInv /\ [Next]_vars /\ [\A d \in Docs : ~BytesReturn(d)]_vars => CatchIInv'
  <2>1. CASE UNCHANGED vars
    <3>1. \A d \in Docs : ~BytesReturn(d)
      BY <2>1 DEF BytesReturn, vars, storeVars
    <3> QED  BY <3>1, CatchStep
  <2>2. CASE \A d \in Docs : ~BytesReturn(d)
    BY <2>2, CatchStep
  <2> QED  BY <2>1, <2>2
<1>2. CatchIInv => ReadyCatchesUp
  BY DEF CatchIInv, CatchAt, CaughtUpAt, Told, InHand, ReadyCatchesUp, Pending, Whole
<1> QED  BY <1>1, <1>2, CatchInit, PTL DEF SteadySpec, Spec

=============================================================================

----------------------- MODULE DocumentLifecycleProofs -----------------------
(***************************************************************************)
(* Proofs about DocumentLifecycle, for every value of its constants: any   *)
(* number of documents, workers, reapers and requests, any contents, any   *)
(* number of events and faults.                                            *)
(***************************************************************************)
EXTENDS DocumentLifecycle, TLAPS

-----------------------------------------------------------------------------
(* Type correctness.  TypeOK has one part per group of variables.  What an *)
(* action leaves alone is Frame's business, and each part it disturbs is a *)
(* step of its own.                                                        *)

LEMMA Frame ==
  ASSUME TypeOK
  PROVE  /\ UNCHANGED rowVars => RowTypeOK'
         /\ UNCHANGED storeVars => StoreTypeOK'
         /\ UNCHANGED brokerVars => BrokerTypeOK'
         /\ UNCHANGED workerVars => WorkerTypeOK'
         /\ UNCHANGED reaperVars => ReaperTypeOK'
         /\ UNCHANGED deleteVars => DeleteTypeOK'
         /\ UNCHANGED ingestVars => IngestTypeOK'
         /\ UNCHANGED askVars => AskTypeOK'
         /\ UNCHANGED faults => faults' \in 0..MaxFaults
<1>1. UNCHANGED rowVars => RowTypeOK'
  BY DEF TypeOK, RowTypeOK, rowVars
<1>2. UNCHANGED storeVars => StoreTypeOK'
  BY DEF TypeOK, StoreTypeOK, storeVars
<1>3. UNCHANGED brokerVars => BrokerTypeOK'
  BY DEF TypeOK, BrokerTypeOK, brokerVars
<1>4. UNCHANGED workerVars => WorkerTypeOK'
  BY DEF TypeOK, WorkerTypeOK, workerVars
<1>5. UNCHANGED reaperVars => ReaperTypeOK'
  BY DEF TypeOK, ReaperTypeOK, reaperVars
<1>6. UNCHANGED deleteVars => DeleteTypeOK'
  BY DEF TypeOK, DeleteTypeOK, deleteVars
<1>7. UNCHANGED ingestVars => IngestTypeOK'
  BY DEF TypeOK, IngestTypeOK, ingestVars
<1>8. UNCHANGED askVars => AskTypeOK'
  BY DEF TypeOK, AskTypeOK, askVars
<1>9. UNCHANGED faults => faults' \in 0..MaxFaults
  BY DEF TypeOK
<1> QED  BY <1>1, <1>2, <1>3, <1>4, <1>5, <1>6, <1>7, <1>8, <1>9

LEMMA PutTypes ==
  ASSUME TypeOK, NEW d \in Docs, NEW c \in Contents, PutObject(d, c)
  PROVE  BrokerTypeOK' /\ object' \in [Docs -> Contents \cup {None}]
<1>1. published + 1 \in Nat /\ published + 1 \in 0..MaxEvents
  BY BoundAssumption DEF PutObject, TypeOK, BrokerTypeOK
<1>2. [id |-> published + 1, doc |-> d, etag |-> c, tries |-> 0] \in Event
  BY <1>1, BoundAssumption DEF Event
<1> QED  BY <1>1, <1>2 DEF PutObject, TypeOK, BrokerTypeOK, StoreTypeOK

LEMMA RedeliverTypes ==
  ASSUME TypeOK, NEW e \in Event, Redeliver(e)
  PROVE  BrokerTypeOK'
<1>1. ASSUME e.tries < DeliveryLimit PROVE [e EXCEPT !.tries = @ + 1] \in Event
  BY <1>1, BoundAssumption DEF Event
<1> QED  BY <1>1 DEF Redeliver, TypeOK, BrokerTypeOK

LEMMA GiveBackTypes ==
  ASSUME TypeOK, NEW w \in Workers, GiveBack(w)
  PROVE  BrokerTypeOK'
<1>1. CASE held[w]
  <2>1. job[w] \in Event
    BY <1>1 DEF TypeOK, WorkerTypeOK
  <2>2. Redeliver(job[w])
    BY <1>1 DEF GiveBack
  <2> QED  BY <2>1, <2>2, RedeliverTypes
<1>2. CASE ~held[w]
  BY <1>2, Frame DEF GiveBack
<1> QED  BY <1>1, <1>2

LEMMA FaultTypes ==
  ASSUME TypeOK, Fault
  PROVE  faults' \in 0..MaxFaults
  BY BoundAssumption DEF Fault, TypeOK

LEMMA DropObjectTypes ==
  ASSUME TypeOK, NEW d \in Docs, DropObject(d)
  PROVE  object' \in [Docs -> Contents \cup {None}] /\ faults' \in 0..MaxFaults
  BY FaultTypes DEF DropObject, TypeOK, StoreTypeOK

LEMMA DropPointsTypes ==
  ASSUME TypeOK, NEW d \in Docs, DropPoints(d)
  PROVE  points' \in [Docs -> [Indices -> Contents \cup {None}]]
  BY DEF DropPoints, Blank, TypeOK, StoreTypeOK

LEMMA SetStatusTypes ==
  ASSUME TypeOK, NEW d \in Docs, NEW s \in Status, SetStatus(d, s)
  PROVE  status' \in [Docs -> Status]
  BY DEF SetStatus, TypeOK, RowTypeOK

LEMMA DeleteRowTypes ==
  ASSUME TypeOK, NEW d \in Docs, DeleteTombstonedRow(d)
  PROVE  RowTypeOK'
<1>1. CASE status[d] = "deleting"
  <2>1. status' \in [Docs -> Status]
    BY <1>1, SetStatusTypes DEF DeleteTombstonedRow, Status
  <2> QED  BY <1>1, <2>1 DEF DeleteTombstonedRow, ReleaseLease, TypeOK, RowTypeOK
<1>2. CASE status[d] # "deleting"
  BY <1>2, Frame DEF DeleteTombstonedRow
<1> QED  BY <1>1, <1>2

LEMMA FinishTypes ==
  ASSUME TypeOK, NEW d \in Docs, NEW s \in {"ready", "failed"}, FinishFromProcessing(d, s)
  PROVE  RowTypeOK'
<1>1. CASE status[d] = "processing"
  <2>1. status' \in [Docs -> Status]
    BY <1>1, SetStatusTypes DEF FinishFromProcessing, Status
  <2> QED  BY <1>1, <2>1 DEF FinishFromProcessing, ReleaseLease, TypeOK, RowTypeOK
<1>2. CASE status[d] # "processing"
  BY <1>2, Frame DEF FinishFromProcessing
<1> QED  BY <1>1, <1>2

LEMMA IdleTypes ==
  ASSUME TypeOK, NEW w \in Workers, Idle(w)
  PROVE  WorkerTypeOK'
  BY DEF Idle, TypeOK, WorkerTypeOK, WorkerStep

LEMMA AckTypes ==
  ASSUME TypeOK, NEW w \in Workers, Ack(w)
  PROVE  WorkerTypeOK' /\ BrokerTypeOK'
  BY IdleTypes, Frame DEF Ack

LEMMA NackTypes ==
  ASSUME TypeOK, NEW w \in Workers, Nack(w)
  PROVE  WorkerTypeOK' /\ BrokerTypeOK'
  BY IdleTypes, GiveBackTypes DEF Nack

LEMMA GotoTypes ==
  ASSUME TypeOK, NEW w \in Workers, step[w] # "idle", NEW s \in WorkerStep \ {"idle", "fetched"},
         s = "cleared" => step[w] = "fetched", Goto(w, s)
  PROVE  WorkerTypeOK'
  BY DEF Goto, TypeOK, WorkerTypeOK

LEMMA JobTypes ==
  ASSUME TypeOK, NEW w \in Workers, step[w] # "idle"
  PROVE  job[w] \in Event /\ job[w].doc \in Docs /\ job[w].etag \in Contents
  BY DEF TypeOK, WorkerTypeOK, Event

LEMMA InitTypes == Init => TypeOK
  BY ContentAssumption, BoundAssumption
     DEF Init, TypeOK, RowTypeOK, StoreTypeOK, BrokerTypeOK, WorkerTypeOK, ReaperTypeOK,
         DeleteTypeOK, IngestTypeOK, AskTypeOK, Status, WorkerStep, SweepStep, DeleteStep,
         IngestStep, Blank

LEMMA UploadTypes ==
  ASSUME TypeOK, UploadNext
  PROVE  TypeOK'
<1>1. ASSUME NEW d \in Docs, CreateSession(d) PROVE TypeOK'
  <2>1. RowTypeOK'
    BY <1>1, SetStatusTypes DEF CreateSession, Status, TypeOK, RowTypeOK
  <2>2. StoreTypeOK'
    BY <1>1 DEF CreateSession, TypeOK, StoreTypeOK
  <2> QED
    BY <1>1, <2>1, <2>2, Frame DEF CreateSession, TypeOK
<1>2. ASSUME NEW d \in Docs, RefreshSession(d) PROVE TypeOK'
  <2>1. RowTypeOK'
    BY <1>2, SetStatusTypes DEF RefreshSession, Status, TypeOK, RowTypeOK
  <2>2. StoreTypeOK'
    BY <1>2 DEF RefreshSession, TypeOK, StoreTypeOK
  <2> QED
    BY <1>2, <2>1, <2>2, Frame DEF RefreshSession, TypeOK
<1>3. ASSUME NEW d \in Docs, NEW c \in Contents, ClientPut(d, c) PROVE TypeOK'
  <2>1. StoreTypeOK'
    BY <1>3, PutTypes DEF ClientPut, TypeOK, StoreTypeOK
  <2>2. BrokerTypeOK'
    BY <1>3, PutTypes DEF ClientPut
  <2> QED
    BY <1>3, <2>1, <2>2, Frame DEF ClientPut, TypeOK
<1>4. ASSUME NEW d \in Docs, UrlExpires(d) PROVE TypeOK'
  <2>1. StoreTypeOK'
    BY <1>4 DEF UrlExpires, TypeOK, StoreTypeOK
  <2> QED
    BY <1>4, <2>1, Frame DEF UrlExpires, TypeOK
<1>5. ASSUME NEW d \in Docs, WindowLapses(d) PROVE TypeOK'
  <2>1. RowTypeOK'
    BY <1>5 DEF WindowLapses, TypeOK, RowTypeOK
  <2> QED
    BY <1>5, <2>1, Frame DEF WindowLapses, TypeOK
<1>6. ASSUME NEW d \in Docs, LeaseLapses(d) PROVE TypeOK'
  <2>1. RowTypeOK'
    BY <1>6 DEF LeaseLapses, TypeOK, RowTypeOK
  <2> QED
    BY <1>6, <2>1, Frame DEF LeaseLapses, TypeOK
<1>7. ASSUME NEW e \in queue, DuplicateEvent(e) PROVE TypeOK'
  <2>1. [id |-> MaxEvents + faults', doc |-> e.doc, etag |-> e.etag, tries |-> 0] \in Event
    BY <1>7, FaultTypes, BoundAssumption DEF DuplicateEvent, TypeOK, BrokerTypeOK, Event
  <2>2. BrokerTypeOK'
    BY <1>7, <2>1 DEF DuplicateEvent, TypeOK, BrokerTypeOK
  <2>3. faults' \in 0..MaxFaults
    BY <1>7, FaultTypes DEF DuplicateEvent
  <2> QED
    BY <1>7, <2>1, <2>2, <2>3, Frame DEF DuplicateEvent, TypeOK
<1> QED
  BY <1>1, <1>2, <1>3, <1>4, <1>5, <1>6, <1>7 DEF UploadNext

LEMMA WorkerTypes ==
  ASSUME TypeOK, NEW w \in Workers, WorkerNext(w)
  PROVE  TypeOK'
<1>1. ASSUME Receive(w) PROVE TypeOK'
  <2>1. BrokerTypeOK'
    BY <1>1 DEF Receive, TypeOK, BrokerTypeOK
  <2>2. WorkerTypeOK'
    BY <1>1 DEF Receive, BrokerTypeOK, WorkerStep, TypeOK, WorkerTypeOK
  <2> QED
    BY <1>1, <2>1, <2>2, Frame DEF Receive, TypeOK
<1>2. ASSUME Quarantine(w) PROVE TypeOK'
  <2>1. job[w].doc \in Docs /\ job[w].etag \in Contents
    BY <1>2, JobTypes DEF Quarantine
  <2>2. RowTypeOK'
    <3>1. CASE Exists(job[w].doc)
      BY <1>2, <3>1, <2>1, SetStatusTypes, Frame
         DEF Quarantine, ReleaseLease, Status, TypeOK, RowTypeOK
    <3>2. CASE ~Exists(job[w].doc)
      BY <1>2, <3>2, <2>1, SetStatusTypes, Frame
         DEF Quarantine, ReleaseLease, Status, TypeOK, RowTypeOK
    <3> QED
      BY <1>2, <3>1, <3>2 DEF Quarantine
  <2>3. WorkerTypeOK' /\ BrokerTypeOK'
    <3>1. CASE Exists(job[w].doc)
      BY <1>2, <3>1, GotoTypes, NackTypes, Frame DEF Quarantine, WorkerStep
    <3>2. CASE ~Exists(job[w].doc)
      BY <1>2, <3>2, GotoTypes, NackTypes, Frame DEF Quarantine, WorkerStep
    <3> QED
      BY <1>2, <3>1, <3>2 DEF Quarantine
  <2> QED
    BY <1>2, <2>1, <2>2, <2>3, Frame DEF Quarantine, TypeOK
<1>3. ASSUME Purge(w) PROVE TypeOK'
  <2>1. job[w].doc \in Docs /\ job[w].etag \in Contents
    BY <1>3, JobTypes DEF Purge
  <2>2. StoreTypeOK' /\ faults' \in 0..MaxFaults
    BY <1>3, <2>1, DropObjectTypes DEF Purge, TypeOK, StoreTypeOK
  <2>3. WorkerTypeOK' /\ BrokerTypeOK'
    BY <1>3, AckTypes DEF Purge
  <2> QED
    BY <1>3, <2>1, <2>2, <2>3, Frame DEF Purge, TypeOK
<1>4. ASSUME Claim(w) PROVE TypeOK'
  <2>1. job[w].doc \in Docs /\ job[w].etag \in Contents
    BY <1>4, JobTypes DEF Claim
  <2>2. RowTypeOK'
    <3>1. CASE Claimable(job[w])
      BY <1>4, <3>1, <2>1, SetStatusTypes, Frame DEF Claim, Status, TypeOK, RowTypeOK
    <3>2. CASE ~Claimable(job[w])
      BY <1>4, <3>2, <2>1, SetStatusTypes, Frame DEF Claim, Status, TypeOK, RowTypeOK
    <3> QED
      BY <1>4, <3>1, <3>2 DEF Claim
  <2>3. WorkerTypeOK' /\ BrokerTypeOK'
    <3>1. CASE Claimable(job[w])
      BY <1>4, <3>1, GotoTypes, AckTypes, Frame DEF Claim, WorkerStep
    <3>2. CASE ~Claimable(job[w])
      BY <1>4, <3>2, GotoTypes, AckTypes, Frame DEF Claim, WorkerStep
    <3> QED
      BY <1>4, <3>1, <3>2 DEF Claim
  <2> QED
    BY <1>4, <2>1, <2>2, <2>3, Frame DEF Claim, TypeOK
<1>5. ASSUME Verify(w) PROVE TypeOK'
  <2>1. WorkerTypeOK'
    BY <1>5, GotoTypes DEF Verify, WorkerStep
  <2> QED
    BY <1>5, <2>1, Frame DEF Verify, TypeOK
<1>6. ASSUME Download(w) PROVE TypeOK'
  <2>1. job[w].doc \in Docs /\ job[w].etag \in Contents
    BY <1>6, JobTypes DEF Download
  <2>2. object[job[w].doc] \in Contents \cup {None}
    BY <1>6, <2>1 DEF Download, TypeOK, StoreTypeOK
  <2>3. WorkerTypeOK'
    <3>1. CASE Goto(w, "failed") \/ Goto(w, "indexed")
      BY <1>6, <3>1, <2>2, GotoTypes DEF Download, WorkerStep, TypeOK, WorkerTypeOK
    <3>2. CASE ~(Goto(w, "failed") \/ Goto(w, "indexed"))
      BY <1>6, <3>2, <2>2, GotoTypes DEF Download, WorkerStep, TypeOK, WorkerTypeOK
    <3> QED
      BY <1>6, <3>1, <3>2 DEF Download
  <2> QED
    BY <1>6, <2>1, <2>2, <2>3, Frame DEF Download, TypeOK
<1>7. ASSUME ClearPoints(w) PROVE TypeOK'
  <2>1. job[w].doc \in Docs /\ job[w].etag \in Contents
    BY <1>7, JobTypes DEF ClearPoints
  <2>2. StoreTypeOK'
    BY <1>7, <2>1, DropPointsTypes DEF ClearPoints, TypeOK, StoreTypeOK
  <2>3. WorkerTypeOK'
    BY <1>7, GotoTypes DEF ClearPoints, WorkerStep
  <2> QED
    BY <1>7, <2>1, <2>2, <2>3, Frame DEF ClearPoints, TypeOK
<1>8. ASSUME Upsert(w) PROVE TypeOK'
  <2>1. job[w].doc \in Docs /\ job[w].etag \in Contents
    BY <1>8, JobTypes DEF Upsert
  <2>2. text[w] \in Contents
    BY <1>8 DEF Upsert, TypeOK, WorkerTypeOK
  <2>3. StoreTypeOK'
    BY <1>8, <2>1, <2>2 DEF Upsert, TypeOK, StoreTypeOK
  <2>4. WorkerTypeOK'
    BY <1>8, GotoTypes DEF Upsert, WorkerStep
  <2>5. faults' \in 0..MaxFaults
    BY <1>8, FaultTypes DEF Upsert, TypeOK
  <2> QED
    BY <1>8, <2>1, <2>2, <2>3, <2>4, <2>5, Frame DEF Upsert, TypeOK
<1>9. ASSUME IngestError(w) PROVE TypeOK'
  <2>1. WorkerTypeOK'
    BY <1>9, GotoTypes DEF IngestError, WorkerStep
  <2>2. faults' \in 0..MaxFaults
    BY <1>9, FaultTypes DEF IngestError
  <2> QED
    BY <1>9, <2>1, <2>2, Frame DEF IngestError, TypeOK
<1>10. ASSUME MarkReady(w) PROVE TypeOK'
  <2>1. job[w].doc \in Docs /\ job[w].etag \in Contents
    BY <1>10, JobTypes DEF MarkReady
  <2>2. RowTypeOK'
    BY <1>10, <2>1, FinishTypes DEF MarkReady
  <2>3. WorkerTypeOK' /\ BrokerTypeOK'
    BY <1>10, AckTypes DEF MarkReady
  <2> QED
    BY <1>10, <2>1, <2>2, <2>3, Frame DEF MarkReady, TypeOK
<1>11. ASSUME MarkFailed(w) PROVE TypeOK'
  <2>1. job[w].doc \in Docs /\ job[w].etag \in Contents
    BY <1>11, JobTypes DEF MarkFailed
  <2>2. RowTypeOK'
    BY <1>11, <2>1, FinishTypes, Frame DEF MarkFailed
  <2>3. WorkerTypeOK' /\ BrokerTypeOK'
    BY <1>11, AckTypes, NackTypes DEF MarkFailed
  <2>4. faults' \in 0..MaxFaults
    BY <1>11, FaultTypes DEF MarkFailed, TypeOK
  <2> QED
    BY <1>11, <2>1, <2>2, <2>3, <2>4, Frame DEF MarkFailed, TypeOK
<1>12. ASSUME WorkerDbError(w) PROVE TypeOK'
  <2>1. WorkerTypeOK' /\ BrokerTypeOK'
    BY <1>12, NackTypes DEF WorkerDbError
  <2>2. faults' \in 0..MaxFaults
    BY <1>12, FaultTypes DEF WorkerDbError
  <2> QED
    BY <1>12, <2>1, <2>2, Frame DEF WorkerDbError, TypeOK
<1>13. ASSUME Disconnect(w) PROVE TypeOK'
  <2>1. WorkerTypeOK'
    BY <1>13 DEF Disconnect, TypeOK, WorkerTypeOK
  <2>2. BrokerTypeOK'
    BY <1>13, GiveBackTypes DEF Disconnect
  <2>3. faults' \in 0..MaxFaults
    BY <1>13, FaultTypes DEF Disconnect
  <2> QED
    BY <1>13, <2>1, <2>2, <2>3, Frame DEF Disconnect, TypeOK
<1>14. ASSUME Crash(w) PROVE TypeOK'
  <2>1. WorkerTypeOK' /\ BrokerTypeOK'
    BY <1>14, NackTypes DEF Crash
  <2>2. faults' \in 0..MaxFaults
    BY <1>14, FaultTypes DEF Crash
  <2> QED
    BY <1>14, <2>1, <2>2, Frame DEF Crash, TypeOK
<1> QED
  BY <1>1, <1>2, <1>3, <1>4, <1>5, <1>6, <1>7, <1>8, <1>9, <1>10, <1>11, <1>12, <1>13, <1>14
     DEF WorkerNext, WorkerStepOf

LEMMA ReaperTypes ==
  ASSUME TypeOK, NEW r \in Reapers, ReaperStepOf(r) \/ SweepFails(r)
  PROVE  TypeOK'
<1>1. ASSUME ExpireUploads(r) PROVE TypeOK'
  <2>1. RowTypeOK'
    BY <1>1 DEF ExpireUploads, Status, TypeOK, RowTypeOK
  <2>2. ReaperTypeOK'
    BY <1>1 DEF ExpireUploads, SweepTo, SweepStep, TypeOK, ReaperTypeOK
  <2> QED
    BY <1>1, <2>1, <2>2, Frame DEF ExpireUploads, TypeOK
<1>2. ASSUME ReclaimLeases(r) PROVE TypeOK'
  <2>1. RowTypeOK'
    BY <1>2, ContentAssumption DEF ReclaimLeases, Status, TypeOK, RowTypeOK
  <2>2. ReaperTypeOK'
    BY <1>2 DEF ReclaimLeases, SweepTo, SweepStep, TypeOK, ReaperTypeOK
  <2> QED
    BY <1>2, <2>1, <2>2, Frame DEF ReclaimLeases, TypeOK
<1>3. ASSUME SelectDeletions(r) PROVE TypeOK'
  <2>1. ReaperTypeOK'
    BY <1>3 DEF SelectDeletions, SweepStep, TypeOK, ReaperTypeOK
  <2> QED
    BY <1>3, <2>1, Frame DEF SelectDeletions, TypeOK
<1>4. ASSUME SweepVectors(r) PROVE TypeOK'
  <2>1. \E d \in Docs : DropPoints(d)
    BY <1>4 DEF SweepVectors, TypeOK, ReaperTypeOK
  <2>2. StoreTypeOK'
    BY <1>4, <2>1, DropPointsTypes DEF SweepVectors, TypeOK, StoreTypeOK
  <2>3. ReaperTypeOK'
    BY <1>4 DEF SweepVectors, SweepStep, TypeOK, ReaperTypeOK
  <2> QED
    BY <1>4, <2>1, <2>2, <2>3, Frame DEF SweepVectors, TypeOK
<1>5. ASSUME SweepObject(r) PROVE TypeOK'
  <2>1. cur[r] \in Docs
    BY <1>5 DEF SweepObject, TypeOK, ReaperTypeOK
  <2>2. StoreTypeOK' /\ faults' \in 0..MaxFaults
    BY <1>5, <2>1, DropObjectTypes DEF SweepObject, TypeOK, StoreTypeOK
  <2>3. ReaperTypeOK'
    BY <1>5, <2>1 DEF SweepObject, SweepTo, SweepStep, TypeOK, ReaperTypeOK
  <2> QED
    BY <1>5, <2>1, <2>2, <2>3, Frame DEF SweepObject, TypeOK
<1>6. ASSUME SweepRow(r) PROVE TypeOK'
  <2>1. cur[r] \in Docs
    BY <1>6 DEF SweepRow, TypeOK, ReaperTypeOK
  <2>2. RowTypeOK'
    BY <1>6, <2>1, DeleteRowTypes DEF SweepRow
  <2>3. ReaperTypeOK'
    BY <1>6 DEF SweepRow, SweepStep, TypeOK, ReaperTypeOK
  <2> QED
    BY <1>6, <2>1, <2>2, <2>3, Frame DEF SweepRow, TypeOK
<1>7. ASSUME SweepFails(r) PROVE TypeOK'
  <2>1. ReaperTypeOK'
    BY <1>7 DEF SweepFails, SweepStep, TypeOK, ReaperTypeOK
  <2>2. faults' \in 0..MaxFaults
    BY <1>7, FaultTypes DEF SweepFails
  <2> QED
    BY <1>7, <2>1, <2>2, Frame DEF SweepFails, TypeOK
<1> QED
  BY <1>1, <1>2, <1>3, <1>4, <1>5, <1>6, <1>7 DEF ReaperStepOf

LEMMA DeleteTypes ==
  ASSUME TypeOK, NEW x \in Deleters, DeleteNext(x)
  PROVE  TypeOK'
<1>1. ASSUME NEW d \in Docs, DeleteBegin(x, d) PROVE TypeOK'
  <2>1. DeleteTypeOK'
    BY <1>1 DEF DeleteBegin, DeleteStep, TypeOK, DeleteTypeOK
  <2> QED
    BY <1>1, <2>1, Frame DEF DeleteBegin, TypeOK
<1>2. ASSUME Tombstone(x) PROVE TypeOK'
  <2>1. target[x] \in Docs
    BY <1>2 DEF Tombstone, TypeOK, DeleteTypeOK
  <2>2. status' \in [Docs -> Status]
    <3>1. CASE UNCHANGED status
      BY <1>2, <3>1, <2>1, SetStatusTypes DEF Tombstone, Status, TypeOK, RowTypeOK
    <3>2. CASE SetStatus(target[x], "deleting")
      BY <1>2, <3>2, <2>1, SetStatusTypes DEF Tombstone, Status, TypeOK, RowTypeOK
    <3> QED
      BY <1>2, <3>1, <3>2 DEF Tombstone
  <2>3. RowTypeOK'
    BY <1>2, <2>2 DEF Tombstone, TypeOK, RowTypeOK
  <2>4. DeleteTypeOK'
    <3>1. CASE DeleteTo(x, "404")
      BY <1>2, <3>1, <2>1 DEF Tombstone, DeleteTo, DeleteStep, TypeOK, DeleteTypeOK
    <3>2. CASE DeleteTo(x, "202")
      BY <1>2, <3>2, <2>1 DEF Tombstone, DeleteTo, DeleteStep, TypeOK, DeleteTypeOK
    <3>3. CASE DeleteTo(x, "vectors")
      BY <1>2, <3>3, <2>1 DEF Tombstone, DeleteTo, DeleteStep, TypeOK, DeleteTypeOK
    <3> QED
      BY <1>2, <3>1, <3>2, <3>3 DEF Tombstone
  <2> QED
    BY <1>2, <2>1, <2>2, <2>3, <2>4, Frame DEF Tombstone, TypeOK
<1>3. ASSUME DeleteVectors(x) PROVE TypeOK'
  <2>1. target[x] \in Docs
    BY <1>3 DEF DeleteVectors, TypeOK, DeleteTypeOK
  <2>2. StoreTypeOK'
    BY <1>3, <2>1, DropPointsTypes DEF DeleteVectors, TypeOK, StoreTypeOK
  <2>3. DeleteTypeOK'
    BY <1>3, <2>1 DEF DeleteVectors, DeleteTo, DeleteStep, TypeOK, DeleteTypeOK
  <2> QED
    BY <1>3, <2>1, <2>2, <2>3, Frame DEF DeleteVectors, TypeOK
<1>4. ASSUME DeleteObject(x) PROVE TypeOK'
  <2>1. target[x] \in Docs
    BY <1>4 DEF DeleteObject, TypeOK, DeleteTypeOK
  <2>2. StoreTypeOK' /\ faults' \in 0..MaxFaults
    BY <1>4, <2>1, DropObjectTypes DEF DeleteObject, TypeOK, StoreTypeOK
  <2>3. DeleteTypeOK'
    BY <1>4, <2>1 DEF DeleteObject, DeleteTo, DeleteStep, TypeOK, DeleteTypeOK
  <2> QED
    BY <1>4, <2>1, <2>2, <2>3, Frame DEF DeleteObject, TypeOK
<1>5. ASSUME Redact(x) PROVE TypeOK'
  <2>1. target[x] \in Docs
    BY <1>5 DEF Redact, TypeOK, DeleteTypeOK
  <2>2. StoreTypeOK'
    BY <1>5 DEF Redact, TypeOK, StoreTypeOK
  <2>3. DeleteTypeOK'
    BY <1>5, <2>1 DEF Redact, DeleteTo, DeleteStep, TypeOK, DeleteTypeOK
  <2> QED
    BY <1>5, <2>1, <2>2, <2>3, Frame DEF Redact, TypeOK
<1>6. ASSUME DeleteRow(x) PROVE TypeOK'
  <2>1. target[x] \in Docs
    BY <1>6 DEF DeleteRow, TypeOK, DeleteTypeOK
  <2>2. RowTypeOK'
    BY <1>6, <2>1, DeleteRowTypes DEF DeleteRow
  <2>3. DeleteTypeOK'
    BY <1>6, <2>1 DEF DeleteRow, DeleteTo, DeleteStep, TypeOK, DeleteTypeOK
  <2> QED
    BY <1>6, <2>1, <2>2, <2>3, Frame DEF DeleteRow, TypeOK
<1>7. ASSUME CloseAudit(x) PROVE TypeOK'
  <2>1. target[x] \in Docs
    BY <1>7 DEF CloseAudit, TypeOK, DeleteTypeOK
  <2>2. DeleteTypeOK'
    BY <1>7, <2>1 DEF CloseAudit, DeleteStep, TypeOK, DeleteTypeOK
  <2> QED
    BY <1>7, <2>1, <2>2, Frame DEF CloseAudit, TypeOK
<1>8. ASSUME DeleteFails(x) PROVE TypeOK'
  <2>1. target[x] \in Docs
    BY <1>8 DEF DeleteFails, TypeOK, DeleteTypeOK
  <2>2. DeleteTypeOK'
    BY <1>8, <2>1 DEF DeleteFails, DeleteTo, DeleteStep, TypeOK, DeleteTypeOK
  <2>3. faults' \in 0..MaxFaults
    BY <1>8, FaultTypes DEF DeleteFails
  <2> QED
    BY <1>8, <2>1, <2>2, <2>3, Frame DEF DeleteFails, TypeOK
<1> QED
  BY <1>1, <1>2, <1>3, <1>4, <1>5, <1>6, <1>7, <1>8 DEF DeleteNext, DeleteStepOf

LEMMA IngestTypes ==
  ASSUME TypeOK, NEW g \in Ingesters, IngestNext(g)
  PROVE  TypeOK'
<1>1. ASSUME NEW x \in ExternalIds \cup {None}, NEW c \in Contents, InlineSelect(g, x, c) PROVE TypeOK'
  <2>1. IngestTypeOK'
    <3>1. CASE ing' = [ing EXCEPT ![g] = "missing"] /\ UNCHANGED ingDoc
      BY <1>1, <3>1 DEF InlineSelect, IngestStep, TypeOK, IngestTypeOK
    <3>2. CASE \E d \in Docs : ing' = [ing EXCEPT ![g] = "found"] /\ ingDoc' = [ingDoc EXCEPT ![g] = d]
      BY <1>1, <3>2 DEF InlineSelect, IngestStep, TypeOK, IngestTypeOK
    <3> QED
      BY <1>1, <3>1, <3>2 DEF InlineSelect
  <2> QED
    BY <1>1, <2>1, Frame DEF InlineSelect, TypeOK
<1>2. ASSUME InlineUpdate(g) PROVE TypeOK'
  <2>1. ingDoc[g] \in Docs /\ ingText[g] \in Contents
    BY <1>2 DEF InlineUpdate, TypeOK, IngestTypeOK
  <2>2. RowTypeOK'
    BY <1>2, <2>1, SetStatusTypes DEF InlineUpdate, Status, TypeOK, RowTypeOK
  <2>3. IngestTypeOK'
    BY <1>2, <2>1 DEF InlineUpdate, IngestTo, IngestStep, TypeOK, IngestTypeOK
  <2> QED
    BY <1>2, <2>1, <2>2, <2>3, Frame DEF InlineUpdate, TypeOK
<1>3. ASSUME InlineInsert(g) PROVE TypeOK'
  <2>1. RowTypeOK'
    <3>1. CASE UNCHANGED rowVars
      BY <1>3, <3>1, SetStatusTypes, Frame
         DEF InlineInsert, Status, IngestTypeOK, TypeOK, RowTypeOK
    <3>2. CASE ~UNCHANGED rowVars
      BY <1>3, <3>2, SetStatusTypes, Frame
         DEF InlineInsert, Status, IngestTypeOK, TypeOK, RowTypeOK
    <3> QED
      BY <1>3, <3>1, <3>2 DEF InlineInsert
  <2>2. IngestTypeOK'
    <3>1. CASE IngestTo(g, "done")
      BY <1>3, <3>1 DEF InlineInsert, IngestTo, IngestStep, TypeOK, IngestTypeOK
    <3>2. CASE ~IngestTo(g, "done")
      BY <1>3, <3>2 DEF InlineInsert, IngestTo, IngestStep, TypeOK, IngestTypeOK
    <3> QED
      BY <1>3, <3>1, <3>2 DEF InlineInsert
  <2> QED
    BY <1>3, <2>1, <2>2, Frame DEF InlineInsert, TypeOK
<1>4. ASSUME InlinePut(g) PROVE TypeOK'
  <2>1. ingDoc[g] \in Docs /\ ingText[g] \in Contents
    BY <1>4 DEF InlinePut, TypeOK, IngestTypeOK
  <2>2. StoreTypeOK' /\ BrokerTypeOK' /\ faults' \in 0..MaxFaults
    BY <1>4, <2>1, PutTypes, FaultTypes, Frame DEF InlinePut, TypeOK, StoreTypeOK
  <2>3. IngestTypeOK'
    BY <1>4, <2>1 DEF InlinePut, IngestTo, IngestStep, TypeOK, IngestTypeOK
  <2> QED
    BY <1>4, <2>1, <2>2, <2>3, Frame DEF InlinePut, TypeOK
<1> QED
  BY <1>1, <1>2, <1>3, <1>4 DEF IngestNext, IngestStepOf

LEMMA AskTypes ==
  ASSUME TypeOK, NEW a \in Askers, AskNext(a)
  PROVE  TypeOK'
<1>1. ASSUME AskRetrieve(a) PROVE TypeOK'
  <2>1. AskTypeOK'
    BY <1>1 DEF AskRetrieve, Searchable, TypeOK, AskTypeOK
  <2> QED
    BY <1>1, <2>1, Frame DEF AskRetrieve, TypeOK
<1>2. ASSUME AskPersist(a) PROVE TypeOK'
  <2>1. StoreTypeOK'
    BY <1>2 DEF AskPersist, AskTypeOK, TypeOK, StoreTypeOK
  <2>2. AskTypeOK'
    BY <1>2 DEF AskPersist, TypeOK, AskTypeOK
  <2> QED
    BY <1>2, <2>1, <2>2, Frame DEF AskPersist, TypeOK
<1>3. ASSUME AskFails(a) PROVE TypeOK'
  <2>1. AskTypeOK'
    BY <1>3 DEF AskFails, TypeOK, AskTypeOK
  <2> QED
    BY <1>3, <2>1, Frame DEF AskFails, TypeOK
<1> QED
  BY <1>1, <1>2, <1>3 DEF AskNext

LEMMA StepTypes == TypeOK /\ [Next]_vars => TypeOK'
<1> SUFFICES ASSUME TypeOK, [Next]_vars PROVE TypeOK'
  OBVIOUS
<1>1. CASE UNCHANGED vars
  BY <1>1, Frame DEF vars, TypeOK
<1>2. CASE Next
  BY <1>2, UploadTypes, WorkerTypes, ReaperTypes, DeleteTypes, IngestTypes, AskTypes DEF Next
<1> QED  BY <1>1, <1>2

\* Every column, store and process is in a state of its own kind, no event is handed out
\* more often than its delivery limit allows, and no step acts on an empty hand.
THEOREM TypeCorrect == Spec => []TypeOK
  BY InitTypes, StepTypes, PTL DEF Spec

-----------------------------------------------------------------------------
(* The tombstone fence, one document at a time.                            *)

FenceAt(d) ==
  /\ \A w \in Workers :
        Indexing(w, d) => status[d] \in {"processing", "deleting"} /\ lease[d] = "running"
  /\ \A v, w \in Workers : Indexing(v, d) /\ Indexing(w, d) => v = w
  /\ status[d] = "processing" => lease[d] # None
  /\ status[d] \notin {"processing", "deleting"} => lease[d] = None
  /\ Finishing(d) => Released(d)
  /\ Swept(d) \/ ~Exists(d) => points[d] = Blank

\* Without external ids no inline request ever finds a row to write over.
NothingFound == \A g \in Ingesters : ing[g] # "found"

LEMMA FenceByDocument == FenceInv <=> \A d \in Docs : FenceAt(d)
  BY DEF FenceInv, FenceAt, WorkerHoldsLease, OneIndexer, LeaseMatchesStatus,
         FinishingIsReleased, SweptHasNoPoints

\* A step keeps the fence of d when it leaves the row alone, adds no point, and lets
\* nobody in who was not allowed in before.
LEMMA KeepAt ==
  ASSUME NEW d \in Docs, FenceAt(d),
         status'[d] = status[d], lease'[d] = lease[d],
         points'[d] = points[d] \/ points'[d] = Blank,
         \A w \in Workers : Indexing(w, d)' => Indexing(w, d),
         Finishing(d)' => Finishing(d) \/ Released(d),
         Swept(d)' => Swept(d) \/ points'[d] = Blank
  PROVE  FenceAt(d)'
  BY DEF FenceAt, Released, Exists, Blank

LEMMA SameWorkers ==
  ASSUME UNCHANGED <<step, job>>
  PROVE  \A w \in Workers, d \in Docs : Indexing(w, d)' <=> Indexing(w, d)
  BY DEF Indexing

LEMMA SameSagas ==
  ASSUME UNCHANGED <<sweep, todo, cur, del, target>>
  PROVE  \A d \in Docs : (Finishing(d)' <=> Finishing(d)) /\ (Swept(d)' <=> Swept(d))
  BY DEF Finishing, Swept

LEMMA QuietAt ==
  ASSUME NEW d \in Docs, FenceAt(d),
         UNCHANGED <<status, lease, points, step, job, sweep, todo, cur, del, target>>
  PROVE  FenceAt(d)'
  BY KeepAt, SameWorkers, SameSagas

\* A worker that goes idle stops indexing, and nobody starts.
LEMMA IdleKeeps ==
  ASSUME TypeOK, NEW w \in Workers, Idle(w)
  PROVE  \A v \in Workers, d \in Docs : Indexing(v, d)' => Indexing(v, d) /\ v # w
  BY DEF Idle, Indexing, TypeOK, WorkerTypeOK

LEMMA GotoKeeps ==
  ASSUME TypeOK, NEW w \in Workers, NEW s \in WorkerStep, Goto(w, s),
         step[w] \in {"claimed", "verified", "fetched", "cleared", "indexed", "failed", "rejected"}
                        \/ s = "purging"
  PROVE  \A v \in Workers, d \in Docs : Indexing(v, d)' => Indexing(v, d)
  BY DEF Goto, Indexing, TypeOK, WorkerTypeOK

\* Whoever indexes d keeps the sagas away from it.
LEMMA IndexerAlone ==
  ASSUME NEW d \in Docs, FenceAt(d), NEW w \in Workers, Indexing(w, d)
  PROVE  ~Finishing(d) /\ ~Swept(d) /\ Exists(d)
  BY DEF FenceAt, Released, Exists, Finishing, Swept

LEMMA FenceInit == Init => \A d \in Docs : FenceAt(d)
  BY DEF Init, FenceAt, Indexing, Finishing, Swept, Exists

LEMMA UploadFence ==
  ASSUME Disciplined, TypeOK, UploadNext, NEW d \in Docs, FenceAt(d)
  PROVE  FenceAt(d)'
<1>1. ASSUME NEW e \in Docs, CreateSession(e) \/ RefreshSession(e) PROVE FenceAt(d)'
  <2>0. /\ UNCHANGED <<lease, points, step, job, sweep, todo, cur, del, target>>
        /\ status' = [status EXCEPT ![e] = "uploading"]
        /\ status[e] \in {"unborn", "uploading", "expired"}
    BY <1>1 DEF CreateSession, RefreshSession, SetStatus, workerVars, reaperVars, deleteVars
  <2>1. CASE d = e
    BY <2>0, <2>1, SameWorkers, SameSagas DEF FenceAt, Released, Exists, Blank, TypeOK, RowTypeOK, Swept, Finishing
  <2>2. CASE d # e
    BY <2>0, <2>2, KeepAt, SameWorkers, SameSagas DEF TypeOK, RowTypeOK
  <2> QED  BY <2>1, <2>2
<1>2. ASSUME NEW e \in Docs, NEW c \in Contents, ClientPut(e, c) PROVE FenceAt(d)'
  BY <1>2, QuietAt DEF ClientPut, rowVars, workerVars, reaperVars, deleteVars
<1>3. ASSUME NEW e \in Docs, UrlExpires(e) \/ WindowLapses(e) PROVE FenceAt(d)'
  BY <1>3, QuietAt
     DEF UrlExpires, WindowLapses, rowVars, storeVars, workerVars, reaperVars, deleteVars
<1>4. ASSUME NEW e \in Docs, LeaseLapses(e) PROVE FenceAt(d)'
  <2>1. /\ UNCHANGED <<status, points, step, job, sweep, todo, cur, del, target>>
        /\ lease' = [lease EXCEPT ![e] = "lapsed"]
        /\ lease[e] = "running"
        /\ \A w \in Workers : ~Indexing(w, e)
    BY <1>4 DEF LeaseLapses, Disciplined, storeVars, workerVars, reaperVars, deleteVars
  <2>2. CASE d = e
    BY <2>1, <2>2, SameWorkers, SameSagas, ContentAssumption
       DEF FenceAt, Released, Exists, Blank, TypeOK, RowTypeOK
  <2>3. CASE d # e
    BY <2>1, <2>3, KeepAt, SameWorkers, SameSagas DEF TypeOK, RowTypeOK
  <2> QED  BY <2>2, <2>3
<1>5. ASSUME NEW e \in queue, DuplicateEvent(e) PROVE FenceAt(d)'
  BY <1>5, QuietAt DEF DuplicateEvent, rowVars, storeVars, workerVars, reaperVars, deleteVars
<1> QED  BY <1>1, <1>2, <1>3, <1>4, <1>5 DEF UploadNext

\* mark_ready and mark_failed take the document out of the hands of its only indexer.
LEMMA FinishKeeps ==
  ASSUME TypeOK, NEW w \in Workers, NEW s \in {"ready", "failed"}, NEW d \in Docs, FenceAt(d),
         Indexing(w, job[w].doc), FinishFromProcessing(job[w].doc, s), Idle(w),
         UNCHANGED <<points, sweep, todo, cur, del, target>>
  PROVE  FenceAt(d)'
<1>1. job[w].doc \in Docs
  BY JobTypes DEF Indexing
<1>2. CASE d = job[w].doc /\ status[d] = "processing"
  <2>1. status'[d] = s /\ lease'[d] = None
    BY <1>1, <1>2 DEF FinishFromProcessing, SetStatus, ReleaseLease, TypeOK, RowTypeOK
  <2>2. \A v \in Workers : ~Indexing(v, d)'
    BY <1>2, IdleKeeps DEF FenceAt
  <2>3. ~Finishing(d)' /\ ~Swept(d)'
    BY <1>2, IndexerAlone, SameSagas
  <2> QED  BY <1>2, <2>1, <2>2, <2>3 DEF FenceAt, Exists
<1>3. CASE d # job[w].doc \/ status[d] # "processing"
  <2>1. status'[d] = status[d] /\ lease'[d] = lease[d]
    BY <1>1, <1>3 DEF FinishFromProcessing, SetStatus, ReleaseLease, TypeOK, RowTypeOK, rowVars
  <2> QED  BY <2>1, KeepAt, IdleKeeps, SameSagas
<1> QED  BY <1>2, <1>3

\* The row is not touched and the worker gives up the event.
LEMMA IdleFence ==
  ASSUME TypeOK, NEW w \in Workers, Idle(w), NEW d \in Docs, FenceAt(d),
         UNCHANGED <<status, lease, points, sweep, todo, cur, del, target>>
  PROVE  FenceAt(d)'
  BY KeepAt, IdleKeeps, SameSagas

LEMMA WorkerFence ==
  ASSUME Disciplined, TypeOK, NEW w \in Workers, WorkerNext(w), NEW d \in Docs, FenceAt(d),
         \A e \in Docs : FenceAt(e)
  PROVE  FenceAt(d)'
<1> USE DEF rowVars, storeVars, brokerVars, workerVars, reaperVars, deleteVars
<1>1. ASSUME Receive(w) PROVE FenceAt(d)'
  <2>1. \A v \in Workers : Indexing(v, d)' => Indexing(v, d)
    BY <1>1 DEF Receive, Indexing, TypeOK, WorkerTypeOK
  <2> QED  BY <1>1, <2>1, KeepAt, SameSagas DEF Receive
<1>2. ASSUME Quarantine(w) PROVE FenceAt(d)'
  <2>1. job[w].etag \in Contents
    BY <1>2, JobTypes DEF Quarantine
  <2> QED  BY <1>2, <2>1, ContentAssumption DEF Quarantine, Oversize, Disciplined
<1>3. ASSUME Purge(w) PROVE FenceAt(d)'
  BY <1>3, IdleFence DEF Purge, Ack
<1>4. ASSUME Claim(w) PROVE FenceAt(d)'
  <2>1. CASE Claimable(job[w])
    <3>1. job[w].doc \in Docs
      BY <1>4, JobTypes DEF Claim
    <3>2. /\ status' = [status EXCEPT ![job[w].doc] = "processing"]
          /\ lease' = [lease EXCEPT ![job[w].doc] = "running"]
          /\ Goto(w, "claimed")
          /\ UNCHANGED <<points, sweep, todo, cur, del, target>>
      BY <1>4, <2>1 DEF Claim, SetStatus
    <3>3. \A v \in Workers : Indexing(v, d)' =>
              Indexing(v, d) \/ (v = w /\ d = job[w].doc)
      BY <1>4, <3>2 DEF Claim, Goto, Indexing, TypeOK, WorkerTypeOK
    <3>4. CASE d = job[w].doc
      <4>1. Exists(d) /\ status[d] \notin {"processing", "deleting"}
        BY <2>1, <3>4 DEF Claimable
      <4>2. \A v \in Workers : ~Indexing(v, d)
        BY <4>1 DEF FenceAt
      <4>3. ~Finishing(d)
        BY <4>1 DEF FenceAt, Released, Exists
      <4>4. ~Swept(d)
        BY <4>3 DEF Swept, Finishing
      <4>5. status'[d] = "processing" /\ lease'[d] = "running"
        BY <3>1, <3>2, <3>4 DEF TypeOK, RowTypeOK
      <4> QED
        BY <3>2, <3>3, <4>2, <4>3, <4>4, <4>5, SameSagas, ContentAssumption DEF FenceAt, Exists
    <3>5. CASE d # job[w].doc
      BY <3>1, <3>2, <3>3, <3>5, KeepAt, SameSagas DEF TypeOK, RowTypeOK
    <3> QED  BY <3>4, <3>5
  <2>2. CASE ~Claimable(job[w])
    BY <1>4, <2>2, IdleFence DEF Claim, Ack
  <2> QED  BY <2>1, <2>2
<1>5. ASSUME Verify(w) PROVE FenceAt(d)'
  <2>1. Goto(w, "verified") \/ Goto(w, "failed")
    BY <1>5 DEF Verify
  <2> QED  BY <1>5, <2>1, GotoKeeps, KeepAt, SameSagas DEF Verify, WorkerStep
<1>6. ASSUME Download(w) PROVE FenceAt(d)'
  <2>1. \A v \in Workers : Indexing(v, d)' => Indexing(v, d)
    BY <1>6 DEF Download, Goto, Indexing, TypeOK, WorkerTypeOK
  <2> QED  BY <1>6, <2>1, KeepAt, SameSagas DEF Download
<1>7. ASSUME ClearPoints(w) PROVE FenceAt(d)'
  <2>1. points'[d] = points[d] \/ points'[d] = Blank
    BY <1>7 DEF ClearPoints, DropPoints, TypeOK, StoreTypeOK
  <2>2. \A v \in Workers : Indexing(v, d)' => Indexing(v, d)
    BY <1>7, GotoKeeps DEF ClearPoints, WorkerStep
  <2> QED  BY <1>7, <2>1, <2>2, KeepAt, SameSagas DEF ClearPoints
<1>8. ASSUME Upsert(w) PROVE FenceAt(d)'
  <2>1. job[w].doc \in Docs /\ Indexing(w, job[w].doc)
    BY <1>8, JobTypes DEF Upsert, Indexing
  <2>2. \A v \in Workers : Indexing(v, d)' => Indexing(v, d)
    BY <1>8, GotoKeeps DEF Upsert, WorkerStep
  <2>3. CASE d = job[w].doc
    <3>1. ~Finishing(d) /\ ~Swept(d) /\ Exists(d)
      BY <2>1, <2>3, IndexerAlone
    <3> QED  BY <1>8, <2>2, <2>3, <3>1, SameSagas DEF Upsert, FenceAt, Exists
  <2>4. CASE d # job[w].doc
    <3>1. points'[d] = points[d]
      BY <1>8, <2>4 DEF Upsert, TypeOK, StoreTypeOK
    <3> QED  BY <1>8, <2>2, <3>1, KeepAt, SameSagas DEF Upsert
  <2> QED  BY <2>3, <2>4
<1>9. ASSUME IngestError(w) PROVE FenceAt(d)'
  BY <1>9, GotoKeeps, KeepAt, SameSagas DEF IngestError, WorkerStep
<1>10. ASSUME MarkReady(w) PROVE FenceAt(d)'
  BY <1>10, FinishKeeps DEF MarkReady, Ack, Indexing
<1>11. ASSUME MarkFailed(w) PROVE FenceAt(d)'
  <2>1. Idle(w) /\ Indexing(w, job[w].doc)
    BY <1>11 DEF MarkFailed, Ack, Nack, Indexing
  <2> QED  BY <1>11, <2>1, FinishKeeps, IdleFence DEF MarkFailed
<1>12. ASSUME WorkerDbError(w) \/ Crash(w) PROVE FenceAt(d)'
  BY <1>12, IdleFence DEF WorkerDbError, Crash, Nack
<1>13. ASSUME Disconnect(w) PROVE FenceAt(d)'
  BY <1>13, QuietAt DEF Disconnect
<1> QED
  BY <1>1, <1>2, <1>3, <1>4, <1>5, <1>6, <1>7, <1>8, <1>9, <1>10, <1>11, <1>12, <1>13
     DEF WorkerNext, WorkerStepOf

\* The guarded DELETE, by whoever has swept the document before.
LEMMA DeleteRowKeeps ==
  ASSUME TypeOK, NEW e \in Docs, DeleteTombstonedRow(e), NEW d \in Docs, FenceAt(d), FenceAt(e),
         Finishing(e), Swept(e), UNCHANGED <<points, step, job>>,
         Finishing(d)' => Finishing(d), Swept(d)' => Swept(d)
  PROVE  FenceAt(d)'
<1>1. CASE d = e /\ status[e] = "deleting"
  <2>1. status'[d] = "gone" /\ lease'[d] = None
    BY <1>1 DEF DeleteTombstonedRow, SetStatus, ReleaseLease, TypeOK, RowTypeOK
  <2>2. \A w \in Workers : ~Indexing(w, d)'
    BY <1>1, IndexerAlone, SameWorkers
  <2> QED  BY <1>1, <2>1, <2>2, ContentAssumption DEF FenceAt, Released, Exists, Blank
<1>2. CASE d # e \/ status[e] # "deleting"
  <2>1. status'[d] = status[d] /\ lease'[d] = lease[d]
    BY <1>2 DEF DeleteTombstonedRow, SetStatus, ReleaseLease, TypeOK, RowTypeOK, rowVars
  <2> QED  BY <2>1, KeepAt, SameWorkers
<1> QED  BY <1>1, <1>2

LEMMA ReaperFence ==
  ASSUME TypeOK, NEW r \in Reapers, ReaperStepOf(r) \/ SweepFails(r), NEW d \in Docs, FenceAt(d),
         \A e \in Docs : FenceAt(e)
  PROVE  FenceAt(d)'
<1> USE DEF rowVars, storeVars, workerVars, deleteVars
<1>1. ASSUME ExpireUploads(r) PROVE FenceAt(d)'
  <2>1. (Finishing(d)' => Finishing(d)) /\ (Swept(d)' => Swept(d))
    BY <1>1 DEF ExpireUploads, SweepTo, Finishing, Swept, TypeOK, ReaperTypeOK
  <2>2. CASE Abandoned(d)
    <3>1. status'[d] = "expired" /\ status[d] = "uploading"
      BY <1>1, <2>2 DEF ExpireUploads, Abandoned
    <3> QED  BY <1>1, <2>1, <3>1, SameWorkers DEF ExpireUploads, FenceAt, Released, Exists
  <2>3. CASE ~Abandoned(d)
    BY <1>1, <2>1, <2>3, KeepAt, SameWorkers DEF ExpireUploads
  <2> QED  BY <2>2, <2>3
<1>2. ASSUME ReclaimLeases(r) PROVE FenceAt(d)'
  <2>1. (Finishing(d)' => Finishing(d)) /\ (Swept(d)' => Swept(d))
    BY <1>2 DEF ReclaimLeases, SweepTo, Finishing, Swept, TypeOK, ReaperTypeOK
  <2>2. CASE Stale(d)
    <3>1. status'[d] = "failed" /\ lease'[d] = None
      BY <1>2, <2>2 DEF ReclaimLeases
    <3>2. status[d] = "processing" /\ lease[d] = "lapsed"
      BY <2>2 DEF Stale
    <3> QED
      BY <1>2, <2>1, <3>1, <3>2, SameWorkers DEF ReclaimLeases, FenceAt, Released, Exists
  <2>3. CASE ~Stale(d)
    <3>1. status'[d] = status[d] /\ lease'[d] = lease[d]
      BY <1>2, <2>3 DEF ReclaimLeases
    <3> QED  BY <1>2, <2>1, <3>1, KeepAt, SameWorkers DEF ReclaimLeases
  <2> QED  BY <2>2, <2>3
<1>3. ASSUME SelectDeletions(r) PROVE FenceAt(d)'
  <2>1. Finishing(d)' => Finishing(d) \/ Released(d)
    BY <1>3 DEF SelectDeletions, Finishing, Finishable, Released, TypeOK, ReaperTypeOK
  <2>2. Swept(d)' => Swept(d)
    BY <1>3 DEF SelectDeletions, Swept, TypeOK, ReaperTypeOK
  <2> QED  BY <1>3, <2>1, <2>2, KeepAt, SameWorkers DEF SelectDeletions
<1>4. ASSUME SweepVectors(r) PROVE FenceAt(d)'
  <2>1. PICK e \in todo[r] : /\ DropPoints(e)
                             /\ cur' = [cur EXCEPT ![r] = e]
                             /\ todo' = [todo EXCEPT ![r] = @ \ {e}]
    BY <1>4 DEF SweepVectors
  <2>2. points'[d] = points[d] \/ points'[d] = Blank
    BY <2>1 DEF DropPoints, TypeOK, StoreTypeOK
  <2>3. d = e => points'[d] = Blank
    BY <2>1 DEF DropPoints, TypeOK, StoreTypeOK
  <2>4. Finishing(d)' => Finishing(d)
    BY <1>4, <2>1 DEF SweepVectors, Finishing, TypeOK, ReaperTypeOK
  <2>5. Swept(d)' => Swept(d) \/ points'[d] = Blank
    BY <1>4, <2>1, <2>3 DEF SweepVectors, Swept, TypeOK, ReaperTypeOK
  <2> QED  BY <1>4, <2>2, <2>4, <2>5, KeepAt, SameWorkers DEF SweepVectors
<1>5. ASSUME SweepObject(r) PROVE FenceAt(d)'
  <2>1. (Finishing(d)' => Finishing(d)) /\ (Swept(d)' => Swept(d))
    BY <1>5 DEF SweepObject, SweepTo, Finishing, Swept, TypeOK, ReaperTypeOK
  <2> QED  BY <1>5, <2>1, KeepAt, SameWorkers DEF SweepObject
<1>6. ASSUME SweepRow(r) PROVE FenceAt(d)'
  <2>1. (Finishing(d)' => Finishing(d)) /\ (Swept(d)' => Swept(d))
    BY <1>6 DEF SweepRow, Finishing, Swept, TypeOK, ReaperTypeOK
  <2>2. cur[r] \in Docs /\ Finishing(cur[r]) /\ Swept(cur[r])
    BY <1>6 DEF SweepRow, Finishing, Swept, TypeOK, ReaperTypeOK
  <2> QED  BY <1>6, <2>1, <2>2, DeleteRowKeeps DEF SweepRow
<1>7. ASSUME SweepFails(r) PROVE FenceAt(d)'
  <2>1. (Finishing(d)' => Finishing(d)) /\ (Swept(d)' => Swept(d))
    BY <1>7 DEF SweepFails, Finishing, Swept, TypeOK, ReaperTypeOK
  <2> QED  BY <1>7, <2>1, KeepAt, SameWorkers DEF SweepFails
<1> QED  BY <1>1, <1>2, <1>3, <1>4, <1>5, <1>6, <1>7 DEF ReaperStepOf

LEMMA DeleteFence ==
  ASSUME TypeOK, NEW x \in Deleters, DeleteNext(x), NEW d \in Docs, FenceAt(d),
         \A e \in Docs : FenceAt(e)
  PROVE  FenceAt(d)'
<1> USE DEF rowVars, storeVars, workerVars, reaperVars
<1>1. ASSUME NEW e \in Docs, DeleteBegin(x, e) PROVE FenceAt(d)'
  <2>1. (Finishing(d)' => Finishing(d)) /\ (Swept(d)' => Swept(d))
    BY <1>1 DEF DeleteBegin, Finishing, Swept, TypeOK, DeleteTypeOK
  <2> QED  BY <1>1, <2>1, KeepAt, SameWorkers DEF DeleteBegin
<1>2. ASSUME Tombstone(x) PROVE FenceAt(d)'
  <2>1. target[x] \in Docs
    BY <1>2 DEF Tombstone, TypeOK, DeleteTypeOK
  <2>2. Swept(d)' => Swept(d)
    BY <1>2 DEF Tombstone, DeleteTo, Swept, TypeOK, DeleteTypeOK
  <2>3. CASE UNCHANGED status
    <3>1. Finishing(d)' => Finishing(d)
      BY <1>2, <2>1, <2>3 DEF Tombstone, DeleteTo, SetStatus, Finishing, TypeOK, DeleteTypeOK, RowTypeOK
    <3> QED  BY <1>2, <2>2, <2>3, <3>1, KeepAt, SameWorkers DEF Tombstone
  <2>4. CASE /\ Exists(target[x]) /\ status[target[x]] # "deleting"
             /\ status' = [status EXCEPT ![target[x]] = "deleting"]
             /\ DeleteTo(x, IF status[target[x]] = "processing" THEN "202" ELSE "vectors")
    <3>1. UNCHANGED <<lease, points, step, job, sweep, todo, cur, target>>
      BY <1>2 DEF Tombstone, DeleteTo
    <3>2. Finishing(d)' => Finishing(d) \/ (d = target[x] /\ status[d] # "processing")
      BY <2>4, <3>1 DEF DeleteTo, Finishing, TypeOK, DeleteTypeOK
    <3>3. CASE d = target[x]
      <4>1. status'[d] = "deleting" /\ lease'[d] = lease[d]
        BY <2>1, <2>4, <3>1, <3>3 DEF TypeOK, RowTypeOK
      <4>2. ~Finishing(d)
        BY <2>4, <3>3 DEF FenceAt, Released, Exists
      <4> QED
        BY <2>2, <2>4, <3>1, <3>2, <3>3, <4>1, <4>2, SameWorkers, ContentAssumption
           DEF FenceAt, Released, Exists
    <3>4. CASE d # target[x]
      <4>1. status'[d] = status[d] /\ lease'[d] = lease[d]
        BY <2>1, <2>4, <3>1, <3>4 DEF TypeOK, RowTypeOK
      <4> QED  BY <2>2, <3>1, <3>2, <3>4, <4>1, KeepAt, SameWorkers
    <3> QED  BY <3>3, <3>4
  <2> QED  BY <1>2, <2>3, <2>4 DEF Tombstone, SetStatus, Deferred
<1>3. ASSUME DeleteVectors(x) PROVE FenceAt(d)'
  <2>1. points'[d] = points[d] \/ points'[d] = Blank
    BY <1>3 DEF DeleteVectors, DropPoints, TypeOK, StoreTypeOK
  <2>2. d = target[x] => points'[d] = Blank
    BY <1>3 DEF DeleteVectors, DropPoints, TypeOK, StoreTypeOK
  <2>3. Finishing(d)' => Finishing(d)
    BY <1>3 DEF DeleteVectors, DeleteTo, Finishing, TypeOK, DeleteTypeOK
  <2>4. Swept(d)' => Swept(d) \/ points'[d] = Blank
    BY <1>3, <2>2 DEF DeleteVectors, DeleteTo, Swept, TypeOK, DeleteTypeOK
  <2> QED  BY <1>3, <2>1, <2>3, <2>4, KeepAt, SameWorkers DEF DeleteVectors
<1>4. ASSUME DeleteObject(x) \/ Redact(x) \/ DeleteFails(x) \/ CloseAudit(x) PROVE FenceAt(d)'
  <2>1. (Finishing(d)' => Finishing(d)) /\ (Swept(d)' => Swept(d))
    BY <1>4 DEF DeleteObject, Redact, DeleteFails, CloseAudit, DeleteTo, Finishing, Swept, TypeOK,
                DeleteTypeOK
  <2> QED
    BY <1>4, <2>1, KeepAt, SameWorkers DEF DeleteObject, Redact, DeleteFails, CloseAudit
<1>5. ASSUME DeleteRow(x) PROVE FenceAt(d)'
  <2>1. (Finishing(d)' => Finishing(d)) /\ (Swept(d)' => Swept(d))
    BY <1>5 DEF DeleteRow, DeleteTo, Finishing, Swept, TypeOK, DeleteTypeOK
  <2>2. target[x] \in Docs /\ Finishing(target[x]) /\ Swept(target[x])
    BY <1>5 DEF DeleteRow, Finishing, Swept, TypeOK, DeleteTypeOK
  <2> QED  BY <1>5, <2>1, <2>2, DeleteRowKeeps DEF DeleteRow
<1> QED  BY <1>1, <1>2, <1>3, <1>4, <1>5 DEF DeleteNext, DeleteStepOf

LEMMA IngestFence ==
  ASSUME TypeOK, NothingFound, NEW g \in Ingesters, IngestNext(g),
         NEW d \in Docs, FenceAt(d)
  PROVE  FenceAt(d)'
<1> USE DEF rowVars, storeVars, workerVars, reaperVars, deleteVars
<1>1. ASSUME NEW y \in ExternalIds \cup {None}, NEW c \in Contents, InlineSelect(g, y, c)
      PROVE  FenceAt(d)'
  BY <1>1, QuietAt DEF InlineSelect
<1>2. ASSUME InlineUpdate(g) PROVE FenceAt(d)'
  BY <1>2 DEF InlineUpdate, NothingFound
<1>3. ASSUME InlineInsert(g) PROVE FenceAt(d)'
  <2>1. CASE UNCHANGED rowVars
    BY <1>3, <2>1, QuietAt DEF InlineInsert
  <2>2. CASE ~UNCHANGED rowVars
    <3>1. PICK e \in Docs : status[e] = "unborn" /\ SetStatus(e, "uploading")
      BY <1>3, <2>2 DEF InlineInsert
    <3>2. UNCHANGED <<lease, points, step, job, sweep, todo, cur, del, target>>
      BY <1>3, <2>2 DEF InlineInsert
    <3>3. CASE d = e
      <4>1. status'[d] = "uploading"
        BY <3>1, <3>3 DEF SetStatus, TypeOK, RowTypeOK
      <4> QED
        BY <3>1, <3>2, <3>3, <4>1, SameWorkers, SameSagas DEF FenceAt, Released, Exists
    <3>4. CASE d # e
      <4>1. status'[d] = status[d]
        BY <3>1, <3>4 DEF SetStatus, TypeOK, RowTypeOK
      <4> QED  BY <3>2, <4>1, KeepAt, SameWorkers, SameSagas
    <3> QED  BY <3>3, <3>4
  <2> QED  BY <2>1, <2>2
<1>4. ASSUME InlinePut(g) PROVE FenceAt(d)'
  BY <1>4, QuietAt DEF InlinePut
<1> QED  BY <1>1, <1>2, <1>3, <1>4 DEF IngestNext, IngestStepOf

LEMMA AskFence ==
  ASSUME NEW a \in Askers, AskNext(a), NEW d \in Docs, FenceAt(d)
  PROVE  FenceAt(d)'
  BY QuietAt DEF AskNext, AskRetrieve, AskPersist, AskFails, rowVars, storeVars, workerVars,
                 reaperVars, deleteVars

FenceIInv == TypeOK /\ FenceInv /\ NothingFound

LEMMA FenceIInvInit == Init => FenceIInv
  BY InitTypes, FenceInit, FenceByDocument DEF Init, FenceIInv, NothingFound

LEMMA NothingIsFound ==
  ASSUME ExternalIds = {}, TypeOK, NothingFound, [Next]_vars
  PROVE  NothingFound'
<1>1. CASE \E g \in Ingesters : IngestNext(g)
  <2>1. PICK g \in Ingesters : IngestNext(g)
    BY <1>1
  <2>2. CASE \E y \in ExternalIds \cup {None}, c \in Contents : InlineSelect(g, y, c)
    BY <2>2 DEF InlineSelect, NothingFound, TypeOK, IngestTypeOK
  <2>3. CASE InlineUpdate(g)
    BY <2>3 DEF InlineUpdate, NothingFound
  <2>4. CASE InlineInsert(g) \/ InlinePut(g)
    BY <2>4 DEF InlineInsert, InlinePut, IngestTo, NothingFound, TypeOK, IngestTypeOK
  <2> QED  BY <2>1, <2>2, <2>3, <2>4 DEF IngestNext, IngestStepOf
<1>2. CASE UNCHANGED ingestVars
  BY <1>2 DEF NothingFound, ingestVars
<1>3. CASE UNCHANGED vars
  BY <1>3 DEF NothingFound, vars, ingestVars
<1>4. UploadNext => UNCHANGED ingestVars
  BY DEF UploadNext, CreateSession, RefreshSession, ClientPut, UrlExpires, WindowLapses,
         LeaseLapses, DuplicateEvent
<1>5. ASSUME NEW w \in Workers, WorkerNext(w) PROVE UNCHANGED ingestVars
  BY <1>5 DEF WorkerNext, WorkerStepOf, Receive, Quarantine, Purge, Claim, Verify, Download,
              ClearPoints, Upsert, IngestError, MarkReady, MarkFailed, WorkerDbError,
              Disconnect, Crash
<1>6. ASSUME NEW r \in Reapers, ReaperStepOf(r) \/ SweepFails(r) PROVE UNCHANGED ingestVars
  BY <1>6 DEF ReaperStepOf, ExpireUploads, ReclaimLeases, SelectDeletions, SweepVectors,
              SweepObject, SweepRow, SweepFails
<1>7. ASSUME NEW x \in Deleters, DeleteNext(x) PROVE UNCHANGED ingestVars
  BY <1>7 DEF DeleteNext, DeleteStepOf, DeleteBegin, Tombstone, DeleteVectors, DeleteObject,
              Redact, DeleteRow, CloseAudit, DeleteFails
<1>8. ASSUME NEW a \in Askers, AskNext(a) PROVE UNCHANGED ingestVars
  BY <1>8 DEF AskNext, AskRetrieve, AskPersist, AskFails
<1> QED  BY <1>1, <1>2, <1>3, <1>4, <1>5, <1>6, <1>7, <1>8 DEF Next

LEMMA FenceIInvStep ==
  ASSUME Disciplined, FenceIInv, [Next]_vars
  PROVE  FenceIInv'
<1>1. TypeOK /\ TypeOK' /\ NothingFound /\ \A d \in Docs : FenceAt(d)
  BY StepTypes, FenceByDocument DEF FenceIInv
<1>2. \A d \in Docs : FenceAt(d)'
  <2> SUFFICES ASSUME NEW d \in Docs PROVE FenceAt(d)'
    OBVIOUS
  <2>1. CASE UNCHANGED vars
    BY <1>1, <2>1, QuietAt DEF vars, rowVars, storeVars, workerVars, reaperVars, deleteVars
  <2>2. CASE Next
    BY <1>1, <2>2, UploadFence, WorkerFence, ReaperFence, DeleteFence, IngestFence, AskFence
       DEF Next
  <2> QED  BY <2>1, <2>2
<1>3. NothingFound'
  BY <1>1, NothingIsFound DEF Disciplined
<1>4. (\A d \in Docs : FenceAt(d)') => FenceInv'
  BY DEF FenceInv, FenceAt, WorkerHoldsLease, OneIndexer, LeaseMatchesStatus,
         FinishingIsReleased, SweptHasNoPoints
<1> QED  BY <1>1, <1>2, <1>3, <1>4 DEF FenceIInv

\* The fence together with the types and the idle re-sync is inductive (DocumentLifecycle):
\* every step of every process keeps it, from any state that satisfies it.
THEOREM FenceIInvHolds ==
  ASSUME Disciplined
  PROVE  Spec => []FenceIInv
<1>1. FenceIInv /\ [Next]_vars => FenceIInv'
  BY FenceIInvStep
<1> QED  BY <1>1, FenceIInvInit, PTL DEF Spec

\* The tombstone fence (delete_document, finish_deletions, claim): whoever erases a
\* document does so alone, and whoever indexes it holds its lease, under any interleaving
\* of any number of workers, reapers and delete requests.
THEOREM FenceHolds ==
  ASSUME Disciplined
  PROVE  Spec => []FenceInv
<1>1. FenceIInv => FenceInv
  BY DEF FenceIInv
<1> QED  BY <1>1, FenceIInvHolds, PTL

\* No chunk of a document outlives its row, whatever crashed or was retried on the way.
THEOREM NoOrphanPointsHolds ==
  ASSUME Disciplined
  PROVE  Spec => []NoOrphanPoints
<1>1. FenceIInv => NoOrphanPoints
  BY DEF FenceIInv, FenceInv, SweptHasNoPoints, NoOrphanPoints, Searchable, Exists
<1> QED  BY <1>1, FenceIInvHolds, PTL

-----------------------------------------------------------------------------
(* The four stores implement ErasurePromise, and a closed audit row stands *)
(* for an erasure that happened.  Both rest on the fence.  A step does one *)
(* of five things to a tenant's documents (ErasureStep); each of them is a *)
(* step of the promise or no step at all, and none of them brings a row    *)
(* back.                                                                   *)

Alive == Status \ {"unborn", "deleting", "gone"}

\* No document is born or deleted, and no point moves.
StaysPut ==
  /\ UNCHANGED points
  /\ \A d \in Docs : status'[d] = status[d] \/ (status[d] \in Alive /\ status'[d] \in Alive)

\* The row of e, and nothing else, moves to another stage of its life.
Moves(e, from, to) ==
  /\ UNCHANGED points
  /\ status[e] \in from
  /\ status'[e] = to
  /\ \A d \in Docs \ {e} : status'[d] = status[d]

\* The points of e, and nothing else, are dropped or written.
Reindexed(e) ==
  /\ UNCHANGED status
  /\ \A d \in Docs \ {e} : points'[d] = points[d]
  /\ points'[e] = Blank \/ status[e] \in Alive \cup {"deleting"}

ErasureStep ==
  \/ StaysPut
  \/ \E e \in Docs :
       \/ Moves(e, {"unborn"}, "uploading")
       \/ Moves(e, Alive, "deleting")
       \/ Moves(e, {"deleting"}, "gone") /\ points[e] = Blank
       \/ Reindexed(e)

-----------------------------------------------------------------------------
(* Every step is an ErasureStep.                                           *)

LEMMA QuietStep ==
  ASSUME UNCHANGED <<status, points>>
  PROVE  ErasureStep
  BY DEF ErasureStep, StaysPut

LEMMA SetAlive ==
  ASSUME TypeOK, NEW e \in Docs, NEW s \in Alive, status[e] \in Alive, SetStatus(e, s),
         UNCHANGED points
  PROVE  ErasureStep
  BY DEF ErasureStep, StaysPut, SetStatus, TypeOK, RowTypeOK

LEMMA SetStage ==
  ASSUME TypeOK, NEW e \in Docs, NEW s, SetStatus(e, s), UNCHANGED points,
         \/ status[e] = "unborn" /\ s = "uploading"
         \/ status[e] \in Alive /\ s = "deleting"
         \/ status[e] = "deleting" /\ s = "gone" /\ points[e] = Blank
  PROVE  ErasureStep
<1>1. status'[e] = s /\ \A d \in Docs \ {e} : status'[d] = status[d]
  BY DEF SetStatus, TypeOK, RowTypeOK
<1> QED  BY <1>1 DEF ErasureStep, Moves

LEMMA DropStep ==
  ASSUME TypeOK, NEW e \in Docs, DropPoints(e), UNCHANGED status
  PROVE  ErasureStep
<1>1. Reindexed(e)
  BY DEF Reindexed, DropPoints, TypeOK, StoreTypeOK
<1> QED  BY <1>1 DEF ErasureStep

LEMMA FinishStep ==
  ASSUME TypeOK, NEW e \in Docs, NEW s \in Alive, FinishFromProcessing(e, s), UNCHANGED points
  PROVE  ErasureStep
  BY QuietStep, SetAlive DEF FinishFromProcessing, Alive, Status, rowVars

LEMMA RowGoneStep ==
  ASSUME TypeOK, NEW e \in Docs, DeleteTombstonedRow(e), points[e] = Blank, UNCHANGED points
  PROVE  ErasureStep
  BY QuietStep, SetStage DEF DeleteTombstonedRow, rowVars

LEMMA UploadErasure ==
  ASSUME TypeOK, UploadNext
  PROVE  ErasureStep
<1>1. ASSUME NEW d \in Docs, CreateSession(d) PROVE ErasureStep
  BY <1>1, SetStage DEF CreateSession
<1>2. ASSUME NEW d \in Docs, RefreshSession(d) PROVE ErasureStep
  BY <1>2, SetAlive DEF RefreshSession, Alive, Status
<1>3. ASSUME NEW d \in Docs, UrlExpires(d) \/ WindowLapses(d) \/ LeaseLapses(d) PROVE ErasureStep
  BY <1>3, QuietStep DEF UrlExpires, WindowLapses, LeaseLapses, rowVars, storeVars
<1>4. ASSUME NEW d \in Docs, NEW c \in Contents, ClientPut(d, c) PROVE ErasureStep
  BY <1>4, QuietStep DEF ClientPut, rowVars
<1>5. ASSUME NEW e \in queue, DuplicateEvent(e) PROVE ErasureStep
  BY <1>5, QuietStep DEF DuplicateEvent, rowVars, storeVars
<1> QED  BY <1>1, <1>2, <1>3, <1>4, <1>5 DEF UploadNext

LEMMA WorkerErasure ==
  ASSUME Disciplined, FenceIInv, NEW w \in Workers, WorkerNext(w)
  PROVE  ErasureStep
<1>1. TypeOK /\ (step[w] # "idle" => job[w].doc \in Docs /\ job[w].etag \in Contents)
  BY JobTypes DEF FenceIInv
<1>2. ASSUME Quarantine(w) PROVE FALSE
  BY <1>1, <1>2, ContentAssumption DEF Quarantine, Oversize, Disciplined
<1>3. ASSUME Claim(w) PROVE ErasureStep
  <2>1. job[w].doc \in Docs /\ status[job[w].doc] \in Status
    BY <1>1, <1>3 DEF Claim, TypeOK, RowTypeOK
  <2>2. CASE Claimable(job[w])
    BY <1>1, <1>3, <2>1, <2>2, SetAlive DEF Claim, Claimable, Exists, Alive, Status, storeVars
  <2>3. CASE ~Claimable(job[w])
    BY <1>3, <2>3, QuietStep DEF Claim, rowVars, storeVars
  <2> QED  BY <2>2, <2>3
<1>4. ASSUME ClearPoints(w) PROVE ErasureStep
  BY <1>1, <1>4, DropStep DEF ClearPoints, rowVars
<1>5. ASSUME Upsert(w) PROVE ErasureStep
  <2>1. job[w].doc \in Docs /\ Indexing(w, job[w].doc)
    BY <1>1, <1>5 DEF Upsert, Indexing
  <2>2. status[job[w].doc] \in Alive \cup {"deleting"}
    BY <2>1 DEF FenceIInv, FenceInv, WorkerHoldsLease, Alive, Status
  <2>3. Reindexed(job[w].doc)
    BY <1>1, <1>5, <2>1, <2>2 DEF Upsert, Reindexed, rowVars, TypeOK, StoreTypeOK
  <2> QED  BY <2>1, <2>3 DEF ErasureStep
<1>6. ASSUME MarkReady(w) PROVE ErasureStep
  BY <1>1, <1>6, FinishStep DEF MarkReady, storeVars, Alive, Status
<1>7. ASSUME MarkFailed(w) PROVE ErasureStep
  BY <1>1, <1>7, FinishStep, QuietStep DEF MarkFailed, rowVars, storeVars, Alive, Status
<1>8. ASSUME \/ Receive(w) \/ Purge(w) \/ Verify(w) \/ Download(w) \/ IngestError(w)
             \/ WorkerDbError(w) \/ Disconnect(w) \/ Crash(w)
      PROVE  ErasureStep
  BY <1>8, QuietStep DEF Receive, Purge, Verify, Download, IngestError, WorkerDbError,
                         Disconnect, Crash, rowVars, storeVars
<1> QED  BY <1>2, <1>3, <1>4, <1>5, <1>6, <1>7, <1>8 DEF WorkerNext, WorkerStepOf

LEMMA ReaperErasure ==
  ASSUME FenceIInv, NEW r \in Reapers, ReaperStepOf(r) \/ SweepFails(r)
  PROVE  ErasureStep
<1>1. TypeOK
  BY DEF FenceIInv
<1>2. ASSUME ExpireUploads(r) PROVE ErasureStep
  BY <1>2 DEF ExpireUploads, Abandoned, ErasureStep, StaysPut, Alive, Status, storeVars
<1>3. ASSUME ReclaimLeases(r) PROVE ErasureStep
  BY <1>3 DEF ReclaimLeases, Stale, ErasureStep, StaysPut, Alive, Status, storeVars
<1>4. ASSUME SweepVectors(r) PROVE ErasureStep
  BY <1>1, <1>4, DropStep DEF SweepVectors, rowVars, TypeOK, ReaperTypeOK
<1>5. ASSUME SweepRow(r) PROVE ErasureStep
  <2>1. cur[r] \in Docs /\ Swept(cur[r])
    BY <1>1, <1>5 DEF SweepRow, Swept, TypeOK, ReaperTypeOK
  <2>2. points[cur[r]] = Blank
    BY <2>1 DEF FenceIInv, FenceInv, SweptHasNoPoints
  <2> QED  BY <1>1, <1>5, <2>1, <2>2, RowGoneStep DEF SweepRow, storeVars
<1>6. ASSUME SelectDeletions(r) \/ SweepObject(r) \/ SweepFails(r) PROVE ErasureStep
  BY <1>6, QuietStep DEF SelectDeletions, SweepObject, SweepFails, rowVars, storeVars
<1> QED  BY <1>2, <1>3, <1>4, <1>5, <1>6 DEF ReaperStepOf

LEMMA DeleteErasure ==
  ASSUME FenceIInv, NEW x \in Deleters, DeleteNext(x)
  PROVE  ErasureStep
<1>1. TypeOK /\ (del[x] # "idle" => target[x] \in Docs)
  BY DEF FenceIInv, TypeOK, DeleteTypeOK
<1>2. ASSUME Tombstone(x) PROVE ErasureStep
  <2>1. target[x] \in Docs /\ status[target[x]] \in Status
    BY <1>1, <1>2 DEF Tombstone, TypeOK, RowTypeOK
  <2>2. CASE Exists(target[x]) /\ status[target[x]] # "deleting"
    <3>1. status[target[x]] \in Alive
      BY <2>1, <2>2 DEF Exists, Alive
    <3> QED  BY <1>1, <1>2, <2>1, <2>2, <3>1, SetStage DEF Tombstone, Exists, storeVars
  <2>3. CASE ~(Exists(target[x]) /\ status[target[x]] # "deleting")
    BY <1>2, <2>3, QuietStep DEF Tombstone, storeVars
  <2> QED  BY <2>2, <2>3
<1>3. ASSUME DeleteVectors(x) PROVE ErasureStep
  BY <1>1, <1>3, DropStep DEF DeleteVectors, rowVars
<1>4. ASSUME DeleteRow(x) PROVE ErasureStep
  <2>1. target[x] \in Docs /\ Swept(target[x])
    BY <1>1, <1>4 DEF DeleteRow, Swept
  <2>2. points[target[x]] = Blank
    BY <2>1 DEF FenceIInv, FenceInv, SweptHasNoPoints
  <2> QED  BY <1>1, <1>4, <2>1, <2>2, RowGoneStep DEF DeleteRow, storeVars
<1>5. ASSUME \/ DeleteObject(x) \/ Redact(x) \/ CloseAudit(x) \/ DeleteFails(x)
             \/ \E d \in Docs : DeleteBegin(x, d)
      PROVE  ErasureStep
  BY <1>5, QuietStep DEF DeleteObject, Redact, CloseAudit, DeleteFails, DeleteBegin, rowVars,
                         storeVars
<1> QED  BY <1>2, <1>3, <1>4, <1>5 DEF DeleteNext, DeleteStepOf

LEMMA IngestErasure ==
  ASSUME FenceIInv, NEW g \in Ingesters, IngestNext(g)
  PROVE  ErasureStep
<1>1. TypeOK
  BY DEF FenceIInv
<1>2. ASSUME InlineUpdate(g) PROVE FALSE
  BY <1>2 DEF InlineUpdate, FenceIInv, NothingFound
<1>3. ASSUME InlineInsert(g) PROVE ErasureStep
  BY <1>1, <1>3, QuietStep, SetStage DEF InlineInsert, rowVars, storeVars
<1>4. ASSUME \/ InlinePut(g)
             \/ \E y \in ExternalIds \cup {None}, c \in Contents : InlineSelect(g, y, c)
      PROVE  ErasureStep
  BY <1>4, QuietStep DEF InlinePut, InlineSelect, rowVars, storeVars
<1> QED  BY <1>2, <1>3, <1>4 DEF IngestNext, IngestStepOf

LEMMA StepErasure ==
  ASSUME Disciplined, FenceIInv, [Next]_vars
  PROVE  ErasureStep
<1>1. CASE UNCHANGED vars
  BY <1>1, QuietStep DEF vars, rowVars, storeVars
<1>2. ASSUME NEW a \in Askers, AskNext(a) PROVE ErasureStep
  BY <1>2, QuietStep DEF AskNext, AskRetrieve, AskPersist, AskFails, rowVars, storeVars
<1>3. CASE Next
  BY <1>2, <1>3, UploadErasure, WorkerErasure, ReaperErasure, DeleteErasure, IngestErasure
     DEF Next, FenceIInv
<1> QED  BY <1>1, <1>3

-----------------------------------------------------------------------------
(* Every ErasureStep is a step of the promise.                             *)

LEMMA LifeOfRow ==
  ASSUME NEW d \in Docs
  PROVE  /\ Life[d] = "unborn" <=> status[d] = "unborn"
         /\ Life[d] = "erasing" <=> status[d] = "deleting"
         /\ Life[d] = "erased" <=> status[d] = "gone"
         /\ status[d] \in Alive => Life[d] = "live"
  BY DEF Life, Alive, Status

LEMMA LifeMoves ==
  ASSUME NEW e \in Docs, NEW s, \A d \in Docs \ {e} : status'[d] = status[d],
         Life'[e] = s
  PROVE  Life' = [Life EXCEPT ![e] = s]
  BY DEF Life

LEMMA PromiseStep ==
  ASSUME TypeOK, TypeOK', ErasureStep
  PROVE  [Promise!PromiseNext]_(Promise!promiseVars)
<1>1. UNCHANGED points => UNCHANGED Searchable
  BY DEF Searchable, Blank
<1>2. CASE StaysPut
  <2>1. UNCHANGED Life
    BY <1>2 DEF StaysPut, Life, Alive, Status
  <2> QED  BY <1>1, <1>2, <2>1 DEF StaysPut, Promise!promiseVars
<1>3. ASSUME NEW e \in Docs, Moves(e, {"unborn"}, "uploading") PROVE Promise!PromiseNext
  <2>1. Life[e] = "unborn" /\ Life'[e] = "live"
    BY <1>3 DEF Moves, Life
  <2> QED  BY <1>1, <1>3, <2>1, LifeMoves DEF Moves, Promise!PromiseNext, Promise!Create
<1>4. ASSUME NEW e \in Docs, Moves(e, Alive, "deleting") PROVE Promise!PromiseNext
  <2>1. Life[e] = "live" /\ Life'[e] = "erasing"
    BY <1>4 DEF Moves, Life, Alive, Status
  <2> QED  BY <1>1, <1>4, <2>1, LifeMoves DEF Moves, Promise!PromiseNext, Promise!RequestErasure
<1>5. ASSUME NEW e \in Docs, Moves(e, {"deleting"}, "gone"), points[e] = Blank
      PROVE  Promise!PromiseNext
  <2>1. Life[e] = "erasing" /\ Life'[e] = "erased" /\ e \notin Searchable
    BY <1>5 DEF Moves, Life, Searchable
  <2> QED  BY <1>1, <1>5, <2>1, LifeMoves DEF Moves, Promise!PromiseNext, Promise!CompleteErasure
<1>6. ASSUME NEW e \in Docs, Reindexed(e) PROVE Promise!PromiseNext
  <2>1. UNCHANGED Life
    BY <1>6 DEF Reindexed, Life
  <2>2. CASE points'[e] = Blank
    <3>1. Searchable' = Searchable \ {e}
      BY <1>6, <2>2 DEF Reindexed, Searchable, Blank
    <3> QED  BY <2>1, <3>1 DEF Promise!PromiseNext, Promise!LoseIndex
  <2>3. CASE points'[e] # Blank
    <3>1. Searchable' = Searchable \cup {e}
      BY <1>6, <2>3 DEF Reindexed, Searchable, Blank
    <3>2. Life[e] \in {"live", "erasing"}
      BY <1>6, <2>3, LifeOfRow DEF Reindexed
    <3> QED  BY <2>1, <3>1, <3>2 DEF Promise!PromiseNext, Promise!BecomeSearchable
  <2> QED  BY <2>2, <2>3
<1> QED  BY <1>2, <1>3, <1>4, <1>5, <1>6 DEF ErasureStep

LEMMA PromiseStart == Init => Promise!PromiseInit
  BY DEF Init, Promise!PromiseInit, Life, Searchable

\* The documents table, the vector store, the workers, the reaper and the delete requests
\* together behave like ErasurePromise: an accepted deletion is never taken back, and no
\* document is erased while a question could still be answered from it.
THEOREM ErasureImplemented ==
  ASSUME Disciplined
  PROVE  Spec => ImplementsErasure
<1>1. FenceIInv /\ FenceIInv' /\ [Next]_vars => [Promise!PromiseNext]_(Promise!promiseVars)
  BY StepErasure, PromiseStep DEF FenceIInv
<1> QED  BY <1>1, PromiseStart, FenceIInvHolds, PTL DEF Spec, ImplementsErasure, Promise!PromiseSpec

-----------------------------------------------------------------------------
(* A closed audit row.                                                     *)

AuditInv ==
  \A x \in Deleters :
    /\ audit[x] = "closed" => del[x] = "204"
    /\ del[x] \in {"audit", "204"} => status[target[x]] = "gone"

LEMMA GoneStays ==
  ASSUME ErasureStep, NEW d \in Docs, status[d] = "gone"
  PROVE  status'[d] = "gone"
  BY DEF ErasureStep, StaysPut, Moves, Reindexed, Alive

LEMMA DeleteAudit ==
  ASSUME FenceIInv, AuditInv, ErasureStep, NEW y \in Deleters, DeleteNext(y)
  PROVE  AuditInv'
<1> SUFFICES ASSUME NEW x \in Deleters
             PROVE  /\ audit'[x] = "closed" => del'[x] = "204"
                    /\ del'[x] \in {"audit", "204"} => status'[target'[x]] = "gone"
  BY DEF AuditInv
<1>1. /\ TypeOK
      /\ \A z \in Deleters : del[z] # "idle" => target[z] \in Docs
      /\ audit[x] = "closed" => del[x] = "204"
      /\ del[x] \in {"audit", "204"} => status[target[x]] = "gone"
  BY DEF FenceIInv, TypeOK, DeleteTypeOK, AuditInv
<1>2. CASE x # y
  <2>1. del'[x] = del[x] /\ target'[x] = target[x] /\ audit'[x] = audit[x]
    BY <1>1, <1>2 DEF DeleteNext, DeleteStepOf, DeleteBegin, Tombstone, DeleteVectors, DeleteObject,
          Redact, DeleteRow, CloseAudit, DeleteFails, DeleteTo, TypeOK, DeleteTypeOK
  <2> QED  BY <1>1, <2>1, GoneStays
<1>3. CASE x = y
  <2>1. CASE DeleteRow(x)
    <3>1. target[x] \in Docs /\ Finishing(target[x])
      BY <1>1, <2>1 DEF DeleteRow, Finishing
    <3>2. status[target[x]] \in {"deleting", "gone"}
      BY <3>1 DEF FenceIInv, FenceInv, FinishingIsReleased, Released
    <3>3. status'[target[x]] = "gone"
      BY <1>1, <2>1, <3>1, <3>2 DEF DeleteRow, DeleteTombstonedRow, SetStatus, rowVars, TypeOK, RowTypeOK
    <3> QED  BY <1>1, <2>1, <3>3 DEF DeleteRow, DeleteTo, TypeOK, DeleteTypeOK
  <2>2. CASE CloseAudit(x)
    BY <1>1, <2>2, GoneStays DEF CloseAudit, TypeOK, DeleteTypeOK
  <2>3. CASE \E d \in Docs : DeleteBegin(x, d)
    BY <1>1, <2>3 DEF DeleteBegin, TypeOK, DeleteTypeOK
  <2>4. CASE \/ Tombstone(x) \/ DeleteVectors(x) \/ DeleteObject(x) \/ Redact(x) \/ DeleteFails(x)
    BY <1>1, <2>4 DEF Tombstone, DeleteVectors, DeleteObject, Redact, DeleteFails, DeleteTo, TypeOK,
                      DeleteTypeOK
  <2> QED  BY <1>3, <2>1, <2>2, <2>3, <2>4 DEF DeleteNext, DeleteStepOf
<1> QED  BY <1>2, <1>3

LEMMA AuditStep ==
  ASSUME Disciplined, FenceIInv, AuditInv, [Next]_vars
  PROVE  AuditInv'
<1>1. ErasureStep
  BY StepErasure
<1>2. CASE UNCHANGED deleteVars
  <2>1. \A x \in Deleters : del[x] # "idle" => target[x] \in Docs
    BY DEF FenceIInv, TypeOK, DeleteTypeOK
  <2> QED  BY <1>1, <1>2, <2>1, GoneStays DEF AuditInv, deleteVars
<1>3. ASSUME NEW y \in Deleters, DeleteNext(y) PROVE AuditInv'
  BY <1>1, <1>3, DeleteAudit
<1>4. UploadNext => UNCHANGED deleteVars
  BY DEF UploadNext, CreateSession, RefreshSession, ClientPut, UrlExpires, WindowLapses,
         LeaseLapses, DuplicateEvent
<1>5. ASSUME NEW w \in Workers, WorkerNext(w) PROVE UNCHANGED deleteVars
  BY <1>5 DEF WorkerNext, WorkerStepOf, Receive, Quarantine, Purge, Claim, Verify, Download,
              ClearPoints, Upsert, IngestError, MarkReady, MarkFailed, WorkerDbError,
              Disconnect, Crash
<1>6. ASSUME NEW r \in Reapers, ReaperStepOf(r) \/ SweepFails(r) PROVE UNCHANGED deleteVars
  BY <1>6 DEF ReaperStepOf, ExpireUploads, ReclaimLeases, SelectDeletions, SweepVectors,
              SweepObject, SweepRow, SweepFails
<1>7. ASSUME NEW g \in Ingesters, IngestNext(g) PROVE UNCHANGED deleteVars
  BY <1>7 DEF IngestNext, IngestStepOf, InlineSelect, InlineUpdate, InlineInsert, InlinePut
<1>8. ASSUME NEW a \in Askers, AskNext(a) PROVE UNCHANGED deleteVars
  BY <1>8 DEF AskNext, AskRetrieve, AskPersist, AskFails
<1>9. UNCHANGED vars => UNCHANGED deleteVars
  BY DEF vars
<1> QED  BY <1>2, <1>3, <1>4, <1>5, <1>6, <1>7, <1>8, <1>9 DEF Next

\* An audit row that delete_document has closed, which is what its 204 reports, means that
\* the row and the points are gone, although the guarded DELETE cannot tell that it matched.
THEOREM ClosedAuditHolds ==
  ASSUME Disciplined
  PROVE  Spec => []ClosedAuditMeansErased
<1>1. Init => AuditInv
  BY DEF Init, AuditInv
<1>2. FenceIInv /\ AuditInv /\ [Next]_vars => AuditInv'
  BY AuditStep
<1>3. FenceIInv /\ AuditInv => ClosedAuditMeansErased
  <2> SUFFICES ASSUME FenceIInv, AuditInv, NEW x \in Deleters, audit[x] = "closed"
               PROVE  status[target[x]] = "gone" /\ target[x] \notin Searchable
    BY DEF ClosedAuditMeansErased
  <2>1. status[target[x]] = "gone" /\ target[x] \in Docs
    BY DEF AuditInv, FenceIInv, TypeOK, DeleteTypeOK
  <2> QED  BY <2>1 DEF FenceIInv, FenceInv, SweptHasNoPoints, Exists, Searchable
<1> QED  BY <1>1, <1>2, <1>3, FenceIInvHolds, PTL DEF Spec

=============================================================================

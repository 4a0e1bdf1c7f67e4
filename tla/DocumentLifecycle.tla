------------------------- MODULE DocumentLifecycle -------------------------
(***************************************************************************)
(* The life of one tenant's documents across the four stores that hold     *)
(* them: the Postgres row, the MinIO object, the Qdrant points and the     *)
(* RabbitMQ queue of ObjectCreated events.                                 *)
(*                                                                         *)
(* Five kinds of process touch them and none holds a lock across two of    *)
(* them: clients with a presigned URL, the API's upload, ingest, delete    *)
(* and ask handlers, the worker's event loop, and the worker's reaper.     *)
(* Every statement, transaction or store call is one step here, so every   *)
(* interleaving of them is a behaviour.                                    *)
(*                                                                         *)
(* Simplifications.                                                        *)
(*  - One tenant: row-level security gives each tenant a lifecycle of its  *)
(*    own, and the reaper visits tenants one after the other.              *)
(*  - A content stands for the bytes of an object and for the etag MinIO   *)
(*    gives them.  What parsing and chunking make of it is ChunksOf.       *)
(*  - Time is what has elapsed, not how much: a lease or an upload window  *)
(*    is running or lapsed, and a lapse is a step of its own.              *)
(*  - The error text, failure_reason, attempts and timestamps other than   *)
(*    the lease and the window are not kept.                               *)
(***************************************************************************)
EXTENDS Naturals, FiniteSets

CONSTANTS
    Docs,            \* document ids; an id is minted once and never reused
    Contents,        \* what an object can hold
    ExternalIds,     \* callers' own identifiers for POST /ingest
    None,            \* SQL NULL, an absent object, "nothing in hand"
    Indices,         \* chunk indices
    ChunksOf,        \* ChunksOf[c]: the chunk indices that content c yields
    SizeOf,          \* SizeOf[c]: the size of content c
    MaxUploadBytes,  \* MAX_UPLOAD_BYTES
    Workers,         \* worker processes, one delivery each (prefetch 1)
    Reapers,         \* the reaper task of each worker process
    Deleters,        \* DELETE /documents/{id} requests, one shot each
    Ingesters,       \* POST /ingest requests, one shot each
    Askers,          \* POST /ask requests, one shot each
    DeliveryLimit,   \* x-delivery-limit of the events queue
    MaxEvents,       \* bound on the PUTs, one event each
    MaxFaults,       \* bound on crashes, lost connections, errors, double publishes
    LeaseOverrun     \* may indexing outlive the 30-minute processing lease?

ASSUME ContentAssumption ==
    /\ None \notin Contents \cup Docs \cup ExternalIds \cup {"running", "lapsed", "open"}
    /\ ChunksOf \in [Contents -> SUBSET Indices]
    /\ SizeOf \in [Contents -> Nat]
    /\ MaxUploadBytes \in Nat

ASSUME BoundAssumption ==
    /\ DeliveryLimit \in Nat /\ MaxEvents \in Nat /\ MaxFaults \in Nat
    /\ LeaseOverrun \in BOOLEAN

VARIABLES
    \* the documents table
    status,     \* status column; "unborn" before the INSERT, "gone" after the DELETE
    etag,       \* etag column: what the last claim recorded
    lease,      \* processing_started_at: None, or "running" / "lapsed" (30 minutes)
    window,     \* upload_expires_at: None, or "open" / "lapsed" (TTL plus grace)
    ext,        \* external_id column
    \* the other stores
    urls,       \* documents to which some presigned PUT may still land
    object,     \* the object under the document's key
    points,     \* points[d][i]: the content whose chunk i is stored at uuid_v5(d, i)
    queue,      \* document_events
    dlq,        \* document_events.dlq
    published,  \* how many PUTs MinIO has announced
    turns,      \* citations (document_ids) of each stored, unredacted answer
    \* the worker's event loop
    step, job, text, held,
    \* the reaper
    sweep, todo, cur,
    \* the API's requests
    del, target, audit,
    ing, ingId, ingDoc, ingText,
    ask, cites,
    faults      \* how many faults have happened

rowVars    == <<status, etag, lease, window, ext>>
storeVars  == <<urls, object, points, turns>>
brokerVars == <<queue, dlq, published>>
workerVars == <<step, job, text, held>>
reaperVars == <<sweep, todo, cur>>
deleteVars == <<del, target, audit>>
ingestVars == <<ing, ingId, ingDoc, ingText>>
askVars    == <<ask, cites>>

vars == <<rowVars, storeVars, brokerVars, workerVars, reaperVars,
          deleteVars, ingestVars, askVars, faults>>

-----------------------------------------------------------------------------
(* Types.                                                                  *)

Status == {"unborn", "uploading", "processing", "ready", "failed", "expired",
           "quarantined", "deleting", "gone"}

Event == [id : Nat, doc : Docs, etag : Contents, tries : 0..DeliveryLimit]

WorkerStep == {"idle", "received", "purging", "claimed", "verified", "fetched",
               "cleared", "indexed", "failed", "rejected"}

SweepStep == {"expire", "reclaim", "select", "vectors", "object", "row"}

DeleteStep == {"idle", "begun", "vectors", "object", "redact", "row", "audit",
               "204", "202", "404", "500"}

IngestStep == {"idle", "found", "missing", "put", "done"}

RowTypeOK ==
    /\ status \in [Docs -> Status]
    /\ etag \in [Docs -> Contents \cup {None}]
    /\ lease \in [Docs -> {None, "running", "lapsed"}]
    /\ window \in [Docs -> {None, "open", "lapsed"}]
    /\ ext \in [Docs -> ExternalIds \cup {None}]

StoreTypeOK ==
    /\ urls \subseteq Docs
    /\ object \in [Docs -> Contents \cup {None}]
    /\ points \in [Docs -> [Indices -> Contents \cup {None}]]
    /\ turns \subseteq SUBSET Docs

BrokerTypeOK ==
    /\ queue \subseteq Event
    /\ dlq \subseteq Event
    /\ published \in 0..MaxEvents

WorkerTypeOK ==
    /\ step \in [Workers -> WorkerStep]
    /\ job \in [Workers -> Event \cup {None}]
    /\ text \in [Workers -> Contents \cup {None}]
    /\ held \in [Workers -> BOOLEAN]
    /\ \A w \in Workers :
        /\ step[w] # "idle" => job[w] \in Event
        /\ held[w] => step[w] # "idle"
        /\ step[w] \in {"fetched", "cleared"} => text[w] \in Contents

ReaperTypeOK ==
    /\ sweep \in [Reapers -> SweepStep]
    /\ todo \in [Reapers -> SUBSET Docs]
    /\ cur \in [Reapers -> Docs \cup {None}]
    /\ \A r \in Reapers : sweep[r] \in {"object", "row"} => cur[r] \in Docs

DeleteTypeOK ==
    /\ del \in [Deleters -> DeleteStep]
    /\ target \in [Deleters -> Docs \cup {None}]
    /\ audit \in [Deleters -> {"none", "open", "closed"}]
    /\ \A x \in Deleters : del[x] # "idle" => target[x] \in Docs

IngestTypeOK ==
    /\ ing \in [Ingesters -> IngestStep]
    /\ ingId \in [Ingesters -> ExternalIds \cup {None}]
    /\ ingDoc \in [Ingesters -> Docs \cup {None}]
    /\ ingText \in [Ingesters -> Contents \cup {None}]
    /\ \A g \in Ingesters :
        /\ ing[g] # "idle" => ingText[g] \in Contents
        /\ ing[g] \in {"found", "put"} => ingDoc[g] \in Docs

AskTypeOK ==
    /\ ask \in [Askers -> {"idle", "answering", "done"}]
    /\ cites \in [Askers -> SUBSET Docs]

\* Every variable holds a value of its kind.  What is not obvious in it: the broker
\* never hands out an event more often than its delivery limit allows, and whoever is at
\* a step that works on an event, a document or a text has one in hand.
TypeOK ==
    /\ RowTypeOK
    /\ StoreTypeOK
    /\ BrokerTypeOK
    /\ WorkerTypeOK
    /\ ReaperTypeOK
    /\ DeleteTypeOK
    /\ IngestTypeOK
    /\ AskTypeOK
    /\ faults \in 0..MaxFaults

-----------------------------------------------------------------------------
(* What the statements and the store calls do.                             *)

Fault == faults < MaxFaults /\ faults' = faults + 1

Exists(d) == status[d] \notin {"unborn", "gone"}

Blank == [i \in Indices |-> None]

Searchable == {d \in Docs : points[d] # Blank}

SetStatus(d, s) == status' = [status EXCEPT ![d] = s]

ReleaseLease(d) == lease' = [lease EXCEPT ![d] = None]

\* DELETE FROM documents WHERE id = d AND status = 'deleting'
DeleteTombstonedRow(d) ==
    \/ /\ status[d] = "deleting"
       /\ SetStatus(d, "gone")
       /\ etag' = [etag EXCEPT ![d] = None]
       /\ ReleaseLease(d)
       /\ window' = [window EXCEPT ![d] = None]
       /\ ext' = [ext EXCEPT ![d] = None]
    \/ /\ status[d] # "deleting"
       /\ UNCHANGED rowVars

DropPoints(d) == points' = [points EXCEPT ![d] = Blank]

\* rust-s3 reports a non-2xx answer to DELETE as success, and nobody reads the code.
DropObject(d) ==
    \/ object' = [object EXCEPT ![d] = None] /\ UNCHANGED faults
    \/ Fault /\ UNCHANGED object

\* MinIO stores the bytes and publishes ObjectCreated; QUEUE_DIR keeps the event
\* while the broker is away, so it is late at worst.
PutObject(d, c) ==
    /\ published < MaxEvents
    /\ published' = published + 1
    /\ object' = [object EXCEPT ![d] = c]
    /\ queue' = queue \cup {[id |-> published + 1, doc |-> d, etag |-> c, tries |-> 0]}
    /\ UNCHANGED dlq

Init ==
    /\ status = [d \in Docs |-> "unborn"]
    /\ etag = [d \in Docs |-> None]
    /\ lease = [d \in Docs |-> None]
    /\ window = [d \in Docs |-> None]
    /\ ext = [d \in Docs |-> None]
    /\ urls = {}
    /\ object = [d \in Docs |-> None]
    /\ points = [d \in Docs |-> Blank]
    /\ turns = {}
    /\ queue = {} /\ dlq = {} /\ published = 0
    /\ step = [w \in Workers |-> "idle"]
    /\ job = [w \in Workers |-> None]
    /\ text = [w \in Workers |-> None]
    /\ held = [w \in Workers |-> FALSE]
    /\ sweep = [r \in Reapers |-> "expire"]
    /\ todo = [r \in Reapers |-> {}]
    /\ cur = [r \in Reapers |-> None]
    /\ del = [x \in Deleters |-> "idle"]
    /\ target = [x \in Deleters |-> None]
    /\ audit = [x \in Deleters |-> "none"]
    /\ ing = [g \in Ingesters |-> "idle"]
    /\ ingId = [g \in Ingesters |-> None]
    /\ ingDoc = [g \in Ingesters |-> None]
    /\ ingText = [g \in Ingesters |-> None]
    /\ ask = [a \in Askers |-> "idle"]
    /\ cites = [a \in Askers |-> {}]
    /\ faults = 0

-----------------------------------------------------------------------------
(* Presigned uploads, and the clocks.                                      *)

\* The row is written before the URL exists.
CreateSession(d) ==
    /\ status[d] = "unborn"
    /\ SetStatus(d, "uploading")
    /\ window' = [window EXCEPT ![d] = "open"]
    /\ urls' = urls \cup {d}
    /\ UNCHANGED <<etag, lease, ext, object, points, turns, brokerVars, workerVars,
                   reaperVars, deleteVars, ingestVars, askVars, faults>>

RefreshSession(d) ==
    /\ status[d] \in {"uploading", "expired"}
    /\ SetStatus(d, "uploading")
    /\ window' = [window EXCEPT ![d] = "open"]
    /\ urls' = urls \cup {d}
    /\ UNCHANGED <<etag, lease, ext, object, points, turns, brokerVars, workerVars,
                   reaperVars, deleteVars, ingestVars, askVars, faults>>

\* A URL binds the key and the expiry, never the size, and it is good for many PUTs.
ClientPut(d, c) ==
    /\ d \in urls
    /\ PutObject(d, c)
    /\ UNCHANGED <<rowVars, urls, points, turns, workerVars, reaperVars, deleteVars,
                   ingestVars, askVars, faults>>

UrlExpires(d) ==
    /\ d \in urls
    /\ urls' = urls \ {d}
    /\ UNCHANGED <<rowVars, object, points, turns, brokerVars, workerVars, reaperVars,
                   deleteVars, ingestVars, askVars, faults>>

\* upload_expires_at is the URL's own expiry, and the reaper adds a grace to it.  A
\* signature is checked when the PUT starts, so a slow one may outlast both.
WindowLapses(d) ==
    /\ window[d] = "open"
    /\ window' = [window EXCEPT ![d] = "lapsed"]
    /\ UNCHANGED <<status, etag, lease, ext, storeVars, brokerVars, workerVars, reaperVars,
                   deleteVars, ingestVars, askVars, faults>>

\* The worker is between its claim of d and its last write about d.
Indexing(w, d) ==
    /\ step[w] \in {"claimed", "verified", "fetched", "cleared", "indexed", "failed", "rejected"}
    /\ job[w].doc = d

\* Thirty minutes pass.  Nothing in the worker looks at the clock: that indexing is
\* over by then is an assumption, which LeaseOverrun lifts.
LeaseLapses(d) ==
    /\ lease[d] = "running"
    /\ LeaseOverrun \/ \A w \in Workers : ~Indexing(w, d)
    /\ lease' = [lease EXCEPT ![d] = "lapsed"]
    /\ UNCHANGED <<status, etag, window, ext, storeVars, brokerVars, workerVars, reaperVars,
                   deleteVars, ingestVars, askVars, faults>>

\* MinIO publishes at least once.
DuplicateEvent(e) ==
    /\ Fault
    /\ e \in queue
    /\ queue' = queue \cup {[id |-> MaxEvents + faults', doc |-> e.doc, etag |-> e.etag,
                             tries |-> 0]}
    /\ UNCHANGED <<rowVars, storeVars, dlq, published, workerVars, reaperVars, deleteVars,
                   ingestVars, askVars>>

-----------------------------------------------------------------------------
(* The worker's event loop.  It holds one delivery and no database lock.    *)

Idle(w) ==
    /\ step' = [step EXCEPT ![w] = "idle"]
    /\ job' = [job EXCEPT ![w] = None]
    /\ text' = [text EXCEPT ![w] = None]
    /\ held' = [held EXCEPT ![w] = FALSE]

Goto(w, s) ==
    /\ step' = [step EXCEPT ![w] = s]
    /\ UNCHANGED <<job, text, held>>

Ack(w) == Idle(w) /\ UNCHANGED brokerVars

Redeliver_Forever(e) ==
    /\ queue' = queue \cup {[e EXCEPT !.tries = @ + 1]}
    /\ UNCHANGED <<dlq, published>>

\* The quorum queue counts the deliveries and dead-letters the one too many.
Redeliver(e) ==
    \/ /\ e.tries < DeliveryLimit
       /\ queue' = queue \cup {[e EXCEPT !.tries = @ + 1]}
       /\ UNCHANGED <<dlq, published>>
    \/ /\ e.tries = DeliveryLimit
       /\ dlq' = dlq \cup {e}
       /\ UNCHANGED <<queue, published>>

\* An event whose connection dropped has been given back already.
GiveBack(w) ==
    \/ held[w] /\ Redeliver(job[w])
    \/ ~held[w] /\ UNCHANGED brokerVars

Nack(w) == Idle(w) /\ GiveBack(w)

Receive(w) ==
    /\ step[w] = "idle"
    /\ \E e \in queue :
        /\ queue' = queue \ {e}
        /\ job' = [job EXCEPT ![w] = e]
    /\ step' = [step EXCEPT ![w] = "received"]
    /\ held' = [held EXCEPT ![w] = TRUE]
    /\ UNCHANGED <<rowVars, storeVars, dlq, published, text, reaperVars, deleteVars,
                   ingestVars, askVars, faults>>

Oversize(e) == SizeOf[e.etag] > MaxUploadBytes

\* mark_quarantined looks at no status: it writes over whatever the row says.
Quarantine(w) ==
    /\ step[w] = "received"
    /\ Oversize(job[w])
    /\ LET d == job[w].doc IN
        \/ /\ Exists(d)
           /\ SetStatus(d, "quarantined")
           /\ ReleaseLease(d)
           /\ Goto(w, "purging")
           /\ UNCHANGED <<etag, window, ext, brokerVars>>
        \/ /\ ~Exists(d)
           /\ Nack(w)
           /\ UNCHANGED rowVars
    /\ UNCHANGED <<storeVars, reaperVars, deleteVars, ingestVars, askVars, faults>>

Purge(w) ==
    /\ step[w] = "purging"
    /\ DropObject(job[w].doc)
    /\ Ack(w)
    /\ UNCHANGED <<rowVars, urls, points, turns, reaperVars, deleteVars, ingestVars, askVars>>

\* claim_decision with no fence against the deletion saga.
Claimable_NoTombstone(e) ==
    /\ Exists(e.doc)
    /\ status[e.doc] \notin {"processing", "quarantined"}
    /\ ~(status[e.doc] = "ready" /\ etag[e.doc] = e.etag)

\* claim_decision with no respect for another worker's lease.
Claimable_NoLease(e) ==
    /\ Exists(e.doc)
    /\ status[e.doc] \notin {"quarantined", "deleting"}
    /\ ~(status[e.doc] = "ready" /\ etag[e.doc] = e.etag)

\* claim_decision that takes an indexed document for done whatever its fingerprint.
Claimable_ReadyIsDone(e) ==
    /\ Exists(e.doc)
    /\ status[e.doc] \notin {"processing", "quarantined", "deleting", "ready"}

Claimable(e) ==
    /\ Exists(e.doc)
    /\ status[e.doc] \notin {"processing", "quarantined", "deleting"}
    /\ ~(status[e.doc] = "ready" /\ etag[e.doc] = e.etag)

Claim(w) ==
    /\ step[w] = "received"
    /\ ~Oversize(job[w])
    /\ LET d == job[w].doc IN
        \/ /\ Claimable(job[w])
           /\ SetStatus(d, "processing")
           /\ etag' = [etag EXCEPT ![d] = job[w].etag]
           /\ lease' = [lease EXCEPT ![d] = "running"]
           /\ Goto(w, "claimed")
           /\ UNCHANGED <<window, ext, brokerVars>>
        \/ /\ ~Claimable(job[w])
           /\ Ack(w)
           /\ UNCHANGED rowVars
    /\ UNCHANGED <<storeVars, reaperVars, deleteVars, ingestVars, askVars, faults>>

\* HEAD: the object must be there and have the size the event announced.
Verify(w) ==
    /\ step[w] = "claimed"
    /\ LET o == object[job[w].doc] IN
        Goto(w, IF o # None /\ SizeOf[o] = SizeOf[job[w].etag] THEN "verified" ELSE "failed")
    /\ UNCHANGED <<rowVars, storeVars, brokerVars, reaperVars, deleteVars, ingestVars, askVars,
                   faults>>

\* GET, parse and chunk.  A text that yields no chunk is indexed with nothing done.
Download(w) ==
    /\ step[w] = "verified"
    /\ LET o == object[job[w].doc] IN
        \/ /\ o = None
           /\ Goto(w, "failed")
        \/ /\ o # None
           /\ ChunksOf[o] = {}
           /\ Goto(w, "indexed")
        \/ /\ o # None
           /\ ChunksOf[o] # {}
           /\ step' = [step EXCEPT ![w] = "fetched"]
           /\ text' = [text EXCEPT ![w] = o]
           /\ UNCHANGED <<job, held>>
    /\ UNCHANGED <<rowVars, storeVars, brokerVars, reaperVars, deleteVars, ingestVars, askVars,
                   faults>>

ClearPoints_Skipped(w) ==
    /\ step[w] = "fetched"
    /\ Goto(w, "cleared")
    /\ UNCHANGED <<rowVars, storeVars, brokerVars, reaperVars, deleteVars, ingestVars, askVars,
                   faults>>

\* Embedding comes before this; what a previous attempt left goes before the upsert.
ClearPoints(w) ==
    /\ step[w] = "fetched"
    /\ DropPoints(job[w].doc)
    /\ Goto(w, "cleared")
    /\ UNCHANGED <<rowVars, urls, object, turns, brokerVars, reaperVars, deleteVars, ingestVars,
                   askVars, faults>>

\* Point ids derive from (document, index), so a chunk replaces its predecessor.
\* The call may report an error after the points have landed.
Upsert(w) ==
    /\ step[w] = "cleared"
    /\ points' = [points EXCEPT ![job[w].doc] =
                    [i \in Indices |-> IF i \in ChunksOf[text[w]] THEN text[w] ELSE @[i]]]
    /\ \/ Goto(w, "indexed") /\ UNCHANGED faults
       \/ Goto(w, "failed") /\ Fault
    /\ UNCHANGED <<rowVars, urls, object, turns, brokerVars, reaperVars, deleteVars, ingestVars,
                   askVars>>

\* A HEAD, GET, parse, embed, clear or upsert that fails.  Only an embedding
\* error can be fatal, which acks the event instead of giving it back.
IngestError(w) ==
    /\ Fault
    /\ \/ step[w] \in {"claimed", "verified", "fetched", "cleared"} /\ Goto(w, "failed")
       \/ step[w] = "fetched" /\ Goto(w, "rejected")
    /\ UNCHANGED <<rowVars, storeVars, brokerVars, reaperVars, deleteVars, ingestVars, askVars>>

\* UPDATE ... WHERE id = d AND status = 'processing'; no row matched is a normal outcome.
FinishFromProcessing(d, s) ==
    \/ /\ status[d] = "processing"
       /\ SetStatus(d, s)
       /\ ReleaseLease(d)
       /\ UNCHANGED <<etag, window, ext>>
    \/ /\ status[d] # "processing"
       /\ UNCHANGED rowVars

MarkReady(w) ==
    /\ step[w] = "indexed"
    /\ FinishFromProcessing(job[w].doc, "ready")
    /\ Ack(w)
    /\ UNCHANGED <<storeVars, reaperVars, deleteVars, ingestVars, askVars, faults>>

\* The outcome of mark_failed itself is thrown away.
MarkFailed(w) ==
    /\ step[w] \in {"failed", "rejected"}
    /\ \/ FinishFromProcessing(job[w].doc, "failed") /\ UNCHANGED faults
       \/ Fault /\ UNCHANGED rowVars
    /\ \/ step[w] = "failed" /\ Nack(w)
       \/ step[w] = "rejected" /\ Ack(w)
    /\ UNCHANGED <<storeVars, reaperVars, deleteVars, ingestVars, askVars>>

\* mark_quarantined, claim or mark_ready could not reach Postgres.
WorkerDbError(w) ==
    /\ Fault
    /\ step[w] \in {"received", "indexed"}
    /\ Nack(w)
    /\ UNCHANGED <<rowVars, storeVars, reaperVars, deleteVars, ingestVars, askVars>>

\* The broker gives the event to somebody else while the handler runs on.
Disconnect(w) ==
    /\ Fault
    /\ held[w]
    /\ GiveBack(w)
    /\ held' = [held EXCEPT ![w] = FALSE]
    /\ UNCHANGED <<rowVars, storeVars, step, job, text, reaperVars, deleteVars, ingestVars,
                   askVars>>

\* The process dies with its row, lease and points as they are.
Crash(w) ==
    /\ Fault
    /\ step[w] # "idle"
    /\ Nack(w)
    /\ UNCHANGED <<rowVars, storeVars, reaperVars, deleteVars, ingestVars, askVars>>

-----------------------------------------------------------------------------
(* The reaper.  Every sweep expires, reclaims and then finishes deletions.  *)

SweepTo(r, s) ==
    /\ sweep' = [sweep EXCEPT ![r] = s]
    /\ UNCHANGED <<todo, cur>>

Abandoned_Never(d) == status[d] = "uploading" /\ window[d] = None

\* A NULL window, which inline documents have, never satisfies the comparison.
Abandoned(d) == status[d] = "uploading" /\ window[d] = "lapsed"

ExpireUploads(r) ==
    /\ sweep[r] = "expire"
    /\ status' = [d \in Docs |-> IF Abandoned(d) THEN "expired" ELSE status[d]]
    /\ SweepTo(r, "reclaim")
    /\ UNCHANGED <<etag, lease, window, ext, storeVars, brokerVars, workerVars, deleteVars,
                   ingestVars, askVars, faults>>

Stale_NotReclaimed(d) == FALSE

Stale(d) == status[d] = "processing" /\ lease[d] = "lapsed"

ReclaimLeases(r) ==
    /\ sweep[r] = "reclaim"
    /\ status' = [d \in Docs |-> IF Stale(d) THEN "failed" ELSE status[d]]
    /\ lease' = [d \in Docs |-> IF Stale(d) THEN None ELSE lease[d]]
    /\ SweepTo(r, "select")
    /\ UNCHANGED <<etag, window, ext, storeVars, brokerVars, workerVars, deleteVars, ingestVars,
                   askVars, faults>>

\* The sweep with no clock: a tombstoned row is finished whoever is indexing it.
Finishable_AnyLease(d) == status[d] = "deleting"

\* The sweep without its IS NULL branch.
Finishable_LapsedOnly(d) == status[d] = "deleting" /\ lease[d] = "lapsed"

Finishable(d) == status[d] = "deleting" /\ lease[d] # "running"

SelectDeletions(r) ==
    /\ sweep[r] = "select"
    /\ LET found == {d \in Docs : Finishable(d)} IN
        /\ todo' = [todo EXCEPT ![r] = found]
        /\ sweep' = [sweep EXCEPT ![r] = IF found = {} THEN "expire" ELSE "vectors"]
    /\ UNCHANGED <<cur, rowVars, storeVars, brokerVars, workerVars, deleteVars, ingestVars,
                   askVars, faults>>

SweepVectors(r) ==
    /\ sweep[r] = "vectors"
    /\ \E d \in todo[r] :
        /\ DropPoints(d)
        /\ cur' = [cur EXCEPT ![r] = d]
        /\ todo' = [todo EXCEPT ![r] = @ \ {d}]
    /\ sweep' = [sweep EXCEPT ![r] = "object"]
    /\ UNCHANGED <<rowVars, urls, object, turns, brokerVars, workerVars, deleteVars, ingestVars,
                   askVars, faults>>

SweepObject(r) ==
    /\ sweep[r] = "object"
    /\ DropObject(cur[r])
    /\ SweepTo(r, "row")
    /\ UNCHANGED <<rowVars, urls, points, turns, brokerVars, workerVars, deleteVars, ingestVars,
                   askVars>>

SweepRow(r) ==
    /\ sweep[r] = "row"
    /\ DeleteTombstonedRow(cur[r])
    /\ cur' = [cur EXCEPT ![r] = None]
    /\ sweep' = [sweep EXCEPT ![r] = IF todo[r] = {} THEN "expire" ELSE "vectors"]
    /\ UNCHANGED <<todo, storeVars, brokerVars, workerVars, deleteVars, ingestVars, askVars,
                   faults>>

\* An error ends the whole sweep; the next tick starts over.  So does a restart.
SweepFails(r) ==
    /\ Fault
    /\ sweep[r] # "expire"
    /\ sweep' = [sweep EXCEPT ![r] = "expire"]
    /\ todo' = [todo EXCEPT ![r] = {}]
    /\ cur' = [cur EXCEPT ![r] = None]
    /\ UNCHANGED <<rowVars, storeVars, brokerVars, workerVars, deleteVars, ingestVars, askVars>>

-----------------------------------------------------------------------------
(* DELETE /documents/{id}.                                                 *)

DeleteTo(x, s) ==
    /\ del' = [del EXCEPT ![x] = s]
    /\ UNCHANGED <<target, audit>>

DeleteBegin(x, d) ==
    /\ del[x] = "idle"
    /\ status[d] # "unborn"
    /\ del' = [del EXCEPT ![x] = "begun"]
    /\ target' = [target EXCEPT ![x] = d]
    /\ audit' = [audit EXCEPT ![x] = "open"]
    /\ UNCHANGED <<rowVars, storeVars, brokerVars, workerVars, reaperVars, ingestVars, askVars,
                   faults>>

Deferred_Never(s) == FALSE

\* A worker may still be writing vectors: leave the stores to the reaper.
Deferred(s) == s = "processing"

\* The row lock covers the read and the tombstone.  The lease is left as it is.
Tombstone(x) ==
    /\ del[x] = "begun"
    /\ LET d == target[x] IN
        \/ /\ ~Exists(d)
           /\ DeleteTo(x, "404")
           /\ UNCHANGED status
        \/ /\ status[d] = "deleting"
           /\ DeleteTo(x, "202")
           /\ UNCHANGED status
        \/ /\ Exists(d) /\ status[d] # "deleting"
           /\ SetStatus(d, "deleting")
           /\ DeleteTo(x, IF Deferred(status[d]) THEN "202" ELSE "vectors")
    /\ UNCHANGED <<etag, lease, window, ext, storeVars, brokerVars, workerVars, reaperVars,
                   ingestVars, askVars, faults>>

DeleteVectors(x) ==
    /\ del[x] = "vectors"
    /\ DropPoints(target[x])
    /\ DeleteTo(x, "object")
    /\ UNCHANGED <<rowVars, urls, object, turns, brokerVars, workerVars, reaperVars, ingestVars,
                   askVars, faults>>

DeleteObject(x) ==
    /\ del[x] = "object"
    /\ DropObject(target[x])
    /\ DeleteTo(x, "redact")
    /\ UNCHANGED <<rowVars, urls, points, turns, brokerVars, workerVars, reaperVars, ingestVars,
                   askVars>>

\* redact_messages_citing: a redacted turn loses its text and all its citations.
Redact(x) ==
    /\ del[x] = "redact"
    /\ turns' = {t \in turns : target[x] \notin t}
    /\ DeleteTo(x, "row")
    /\ UNCHANGED <<rowVars, urls, object, points, brokerVars, workerVars, reaperVars, ingestVars,
                   askVars, faults>>

DeleteRow(x) ==
    /\ del[x] = "row"
    /\ DeleteTombstonedRow(target[x])
    /\ DeleteTo(x, "audit")
    /\ UNCHANGED <<storeVars, brokerVars, workerVars, reaperVars, ingestVars, askVars, faults>>

CloseAudit(x) ==
    /\ del[x] = "audit"
    /\ del' = [del EXCEPT ![x] = "204"]
    /\ audit' = [audit EXCEPT ![x] = "closed"]
    /\ UNCHANGED <<target, rowVars, storeVars, brokerVars, workerVars, reaperVars, ingestVars,
                   askVars, faults>>

\* A store or a statement failed, or the process died: what is done stays done.
DeleteFails(x) ==
    /\ Fault
    /\ del[x] \in {"begun", "vectors", "object", "redact", "row", "audit"}
    /\ DeleteTo(x, "500")
    /\ UNCHANGED <<rowVars, storeVars, brokerVars, workerVars, reaperVars, ingestVars, askVars>>

-----------------------------------------------------------------------------
(* POST /ingest: the API writes the object itself.                         *)

IngestTo(g, s) ==
    /\ ing' = [ing EXCEPT ![g] = s]
    /\ UNCHANGED <<ingId, ingDoc, ingText>>

\* The size cap is enforced here, the one place where the bytes are in the request.
\* The SELECT takes no lock.
InlineSelect(g, x, c) ==
    /\ ing[g] = "idle"
    /\ SizeOf[c] <= MaxUploadBytes
    /\ ingId' = [ingId EXCEPT ![g] = x]
    /\ ingText' = [ingText EXCEPT ![g] = c]
    /\ LET match == {d \in Docs : x # None /\ ext[d] = x /\ status[d] # "deleting"} IN
        \/ /\ match = {}
           /\ ing' = [ing EXCEPT ![g] = "missing"]
           /\ UNCHANGED ingDoc
        \/ \E d \in match :
           /\ ing' = [ing EXCEPT ![g] = "found"]
           /\ ingDoc' = [ingDoc EXCEPT ![g] = d]
    /\ UNCHANGED <<rowVars, storeVars, brokerVars, workerVars, reaperVars, deleteVars, askVars,
                   faults>>

\* UPDATE ... WHERE id = d: no status in the condition, and no row matched is no error.
InlineUpdate(g) ==
    /\ ing[g] = "found"
    /\ \/ Exists(ingDoc[g]) /\ SetStatus(ingDoc[g], "uploading")
       \/ ~Exists(ingDoc[g]) /\ UNCHANGED status
    /\ IngestTo(g, "put")
    /\ UNCHANGED <<etag, lease, window, ext, storeVars, brokerVars, workerVars, reaperVars,
                   deleteVars, askVars, faults>>

\* A tombstoned row still owns its external id in the unique index.
InlineInsert(g) ==
    /\ ing[g] = "missing"
    /\ \/ /\ ingId[g] # None
          /\ \E d \in Docs : ext[d] = ingId[g]
          /\ IngestTo(g, "done")
          /\ UNCHANGED rowVars
       \/ /\ \A d \in Docs : ingId[g] = None \/ ext[d] # ingId[g]
          /\ \E d \in Docs :
              /\ status[d] = "unborn"
              /\ SetStatus(d, "uploading")
              /\ ext' = [ext EXCEPT ![d] = ingId[g]]
              /\ ingDoc' = [ingDoc EXCEPT ![g] = d]
          /\ ing' = [ing EXCEPT ![g] = "put"]
          /\ UNCHANGED <<etag, lease, window, ingId, ingText>>
    /\ UNCHANGED <<storeVars, brokerVars, workerVars, reaperVars, deleteVars, askVars, faults>>

\* A PUT that fails leaves the row behind; a non-2xx answer even counts as success.
InlinePut(g) ==
    /\ ing[g] = "put"
    /\ \/ PutObject(ingDoc[g], ingText[g]) /\ UNCHANGED faults
       \/ Fault /\ UNCHANGED <<object, brokerVars>>
    /\ IngestTo(g, "done")
    /\ UNCHANGED <<rowVars, urls, points, turns, workerVars, reaperVars, deleteVars, askVars>>

-----------------------------------------------------------------------------
(* POST /ask: the answer is written between the search and the insert.     *)

\* A question that finds nothing stores a refusal, which cites nothing.
AskRetrieve(a) ==
    /\ ask[a] = "idle"
    /\ \E found \in SUBSET Searchable \ {{}} : cites' = [cites EXCEPT ![a] = found]
    /\ ask' = [ask EXCEPT ![a] = "answering"]
    /\ UNCHANGED <<rowVars, storeVars, brokerVars, workerVars, reaperVars, deleteVars, ingestVars,
                   faults>>

\* append_turn, with the documents the context came from in the metadata.
AskPersist(a) ==
    /\ ask[a] = "answering"
    /\ turns' = turns \cup {cites[a]}
    /\ ask' = [ask EXCEPT ![a] = "done"]
    /\ cites' = [cites EXCEPT ![a] = {}]
    /\ UNCHANGED <<rowVars, urls, object, points, brokerVars, workerVars, reaperVars, deleteVars,
                   ingestVars, faults>>

\* The model did not answer: nothing is stored.
AskFails(a) ==
    /\ ask[a] = "answering"
    /\ ask' = [ask EXCEPT ![a] = "done"]
    /\ cites' = [cites EXCEPT ![a] = {}]
    /\ UNCHANGED <<rowVars, storeVars, brokerVars, workerVars, reaperVars, deleteVars, ingestVars,
                   faults>>

-----------------------------------------------------------------------------
(* Specification.                                                          *)

UploadNext ==
    \/ \E d \in Docs :
        \/ CreateSession(d)
        \/ RefreshSession(d)
        \/ \E c \in Contents : ClientPut(d, c)
        \/ UrlExpires(d)
        \/ WindowLapses(d)
        \/ LeaseLapses(d)
    \/ \E e \in queue : DuplicateEvent(e)

\* What a worker does when nothing goes wrong on its side.
WorkerStepOf(w) ==
    \/ Receive(w) \/ Quarantine(w) \/ Purge(w) \/ Claim(w) \/ Verify(w) \/ Download(w)
    \/ ClearPoints(w) \/ Upsert(w) \/ MarkReady(w) \/ MarkFailed(w)

WorkerNext(w) ==
    WorkerStepOf(w) \/ IngestError(w) \/ WorkerDbError(w) \/ Disconnect(w) \/ Crash(w)

ReaperStepOf(r) ==
    \/ ExpireUploads(r) \/ ReclaimLeases(r) \/ SelectDeletions(r)
    \/ SweepVectors(r) \/ SweepObject(r) \/ SweepRow(r)

DeleteStepOf(x) ==
    \/ Tombstone(x) \/ DeleteVectors(x) \/ DeleteObject(x) \/ Redact(x) \/ DeleteRow(x)
    \/ CloseAudit(x)

DeleteNext(x) == DeleteStepOf(x) \/ DeleteFails(x) \/ \E d \in Docs : DeleteBegin(x, d)

IngestStepOf(g) == InlineUpdate(g) \/ InlineInsert(g) \/ InlinePut(g)

IngestNext(g) ==
    IngestStepOf(g) \/ \E x \in ExternalIds \cup {None}, c \in Contents : InlineSelect(g, x, c)

AskNext(a) == AskRetrieve(a) \/ AskPersist(a) \/ AskFails(a)

Next ==
    \/ UploadNext
    \/ \E w \in Workers : WorkerNext(w)
    \/ \E r \in Reapers : ReaperStepOf(r) \/ SweepFails(r)
    \/ \E x \in Deleters : DeleteNext(x)
    \/ \E g \in Ingesters : IngestNext(g)
    \/ \E a \in Askers : AskNext(a)

Spec == Init /\ [][Next]_vars

\* Time passes, the worker's loop and its 60-second ticker run, and a request that
\* was accepted is carried through.  Nobody has to upload, delete or ask.
Fairness ==
    /\ \A d \in Docs : WF_vars(UrlExpires(d)) /\ WF_vars(WindowLapses(d)) /\ WF_vars(LeaseLapses(d))
    /\ \A w \in Workers : WF_vars(WorkerStepOf(w))
    /\ \A r \in Reapers : WF_vars(ReaperStepOf(r))
    /\ \A x \in Deleters : WF_vars(DeleteStepOf(x))
    /\ \A g \in Ingesters : WF_vars(IngestStepOf(g))

FairSpec == Spec /\ Fairness

-----------------------------------------------------------------------------
(* Erasure.                                                                *)

\* What the erasure invariants rest on: indexing ends within its lease, no object
\* is over the size cap (a quarantine writes over any status), and no caller
\* re-syncs by external id (an inline update writes over any status).
Disciplined ==
    /\ ~LeaseOverrun
    /\ \A c \in Contents : SizeOf[c] <= MaxUploadBytes
    /\ ExternalIds = {}

\* A row past its tombstone on which no lease is running.
Released(d) == status[d] \in {"deleting", "gone"} /\ lease[d] # "running"

\* A worker that may still write points holds the lease, and the row says so.
WorkerHoldsLease ==
    \A w \in Workers, d \in Docs :
        Indexing(w, d) => status[d] \in {"processing", "deleting"} /\ lease[d] = "running"

\* No document is indexed by two workers at once.
OneIndexer ==
    \A v, w \in Workers, d \in Docs : Indexing(v, d) /\ Indexing(w, d) => v = w

\* The lease column is set exactly while a claim is open or its deletion is deferred.
LeaseMatchesStatus ==
    \A d \in Docs :
        /\ status[d] = "processing" => lease[d] # None
        /\ status[d] \notin {"processing", "deleting"} => lease[d] = None

\* What a reaper or a delete request has in hand stays released until it is done.
Finishing(d) ==
    \/ \E r \in Reapers : d \in todo[r] \/ (sweep[r] \in {"object", "row"} /\ cur[r] = d)
    \/ \E x \in Deleters : /\ target[x] = d
                           /\ del[x] \in {"vectors", "object", "redact", "row", "audit", "204"}

FinishingIsReleased == \A d \in Docs : Finishing(d) => Released(d)

\* Past the vector step of a saga the document has no point left.
Swept(d) ==
    \/ \E r \in Reapers : sweep[r] \in {"object", "row"} /\ cur[r] = d
    \/ \E x \in Deleters : target[x] = d /\ del[x] \in {"object", "redact", "row"}

SweptHasNoPoints == \A d \in Docs : Swept(d) \/ ~Exists(d) => points[d] = Blank

\* The tombstone fence between the delete saga, the reaper and the workers, none of
\* which holds a lock while it works on the vector store (delete_document,
\* finish_deletions, claim and finish_from_processing): whoever erases a document
\* does so alone, because its row is released and whoever indexes it has the lease.
FenceInv ==
    /\ WorkerHoldsLease
    /\ OneIndexer
    /\ LeaseMatchesStatus
    /\ FinishingIsReleased
    /\ SweptHasNoPoints

\* Once the row of a document is gone the vector store holds no chunk of it, so no
\* later question can be answered from it, although a worker may have been indexing
\* it when the deletion was accepted and nothing spans the stores (finish_deletions).
NoOrphanPoints == \A d \in Docs : status[d] = "gone" => d \notin Searchable

\* An erasure whose audit row is closed, which is what a 204 reports, has removed the
\* row and the points: nothing brought the row back to life between the tombstone and
\* the guarded DELETE, which reports success when it matches no row (delete_document).
ClosedAuditMeansErased ==
    \A x \in Deleters :
        audit[x] = "closed" => status[target[x]] = "gone" /\ target[x] \notin Searchable

Life ==
    [d \in Docs |->
        CASE status[d] = "unborn" -> "unborn"
          [] status[d] = "gone" -> "erased"
          [] status[d] = "deleting" -> "erasing"
          [] OTHER -> "live"]

Promise == INSTANCE ErasurePromise WITH life <- Life, searchable <- Searchable

\* The four stores together keep the promise made to the tenant: a deletion that was
\* accepted is never taken back, and nothing is erased while it can still be found.
ImplementsErasure == Promise!PromiseSpec

\* A tombstone leaves only by the row's removal (migration 0011, reaper.rs).
DeletingLeavesOnlyByRemoval ==
    [][\A d \in Docs : status[d] = "deleting" => status'[d] \in {"deleting", "gone"}]_vars

-----------------------------------------------------------------------------
(* Indexing.                                                               *)

\* The points of a document all of whose chunks, and no others, are those of content c.
Whole(c) == [i \in Indices |-> IF i \in ChunksOf[c] THEN c ELSE None]

\* A document that is reported ready is indexed, whole and from one version of its
\* object: nothing is missing, unless that version has no text, and no chunk of an
\* earlier and longer version is left beside the new ones, whatever attempts failed
\* half-way before (ingest, point_id, mark_ready).
ReadyIsWhole ==
    \A d \in Docs : status[d] = "ready" => \E c \in Contents : points[d] = Whole(c)

\* Somebody still has the latest bytes of d to deal with.
Pending(d) ==
    \/ \E e \in queue \cup dlq : e.doc = d
    \/ \E w \in Workers : step[w] # "idle" /\ job[w].doc = d
    \/ \E g \in Ingesters : ing[g] \in {"found", "put"} /\ ingDoc[g] = d

\* An overwritten object is re-indexed: a document that is ready, with no event of it
\* on its way or dead-lettered, answers from the bytes now in the object store, although
\* the event, its redeliveries and the download each see a version of their own
\* (claim_decision, verify_and_ingest).
ReadyCatchesUp ==
    \A d \in Docs :
        status[d] = "ready" /\ ~Pending(d) /\ object[d] # None =>
            points[d] = Whole(object[d])

-----------------------------------------------------------------------------
(* Progress.                                                               *)

\* A deletion that was accepted is carried through, by the request that accepted it or,
\* when that failed or a worker was indexing, by the reaper (finish_deletions).
DeletionFinishes == \A d \in Docs : status[d] = "deleting" ~> status[d] = "gone"

\* The deletion of d has been asked for, it exists, and no answer is being written.
AskedToErase(x, d) ==
    /\ del[x] = "begun" /\ target[x] = d /\ Exists(d)
    /\ \A a \in Askers : ask[a] # "answering"

\* An answer that quotes a document when its deletion is asked for is redacted, in the
\* end, by whichever process finishes that deletion (delete_document).
CitingAnswersAreRedacted ==
    \A x \in Deleters, d \in Docs :
        AskedToErase(x, d) ~> (\A t \in turns : d \notin t)

\* A document never stays claimed: its worker finishes, or its lease runs out and the
\* reaper reclaims it (reclaim_stale_leases_sql).
ClaimEnds == \A d \in Docs : status[d] = "processing" ~> status[d] # "processing"

\* An upload whose window has passed is settled, unless its client renews the window
\* (sweep).
AbandonedUploadEnds ==
    \A d \in Docs :
        status[d] = "uploading" /\ window[d] = "lapsed"
            ~> status[d] # "uploading" \/ window[d] = "open"

=============================================================================

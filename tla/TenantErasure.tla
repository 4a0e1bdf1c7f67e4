---------------------------- MODULE TenantErasure ----------------------------
(***************************************************************************)
(* DELETE /admin/tenants/{id} over the three stores, against every path    *)
(* that writes to them: uploads by a presigned URL and their events, the   *)
(* deprecated upload through the API and its queue, and the re-index.      *)
(*                                                                         *)
(* Only rows are guarded.  An upload let in before the credentials went, a *)
(* URL handed out, a job in the queue and an attempt at indexing go on     *)
(* whatever has become of the tenant, one call of a store at a time.       *)
(*                                                                         *)
(* Simplifications.                                                        *)
(*  - One tenant, registered once; what its credentials may do, and how    *)
(*    they come and go, is Accounts'.                                      *)
(*  - A document is its row, its object and its points, each there or not; *)
(*    versions, chunks and the deletion of one document are                *)
(*    DocumentLifecycle's and Indexing's.                                  *)
(*  - A call that has its effect and then fails is the call followed by a  *)
(*    failure.                                                             *)
(***************************************************************************)
EXTENDS FiniteSets

CONSTANTS
    Docs,        \* the documents of one tenant
    Legacy,      \* those uploaded by POST /documents, under {tenant}/{id}
    Workers,     \* event consumers of the workers
    Drains,      \* legacy consumers of the workers
    Reindexers,  \* runs of the reindex subcommand
    Erasers      \* requests to erase the tenant

Writers == Workers \cup Drains \cup Reindexers

ASSUME ErasureAssumption ==
    /\ Legacy \subseteq Docs
    /\ Workers \cap Drains = {}
    /\ (Workers \cup Drains) \cap Reindexers = {}

VARIABLES
    tenant,    \* the row of tenants is there
    access,    \* the kinds of credential the tenant has
    row,       \* row[d]: the status of d, or "none"
    object,    \* the documents whose object is in the bucket
    points,    \* those with points in the collection
    upload,    \* upload[d]: where the request that brings d stands
    events,    \* the documents with an event in document_events
    jobs,      \* those with a job in ingest_jobs
    attempt,   \* attempt[w]: how far w is, at which document
    todo,      \* todo[x]: the documents the re-index x has yet to do
    saga,      \* saga[e]: where the erasure e stands
    listed,    \* listed[e]: the objects e has listed and not deleted
    audit,     \* audit[e]: e's row of erasures
    underway   \* underway[e]: what was on its way at e's last count

storeVars   == <<tenant, access, row, object, points>>
uploadVars  == <<upload, events, jobs>>
attemptVars == <<attempt, todo>>
sagaVars    == <<saga, listed, audit, underway>>
vars == <<storeVars, uploadVars, attemptVars, sagaVars>>

Statuses == {"none", "uploading", "processing", "ready", "failed"}
Idle     == [step |-> "idle"]
At(step, d) == [step |-> step, doc |-> d]
Attempt  == {Idle} \cup [step : {"claimed", "fetched", "cleared", "written"}, doc : Docs]
Steps    == {"idle", "keys", "sessions", "count", "drop", "list", "objects",
             "recount", "redrop", "finish", "done", "ended"}

TypeOK ==
    /\ tenant \in BOOLEAN
    /\ access \subseteq {"keys", "sessions"}
    /\ row \in [Docs -> Statuses]
    /\ object \subseteq Docs
    /\ points \subseteq Docs
    /\ upload \in [Docs -> {"new", "let in", "stored", "recorded", "over", "failed"}]
    /\ events \subseteq Docs
    /\ jobs \subseteq Legacy
    /\ attempt \in [Writers -> Attempt]
    /\ todo \in [Reindexers -> SUBSET Docs]
    /\ saga \in [Erasers -> Steps]
    /\ listed \in [Erasers -> SUBSET Docs]
    /\ audit \in [Erasers -> {"none", "open", "closed"}]
    /\ underway \in [Erasers -> SUBSET Docs]

\* Some documents have been indexed before.
Init ==
    \E standing \in SUBSET Docs :
        /\ tenant = TRUE
        /\ access = {"keys", "sessions"}
        /\ row = [d \in Docs |-> IF d \in standing THEN "ready" ELSE "none"]
        /\ object = standing
        /\ points = standing
        /\ upload = [d \in Docs |-> IF d \in standing THEN "over" ELSE "new"]
        /\ events = {} /\ jobs = {}
        /\ attempt = [w \in Writers |-> Idle]
        /\ todo = [x \in Reindexers |-> {}]
        /\ saga = [e \in Erasers |-> "idle"]
        /\ listed = [e \in Erasers |-> {}]
        /\ audit = [e \in Erasers |-> "none"]
        /\ underway = [e \in Erasers |-> {}]

-----------------------------------------------------------------------------
\* Uploads.  A request is let in once, by a credential that was good then.

\* Accounts stay until the rows go: a login or a new key gives access again.
Credential ==
    /\ tenant
    /\ \E k \in {"keys", "sessions"} : access' = access \cup {k}
    /\ UNCHANGED <<tenant, row, object, points, uploadVars, attemptVars, sagaVars>>

Upload(d, from, to) ==
    /\ upload[d] = from
    /\ upload' = [upload EXCEPT ![d] = to]
    /\ UNCHANGED <<tenant, access, points, events, attemptVars, sagaVars>>

\* upload_document takes a secret key, and no session.
LetIn(d) ==
    /\ IF d \in Legacy THEN "keys" \in access ELSE access # {}
    /\ Upload(d, "new", "let in")
    /\ UNCHANGED <<row, object, jobs>>

\* Mutant: documents does not reference tenants.
InsertRow_Unchecked(d, from, to) ==
    /\ Upload(d, from, to)
    /\ row' = [row EXCEPT ![d] = "uploading"]
    /\ UNCHANGED <<object, jobs>>

\* The row of a document references its tenant's: without it, an error.
InsertRow(d, from, to) ==
    /\ tenant
    /\ Upload(d, from, to)
    /\ row' = [row EXCEPT ![d] = "uploading"]
    /\ UNCHANGED <<object, jobs>>

\* Mutant: it publishes a job as well.
Mint_Publishes(d) == d \notin Legacy /\ InsertRow(d, "let in", "recorded")

\* The row of a presigned upload comes before its URL.
Mint(d) == d \notin Legacy /\ InsertRow(d, "let in", "over")

\* The URL is the client's: PUT any time, any number of times.
Put(d) ==
    /\ d \notin Legacy /\ upload[d] = "over"
    /\ object' = object \cup {d}
    /\ events' = events \cup {d}
    /\ UNCHANGED <<tenant, access, row, points, upload, jobs, attemptVars, sagaVars>>

\* upload_document stores the object, records it and publishes a job.  The
\* event of its object is discarded, for parse_key does not know the key.
Store(d) ==
    /\ d \in Legacy
    /\ Upload(d, "let in", "stored")
    /\ object' = object \cup {d}
    /\ UNCHANGED <<row, jobs>>

Record(d) == d \in Legacy /\ InsertRow(d, "stored", "recorded")

Publish(d) ==
    /\ Upload(d, "recorded", "over")
    /\ jobs' = jobs \cup {d}
    /\ UNCHANGED <<row, object>>

UploadFails(d) ==
    /\ \E from \in {"let in", "stored", "recorded"} : Upload(d, from, "failed")
    /\ UNCHANGED <<row, object, jobs>>

-----------------------------------------------------------------------------
\* Attempts at indexing.

\* Writer w is at a document.
Busy(w) == attempt[w] # Idle

\* Writer w takes document d on.
Takes(w, d) ==
    /\ ~Busy(w)
    /\ attempt' = [attempt EXCEPT ![w] = At("claimed", d)]

Claimable(d) == row[d] \in {"uploading", "failed"}

\* A re-upload of a ready document claims it; the same bytes are skipped.
Claim(w) ==
    /\ w \in Workers
    /\ \E d \in events :
          /\ Claimable(d) \/ row[d] = "ready"
          /\ Takes(w, d)
          /\ row' = [row EXCEPT ![d] = "processing"]
          /\ events' = events \ {d}
    /\ UNCHANGED <<tenant, access, object, points, upload, jobs, todo, sagaVars>>

Skip(w) ==
    /\ w \in Workers /\ ~Busy(w)
    /\ \E d \in events : ~Claimable(d) /\ events' = events \ {d}
    /\ UNCHANGED <<storeVars, upload, jobs, attemptVars, sagaVars>>

\* The legacy consumer claims too, and does not look at the verdict.
TakeJob(w) ==
    /\ w \in Drains
    /\ \E d \in jobs :
          /\ Takes(w, d)
          /\ row' = IF Claimable(d) THEN [row EXCEPT ![d] = "processing"] ELSE row
          /\ jobs' = jobs \ {d}
    /\ UNCHANGED <<tenant, access, object, points, upload, events, todo, sagaVars>>

\* reindex_all selects its documents at once and claims none of them.
SelectAll(x) ==
    /\ x \in Reindexers /\ ~Busy(x) /\ todo[x] = {}
    /\ todo' = [todo EXCEPT ![x] = {d \in Docs : row[d] \in {"ready", "failed"}}]
    /\ UNCHANGED <<storeVars, uploadVars, attempt, sagaVars>>

TakeNext(x) ==
    /\ x \in Reindexers
    /\ \E d \in todo[x] :
          /\ Takes(x, d)
          /\ todo' = [todo EXCEPT ![x] = @ \ {d}]
    /\ UNCHANGED <<storeVars, uploadVars, sagaVars>>

Moves(w, from, to) ==
    /\ Busy(w) /\ attempt[w].step = from
    /\ attempt' = [attempt EXCEPT ![w].step = to]
    /\ UNCHANGED <<tenant, access, row, object, uploadVars, todo, sagaVars>>

Fetch(w) ==
    /\ Moves(w, "claimed", "fetched")
    /\ attempt[w].doc \in object
    /\ UNCHANGED points

NoText(w) == Moves(w, "fetched", "written") /\ UNCHANGED points

Clear(w) ==
    /\ Moves(w, "fetched", "cleared")
    /\ points' = points \ {attempt[w].doc}

Upsert(w) ==
    /\ Moves(w, "cleared", "written")
    /\ points' = points \cup {attempt[w].doc}

\* mark_ready, which a re-index has no need of.
Finish(w) ==
    /\ Busy(w) /\ attempt[w].step = "written"
    /\ LET d == attempt[w].doc IN
       row' = IF w \notin Reindexers /\ row[d] = "processing"
              THEN [row EXCEPT ![d] = "ready"] ELSE row
    /\ attempt' = [attempt EXCEPT ![w] = Idle]
    /\ UNCHANGED <<tenant, access, object, points, uploadVars, todo, sagaVars>>

\* A call fails, or the process dies.  mark_failed is an event's only.  An
\* event is redelivered, up to its limit; a job only when the process died;
\* a re-index goes on with its next document, or dies.
AttemptFails(w) ==
    /\ Busy(w)
    /\ attempt' = [attempt EXCEPT ![w] = Idle]
    /\ LET d == attempt[w].doc IN
       \/ /\ w \in Workers
          /\ row' \in {row, [row EXCEPT ![d] = IF @ = "processing" THEN "failed" ELSE @]}
          /\ events' \in {events, events \cup {d}}
          /\ UNCHANGED <<jobs, todo>>
       \/ /\ w \in Drains
          /\ jobs' \in {jobs, jobs \cup {d}}
          /\ UNCHANGED <<row, events, todo>>
       \/ /\ w \in Reindexers
          /\ todo' \in {todo, [todo EXCEPT ![w] = {}]}
          /\ UNCHANGED <<row, events, jobs>>
    /\ UNCHANGED <<tenant, access, object, points, upload, sagaVars>>

\* The reaper takes a lease back.
Reclaim(d) ==
    /\ row[d] = "processing"
    /\ row' = [row EXCEPT ![d] = "failed"]
    /\ UNCHANGED <<tenant, access, object, points, uploadVars, attemptVars, sagaVars>>

-----------------------------------------------------------------------------
\* erase_tenant.

Goes(e, from, to) ==
    /\ saga[e] = from
    /\ saga' = [saga EXCEPT ![e] = to]
    /\ UNCHANGED <<uploadVars, attemptVars>>

\* An unknown tenant is a 404, and no audit row is opened for it.
BeginErasure(e) ==
    /\ Goes(e, "idle", IF tenant THEN "keys" ELSE "ended")
    /\ audit' = [audit EXCEPT ![e] = IF tenant THEN "open" ELSE @]
    /\ UNCHANGED <<storeVars, listed, underway>>

\* Two statements, each committed by itself.
Revoke(e) ==
    /\ \/ Goes(e, "keys", "sessions") /\ access' = access \ {"keys"}
       \/ Goes(e, "sessions", "count") /\ access' = access \ {"sessions"}
    /\ UNCHANGED <<tenant, row, object, points, listed, audit, underway>>

\* Count the tenant's points; none, and there is nothing to delete.
Count(e) ==
    /\ Goes(e, "count", IF points = {} THEN "list" ELSE "drop")
    /\ UNCHANGED <<storeVars, listed, audit, underway>>

\* delete_points by the tenant's id, in the first sweep and in the second.
DropPoints(e) ==
    /\ Goes(e, "drop", "list") \/ Goes(e, "redrop", "finish")
    /\ points' = {}
    /\ UNCHANGED <<tenant, access, row, object, listed, audit, underway>>

\* The keys under tenants/{id}/.
List(e) ==
    /\ Goes(e, "list", "objects")
    /\ listed' = [listed EXCEPT ![e] = object \ Legacy]
    /\ UNCHANGED <<storeVars, audit, underway>>

\* Mutant: an answer that is not 2xx has the objects listed again.
DeleteObject_Relists(e) ==
    /\ saga[e] = "objects"
    /\ \E d \in listed[e] :
          \/ /\ object' = object \ {d}
             /\ UNCHANGED saga
          \/ /\ saga' = [saga EXCEPT ![e] = "list"]
             /\ UNCHANGED object
    /\ listed' = [listed EXCEPT ![e] = @ \cap object']
    /\ UNCHANGED <<tenant, access, row, points, uploadVars, attemptVars, audit, underway>>

\* An answer that is not 2xx counts as a deletion.
DeleteObject(e) ==
    /\ saga[e] = "objects"
    /\ \E d \in listed[e] :
          /\ object' \in {object, object \ {d}}
          /\ listed' = [listed EXCEPT ![e] = @ \ {d}]
    /\ UNCHANGED <<tenant, access, row, points, uploadVars, attemptVars, saga, audit, underway>>

\* DELETE FROM tenants, and by the cascade every row of the tenant.
DeleteRows(e) ==
    /\ listed[e] = {}
    /\ Goes(e, "objects", "recount")
    /\ tenant' = FALSE
    /\ access' = {}
    /\ row' = [d \in Docs |-> "none"]
    /\ UNCHANGED <<object, points, listed, audit, underway>>

\* What may still write points: attempts, jobs, and the documents a re-index
\* or an upload has in hand.
OnItsWay ==
    {d \in Docs :
        \/ \E w \in Writers : Busy(w) /\ attempt[w].doc = d
        \/ \E x \in Reindexers : d \in todo[x]
        \/ d \in jobs
        \/ upload[d] = "recorded"}

\* Mutant: the first sweep was enough.
Recount_Skipped(e) ==
    /\ Goes(e, "recount", "finish")
    /\ underway' = [underway EXCEPT ![e] = OnItsWay]
    /\ UNCHANGED <<storeVars, listed, audit>>

Recount(e) ==
    /\ Goes(e, "recount", IF points = {} THEN "finish" ELSE "redrop")
    /\ underway' = [underway EXCEPT ![e] = OnItsWay]
    /\ UNCHANGED <<storeVars, listed, audit>>

FinishErasure(e) ==
    /\ Goes(e, "finish", "done")
    /\ audit' = [audit EXCEPT ![e] = "closed"]
    /\ UNCHANGED <<storeVars, listed, underway>>

\* A call fails, or the process dies: the audit row stays open.
EraseFails(e) ==
    /\ \E from \in Steps \ {"idle", "done", "ended"} : Goes(e, from, "ended")
    /\ UNCHANGED <<storeVars, listed, audit, underway>>

-----------------------------------------------------------------------------
Bring(d) ==
    \/ LetIn(d) \/ Mint(d) \/ Put(d)
    \/ Store(d) \/ Record(d) \/ Publish(d) \/ UploadFails(d)

Write(w) ==
    \/ Claim(w) \/ Skip(w) \/ TakeJob(w) \/ SelectAll(w) \/ TakeNext(w)
    \/ Fetch(w) \/ NoText(w) \/ Clear(w) \/ Upsert(w) \/ Finish(w) \/ AttemptFails(w)

Erase(e) ==
    \/ BeginErasure(e) \/ Revoke(e) \/ Count(e) \/ DropPoints(e)
    \/ List(e) \/ DeleteObject(e) \/ DeleteRows(e)
    \/ Recount(e) \/ FinishErasure(e) \/ EraseFails(e)

Next ==
    \/ Credential
    \/ \E d \in Docs : Bring(d) \/ Reclaim(d)
    \/ \E w \in Writers : Write(w)
    \/ \E e \in Erasers : Erase(e)

Spec == Init /\ [][Next]_vars

\* A request that runs goes on: each of its calls answers or fails.
FairSpec == Spec /\ \A e \in Erasers : WF_vars(Erase(e) /\ saga[e] # "idle")

-----------------------------------------------------------------------------
(* Whatever points are in the collection once an erasure is on record as   *)
(* finished were on their way at its second sweep: an attempt running, a   *)
(* job queued, a re-index or an upload under way.  When there were none    *)
(* the collection is empty of the tenant, and stays so, although late PUTs *)
(* bring objects back and their events are still delivered.                *)
LeftoversWereOnTheirWay ==
    \A e \in Erasers : audit[e] = "closed" => points \subseteq underway[e]

(* A finished erasure has left no tenant and no document, and none comes   *)
(* back: not from an upload let in before the credentials were revoked,    *)
(* nor from a worker that finishes what it had claimed.                    *)
ErasedIsGone ==
    \A e \in Erasers : audit[e] = "closed" =>
        ~tenant /\ access = {} /\ \A d \in Docs : row[d] = "none"

(* An erasure that began ends, with its result or an error, however often  *)
(* objects are put while it deletes them and whatever the store answers.   *)
EveryErasureEnds ==
    \A e \in Erasers : saga[e] # "idle" ~> saga[e] \in {"done", "ended"}

(* "Vectors, then objects, then rows" (erase_tenant): when the rows go, no *)
(* object of theirs is left in the bucket.                                 *)
BytesGoBeforeRows ==
    [][tenant /\ ~tenant' => \A d \in object : row[d] = "none"]_vars
=============================================================================

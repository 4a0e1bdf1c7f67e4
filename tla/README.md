# bot_flow in TLA+

bot_flow answers questions from a tenant's documents. A document lives in four stores at once:
a row in Postgres, an object in MinIO, points in Qdrant and, while something about it is still
to be done, an event in RabbitMQ. No transaction spans two of them and no lock is held from one
to the next. This project models what keeps them consistent, checks it with TLC and proves the
central part of it with TLAPS. Further models do the same for who may act for a tenant, for the
erasure of a tenant, for what becomes of a text on its way into the index, for the listing, and
for a question on its way through the rate limiter to a stored answer.

## 1. The system

| Component | State | Operations | Interacts with |
|---|---|---|---|
| Documents table (`worker/src/lifecycle.rs`, migrations 0008, 0011, 0012) | status, etag, lease (`processing_started_at`), window (`upload_expires_at`), `external_id` | `claim`, `mark_ready`, `mark_failed`, `mark_quarantined`, the handlers' own statements | every other component |
| Worker event loop (`worker/src/main.rs`) | one delivery in hand (prefetch 1), the text being indexed | receive, quarantine, claim, verify, download, clear, upsert, finish, ack or nack | RabbitMQ, MinIO, Qdrant, the table |
| Reaper (`worker/src/reaper.rs`) | the rows its sweep selected | expire uploads, reclaim leases, finish deletions | the table, Qdrant, MinIO |
| Upload sessions (`api/src/upload/mod.rs`) | presigned URLs, valid until they expire | create, refresh | the table, MinIO |
| Inline ingest (`handlers.rs` `ingest`, `inline_document`) | the row it found by external id | select, update or insert, put | the table, MinIO |
| Deletion (`handlers.rs` `delete_document`, `erasure.rs`) | the audit row, where the saga stands | begin, tombstone, vectors, object, redact, row, finish | everything |
| Event pipeline (MinIO notifications, RabbitMQ quorum queue) | queue, dead-letter queue, delivery counts | publish, deliver, redeliver, dead-letter | the worker |
| Ask and search (`handlers.rs` `ask`, `ask_stream`, `search`, `retrieve`; `llm.rs`) | where a request stands, what it has read and said, its deadline | check the limit, prepare, retrieve, answer or stream, append, respond | rate limiter, conversations, embedder, Qdrant, the language model |
| Conversation memory (`conversation.rs`, migration 0007) | conversations; messages, ordered by `seq` | `ensure`, `recent`, `rewrite`, `append_turn`, `redact` | Postgres |
| Rate limiter (`rate_limit.rs`) | one counter for each tenant and minute, with its time to live | INCR, EXPIRE | Redis, the clock |
| Listing (`handlers.rs` `list_documents`, migration 0016) | none; the client keeps the cursor | one SELECT for each page | the table |
| Chunker (`common/src/chunk.rs`) | none | split, pack, locate | the worker |
| Embedding client (`common/src/embedding.rs`) | none | embed a batch, order the answer, classify the failure | the worker, the ask path |
| Legacy upload and queue (`handlers.rs` `upload_document`, `queue.rs`, `consume_legacy`) | jobs in `ingest_jobs` | store, record, publish; claim, ingest | MinIO, the table, Qdrant |
| Re-index (`worker/src/main.rs` `reindex_all`) | the rows it selected | select, ingest each | the table, MinIO, Qdrant |
| Accounts and credentials (`api/src/accounts.rs`, `auth.rs`, migrations 0001, 0002, 0009, 0010, 0017) | tenants, accounts, sessions, reset tokens, API keys; what each request in flight has read | register, login, forgot, reset, change, logout, mint, revoke, create tenant | Postgres only |
| Tenant erasure (`handlers.rs` `delete_tenant`, `erasure.rs`) | where the saga stands, its audit row | revoke keys, revoke sessions, vectors, objects, rows, vectors again | credentials, and all stores |
| Principals, metrics, configuration, mail, start-up, retrieval bench, dashboard, widget, scripts | see `PROJECT.json` | | not modelled, section 7 |

What is hard in it:

* **Interleaving.** `claim` releases its lock before indexing starts; a deletion, a re-sync, an
  overwrite, a second worker and the reaper all run beside it.
* **Delivery.** Events are duplicated, late, reordered and redelivered, and a handler runs on
  after its connection has dropped and its event has been given to somebody else.
* **Crashes and partial failure.** Every saga is a sequence of calls that can stop after any of
  them; nobody rolls back, and the reaper resumes.
* **Time.** The reaper concludes from a clock that a worker is done; the limiter's counter must
  live as long as its minute; a stream has a deadline that its tokens do not put off.
* **Loops over data.** A recursion over separators, a window of pieces, a search for text that
  repeats, an answer that comes out of order: each is short and has a corner no test is in.
* **Progress.** Deletions, claims and abandoned uploads must end although whoever began them died.

What makes each part correct: whoever erases a document does so alone; a tombstone is never
taken back; nothing can be answered from an erased document; a ready document is indexed whole
and from the bytes now stored; everything that was begun ends. For credentials: none outlives its
tenancy, a registration is all or nothing, of several reset links one wins, and an erased tenancy
does not come back through a request that had already read it. An erased tenant leaves nothing
behind but what was being written when it was last swept. Text is indexed without loss, each chunk
under its own vector. A walk of the listing shows every document that stays, once. What a
conversation keeps is what its client was told, question and answer together, and nobody is let
through more often than the limit.

## 2. Modules

| Module | What it is |
|---|---|
| `ErasurePromise` | The abstract specification: what a tenant is promised about one document, with no store, queue, lease or worker in it. |
| `DocumentLifecycle` | The detailed specification: the table, the stores, the queue, workers, reapers and the API's requests, one action per statement, transaction or store call. |
| `Accounts` | The five credential tables and every request that writes them, one action per statement, with the locks of their transactions. |
| `TenantErasure` | `DELETE /admin/tenants/{id}` over the three stores, against every path that writes to them: presigned uploads, the legacy upload and its queue, the re-index. |
| `Chunking` | The splitting, packing and locating of a text, one step per round of each loop. |
| `Indexing` | One attempt at a document in full (`EXTENDS Chunking`): the data of the steps that `DocumentLifecycle` takes as one. |
| `Listing` | `GET /documents`: pages and cursors over a table that changes. |
| `RateLimiter` | A tenant's counter in Redis, two commands a request. |
| `Asking` | `POST /ask`, `/ask/stream` and `/search` behind it (`EXTENDS RateLimiter`), and the conversations they keep. |
| `MCDocumentLifecycle`, `MCAccounts`, `MCTenantErasure`, `MCIndexing`, `MCListing`, `MCAsking` | Values of the constants for TLC. |
| `DocumentLifecycleProofs` | Type correctness, the tombstone fence, the refinement of `ErasurePromise` and the meaning of a closed audit row. |
| `ReadyProofs` | What a ready document answers from: one version, whole, and in the end the latest (`EXTENDS DocumentLifecycleProofs`). |
| `AccountsProofs`, `ResetProofs`, `TenantErasureProofs`, `IndexingProofs`, `ListingProofs`, `AskingProofs` | The theorems of section 5 about each. |

Three modules describe the deletion or the indexing of documents, at different distances. One
document against its own deletion, its overwrites and a second worker is `DocumentLifecycle`'s.
The data of an attempt, with nobody else about, is `Indexing`'s. All documents of a tenant against
the erasure of the tenant are `TenantErasure`'s, where a document is no more than whether its row,
its object and its points are there. A path that writes points is in the first or the third, and
its steps have the same names.

How `DocumentLifecycle` corresponds to the code:

* `status`, `etag`, `lease`, `window`, `ext` are columns of `documents`. `"unborn"` and `"gone"`
  stand for a row before its INSERT and after its DELETE. A lease or a window is `"running"` or
  `"open"` until the action of time, `LeaseLapses` or `WindowLapses`, has happened.
* `object`, `points`, `urls`, `turns` are the MinIO object under the document's key, the Qdrant
  points by chunk index (`uuid_v5(document, index)`, so a chunk replaces its predecessor), the
  presigned PUTs that may still land and the citations of the stored answers.
* A *content* stands for the bytes of an object and for their etag at once. `ChunksOf` gives the
  chunk indices that parsing and chunking make of it, `SizeOf` its size.
* `step[w]` is where worker `w` stands in `handle`; `job[w]` the event; `text[w]` what it
  downloaded; `held[w]` whether the broker still counts the delivery as its own.
* `sweep[r]`, `todo[r]`, `cur[r]` are the reaper's position, its selected rows and the row it is
  finishing. `del[x]`, `target[x]`, `audit[x]` are a DELETE request, its document and its audit
  row; `ing...[g]` a POST /ingest request; `ask[a]`, `cites[a]` a question.
* Failures are `Fault`s of a bounded number: a crash of a worker, a lost connection, an error of a
  store or of Postgres, a duplicated event, a DELETE that MinIO answers with a non-2xx code
  (rust-s3 reports it as success and the code is not read).

How `Accounts` corresponds to the code:

* `tenant`, `owner`, `session`, `link`, `key` are the committed rows of `tenants`, `accounts` (by
  tenant, which `idx_accounts_tenant` makes unique), `sessions`, `password_reset_tokens` and
  `api_keys`.
* `at[r]` is where a request's handler stands and the columns it has read; `held[r]` the rows its
  transaction has written and not committed. A statement outside a transaction commits at once, so
  `POST /admin/tenants` and the tenant's erasure show every intermediate state; `register`,
  `reset_password` and `change_password` show theirs only at COMMIT.
* `HoldsLink`, `HoldsAccount`, `HoldsSession`, `HoldsSlug`, `HoldsEmail` are Postgres's locks at
  READ COMMITTED, modelled from the statements that take them: a writer waits for the row, and for
  an uncommitted row of the same unique key, and looks again when the other ends. The victim of a
  deadlock is one of the cases of `Refused`.
* What a request mints bears the request's name, so a slug that is registered again carries another
  tenancy, which is what `ErasedTenancyIsGone` tells apart. A link
  remembers the resets that had burned the others before it was mailed, which no action reads.
* Foreign keys are the conditions in `InsertKey`, `OpenSession` and `MailLink`, and the cascade in
  `DeleteTenant`.

Deliberate abstractions of `DocumentLifecycle`: one tenant (row-level security gives each tenant a lifecycle of its
own); no error text, `failure_reason`, attempts or informational timestamps; no wall-clock time.
Parsing that always fails for a content is a fault, not a property of the content. A bad event
body is acked at once by the code and does not occur.

How `TenantErasure` corresponds: `saga[e]` is the statement of `erase_tenant` that comes next,
`listed[e]` the objects it has listed and not deleted; an answer that is not 2xx counts as a
deletion. `access` is whether keys and sessions are there; `Credential` is a login or a minting,
possible as long as the accounts are. `upload[d]` is how far the request that brings `d` has come:
let in by a credential that was good then, stored (legacy), recorded, over. `attempt[w]` is where
the event consumer, the legacy consumer or the re-index stands in `ingest`. `underway[e]` records
what was on its way when the erasure counted for the second time, and no action reads it.

How `Chunking` and `Indexing` correspond: a piece is the span of the text it was cut from, a chunk
a range of pieces (`split_to_size` returns slices and `merge_with_overlap` concatenates them, so
nothing is lost by that); `work` is the stack of calls of `split_to_size`; `vectors` the chunks
whose vectors are in hand; `points` the Qdrant points of the document, old and new. Characters are
the classes the code tells apart. The endpoint answers every batch in any order, short, long,
twice, too wide, with any status, or not at all. One attempt runs at a time: others are
`DocumentLifecycle`'s. An attempt that fails gives its event back (`GiveBack`). Where `finish` records
the failure (or the reaper has, by the time the event is back), the row can be claimed and the
attempt begins anew, up to the queue's delivery limit (`Redeliver`, `DeadLetter`). Where it does not,
because the process died or `mark_failed` failed too, the row still says processing, the event is
skipped and acked, and nothing brings the document back (`"orphaned"`).

How `Listing` corresponds: `stamp[d]` is `created_at`, drawn at BEGIN, before the row is visible;
`row[d]` whether the row is inserted, listed, tombstoned or gone, with the quarantine that brings a
tombstoned row back (`LeaveTombstone`). A cursor is what `encode_cursor` writes and `parse_cursor`
reads, its timestamp rendered as Postgres does it.

How `RateLimiter` and `Asking` correspond: `now` and `second` are the clock, `count[m]` and
`ttl[m]` the key of minute `m`; `gate[r]` how far `check` is for request `r`. `stage[r]` is where
the handler stands, `said[r]` the length of its answer, `open[r]` the rows its transaction has
inserted and not committed, `late[r]` that the deadline has passed and the loop has not looked
yet. `Disconnect` is axum dropping the handler, or the generator of the stream, wherever it awaits.
`seq` is drawn at the INSERT and not given back by a rollback.

## 3. Properties

Erasure of a document:

* `FenceInv`, the tombstone fence: a worker that may still write points holds the lease and the
  row says so; no document has two indexers; what a saga has in hand is released; past its vector
  step no point is left.
* `NoOrphanPoints`: once the row is gone no chunk is searchable.
* `ClosedAuditMeansErased`: a closed audit row, which is what a 204 reports, means row and points
  are gone.
* `ImplementsErasure`: the refinement of `ErasurePromise`, with `Life` read off the status column
  and `Searchable` off the points.

Erasure of a tenant: `LeftoversWereOnTheirWay` (points that are there after a finished erasure were
being written, queued, selected or recorded at its second count; without any, the collection stays
empty of the tenant), `ErasedIsGone` (no tenant, credential or row, for ever), `EveryErasureEnds`.

Indexing: `ReadyIsWhole` (a ready document has all the chunks of one version and no others; it has
none only where a version has no text) and `ReadyCatchesUp` (a ready document about which nothing is
pending answers from the stored bytes). Within an attempt: `ChunksFit` (a chunk exceeds the chunk
size by no more than what it carries back), `NothingLost`, `SpansReadBack`, `PointsAreWhole`,
`PointsChangeInHand` (the old points are left alone until every new vector is in hand), `NeverCondemned` (no passing fault gives a
document up), `SplittingShrinks` (each step of the splitter's recursion goes on in the text or has
less left to do where it is, so it ends) and `IndexedUnlessLost` (the attempt and its retries end
with the document indexed, or the event was lost: it failed more often than the queue delivers it,
or a failure was not recorded).

Progress, under fairness: `DeletionFinishes`, `ClaimEnds`, `AbandonedUploadEnds`.

Credentials: `AccessNeedsTenancy` (no session, link or key of a tenancy that is over, and a
session is always of the account that owns its tenant now), `RegistrationIsWhole`, `OneLinkWins`
(two resets of an account both succeed only if one link was mailed after the other had burned the
rest), `ErasedTenancyIsGone`.

Listing: `PagesDescend` (no document twice, and in order), `NothingSkipped`, `WalkEnds`.

Questions: `LimitHolds`; `HistoryIsAnswered` (no reader finds a question without its answer);
`ToldIsStored` (what a client was given whole is kept, unless the append failed or the stream was
empty) and `StoredWasAnswered` (what is kept was whole, and no client was shown an error for it);
`FollowUpRemembers` (the answer before is read, unless younger rows push it out);
`EveryRequestEnds`.

Stated by the repository and not kept by the code (section 6): `DeletingLeavesOnlyByRemoval`,
`CitingAnswersAreRedacted`, `SpansLocateEachChunk`, `BytesGoBeforeRows`; without a run of its own,
`ChunksRespectTheBudget`.

## 4. Runs

| Run | Checks | Instance |
|---|---|---|
| `fence` | `TypeOK`, `FenceInv`, `NoOrphanPoints`, `ClosedAuditMeansErased`, `ImplementsErasure` | 1 document, 2 workers (symmetric), 1 reaper, 2 deletions, 2 PUTs, 2 faults, delivery limit 1 |
| `reindex` | `ReadyIsWhole`, `ReadyCatchesUp` | 1 document, contents with one and two chunks and an oversize one, 1 worker, 1 reaper, 2 inline requests with one external id, 2 PUTs, 1 fault |
| `settle` | `DeletionFinishes`, `ClaimEnds`, `AbandonedUploadEnds` | 1 document, 1 worker, 1 reaper, 1 deletion, 1 question, 2 PUTs, 1 fault, with fairness |
| `access` | `TypeOK`, `AccessNeedsTenancy`, `RegistrationIsWhole`, `OneLinkWins`, `ErasedTenancyIsGone` | 2 slugs, 2 emails, 3 requests of any kind (symmetric), one standing tenant |
| `purge` | `TypeOK`, `LeftoversWereOnTheirWay`, `ErasedIsGone`, `EveryErasureEnds` | a presigned and a legacy document, standing or not, 1 worker, 1 legacy consumer, 1 re-index, 1 erasure, failures unbounded |
| `index` | `TypeOK`, `ChunksFit`, `NothingLost`, `SpansReadBack`, `PointsAreWhole`, `NeverCondemned`, `PointsChangeInHand`, `SplittingShrinks`, `IndexedUnlessLost` | all 1093 texts of up to 6 characters of 3 classes, chunk size 3, overlap 2, batches of 2, delivery limit 1 |
| `pages` | `TypeOK`, `PagesDescend`, `NothingSkipped`, `WalkEnds` | 4 documents, 2 instants, 1 client, page sizes 1, 2 and the capped one |
| `chat` | `TypeOK`, `LimitHolds`, `HistoryIsAnswered`, `ToldIsStored`, `StoredWasAnswered`, `FollowUpRemembers`, `EveryRequestEnds` | 1 plain and 1 streamed request after a served one, 2 conversations, 2 minutes of 2 seconds, limit 1, a history of 3 rows |
| `tombstone`, `recited`, `spans`, `strays` | one property each, violated | section 6 |

The bounds, and why they are enough for the cases aimed at. One document: no statement or store
call of the modelled components touches two documents except the reaper's bulk updates, and the
theorems of section 5 are for any number. Two workers and two deletions are the fewest that can
race each other. Two PUTs make an overwrite, a stale event and an event for a row that is gone;
`MaxEvents` bounds them in the guard of `PutObject`. Two faults reach a duplicate followed by a
crash, or a lost connection whose handler runs on while another worker has the event; `MaxFaults`
bounds them in `Fault`. A delivery limit of 1 makes both a redelivery and a dead letter occur
(the code's is 5). Deletions, ingests and questions are one-shot processes.

For `Accounts`, three one-shot requests are what its hazards take: a login in flight, an erasure and
a registration of the same slug; two resets and the mail of the link between them. Two slugs and
two emails let registrations meet on either or on both. The standing tenant starts with an account,
a session, a key and a reset link, which saves the requests that would make them.

For `TenantErasure`, one document of each kind and one process of each kind that writes: the
erasure is the only process that relates documents, and it does so by sets, which the theorems
cover for any number. Failures are not bounded, since they cost no state. For `Indexing`, six
characters hold a paragraph break, a line break and a space with text on either side; three chunks
make a second batch; a failure may fall on any call of the attempt and of its redelivery, after which
`DeliveryLimit` ends the retries as the queue does. For `Listing`, four documents at two instants
make ties within a page and across two pages, and `MaxClock` bounds the clock. For `Asking`, a limit
of one and two requests make one of them wait for the next minute or be refused; three rows cut the
history in the middle of a turn; `LastMinute` bounds the clock, `MaxTokens` the length of an answer
(the code asks only whether there is one).

`CHECK_DEADLOCK` is left on for `DocumentLifecycle`: the reaper's ticker never stops. It is off for
`Accounts`, where every request is one-shot and nothing is left to do when all have ended; a cycle
of waits is no deadlock there because Postgres refuses one of its members. It is off for the other
four because a text that is indexed, a walk, an erasure and a question end as well.

Three things the `DocumentLifecycle` runs leave out, because the code does not keep what they check
when these are about. `fence` has no oversize content and no external id: a quarantine and a re-sync
write over any status, a tombstone included (`tombstone`). `reindex` has one worker, no deletion beside
its re-syncs and no content without chunks. All three have `LeaseOverrun = FALSE`. So the passing runs
say what holds when those are absent; sections 5 and 6 say what each of them costs.

With three PUTs and one fault `ReadyCatchesUp` fails with a single worker too: an old event
records its etag although newer bytes were read (`verify_and_ingest` compares sizes, not etags),
and bringing the old bytes back later is then skipped as already indexed. It is listed as a
hazard. That this is the only way, for any number of PUTs, is `ReadyCatchesUpHolds` in section 5.

**Fairness** (`Fairness`), all weak. Time passes (`UrlExpires`, `WindowLapses`, `LeaseLapses`).
The worker's loop takes its next step (`main` reconnects for ever and `consume_events` awaits the
next delivery). The reaper's 60-second ticker never stops. A request the API accepted is carried
on unless it faults, and so is an inline ingest. No fairness is assumed of clients, of questions,
or of faults. Fairness is on whole disjunctions (`WorkerStepOf(w)`, `ReaperStepOf(r)`,
`DeleteStepOf(x)`): a process makes progress, and never a particular choice of it.

`Indexing`: a worker that runs goes on, and RabbitMQ delivers again what was given back, or puts it
aside once it has come back too often. Nothing else bounds the failures: an endpoint that never
answers well leads to the dead-letter queue. `EmbedAnswered` is among the fair steps because every
request is answered or fails within its timeout; a failure is a step of its own that it competes with. `Listing`: a client that walks asks for the next page; nothing is assumed of the others.
`Asking`: Redis, Postgres, the embedder, Qdrant and the gateway answer or fail, each within its
timeout, and a deadline comes and is noticed (`WF` on `DeadlinePasses` and on `Elapsed`). `Delta` is
not fair and may happen for ever, which is what the deadline is for; clients need not send anything
or go away. `TenantErasure`: a request that runs goes on, each of its calls answering or failing;
nothing is assumed of whoever writes against it.

## 5. Proofs

For every value of the constants that satisfies the named assumptions:

| Theorem | Statement |
|---|---|
| `TypeCorrect` | `Spec => []TypeOK`, with the delivery limit and "a step has what it works on in hand" |
| `FenceIInvHolds` | `Disciplined` implies `Spec => []FenceIInv`, the inductive invariant |
| `FenceHolds` | `Disciplined` implies `Spec => []FenceInv` |
| `NoOrphanPointsHolds` | `Disciplined` implies `Spec => []NoOrphanPoints` |
| `ErasureImplemented` | `Disciplined` implies `Spec => ImplementsErasure` |
| `ClosedAuditHolds` | `Disciplined` implies `Spec => []ClosedAuditMeansErased` |
| `ReadyIsWholeHolds` | `Undisturbed`, with `SoleWorker` or `Unhurried`, implies `Spec => []ReadyIsWhole` |
| `ReadyCatchesUpHolds` | `SoleWorker` and `Steadfast` imply `SteadySpec => []ReadyCatchesUp` |
| `AccountsTypeCorrect` | `Accounts`: `Spec => []TypeOK` |
| `AccessNeedsTenancyHolds` | `Accounts`: `Spec => []AccessNeedsTenancy` |
| `ErasedTenancyIsGoneHolds` | `Accounts`: `Spec => []ErasedTenancyIsGone` |
| `RegistrationIsWholeHolds` | `Accounts`: `Spec => []RegistrationIsWhole` |
| `OneLinkWinsHolds` | `Accounts`, in `ResetProofs`: `Spec => []OneLinkWins` |
| `ErasureInvariant`, `ErasureTypeCorrect`, `LeftoversWereOnTheirWayAlways`, `ErasedIsGoneAlways` | `TenantErasure`: its inductive invariant, `TypeOK` and its two safety properties |
| `IndexingInvariant`, `ChunksFitHolds`, `NothingLostHolds`, `PointsAreWholeHolds`, `PointsChangeInHandHolds`, `NeverCondemnedHolds` | `Chunking` and `Indexing`: the invariant, four safety properties and an action property |
| `SpanInvariant`, `SpansReadBackHolds` | `Chunking` and `Indexing`: the invariant of the spans, and `Spec => []SpansReadBack` |
| `SplittingShrinksHolds` | `Spec => SplittingShrinks`, the variant of the splitter's recursion |
| `IndexingTypeCorrect` | `Chunking` and `Indexing`: `Spec => []TypeOK` |
| `ListingInvariant`, `ListingTypeCorrect`, `PagesDescendHolds`, `NothingSkippedHolds` | `Listing`: the invariant, `TypeOK` and its two safety properties |
| `LimitHoldsAlways`, `AskingInvariant`, `AskingTypeCorrect`, `HistoryIsAnsweredAlways`, `ToldIsStoredAlways`, `StoredWasAnsweredAlways`, `FollowUpRemembersAlways` | `RateLimiter` and `Asking`: the invariant, `TypeOK` and every safety property |

`Disciplined` names what the fence rests on: indexing ends within its lease, no object is over
the size cap, and nobody re-syncs by external id. Each of the three has a violation that shows it
is needed; the second is a run (`tombstone`), the others are in section 6.

`NoOrphanPoints` is not inductive: it says nothing of a worker that is about to upsert. The
strengthening is `FenceIInv == TypeOK /\ FenceInv /\ NothingFound`. Its parts lean on each other:
a worker past its claim has the lease running on a row that is processing or tombstoned
(`WorkerHoldsLease`); a saga only ever has released documents in hand (`FinishingIsReleased`), so
it never meets that worker; hence what it swept stays swept (`SweptHasNoPoints`), and the row goes
last. `OneIndexer` is what lets a finishing worker release the lease without exposing another one,
and `LeaseMatchesStatus` is what the reaper's `IS NULL` branch reads. `NothingFound` says that
without external ids no inline request holds a row. The proof is by document (`FenceAt`), with one
lemma per process and one step per action; `KeepAt` is the common case of a step that leaves the
row alone and lets nobody in.

For the refinement, `DocumentLifecycleProofs` first reduces every step to one of five things it can do to the documents
(`ErasureStep`), and then maps each of the five to a step of the promise or to a stutter. The same
reduction shows that a row that is gone stays gone, from which `AuditInv` and the meaning of a
closed audit row follow.

`ReadyProofs` is about what is indexed rather than about what is erased, and its assumptions are
others. `Unhurried` is `Disciplined` without the bound on the size of objects, and
`SoleWorker`, a deployment with one worker, is an alternative to it: `ReadyIsWhole` needs that no two
workers write the points of a document at once, and that nobody erases a document that is being
indexed or is ready. The latter is `Undisturbed`: re-syncs by external id or deletions, but not both.
A re-sync during a deletion puts the row back to work while the saga goes on erasing: with two inline
requests and a deletion TLC finds a document that is ready and has no points left.

Every step that is not a worker's is first reduced to what one document can see of it (`Outside`). A
saga that has a document in hand then finds it tombstoned, gone or quarantined (`HandsOff`), so its
sweep never takes the points of one that is ready. `WholeAt` says that a document has at most one
indexer, that its points are blank once that one has cleared them, that they are all chunks of one
content (`OneVersion`) when it has written them and when the row is ready, and that at any other time
they are blank or such.

`ReadyCatchesUp` is the hardest property of that module to keep, since the event, the HEAD and the
GET each see a version of their own. `CatchAt` follows the attempt: as long as the row is
processing, what a finished attempt has indexed is the text it read (`AttemptAt`), and if the object
has moved on since, the row does not bear its etag and its event is still about (`Told`). A ready
document is then indexed from its object, or somebody has that event in hand (`CaughtUpAt`).
`GivenBack` is the redelivery: a handler that runs on after it has lost its connection has an event
of the same version behind it. What the theorem excludes is listed in its assumptions, and each is
needed:

* `SoleWorker`: with two, the event of an overwrite is skipped while the other indexes (section 6).
* `Steadfast`, which is `Undisturbed` and that each content has chunks: one without is marked ready
  over old points (section 6).
* `SteadySpec`, the behaviours of `Spec` in which no PUT brings back bytes whose etag the row
  records over others (`BytesReturn`): the counterexample with three PUTs of section 4.

Overruns of the lease, oversize objects, faults, duplicates and the number of PUTs are not limited.
TLC checked `CatchIInv` with two and with three PUTs before it was proved.

`AccountsProofs` needs no discipline; its assumptions are that names are distinct, that the standing
tenants have different emails and that a row is not the absence of one. Neither `AccessNeedsTenancy` nor
`ErasedTenancyIsGone` is inductive: a login about to insert a session could hold an account and a tenant that do not belong
together, and a registration about to commit could overwrite a tenancy. `IInv` adds `Makers` (a row
bears the name of what created it), `SlugLock` (whoever has inserted a slug is alone with it and
nobody's row is committed), `InFlight` (what a login or an erasure has read stays true of the name
it read) and `Erased`. `PlaceRule` says what one step may do to the places of requests; most actions
grant no access and end no tenancy and follow by `QuietStep`, and the rest, the two commits that
create a tenancy, the insertions and the DELETE with its cascade, are proved part by part.

`RegistrationIsWhole` is inductive with two more facts: the email of an account that is inserted and
not committed is on no other row (`EmailLock`), and who creates a tenant for an administrator has no
email (`NoEmail`), so a row without an owner is never a registration's.

`ResetProofs`: a link is redeemed or burned by one transaction at a time (`LinkLock`), the link of a
reset under way is not yet used (`RefOK`), and each link of the account that a burn leaves is used,
held by it, or was mailed after it (`Burned`). A reset that commits second holds a link that is not
used and not the first one's, so it was mailed after the first had burned. `Minted` says that no
link is mailed twice under one name, which makes the argument survive an erasure.

`TenantErasureProofs`. `LeftoversWereOnTheirWay` says nothing of an erasure that is not finished.
The invariant adds that from the second count on the tenant is gone (`SagaOK`), that without it no
row is there (`Bare`), and that what is on its way then is part of what the erasure saw. That last
part is the argument: without rows nothing is claimed, selected or recorded, so the set of what may
still write only shrinks (`WaysEnd`), and points come from it alone. `OwnWay` keeps presigned
uploads out of the legacy queue.

`IndexingProofs` follows the loops. Of the splitting: the stack covers the text in order and each
character is blank, in a piece, or still to be split (`Kept`). Of the packing: each piece is within
the size and each packed piece is in a chunk or in the one under way (`Packed`), which fits the
size or is, but for its last piece, what was carried back (`Fits`). Of the attempt: the vectors in hand
are those of the first chunks (`VectorsOK`), which `order_embeddings` keeps whatever the endpoint
sends. `NeverCondemned` rests on `ChunksFit` and on an endpoint that refuses as too long only inputs
longer than its window.

`SpansReadBack` is about a search: `find_from` looks for the text of a chunk from where the chunk
before was found, and a text may repeat. Three facts make it right. Without gaps a piece lies as far
into the document as the pieces before it are long (`NoGapsLines`), so that a chunk, trimmed, is the
stretch of the text from its first to its last character that is not blank (`TextIsStretch`). A
chunk that begins no earlier than another has its first such character no earlier (`LeadGrows`), and
chunks begin in order (`ChunksInOrder`). So a search that started at or before that character finds
the chunk there at the latest, and what it finds, here or at an earlier repetition, is not past it;
hence the scan cannot pass the next chunk (`Located`). Where the argument is an induction over the
pieces or the characters it takes a least counterexample instead (`LeastNatural`, `Reaches`, from
the library's well-foundedness of the naturals), so that no induction principle with an operator
parameter is used.

`SplittingShrinks` is the safety half of termination. The stack covers what is left of the text
without a gap, and no call is made for nothing (`Stacked`); so a step either moves the place the
recursion has come to (`Front`) or lowers what is left to do there (`Rank`: an empty loop to drop, or
separators that remain), even when a part is as long as the text it was cut from. Both are numbers
within bounds that the text, the separators and the stack give. That the steps are taken is fairness
and stays with TLC (`IndexedUnlessLost`).

`ListingProofs` takes the order `(created_at, id)` to be strict and total and shows that a cursor
separates: what was listed does not lie below it (`SeenIsAbove`), and what must still be listed does
(`RestIsBelow`). A document cannot come between because its stamp is fixed when it is committed
(`Settled`). No finiteness of the walk is needed.

`AskingProofs`. `LimitHolds` needs that the counter is at least the number of those it counted
within the running minute, which needs that the key cannot go before the minute does: whoever set
its life did so within the minute, for the length of a minute (`ttl[now] + second >= Window`), and a
key without a life stays. `TurnInv` says that a transaction holds nothing, a question, or a question
and a younger answer, and that what is stored of a request is nothing or such a pair, with `PlaceOK`
tying it to the stage. `HistoryIsAnswered` then follows because the answer is the younger of the
two: whatever cuts off the answer has cut off the question (`NewestAnswered`). `FollowUpRemembers`
needs that a request which had ended stores nothing more (`EndedStays`), and that rows only come.

The assumptions of these are the named ones of the modules: finite sets of requests and documents,
positive sizes, at most one request served before (`AskingAssumption`), an overlap and chunk size
within the endpoint's window (`WindowAssumption`), and a database that renders times in UTC
(`ZoneAssumption`).

Every invariant and every action property of the passing runs is stated by one of these theorems.
Only model-checked are the liveness properties, which are out of the prover's reach as they rest on
fairness: `DeletionFinishes`, `ClaimEnds`, `AbandonedUploadEnds`, `WalkEnds`, `IndexedUnlessLost`,
`EveryRequestEnds` and `EveryErasureEnds`. So are the violations of section 6, which are single
behaviours, and `ReadyCatchesUp` where its theorem does not apply: the instance of `reindex` has
no deletion, and so meets its assumptions but for `SteadySpec`, which two PUTs cannot break.

## 6. Disagreements with the repository's own words

Each of these is a run that TLC finds violated; `PROJECT.json` quotes the line.

1. `tombstone`. `mark_quarantined` has no status in its WHERE clause. An oversize event delivered
   during a deletion turns `deleting` into `quarantined`; the guarded DELETE matches nothing and
   still answers 204, and no sweep looks at the row again. `inline_document`'s UPDATE is a second way.
2. `recited`. A deletion accepted with 202 is finished by the reaper, which redacts no answers.
3. `spans`. The splitter leaves blank parts out, so a chunk packed across one is no slice of the
   text; it is not found, and its span is that of other text. `SpansReadBack` says when spans are
   right: when nothing was left out.
4. `strays`. Legacy uploads are stored under `{tenant}/{id}`, and the erasure of a tenant lists
   `tenants/{id}/`: their bytes stay when everything else is gone.

These are behaviours of the models without a run of their own:

* An event with a new etag that arrives while another worker indexes the version before is skipped
  and acked; the overwrite is never indexed (`DocumentLifecycle`, two workers, `ReadyCatchesUp`).
  A text without chunks is ready before the old points are cleared. An indexing that outlives its
  lease breaks the fence (`LeaseOverrun = TRUE`, `NoOrphanPoints`).
* "Every chunk must fit the budget, or the embedding request shape stops being predictable"
  (`chunk.rs:276`), and the test below that comment asserts it of one text at an overlap of 10. It is
  false. When a piece does not fit, the trailing pieces within the overlap are carried back and the
  piece is packed behind them without another look (`chunk.rs:145`): pieces of 450, 50 and 480
  characters at 500/60 make a chunk of 530. TLC refutes `ChunksRespectTheBudget` within seconds when it
  is added to the invariants of `index`: a letter, a newline and two letters become a chunk of 4
  characters at a chunk size of 3. `ChunksFit` states what does hold: a chunk exceeds the budget only in this way. The
  endpoint's window is assumed to have that much room (`WindowAssumption`).
* After a crash the redelivered event finds the row processing, is skipped and acked; the reaper then
  sets it to failed for "a redelivered event (or a manual retry)" to claim (`reaper.rs:47`), and no
  event is left. `IndexedUnlessLost` has this as an exception (`Indexing`, `"orphaned"`).
* A presigned URL outlives the row it was minted for, and the object it puts has none.
* A login that verified the old password before a reset committed opens its session afterwards,
  though a reset is to "log everyone out, everywhere" (`accounts.rs:416`). A change of password that
  was verified before a reset overwrites what the reset chose.
* Keys and sessions of a tenant go by two statements, and accounts stay until the rows go, so access
  comes back during an erasure. Nothing stays behind in the end (`AccessNeedsTenancy`,
  `ErasedIsGone`), but an upload let in meanwhile may still put an object.
* An audit row that stays open does not tell an unfinished erasure from a finished one: a deletion
  answered 202 or 404 leaves its own open. An erasure of a tenant that dies after the rows went
  cannot be repeated, since the tenant is a 404 by then, although its second sweep is due.
* After `[DONE]` the stream of the gateway is read on; a connection that fails then turns a complete
  answer into an error frame, and the turn is not kept (`StreamFails` after the last `Delta`).
* A question in flight during a deletion may store an answer that cites the document afterwards.

The window in which a deferred deletion can still be answered from is accepted by the
repository (phase 8) and no finding: `ErasurePromise` allows it. So is what a key without a life
leaves behind in Redis after a failed EXPIRE: one key a failure.

## 7. What the checks do not show

Assumed and not checked: the replicas of the API and Redis agree on the time; an object's etag
identifies its bytes; RabbitMQ, MinIO, Qdrant and Postgres do what the code takes them to do; a
tenant's slug is not registered again while its erasure runs (`TenantErasure`; `Accounts` has
it). Listing the objects of a tenant is one step although it pages.

Not modelled:

* The legacy consumer and the re-index against the deletion of a single document. Both write points
  without a claim that binds them and would break the fence; `TenantErasure` has them against the
  erasure of the tenant only. The tool asks for the worker to be stopped.
* `purge-unattributed`, which deletes by a filter the points of no document; no path writes such
  points any more.
* Principals: which credential reaches which route, kinds and origins of keys. Each is a decision on
  one request with no state but the row it reads, and unit tests enumerate them.
* Passages, scores, the floor and the over-fetch of a search; what a rewritten question says. They
  decide which answer is given, and no property here is about that.
* Sparse vectors, object keys, failure classes, `chunk_text`: pure functions of strings within one
  call, which their unit tests reach.
* Metrics, configuration, mail, start-up, the retrieval bench: no state that another part relies on.
* The dashboard and the widget are clients; every model lets clients do anything at any time.
* A client of a stream that neither reads nor leaves: nobody polls the stream then, and its deadline
  is not noticed before somebody does. `EveryRequestEnds` is about clients that read or go away.
* Backup and restore, which run on stopped services.

## 8. What would come next

1. In `DocumentLifecycle`, the legacy consumer as a third indexer and the discipline (a drained
   queue) under which `FenceHolds` extends to it.
2. An abstract specification of what a search answers from (a version of the document, whole, and
   in the end the latest), which `DocumentLifecycle` implements as it does `ErasurePromise`.
3. Liveness of indexing beyond one attempt and its retries (`IndexedUnlessLost`): "an uploaded document
   is eventually ready or failed", with other workers about, once the code says what becomes of an
   event that was skipped for a claim that then lapsed.

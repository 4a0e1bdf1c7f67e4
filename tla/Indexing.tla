------------------------------- MODULE Indexing -------------------------------
(***************************************************************************)
(* One document indexed from its stored object (worker/src/main.rs,        *)
(* ingest): download and parse, chunk (Chunking), embed the chunks in      *)
(* batches (common/src/embedding.rs), clear the points of the document,    *)
(* upsert the new ones.  Every call may fail, with or without having had   *)
(* its effect.  A delivery whose failure may pass and is recorded comes    *)
(* back until the delivery limit; one whose failure is not recorded,       *)
(* because the process died or mark_failed failed too, finds the row still *)
(* claimed, is skipped and is settled.                                     *)
(*                                                                         *)
(* This is what the module DocumentLifecycle takes for the steps Parse,    *)
(* Embed, Clear and Upsert of a worker; there other workers, deletions and *)
(* overwrites come in between, here the data of a single attempt.  The     *)
(* embedding endpoint, the parser and the vector store are modelled from   *)
(* how this code uses them.                                                *)
(***************************************************************************)
EXTENDS Chunking

CONSTANTS
    EmbedBatch,     \* EMBED_BATCH, inputs per request
    EmbeddingDim,   \* EMBEDDING_DIM
    Widths,         \* vector widths an endpoint may answer with
    Window,         \* characters of an input the endpoint accepts
    MaxOld,         \* bound: chunks of the version indexed before
    DeliveryLimit   \* x-delivery-limit of the queue

ASSUME EmbedAssumption ==
    /\ EmbedBatch \in Nat \ {0}
    /\ EmbeddingDim \in Widths
    /\ MaxOld \in Nat
    /\ DeliveryLimit \in Nat
\* The smallest context window that goes with this chunk size.
ASSUME WindowAssumption == Window \in Nat /\ Window >= ChunkSize + Overlap

VARIABLES
    step,      \* where the attempt stands, or what became of the event
    vectors,   \* vectors[i]: the chunk whose vector is at place i
    points,    \* the document's points in the collection
    failures   \* how often the event was given back

indexVars == <<step, vectors, points, failures>>
vars == <<chunkVars, indexVars>>

------------------------------------------------------------------------------
(* The embedding endpoint.                                                 *)

\* Refusals: the status, and whether the body blames the length of the input.
Refusals == [status : {400, 401, 413, 429, 503}, blames : BOOLEAN]

\* What an answer carries per input: the place of the input in the request,
\* and a vector of some width.  The vector is the one of that input.
Data(n) == UNION {[1 .. m -> [index : 0 .. n, width : Widths]] : m \in n - 1 .. n + 1}

\* The endpoint refuses an input as too long only if one is.
MayRefuse(r, batch) ==
    (r.status = 413 \/ r.blames) => \E i \in batch : ChunkWidth(chunks[i]) > Window

\* Mutant: every 400 is taken for the document's fault.
IsFatal_Any400(r) == r.status \in {400, 413}

\* EmbedError::is_fatal for a non-2xx status; transport and protocol errors
\* never are.
IsFatal(r) == r.status = 413 \/ (r.status = 400 /\ r.blames)

\* order_embeddings: as many as were sent, the indices a permutation, the
\* width the collection's.
IsUsable(data, n) ==
    /\ Len(data) = n
    /\ {data[k].index : k \in DOMAIN data} = 0 .. n - 1
    /\ \A k \in DOMAIN data : data[k].width = EmbeddingDim

\* Mutant: the vectors stay in the order of the answer.
Ordered_AsAnswered(data, n) == [i \in 1 .. n |-> data[i].index]

\* sort_by_key(index): place i holds the datum with index i.
Ordered(data, n) ==
    [i \in 1 .. n |-> data[CHOOSE k \in DOMAIN data : data[k].index = i - 1].index]

------------------------------------------------------------------------------
(* One attempt.                                                            *)

OldPoints(k) == [index : 0 .. k - 1, version : {"old"}, chunk : {0}, vector : {0}]

\* chunks.iter().zip(vectors).enumerate(), under the id (document, index).
NewPoints ==
    {[index |-> i - 1, version |-> "new", chunk |-> i, vector |-> vectors[i]] : i \in DOMAIN chunks}

Init ==
    /\ ChunkInit
    /\ step = "download"
    /\ vectors = <<>>
    /\ points \in {OldPoints(k) : k \in 0 .. MaxOld}
    /\ failures = 0

\* The attempt fails, its work is lost and the event is given back.  Where the failure is
\* recorded the row can be claimed again; where it is not, whoever receives the event
\* finds it processing, skips it and acks (claim_decision).
GiveBack ==
    /\ step' \in {"retryable", "orphaned"}
    /\ failures' = failures + 1
    /\ stage' = "split"
    /\ work' = FirstCall(text)
    /\ pieces' = <<>>
    /\ first' = 1
    /\ next' = 1
    /\ chunks' = <<>>
    /\ spans' = <<>>
    /\ vectors' = <<>>
    /\ UNCHANGED text

\* Mutant: the previous points are dropped before anything else is done.
Download_ClearsFirst ==
    /\ step = "download"
    /\ step' = "chunk"
    /\ points' = {}
    /\ UNCHANGED <<chunkVars, vectors, failures>>

\* get_object and the parser sidecar.
Download ==
    /\ step = "download"
    /\ step' = "chunk"
    /\ UNCHANGED <<chunkVars, vectors, points, failures>>

Chunk == step = "chunk" /\ UNCHANGED indexVars /\ ChunkNext

\* No extractable text: Ok(0), before anything is touched.
NoText ==
    /\ step = "chunk"
    /\ stage = "chunked"
    /\ chunks = <<>>
    /\ step' = "ok"
    /\ UNCHANGED <<chunkVars, vectors, points, failures>>

\* embed_batch: the next request.
Batch == Len(vectors) + 1 .. (IF Len(vectors) + EmbedBatch <= Len(chunks)
                              THEN Len(vectors) + EmbedBatch ELSE Len(chunks))
BatchLen == IF Len(vectors) + EmbedBatch <= Len(chunks)
            THEN EmbedBatch ELSE Len(chunks) - Len(vectors)
Embedding == step = "chunk" /\ stage = "chunked" /\ Len(vectors) < Len(chunks)

\* The answer is usable: one vector per input, in the order of the inputs.
EmbedAnswered ==
    /\ Embedding
    /\ UNCHANGED <<chunkVars, points, failures>>
    /\ \E data \in Data(BatchLen) :
        /\ IsUsable(data, BatchLen)
        /\ vectors' = vectors \o
                      [i \in 1 .. BatchLen |-> Len(vectors) + 1 + Ordered(data, BatchLen)[i]]
    /\ step' = IF Len(vectors) + BatchLen = Len(chunks) THEN "clear" ELSE step

\* EmbedError::Protocol: a 2xx answer of another shape, whichever it is.
EmbedMalformed ==
    /\ Embedding
    /\ ~(\A data \in Data(BatchLen) : IsUsable(data, BatchLen))
    /\ GiveBack
    /\ UNCHANGED points

\* EmbedError::Status.
EmbedRefused(r) ==
    /\ Embedding
    /\ MayRefuse(r, Batch)
    /\ \/ IsFatal(r) /\ step' = "fatal" /\ UNCHANGED <<chunkVars, vectors, failures>>
       \/ ~IsFatal(r) /\ GiveBack
    /\ UNCHANGED points

Clear ==
    /\ step = "clear"
    /\ points' = {}
    /\ step' = "upsert"
    /\ UNCHANGED <<chunkVars, vectors, failures>>

\* Points of the same id are overwritten, others stay.
Written == {p \in points : \A q \in NewPoints : p.index # q.index} \cup NewPoints

Upsert ==
    /\ step = "upsert"
    /\ points' = Written
    /\ step' = "ok"
    /\ UNCHANGED <<chunkVars, vectors, failures>>

\* A call of the attempt fails, or the process dies: the download, the
\* parser, the connection to the endpoint; a call to the vector store, with
\* or without having had its effect; mark_ready after the upsert.
AttemptFails ==
    /\ step \in {"download", "chunk", "clear", "upsert"}
    /\ GiveBack
    /\ \/ UNCHANGED points
       \/ step = "clear" /\ points' = {}
       \/ step = "upsert" /\ points' = Written

\* The delivery comes back and the attempt begins anew on the same object.
Redeliver ==
    /\ step = "retryable"
    /\ failures <= DeliveryLimit
    /\ step' = "download"
    /\ UNCHANGED <<chunkVars, vectors, points, failures>>

\* It has come back too often: it goes to the dead-letter queue, which nobody consumes.
DeadLetter ==
    /\ step = "retryable"
    /\ failures > DeliveryLimit
    /\ step' = "dead"
    /\ UNCHANGED <<chunkVars, vectors, points, failures>>

Next ==
    \/ Download \/ Chunk \/ NoText \/ EmbedAnswered \/ Clear \/ Upsert
    \/ EmbedMalformed
    \/ \E r \in Refusals : EmbedRefused(r)
    \/ AttemptFails \/ Redeliver \/ DeadLetter

\* A worker that runs goes on; RabbitMQ delivers again what was not settled, or puts it
\* aside.
Fairness ==
    WF_vars(Download \/ Chunk \/ NoText \/ EmbedAnswered \/ Clear \/ Upsert \/ Redeliver \/ DeadLetter)

Spec == Init /\ [][Next]_vars
FairSpec == Spec /\ Fairness

------------------------------------------------------------------------------
(* Properties.                                                             *)

Points == [index : Nat, version : {"old", "new"}, chunk : Nat, vector : Nat]

\* The type invariant.
TypeOK ==
    /\ ChunkTypeOK
    /\ step \in {"download", "chunk", "clear", "upsert", "ok", "retryable", "orphaned", "dead",
                "fatal"}
    /\ vectors \in Seq(Nat)
    /\ points \subseteq Points
    /\ failures \in 0 .. DeliveryLimit + 1

\* After an attempt that wrote anything, the collection holds every chunk of
\* the text once, at its own place and with its own vector, and nothing of a
\* version before, whatever order the endpoint answered in, however long the
\* old version was and whatever earlier attempts left (ingest,
\* order_embeddings).
PointsAreWhole ==
    step = "ok" /\ chunks # <<>> =>
        points = {[index |-> i - 1, version |-> "new", chunk |-> i, vector |-> i] : i \in DOMAIN chunks}

\* The old points are not touched before every vector of the new ones is in
\* hand: a document whose embedding fails goes on answering (ingest clears
\* after embed_batch).
PointsChangeInHand == [][points' # points => Len(vectors) = Len(chunks) /\ chunks # <<>>]_vars

\* A document is never given up for a failure that is not its own: as long as
\* the endpoint takes inputs of a chunk's size, no answer of its ends the
\* attempt for good (is_fatal, with the bound merge_with_overlap keeps).
NeverCondemned == step # "fatal"

\* The recursion ends for any text, separators and sizes: every step of it goes on in
\* the text, which is finite, or does one of the finitely many things left to do where it
\* is (split_to_size, which calls itself on a part as long as the text it was given).
SplittingShrinks ==
    [][step' = step /\ stage = "split" /\ stage' = "split" =>
           /\ Front' \in Front .. Len(text) + 1
           /\ Rank' \in Nat
           /\ Front' = Front => Rank' < Rank]_vars

\* The recursion, the loops, the batches and the deliveries all come to an end, and the
\* document is indexed then, unless it has failed more often than the queue delivers an
\* event, or a failure of it was not recorded (handle, finish; claim_decision).
IndexedUnlessLost == <>(step = "ok" \/ step = "orphaned" \/ failures > DeliveryLimit)
=============================================================================

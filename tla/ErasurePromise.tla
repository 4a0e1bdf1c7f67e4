--------------------------- MODULE ErasurePromise ---------------------------
(***************************************************************************)
(* What bot_flow promises a tenant about one of its documents, with none   *)
(* of the stores, queues, leases or workers that keep the promise.         *)
(*                                                                         *)
(* A document is created once, may be searchable while it lives, may stay  *)
(* searchable for a while after its deletion was asked for (the deletion   *)
(* endpoint answers 202 and finishes later), and once it is erased no      *)
(* question is ever answered from it again.  An id is never used twice.    *)
(***************************************************************************)

CONSTANT Docs

VARIABLES
    life,       \* life[d]: "unborn", "live", "erasing" or "erased"
    searchable  \* the documents the vector store can answer from

promiseVars == <<life, searchable>>

PromiseInit ==
    /\ life = [d \in Docs |-> "unborn"]
    /\ searchable = {}

Create(d) ==
    /\ life[d] = "unborn"
    /\ life' = [life EXCEPT ![d] = "live"]
    /\ UNCHANGED searchable

RequestErasure(d) ==
    /\ life[d] = "live"
    /\ life' = [life EXCEPT ![d] = "erasing"]
    /\ UNCHANGED searchable

\* Indexing that had begun before the request may still land while it is pending.
BecomeSearchable(d) ==
    /\ life[d] \in {"live", "erasing"}
    /\ searchable' = searchable \cup {d}
    /\ UNCHANGED life

LoseIndex(d) ==
    /\ searchable' = searchable \ {d}
    /\ UNCHANGED life

\* The record goes last: it may only go once nothing can be answered from it.
CompleteErasure(d) ==
    /\ life[d] = "erasing"
    /\ d \notin searchable
    /\ life' = [life EXCEPT ![d] = "erased"]
    /\ UNCHANGED searchable

PromiseNext ==
    \E d \in Docs :
        \/ Create(d)
        \/ RequestErasure(d)
        \/ BecomeSearchable(d)
        \/ LoseIndex(d)
        \/ CompleteErasure(d)

PromiseSpec == PromiseInit /\ [][PromiseNext]_promiseVars

=============================================================================

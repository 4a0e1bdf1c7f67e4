------------------------------- MODULE Listing -------------------------------
(***************************************************************************)
(* GET /documents: a client pages through a tenant's documents, newest     *)
(* first, while documents are inserted, tombstoned and erased underneath   *)
(* it (api/src/handlers.rs, list_documents).  A page is one SELECT; what   *)
(* ties the pages of a walk together is the cursor, the (created_at, id)   *)
(* of the last row returned.                                               *)
(*                                                                         *)
(* One tenant: row-level security gives each its own table.                *)
(***************************************************************************)
EXTENDS Integers, FiniteSets, Sequences

CONSTANTS
    Docs,           \* document ids; uuids, as Postgres orders them
    Walkers,        \* clients that walk the listing once
    Limits,         \* values of ?limit= a client may send
    None,           \* ?limit= absent
    DefaultLimit,   \* DEFAULT_PAGE_LIMIT
    MaxPageLimit,   \* MAX_PAGE_LIMIT
    MaxClock,       \* bound: how often time advances
    SessionZone     \* the offset Postgres renders a timestamptz with

ASSUME DocsAssumption == Docs \subseteq Nat /\ IsFiniteSet(Docs) /\ None \notin Nat
ASSUME LimitAssumption ==
    /\ Limits \subseteq Nat \cup {None}
    /\ DefaultLimit \in 1 .. MaxPageLimit
    /\ MaxPageLimit \in Nat
    /\ MaxClock \in Nat
\* The database runs in UTC, which is what is_our_timestamp expects of it.
ASSUME ZoneAssumption == SessionZone \in {"", "Z", "+00", "+00:00", "-00", "-00:00"}

VARIABLES
    row,      \* row[d]: "unborn", "inserted" (not committed), "listed", "deleting", "gone"
    stamp,    \* stamp[d]: created_at
    clock,    \* now()
    cursor,   \* cursor[w]: the next_cursor last returned; {} where it is null or absent
    pages,    \* pages[w]: the sets of documents returned, page by page
    whole     \* history: documents the tenant had at every moment of w's walk

vars == <<row, stamp, clock, cursor, pages, whole>>
tableVars == <<row, stamp, clock>>

------------------------------------------------------------------------------
(* Cursors.                                                                *)

\* A position of the ordering.
Position(d) == [at |-> stamp[d], id |-> d]

\* (p.created_at, p.id) < (q.created_at, q.id), the row-value comparison.
Below(p, q) == p.at < q.at \/ (p.at = q.at /\ p.id < q.id)

\* created_at::text: a blank between date and time, as many fractional
\* digits as are needed, the session's offset.
Rendered(t) == [instant |-> t, between |-> " ", fraction |-> t % 7, zone |-> SessionZone]

\* Mutant: the blank between date and time is left in the token.
EncodeCursor_WithBlank(d) == [ts |-> Rendered(stamp[d]), id |-> d]

EncodeCursor(d) == [ts |-> [Rendered(stamp[d]) EXCEPT !.between = "T"], id |-> d]

\* Mutant: a timestamp on a whole second, which Postgres prints without
\* fraction, is not recognised.
IsOurTimestamp_WithFraction(ts) == ts.between = "T" /\ ts.fraction \in 1 .. 6

IsOurTimestamp(ts) ==
    /\ ts.between = "T"
    /\ ts.fraction \in 0 .. 6
    /\ ts.zone \in {"", "Z", "+00", "+00:00", "-00", "-00:00"}

\* What comes back is the instant that was rendered: Postgres prints all it
\* stores.  A token of another shape is a 422.
Accepts(raw) == IsOurTimestamp(raw.ts)
ParseCursor(raw) == [at |-> raw.ts.instant, id |-> raw.id]

------------------------------------------------------------------------------
(* Pages.                                                                  *)

Listed == {d \in Docs : row[d] = "listed"}

CheckedPageLimit(l) == IF l = None THEN DefaultLimit ELSE l
LimitIsValid(l) == CheckedPageLimit(l) \in 1 .. MaxPageLimit

\* Mutants: the cursor without its id half, exclusive and inclusive.
Matching_ByTimestamp(w) ==
    {d \in Listed : \A c \in cursor[w] : Position(d).at < ParseCursor(c).at}
Matching_FromTimestamp(w) ==
    {d \in Listed : \A c \in cursor[w] : Position(d).at <= ParseCursor(c).at}

\* status <> 'deleting' AND ($1 IS NULL OR (created_at, id) < ($1, $2))
Matching(w) ==
    {d \in Listed : \A c \in cursor[w] : Below(Position(d), ParseCursor(c))}

\* ORDER BY created_at DESC, id DESC, cut after n rows.
Newest(S, n) == {d \in S : Cardinality({e \in S : Below(Position(d), Position(e))}) < n}

IsLast(d, page) == d \in page /\ \A e \in page : e = d \/ Below(Position(d), Position(e))

Begun(w) == pages[w] # <<>>
Ended(w) == Begun(w) /\ cursor[w] = {}
Seen(w) == UNION {pages[w][i] : i \in DOMAIN pages[w]}

------------------------------------------------------------------------------
Init ==
    /\ row \in [Docs -> {"unborn", "listed"}]
    /\ stamp = [d \in Docs |-> 0]
    /\ clock = 0
    /\ cursor = [w \in Walkers |-> {}]
    /\ pages = [w \in Walkers |-> <<>>]
    /\ whole = [w \in Walkers |-> {}]

Tick ==
    /\ clock < MaxClock
    /\ clock' = clock + 1
    /\ UNCHANGED <<row, stamp, cursor, pages, whole>>

\* created_at is the start of the inserting transaction, not its commit.
BeginInsert(d) ==
    /\ row[d] = "unborn"
    /\ row' = [row EXCEPT ![d] = "inserted"]
    /\ stamp' = [stamp EXCEPT ![d] = clock]
    /\ UNCHANGED <<clock, cursor, pages, whole>>

CommitInsert(d) ==
    /\ row[d] = "inserted"
    /\ row' = [row EXCEPT ![d] = "listed"]
    /\ UNCHANGED <<stamp, clock, cursor, pages, whole>>

\* The row leaves the listing: tombstoned, or erased with its tenant.
Leave(d) ==
    /\ row[d] = "listed"
    /\ \E s \in {"deleting", "gone"} : row' = [row EXCEPT ![d] = s]
    /\ whole' = [w \in Walkers |-> whole[w] \ {d}]
    /\ UNCHANGED <<stamp, clock, cursor, pages>>

\* A tombstone is erased, or written over by mark_quarantined.
LeaveTombstone(d) ==
    /\ row[d] = "deleting"
    /\ \E s \in {"listed", "gone"} : row' = [row EXCEPT ![d] = s]
    /\ UNCHANGED <<stamp, clock, cursor, pages, whole>>

\* One request: the SELECT with LIMIT n + 1, which returns more than n rows
\* exactly when more than n match; the page without the probe row; and the
\* cursor of the last row returned.
ListDocuments(w, l) ==
    /\ ~Ended(w)
    /\ LimitIsValid(l)
    /\ \A c \in cursor[w] : Accepts(c)
    /\ LET n == CheckedPageLimit(l)
           page == Newest(Matching(w), n)
       IN /\ pages' = [pages EXCEPT ![w] = Append(@, page)]
          /\ \/ /\ Cardinality(Matching(w)) > n
                /\ \E last \in page :
                      /\ IsLast(last, page)
                      /\ cursor' = [cursor EXCEPT ![w] = {EncodeCursor(last)}]
             \/ /\ Cardinality(Matching(w)) <= n
                /\ cursor' = [cursor EXCEPT ![w] = {}]
    /\ whole' = [whole EXCEPT ![w] = IF Begun(w) THEN @ ELSE Listed]
    /\ UNCHANGED tableVars

Next ==
    \/ Tick
    \/ \E d \in Docs : BeginInsert(d) \/ CommitInsert(d) \/ Leave(d) \/ LeaveTombstone(d)
    \/ \E w \in Walkers, l \in Limits : ListDocuments(w, l)

\* A client that walks goes on to the last page.
Fairness == \A w \in Walkers : WF_vars(\E l \in Limits : ListDocuments(w, l))

Spec == Init /\ [][Next]_vars
FairSpec == Spec /\ Fairness

------------------------------------------------------------------------------
(* Properties.                                                             *)

Instants == 0 .. MaxClock
Tokens == [ts : [instant : Instants, between : {"T"}, fraction : 0 .. 6, zone : {SessionZone}],
           id : Docs]

\* The type invariant.
TypeOK ==
    /\ row \in [Docs -> {"unborn", "inserted", "listed", "deleting", "gone"}]
    /\ stamp \in [Docs -> Instants]
    /\ clock \in Instants
    /\ cursor \in [Walkers -> SUBSET Tokens]
    /\ pages \in [Walkers -> Seq(SUBSET Docs)]
    /\ whole \in [Walkers -> SUBSET Docs]

\* Every row of a page is older than every row of the pages before it, ties
\* of created_at included, whatever was inserted, deleted or resurfaced in
\* between: so no document is listed twice in a walk, and the order is the
\* promised one across pages (list_documents, the keyset predicate).
PagesDescend ==
    \A w \in Walkers : \A i, j \in DOMAIN pages[w] :
        i < j => \A d \in pages[w][i], e \in pages[w][j] : Below(Position(e), Position(d))

\* When next_cursor is null, every document the tenant had throughout the
\* walk was on some page, however the rows around the boundaries came and
\* went, the row the cursor was cut from included.
NothingSkipped ==
    \A w \in Walkers : Ended(w) => whole[w] \subseteq Seen(w)

\* A walk that is followed comes to its last page although documents are
\* inserted meanwhile, and no cursor the API minted is refused by the API
\* (encode_cursor against parse_cursor and is_our_timestamp).
WalkEnds == \A w \in Walkers : <>Ended(w)
=============================================================================

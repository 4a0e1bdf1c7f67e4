---------------------------- MODULE ListingProofs ----------------------------
(***************************************************************************)
(* Proofs about Listing, for any number of documents, clients and page     *)
(* sizes: its type correctness, that a walk lists no document twice and in *)
(* order, and that it skips none that was there throughout.                *)
(***************************************************************************)
EXTENDS Listing, FiniteSetTheorems, TLAPS

\* What has been listed or must be listed has been committed, so its
\* created_at no longer changes.
Settled ==
    /\ \A w \in Walkers : \A d \in Seen(w) : row[d] \notin {"unborn", "inserted"}
    /\ \A w \in Walkers : whole[w] \subseteq Listed

\* What was listed does not lie below the cursor.
SeenIsAbove ==
    \A w \in Walkers : \A c \in cursor[w], d \in Seen(w) : ~Below(Position(d), ParseCursor(c))

\* What must be listed was, or lies below the cursor.
RestIsBelow ==
    \A w \in Walkers : \A d \in whole[w] :
        \/ d \in Seen(w)
        \/ cursor[w] # {} /\ \A c \in cursor[w] : Below(Position(d), ParseCursor(c))

FreshIsEmpty == \A w \in Walkers : ~Begun(w) => cursor[w] = {} /\ whole[w] = {}

IInv == TypeOK /\ Settled /\ SeenIsAbove /\ RestIsBelow /\ FreshIsEmpty /\ PagesDescend

------------------------------------------------------------------------------
(* The order.                                                              *)

LEMMA OrderIsStrict ==
    ASSUME TypeOK, NEW d \in Docs
    PROVE  ~Below(Position(d), Position(d))
BY DocsAssumption, LimitAssumption DEF TypeOK, Below, Position, Instants

LEMMA OrderIsTotal ==
    ASSUME TypeOK, NEW d \in Docs, NEW e \in Docs, d # e
    PROVE  Below(Position(d), Position(e)) \/ Below(Position(e), Position(d))
BY DocsAssumption, LimitAssumption DEF TypeOK, Below, Position, Instants

LEMMA OrderIsTransitive ==
    ASSUME TypeOK, NEW d \in Docs, NEW e \in Docs, NEW f \in Docs,
           Below(Position(d), Position(e)), Below(Position(e), Position(f))
    PROVE  Below(Position(d), Position(f))
BY DocsAssumption, LimitAssumption DEF TypeOK, Below, Position, Instants

\* Whatever is below a cursor is below everything that is not.
LEMMA CursorSeparates ==
    ASSUME TypeOK, NEW c \in Tokens, NEW d \in Docs, NEW e \in Docs,
           ~Below(Position(d), ParseCursor(c)), Below(Position(e), ParseCursor(c))
    PROVE  Below(Position(e), Position(d))
<1>1. ParseCursor(c).at \in Int /\ ParseCursor(c).id \in Int
    <2>1. c.ts.instant \in Instants /\ c.id \in Docs
        BY DEF Tokens
    <2>2. c.ts.instant \in Int
        BY <2>1, LimitAssumption DEF Instants
    <2>3. c.id \in Int
        <3>1. \A x \in Docs : x \in Int
            BY DocsAssumption
        <3> QED BY <2>1, <3>1, Zenon
    <2> QED BY <2>2, <2>3 DEF ParseCursor
<1>2. /\ Position(d).at \in Int /\ Position(d).id \in Int
      /\ Position(e).at \in Int /\ Position(e).id \in Int
    BY DocsAssumption, LimitAssumption DEF TypeOK, Position, Instants
<1> QED BY <1>1, <1>2 DEF Below

\* A cursor is read back as the position it was minted from.
LEMMA CursorRoundTrip ==
    ASSUME NEW d \in Docs
    PROVE  ParseCursor(EncodeCursor(d)) = Position(d)
BY DEF ParseCursor, EncodeCursor, Rendered, Position

LEMMA CursorType ==
    ASSUME TypeOK, NEW d \in Docs
    PROVE  EncodeCursor(d) \in Tokens
<1>1. stamp[d] \in Instants /\ stamp[d] % 7 \in 0 .. 6
    BY LimitAssumption DEF TypeOK, Instants
<1> QED BY <1>1 DEF EncodeCursor, Rendered, Tokens

\* The rows that match are finitely many documents.
LEMMA MatchingIsFinite ==
    ASSUME NEW w \in Walkers
    PROVE  Matching(w) \subseteq Docs /\ IsFiniteSet(Matching(w))
<1>1. Matching(w) \subseteq Docs
    BY DEF Matching, Listed
<1> QED BY <1>1, DocsAssumption, FS_Subset

------------------------------------------------------------------------------
(* A page.                                                                 *)

Above(S, d) == {e \in S : Below(Position(d), Position(e))}

LEMMA AboveIsFinite ==
    ASSUME NEW S, IsFiniteSet(S), NEW d
    PROVE  IsFiniteSet(Above(S, d)) /\ Cardinality(Above(S, d)) \in Nat
<1>1. Above(S, d) \subseteq S
    BY DEF Above
<1> QED BY <1>1, FS_Subset, FS_CardinalityType

\* A last page is everything that matches.
LEMMA LastPageIsAll ==
    ASSUME TypeOK, NEW S \in SUBSET Docs, IsFiniteSet(S), NEW n \in Nat,
           Cardinality(S) <= n
    PROVE  Newest(S, n) = S
<1>1. ASSUME NEW d \in S PROVE Cardinality(Above(S, d)) < n
    <2>1. Above(S, d) \subseteq S /\ d \notin Above(S, d)
        BY OrderIsStrict DEF Above
    <2>2. Above(S, d) # S
        BY <2>1
    <2>3. /\ Cardinality(S) \in Nat /\ Cardinality(Above(S, d)) \in Nat
          /\ Cardinality(Above(S, d)) < Cardinality(S)
        BY <2>1, <2>2, FS_Subset, FS_CardinalityType
    <2> QED BY <2>3
<1> QED BY <1>1 DEF Newest, Above

\* What matches and did not fit on the page is below the page's last row.
LEMMA RestIsBelowLast ==
    ASSUME TypeOK, NEW S \in SUBSET Docs, IsFiniteSet(S), NEW n \in Nat,
           NEW last \in Newest(S, n), NEW d \in S, d \notin Newest(S, n)
    PROVE  Below(Position(d), Position(last))
<1>1. last \in S /\ last \in Docs /\ d \in Docs /\ d # last
    BY DEF Newest
<1>2. SUFFICES ASSUME Below(Position(last), Position(d)) PROVE FALSE
    BY <1>1, OrderIsTotal
<1>3. Above(S, d) \subseteq Above(S, last)
    BY <1>1, <1>2, OrderIsTransitive DEF Above
<1>4. /\ Cardinality(Above(S, d)) \in Nat /\ Cardinality(Above(S, last)) \in Nat
      /\ Cardinality(Above(S, d)) <= Cardinality(Above(S, last))
    BY <1>3, AboveIsFinite, FS_Subset
<1>5. Cardinality(Above(S, last)) < n /\ ~(Cardinality(Above(S, d)) < n)
    BY DEF Newest, Above
<1> QED BY <1>4, <1>5

------------------------------------------------------------------------------
LEMMA InitEstablishes == Init => IInv
<1> SUFFICES ASSUME Init PROVE IInv
    OBVIOUS
<1>1. TypeOK
    BY LimitAssumption DEF Init, TypeOK, Instants
<1>2. \A w \in Walkers : Seen(w) = {} /\ ~Begun(w) /\ cursor[w] = {} /\ whole[w] = {}
    BY DEF Init, Seen, Begun
<1>3. PagesDescend
    BY DEF Init, PagesDescend
<1> QED BY <1>1, <1>2, <1>3 DEF IInv, Settled, SeenIsAbove, RestIsBelow, FreshIsEmpty

\* What keeps the walks as they are, takes no document that is listed out of
\* the listing unless it leaves every whole, and stamps only unborn rows.
LEMMA TableStep ==
    ASSUME IInv, TypeOK',
           UNCHANGED <<cursor, pages>>,
           \A w \in Walkers : whole'[w] \subseteq whole[w] /\ whole'[w] \subseteq Listed',
           \A d \in Docs : row[d] \notin {"unborn", "inserted"} =>
                               row'[d] \notin {"unborn", "inserted"} /\ stamp'[d] = stamp[d]
    PROVE  IInv'
<1>1. \A w \in Walkers : Seen(w)' = Seen(w) /\ Begun(w)' = Begun(w) /\ Seen(w) \subseteq Docs
    BY DEF Seen, Begun, IInv, TypeOK
<1>2. \A w \in Walkers : \A d \in Seen(w) :
          row[d] \notin {"unborn", "inserted"} /\ Position(d)' = Position(d)
    BY <1>1 DEF IInv, Settled, Position
<1>3. \A w \in Walkers : \A d \in whole[w] : d \in Docs /\ Position(d)' = Position(d)
    BY DEF IInv, Settled, Listed, Position
<1>4. Settled'
    BY <1>1, <1>2 DEF Settled
<1>5. SeenIsAbove'
    BY <1>1, <1>2 DEF IInv, SeenIsAbove, ParseCursor
<1>6. RestIsBelow'
    BY <1>1, <1>3 DEF IInv, RestIsBelow, ParseCursor
<1>7. FreshIsEmpty'
    BY <1>1 DEF IInv, FreshIsEmpty
<1>8. PagesDescend'
    <2>1. SUFFICES ASSUME NEW w \in Walkers, NEW i \in DOMAIN pages[w], NEW j \in DOMAIN pages[w],
                          i < j, NEW d \in pages[w][i], NEW e \in pages[w][j]
                   PROVE  Below(Position(e), Position(d))'
        BY DEF PagesDescend
    <2>2. d \in Seen(w) /\ e \in Seen(w)
        BY DEF Seen
    <2>3. Below(Position(e), Position(d))
        BY <2>1 DEF IInv, PagesDescend
    <2> QED BY <1>2, <2>2, <2>3 DEF Below
<1> QED BY <1>4, <1>5, <1>6, <1>7, <1>8 DEF IInv

LEMMA PageStep ==
    ASSUME IInv, NEW w \in Walkers, NEW l \in Limits, ListDocuments(w, l)
    PROVE  IInv'
<1> DEFINE n == CheckedPageLimit(l)
           page == Newest(Matching(w), n)
<1>1. TypeOK
    BY DEF IInv
<1>2. n \in Nat /\ n >= 1
    BY LimitAssumption DEF ListDocuments, LimitIsValid
<1>3. page \subseteq Matching(w) /\ Matching(w) \subseteq Listed /\ Listed \subseteq Docs
      /\ IsFiniteSet(Matching(w))
    BY MatchingIsFinite DEF Newest, Matching, Listed
<1>4. UNCHANGED <<row, stamp, clock>> /\ Listed' = Listed
      /\ \A d \in Docs : Position(d)' = Position(d)
    BY DEF ListDocuments, tableVars, Listed, Position
<1>5. pages' = [pages EXCEPT ![w] = Append(pages[w], page)]
    BY DEF ListDocuments
<1>6. pages[w] \in Seq(SUBSET Docs) /\ page \in SUBSET Docs
    BY <1>1, <1>3 DEF TypeOK
<1>7. /\ Len(pages'[w]) = Len(pages[w]) + 1
      /\ Len(pages[w]) \in Nat
      /\ pages'[w][Len(pages[w]) + 1] = page
      /\ \A i \in 1 .. Len(pages[w]) : pages'[w][i] = pages[w][i]
      /\ DOMAIN pages'[w] = 1 .. Len(pages[w]) + 1
      /\ DOMAIN pages[w] = 1 .. Len(pages[w])
      /\ pages'[w] \in Seq(SUBSET Docs)
    BY <1>1, <1>5, <1>6 DEF TypeOK
<1>8. \A v \in Walkers : v # w =>
          pages'[v] = pages[v] /\ cursor'[v] = cursor[v] /\ whole'[v] = whole[v]
    BY <1>1 DEF ListDocuments, TypeOK
<1>9. Seen(w)' = Seen(w) \cup page
    BY <1>7 DEF Seen
<1>10. \A v \in Walkers : Seen(v) \subseteq Docs /\ (v # w => Seen(v)' = Seen(v) /\ Begun(v)' = Begun(v))
    BY <1>1, <1>8 DEF Seen, Begun, TypeOK
<1>11. Begun(w)'
    BY <1>7 DEF Begun
<1>12. /\ whole'[w] = IF Begun(w) THEN whole[w] ELSE Listed
       /\ whole' \in [Walkers -> SUBSET Docs]
    BY <1>1, <1>3 DEF ListDocuments, TypeOK
<1>13. \/ /\ Cardinality(Matching(w)) <= n /\ cursor'[w] = {}
          /\ cursor' \in [Walkers -> SUBSET Tokens]
       \/ \E last \in page : /\ IsLast(last, page) /\ cursor'[w] = {EncodeCursor(last)}
                             /\ cursor' \in [Walkers -> SUBSET Tokens]
    <2>1. \A last \in page : EncodeCursor(last) \in Tokens
        BY <1>1, <1>3, CursorType
    <2> QED BY <1>1, <2>1 DEF ListDocuments, TypeOK
<1>14. TypeOK'
    <2>1. pages' \in [Walkers -> Seq(SUBSET Docs)]
        BY <1>1, <1>5, <1>7, <1>8 DEF TypeOK
    <2> QED BY <1>1, <1>4, <1>12, <1>13, <2>1 DEF TypeOK
<1>15. \A d \in page : row[d] = "listed"
    BY <1>3 DEF Listed
<1>16. Settled'
    <2>1. \A v \in Walkers : \A d \in Seen(v)' : row'[d] \notin {"unborn", "inserted"}
        BY <1>4, <1>9, <1>10, <1>15 DEF IInv, Settled
    <2>2. \A v \in Walkers : whole'[v] \subseteq Listed'
        BY <1>4, <1>8, <1>12 DEF IInv, Settled
    <2> QED BY <2>1, <2>2 DEF Settled
<1>17. \A d \in Seen(w), e \in page : Begun(w) => Below(Position(e), Position(d))
    <2>1. SUFFICES ASSUME NEW d \in Seen(w), NEW e \in page, Begun(w)
                   PROVE  Below(Position(e), Position(d))
        OBVIOUS
    <2>2. PICK c \in cursor[w] : TRUE
        BY <2>1 DEF ListDocuments, Ended
    <2>3. c \in Tokens /\ d \in Docs /\ e \in Docs
        BY <1>1, <1>3, <1>10 DEF TypeOK
    <2>4. ~Below(Position(d), ParseCursor(c)) /\ Below(Position(e), ParseCursor(c))
        BY <1>3 DEF IInv, SeenIsAbove, Matching
    <2> QED BY <1>1, <2>3, <2>4, CursorSeparates
<1>18. PagesDescend'
    <2>1. SUFFICES ASSUME NEW v \in Walkers, NEW i \in DOMAIN pages'[v], NEW j \in DOMAIN pages'[v],
                          i < j, NEW d \in pages'[v][i], NEW e \in pages'[v][j]
                   PROVE  Below(Position(e), Position(d))'
        BY DEF PagesDescend
    <2>2. CASE v # w
        <3>1. Below(Position(e), Position(d)) /\ d \in Docs /\ e \in Docs
            BY <1>1, <1>8, <2>1, <2>2 DEF IInv, PagesDescend, TypeOK
        <3> QED BY <1>4, <3>1 DEF Below
    <2>3. CASE v = w /\ j \in DOMAIN pages[w]
        <3>1. /\ i \in DOMAIN pages[w] /\ d \in pages[w][i]
              /\ j \in DOMAIN pages[w] /\ e \in pages[w][j]
            BY <1>7, <2>1, <2>3
        <3>2. Below(Position(e), Position(d))
            BY <2>1, <3>1 DEF IInv, PagesDescend
        <3>3. d \in Docs /\ e \in Docs
            BY <1>10, <3>1 DEF Seen
        <3> QED BY <1>4, <3>2, <3>3 DEF Below
    <2>4. CASE v = w /\ j \notin DOMAIN pages[w]
        <3>1. j = Len(pages[w]) + 1 /\ i \in DOMAIN pages[w] /\ d \in pages[w][i] /\ e \in page
            BY <1>7, <2>1, <2>4
        <3>2. d \in Seen(w) /\ Begun(w)
            BY <3>1, <1>6 DEF Seen, Begun
        <3>3. Below(Position(e), Position(d)) /\ d \in Docs /\ e \in Docs
            BY <1>3, <1>10, <1>17, <3>1, <3>2
        <3> QED BY <1>4, <3>3 DEF Below
    <2> QED BY <2>2, <2>3, <2>4
<1>19. FreshIsEmpty'
    BY <1>8, <1>10, <1>11 DEF IInv, FreshIsEmpty
<1>20. SeenIsAbove'
    <2>1. SUFFICES ASSUME NEW v \in Walkers, NEW c \in cursor'[v], NEW d \in Seen(v)'
                   PROVE  ~Below(Position(d)', ParseCursor(c))
        BY DEF SeenIsAbove, Below, ParseCursor
    <2>2. CASE v # w
        <3>1. c \in cursor[v] /\ d \in Seen(v) /\ d \in Docs
            BY <1>8, <1>10, <2>1, <2>2
        <3> QED BY <1>4, <3>1 DEF IInv, SeenIsAbove
    <2>3. CASE v = w
        <3>1. PICK last \in page : IsLast(last, page) /\ c = EncodeCursor(last)
            BY <1>13, <2>1, <2>3
        <3>2. ParseCursor(c) = Position(last) /\ last \in Docs
            BY <1>3, <3>1, CursorRoundTrip
        <3>3. d \in Docs /\ (d = last \/ Below(Position(last), Position(d)))
            <4>1. CASE d \in page
                BY <1>3, <3>1, <4>1 DEF IsLast
            <4>2. CASE d \in Seen(w)
                <5>1. Begun(w)
                    BY <4>2, <1>6 DEF Seen, Begun
                <5> QED BY <1>10, <1>17, <4>2, <5>1
            <4> QED BY <1>9, <2>1, <2>3, <4>1, <4>2
        <3>4. ~Below(Position(d), Position(last))
            BY <1>1, <3>2, <3>3, OrderIsStrict, OrderIsTransitive
        <3> QED BY <1>4, <3>2, <3>3, <3>4
    <2> QED BY <2>2, <2>3
<1>21. RestIsBelow'
    <2>1. SUFFICES ASSUME NEW v \in Walkers, NEW d \in whole'[v], d \notin Seen(v)'
                   PROVE  /\ cursor'[v] # {}
                          /\ \A c \in cursor'[v] : Below(Position(d)', ParseCursor(c))
        BY DEF RestIsBelow, Below, ParseCursor
    <2>2. CASE v # w
        <3>1. d \in whole[v] /\ d \notin Seen(v) /\ d \in Docs /\ cursor'[v] = cursor[v]
            BY <1>1, <1>8, <1>10, <2>1, <2>2 DEF TypeOK
        <3> QED BY <1>4, <3>1 DEF IInv, RestIsBelow
    <2>3. CASE v = w
        <3>1. d \in Docs /\ d \in Listed
            BY <1>3, <1>12, <2>1, <2>3 DEF IInv, Settled
        <3>2. d \in Matching(w) /\ d \notin page
            <4>1. d \notin Seen(w) /\ d \notin page
                BY <1>9, <2>1, <2>3
            <4>2. CASE Begun(w)
                BY <1>12, <2>1, <2>3, <3>1, <4>1, <4>2 DEF IInv, RestIsBelow, Matching
            <4>3. CASE ~Begun(w)
                BY <3>1, <4>1, <4>3 DEF IInv, FreshIsEmpty, Matching
            <4> QED BY <4>1, <4>2, <4>3
        <3>3. ~(Cardinality(Matching(w)) <= n)
            <4>1. SUFFICES ASSUME Cardinality(Matching(w)) <= n PROVE FALSE
                OBVIOUS
            <4>2. page = Matching(w)
                BY <1>1, <1>2, <1>3, <4>1, LastPageIsAll
            <4> QED BY <3>2, <4>2
        <3>4. PICK last \in page : cursor'[w] = {EncodeCursor(last)}
            BY <1>13, <3>3
        <3>5. ParseCursor(EncodeCursor(last)) = Position(last) /\ last \in Docs
            BY <1>3, CursorRoundTrip
        <3>6. Below(Position(d), Position(last))
            BY <1>1, <1>2, <1>3, <3>2, RestIsBelowLast
        <3> QED BY <1>4, <2>3, <3>1, <3>4, <3>5, <3>6
    <2> QED BY <2>2, <2>3
<1> QED BY <1>14, <1>16, <1>18, <1>19, <1>20, <1>21 DEF IInv

LEMMA NextPreserves == IInv /\ [Next]_vars => IInv'
<1> SUFFICES ASSUME IInv, [Next]_vars PROVE IInv'
    OBVIOUS
<1>0. TypeOK /\ Settled
    BY DEF IInv
<1>1. CASE Tick
    <2>1. TypeOK'
        BY <1>0, <1>1, LimitAssumption DEF Tick, TypeOK, Instants
    <2> QED BY <1>0, <1>1, <2>1, TableStep DEF Tick, Settled, Listed
<1>2. ASSUME NEW d \in Docs, BeginInsert(d) PROVE IInv'
    <2>1. TypeOK'
        BY <1>0, <1>2 DEF BeginInsert, TypeOK
    <2>2. Listed \subseteq Listed'
        BY <1>0, <1>2 DEF BeginInsert, TypeOK, Listed
    <2> QED BY <1>0, <1>2, <2>1, <2>2, TableStep DEF BeginInsert, Settled, TypeOK
<1>3. ASSUME NEW d \in Docs, CommitInsert(d) PROVE IInv'
    <2>1. TypeOK'
        BY <1>0, <1>3 DEF CommitInsert, TypeOK
    <2>2. Listed \subseteq Listed'
        BY <1>0, <1>3 DEF CommitInsert, TypeOK, Listed
    <2> QED BY <1>0, <1>3, <2>1, <2>2, TableStep DEF CommitInsert, Settled, TypeOK
<1>4. ASSUME NEW d \in Docs, Leave(d) PROVE IInv'
    <2>1. TypeOK'
        BY <1>0, <1>4 DEF Leave, TypeOK
    <2>2. Listed \ {d} \subseteq Listed'
        BY <1>0, <1>4 DEF Leave, TypeOK, Listed
    <2> QED BY <1>0, <1>4, <2>1, <2>2, TableStep DEF Leave, Settled, TypeOK
<1>5. ASSUME NEW d \in Docs, LeaveTombstone(d) PROVE IInv'
    <2>1. TypeOK'
        BY <1>0, <1>5 DEF LeaveTombstone, TypeOK
    <2>2. Listed \subseteq Listed'
        BY <1>0, <1>5 DEF LeaveTombstone, TypeOK, Listed
    <2> QED BY <1>0, <1>5, <2>1, <2>2, TableStep DEF LeaveTombstone, Settled, TypeOK
<1>6. ASSUME NEW w \in Walkers, NEW l \in Limits, ListDocuments(w, l) PROVE IInv'
    BY <1>6, PageStep
<1>7. CASE UNCHANGED vars
    <2>1. TypeOK'
        BY <1>0, <1>7 DEF vars, TypeOK
    <2> QED BY <1>0, <1>7, <2>1, TableStep DEF vars, Settled, Listed
<1> QED BY <1>1, <1>2, <1>3, <1>4, <1>5, <1>6, <1>7 DEF Next

\* A walk lists a document once and in order, whatever happens between its
\* pages, and everything has the type it should.
THEOREM ListingInvariant == Spec => []IInv
<1>1. Init => IInv
    BY InitEstablishes
<1>2. IInv /\ [Next]_vars => IInv'
    BY NextPreserves
<1> QED BY <1>1, <1>2, PTL DEF Spec

(* Every variable of Listing keeps its type: what the handler mints as a   *)
(* cursor it recognises as one (encode_cursor, is_our_timestamp).          *)
THEOREM ListingTypeCorrect == Spec => []TypeOK
<1>1. IInv => TypeOK
    BY DEF IInv
<1> QED BY <1>1, ListingInvariant, PTL

\* No document is listed twice in a walk, and pages descend.
THEOREM PagesDescendHolds == Spec => []PagesDescend
<1>1. IInv => PagesDescend
    BY DEF IInv
<1> QED BY <1>1, ListingInvariant, PTL

\* No document that was there throughout a walk is missing from it.
THEOREM NothingSkippedHolds == Spec => []NothingSkipped
<1>1. IInv => NothingSkipped
    BY DEF IInv, RestIsBelow, NothingSkipped, Ended
<1> QED BY <1>1, ListingInvariant, PTL
=============================================================================

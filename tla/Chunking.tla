------------------------------- MODULE Chunking -------------------------------
(***************************************************************************)
(* How the text of a document becomes chunks (common/src/chunk.rs):        *)
(* split_to_size cuts it at the coarsest separators that make the pieces   *)
(* fit, merge_with_overlap packs the pieces into chunks that share their   *)
(* seams, and chunk_with_spans looks each chunk up in the text again.      *)
(*                                                                         *)
(* The recursion is a stack of tasks and each loop takes one step per      *)
(* round.  A piece is the span of the text it was cut from, a chunk the    *)
(* range of pieces it concatenates.  Positions count from 1.               *)
(***************************************************************************)
EXTENDS Integers, Sequences, FiniteSetsExt

CONSTANTS
    Chars,        \* characters
    Blanks,       \* the ones trim() removes
    Separators,   \* SEPARATORS, from the coarsest to the finest
    Texts,        \* parsed documents
    ChunkSize,    \* CHUNK_SIZE
    Overlap       \* CHUNK_OVERLAP

ASSUME TextAssumption == Blanks \subseteq Chars /\ Texts \subseteq Seq(Chars)
ASSUME SeparatorAssumption == Separators \in Seq(Seq(Chars) \ {<<>>})
ASSUME SizeAssumption == ChunkSize \in Nat \ {0} /\ Overlap \in Nat

VARIABLES
    text,      \* the parsed document
    stage,     \* "split", "merge", "locate", "chunked"
    work,      \* the calls of split_to_size under way, innermost first
    pieces,    \* its result so far
    first,     \* current: the pieces first .. next - 1
    next,      \* the piece to be packed next
    chunks,    \* chunks packed so far
    spans      \* char_start and char_end of the chunks located so far

chunkVars == <<text, stage, work, pieces, first, next, chunks, spans>>

------------------------------------------------------------------------------
(* Spans.                                                                  *)

Width(s) == s.to - s.from + 1
IsBlank(s) == \A i \in s.from .. s.to : text[i] \in Blanks

\* A task of the recursion: "text" is a call of split_to_size, "parts" its
\* loop over the parts that are left.
Task(kind, level, from, to) == [kind |-> kind, level |-> level, from |-> from, to |-> to]

\* Where the separator of the task's level occurs in what it has left.
Cuts(t) ==
    LET sep == Separators[t.level]
    IN {p \in t.from .. t.to : p + Len(sep) - 1 <= t.to
                               /\ SubSeq(text, p, p + Len(sep) - 1) = sep}

\* text.split(sep): the next part ends with the separator that comes first.
PartEnds(t, end) ==
    \/ Cuts(t) = {} /\ end = t.to
    \/ \E p \in Cuts(t) : (\A q \in Cuts(t) : p <= q) /\ end = p + Len(Separators[t.level]) - 1
Rest(t, end) == IF Cuts(t) = {} THEN <<>> ELSE <<Task("parts", t.level, end + 1, t.to)>>

\* The characters of the first k - 1 pieces.
Before(k) == IF k = 1 THEN 0 ELSE pieces[k - 1].upto

AppendPiece(from, to) ==
    Append(pieces, [from |-> from, to |-> to,
                    upto |-> Before(Len(pieces) + 1) + (to - from + 1)])

ChunkWidth(c) == Before(c.last + 1) - Before(c.first)
ChunkIsBlank(c) == \A k \in c.first .. c.last : IsBlank(pieces[k])

Trim(s) ==
    LET solid == {i \in DOMAIN s : s[i] \notin Blanks}
    IN IF solid = {} THEN <<>> ELSE SubSeq(s, Min(solid), Max(solid))

\* current.concat(): the character at offset p of all pieces taken together is in the
\* piece that begins before it and does not end before it.
CharAt(p, k) == text[pieces[k].from + (p - Before(k)) - 1]
Holds(k, p) == Before(k) < p /\ p <= Before(k + 1)

Concat(c) ==
    [j \in 1 .. ChunkWidth(c) |->
        LET p == Before(c.first) + j IN CharAt(p, CHOOSE k \in c.first .. c.last : Holds(k, p))]

ChunkText(c) == Trim(Concat(c))

------------------------------------------------------------------------------
(* split_to_size.                                                          *)

\* text.trim().is_empty() ends it at once.
FirstCall(t) == IF \A i \in DOMAIN t : t[i] \in Blanks THEN <<>> ELSE <<Task("text", 1, 1, Len(t))>>

ChunkInit ==
    /\ text \in Texts
    /\ stage = "split"
    /\ work = FirstCall(text)
    /\ pieces = <<>>
    /\ first = 1
    /\ next = 1
    /\ chunks = <<>>
    /\ spans = <<>>

\* The head of the stack, a call (or a loop) of split_to_size.
Splitting(kind) == stage = "split" /\ work # <<>> /\ Head(work).kind = kind
splitRest == <<text, stage, first, next, chunks, spans>>

\* It fits.
TakeWhole ==
    LET t == Head(work)
    IN /\ Splitting("text")
       /\ Width(t) <= ChunkSize
       /\ pieces' = AppendPiece(t.from, t.to)
       /\ work' = Tail(work)
       /\ UNCHANGED splitRest

\* Mutant: only the first window of an oversized word is kept.
HardCut_FirstOnly ==
    LET t == Head(work)
    IN /\ Splitting("text")
       /\ Width(t) > ChunkSize
       /\ t.level > Len(Separators)
       /\ pieces' = AppendPiece(t.from, t.from + ChunkSize - 1)
       /\ work' = Tail(work)
       /\ UNCHANGED splitRest

\* Out of separators: the next window of an unbroken word.
HardCut ==
    LET t == Head(work)
    IN /\ Splitting("text")
       /\ Width(t) > ChunkSize
       /\ t.level > Len(Separators)
       /\ pieces' = AppendPiece(t.from, t.from + ChunkSize - 1)
       /\ work' = <<Task("text", t.level, t.from + ChunkSize, t.to)>> \o Tail(work)
       /\ UNCHANGED splitRest

\* Mutant: where the separator does not occur it is tried again.
Descend_SameLevel ==
    LET t == Head(work)
    IN /\ Splitting("text")
       /\ Width(t) > ChunkSize
       /\ t.level <= Len(Separators)
       /\ work' = (IF Cuts(t) = {} THEN <<Task("text", t.level, t.from, t.to)>>
                   ELSE <<Task("parts", t.level, t.from, t.to)>>) \o Tail(work)
       /\ UNCHANGED <<text, stage, pieces, first, next, chunks, spans>>

\* The separator does not occur: the next finer one.  It does: its parts.
Descend ==
    LET t == Head(work)
    IN /\ Splitting("text")
       /\ Width(t) > ChunkSize
       /\ t.level <= Len(Separators)
       /\ work' = (IF Cuts(t) = {} THEN <<Task("text", t.level + 1, t.from, t.to)>>
                   ELSE <<Task("parts", t.level, t.from, t.to)>>) \o Tail(work)
       /\ UNCHANGED <<text, stage, pieces, first, next, chunks, spans>>

\* Mutant: a part that is too long is split by the same separator again.
NextPart_SameSeparator ==
    LET t == Head(work)
    IN /\ Splitting("parts")
       /\ \E end \in t.from - 1 .. t.to :
             LET part == [from |-> t.from, to |-> end]
             IN /\ PartEnds(t, end)
                /\ \/ /\ IsBlank(part)
                      /\ work' = Rest(t, end) \o Tail(work)
                      /\ UNCHANGED pieces
                   \/ /\ ~IsBlank(part)
                      /\ Width(part) > ChunkSize
                      /\ work' = (<<Task("text", t.level, t.from, end)>> \o Rest(t, end))
                                 \o Tail(work)
                      /\ UNCHANGED pieces
                   \/ /\ ~IsBlank(part)
                      /\ Width(part) <= ChunkSize
                      /\ pieces' = AppendPiece(t.from, end)
                      /\ work' = Rest(t, end) \o Tail(work)
       /\ UNCHANGED splitRest

\* One round of the loop over the parts: a blank part is left out, one that
\* is still too long is split further, any other is a piece.
NextPart ==
    LET t == Head(work)
    IN /\ Splitting("parts")
       /\ \E end \in t.from - 1 .. t.to :
             LET part == [from |-> t.from, to |-> end]
             IN /\ PartEnds(t, end)
                /\ \/ /\ IsBlank(part)
                      /\ work' = Rest(t, end) \o Tail(work)
                      /\ UNCHANGED pieces
                   \/ /\ ~IsBlank(part)
                      /\ Width(part) > ChunkSize
                      /\ work' = (<<Task("text", t.level + 1, t.from, end)>> \o Rest(t, end))
                                 \o Tail(work)
                      /\ UNCHANGED pieces
                   \/ /\ ~IsBlank(part)
                      /\ Width(part) <= ChunkSize
                      /\ pieces' = AppendPiece(t.from, end)
                      /\ work' = Rest(t, end) \o Tail(work)
       /\ UNCHANGED splitRest

SplitDone ==
    /\ stage = "split"
    /\ work = <<>>
    /\ stage' = "merge"
    /\ UNCHANGED <<text, work, pieces, first, next, chunks, spans>>

------------------------------------------------------------------------------
(* merge_with_overlap.                                                     *)

CurrentLen == Before(next) - Before(first)
IsFull == first < next /\ CurrentLen + Width(pieces[next]) > ChunkSize

\* Mutant: pieces are carried back up to the chunk size.
Carried_ToSize(k) ==
    /\ k \in first .. next
    /\ Before(next) - Before(k) <= ChunkSize
    /\ \A j \in first .. next : Before(next) - Before(j) <= ChunkSize => k <= j

\* The longest run of trailing pieces within the overlap begins at piece k.
Carried(k) ==
    /\ k \in first .. next
    /\ Before(next) - Before(k) <= Overlap
    /\ \A j \in first .. next : Before(next) - Before(j) <= Overlap => k <= j

\* A chunk that trims to nothing is not kept.
Emitted(c) == IF ChunkIsBlank(c) THEN chunks ELSE Append(chunks, c)

\* One round of the packing loop.
PackPiece ==
    /\ stage = "merge"
    /\ next <= Len(pieces)
    /\ \/ /\ IsFull
          /\ chunks' = Emitted([first |-> first, last |-> next - 1])
          /\ \E k \in first .. next : Carried(k) /\ first' = k
       \/ /\ ~IsFull
          /\ UNCHANGED <<chunks, first>>
    /\ next' = next + 1
    /\ UNCHANGED <<text, stage, work, pieces, spans>>

\* What is left in current is the last chunk.
PackDone ==
    /\ stage = "merge"
    /\ next = Len(pieces) + 1
    /\ chunks' = IF first < next THEN Emitted([first |-> first, last |-> next - 1]) ELSE chunks
    /\ stage' = "locate"
    /\ UNCHANGED <<text, work, pieces, first, next, spans>>

------------------------------------------------------------------------------
(* chunk_with_spans.                                                       *)

\* The scan goes on from where the previous chunk was found.
Cursor == IF spans = <<>> THEN 1 ELSE spans[Len(spans)].from

Found(needle, from) ==
    {i \in from .. Len(text) - Len(needle) + 1 : SubSeq(text, i, i + Len(needle) - 1) = needle}

\* Mutant: the scan goes on behind the previous chunk, overlap or not.
Locate_BehindPrevious ==
    /\ stage = "locate"
    /\ Len(spans) < Len(chunks)
    /\ LET needle == ChunkText(chunks[Len(spans) + 1])
           from == IF spans = <<>> THEN 1 ELSE spans[Len(spans)].to + 1
           start == IF Found(needle, from) = {} THEN from ELSE Min(Found(needle, from))
       IN spans' = Append(spans, [from |-> start, to |-> start + Len(needle) - 1])
    /\ UNCHANGED <<text, stage, work, pieces, first, next, chunks>>

\* Mutant: a chunk that is not found gets no place.
Locate_OrNowhere ==
    /\ stage = "locate"
    /\ Len(spans) < Len(chunks)
    /\ LET needle == ChunkText(chunks[Len(spans) + 1])
           start == IF Found(needle, Cursor) = {} THEN 0 ELSE Min(Found(needle, Cursor))
       IN spans' = Append(spans, [from |-> start, to |-> start + Len(needle) - 1])
    /\ UNCHANGED <<text, stage, work, pieces, first, next, chunks>>

Locate ==
    /\ stage = "locate"
    /\ Len(spans) < Len(chunks)
    /\ \E needle \in {ChunkText(chunks[Len(spans) + 1])} :
          LET start == IF Found(needle, Cursor) = {} THEN Cursor ELSE Min(Found(needle, Cursor))
          IN spans' = Append(spans, [from |-> start, to |-> start + Len(needle) - 1])
    /\ UNCHANGED <<text, stage, work, pieces, first, next, chunks>>

LocateDone ==
    /\ stage = "locate"
    /\ Len(spans) = Len(chunks)
    /\ stage' = "chunked"
    /\ UNCHANGED <<text, work, pieces, first, next, chunks, spans>>

ChunkNext ==
    \/ TakeWhole \/ HardCut \/ Descend \/ NextPart \/ SplitDone
    \/ PackPiece \/ PackDone \/ Locate \/ LocateDone

ChunkSpec == ChunkInit /\ [][ChunkNext]_chunkVars

------------------------------------------------------------------------------
(* Properties.                                                             *)

Pieces == [from : Nat, to : Nat, upto : Nat]
Tasks == [kind : {"text", "parts"}, level : Nat, from : Nat, to : Nat]

ChunkTypeOK ==
    /\ text \in Seq(Chars)
    /\ stage \in {"split", "merge", "locate", "chunked"}
    /\ work \in Seq(Tasks)
    /\ pieces \in Seq(Pieces)
    /\ first \in Nat \ {0}
    /\ next \in Nat \ {0}
    /\ chunks \in Seq([first : Nat, last : Nat])
    /\ spans \in Seq([from : Nat \ {0}, to : Nat])

\* A chunk exceeds the chunk size only by what it carries back: but for its last piece,
\* which is within the size, it is within the overlap.  The pieces carried back and the
\* one that did not fit are packed without another look (merge_with_overlap).
ChunksFit ==
    \A i \in DOMAIN chunks :
        LET c == chunks[i]
        IN \/ ChunkWidth(c) <= ChunkSize
           \/ /\ Before(c.last) - Before(c.first) <= Overlap
              /\ Width(pieces[c.last]) <= ChunkSize

\* "Every chunk must fit the budget": the test chunks_respect_the_budget, for any text.
\* The code does not keep it where ChunksFit needs its second case.
ChunksRespectTheBudget == \A i \in DOMAIN chunks : Len(ChunkText(chunks[i])) <= ChunkSize

\* Every character of the document that is not blank is in some chunk, however
\* the separators fall and however deep the recursion goes (split_to_size,
\* merge_with_overlap; the test no_content_is_lost).
NothingLost ==
    stage \in {"locate", "chunked"} =>
        \A i \in DOMAIN text :
            \/ text[i] \in Blanks
            \/ \E n \in DOMAIN chunks : \E k \in chunks[n].first .. chunks[n].last :
                   i \in pieces[k].from .. pieces[k].to

\* How far the recursion is: the place it has come to in the text, and what it can
\* still do there, which is to drop calls with nothing left and then to go on to finer
\* separators.
Front == IF work = <<>> THEN Len(text) + 1 ELSE Head(work).from
Rank ==
    IF work = <<>> THEN 0
    ELSE IF Head(work).from > Head(work).to THEN 2 * (Len(Separators) + 2) + Len(work)
    ELSE 2 * (Len(Separators) + 2 - Head(work).level) - (IF Head(work).kind = "parts" THEN 1 ELSE 0)

\* Nothing between the first and the last piece was left out.
NoGaps == \A k \in 2 .. Len(pieces) : pieces[k].from = pieces[k - 1].to + 1

Locates(s, c) == s.to <= Len(text) /\ SubSeq(text, s.from, s.to) = ChunkText(c)

\* In a document of which no blank part was left out, the characters at every
\* span are the chunk it describes, although a chunk is looked up by its text
\* alone and texts repeat (chunk_with_spans).
SpansReadBack == NoGaps => \A i \in DOMAIN spans : Locates(spans[i], chunks[i])

\* The span of every chunk points at the chunk it describes: the test
\* spans_locate_each_chunk_in_the_source, for any text.
SpansLocateEachChunk == \A i \in DOMAIN spans : Locates(spans[i], chunks[i])
=============================================================================

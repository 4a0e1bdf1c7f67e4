---------------------------- MODULE IndexingProofs ----------------------------
(***************************************************************************)
(* Proofs about Chunking and Indexing, for any text, separators, sizes and *)
(* endpoint: the bound on a chunk, that no text is lost, that the vector   *)
(* store ends up with every chunk under its own vector, that the old       *)
(* points outlive a failed embedding, that no answer of the endpoint gives *)
(* up a document for a fault that is not its own; then, with least         *)
(* elements in place of induction, that the spans of a document without    *)
(* gaps read back its chunks; and that the recursion of the splitting has  *)
(* a variant.                                                              *)
(***************************************************************************)
EXTENDS Indexing, TLAPS, WellFoundedInduction, SequenceTheorems

------------------------------------------------------------------------------
(* The invariant of the splitting.                                         *)

TaskOK(t) ==
    /\ t.level \in Nat \ {0}
    /\ t.from \in Nat \ {0}
    /\ t.to \in Nat
    /\ t.from <= t.to + 1
    /\ t.to <= Len(text)
    /\ t.kind = "parts" => t.level <= Len(Separators)

WorkOK == work \in Seq(Tasks) /\ \A n \in DOMAIN work : TaskOK(work[n])

PieceOK(k) ==
    /\ pieces[k].from \in Nat \ {0}
    /\ pieces[k].to \in Nat
    /\ pieces[k].from <= pieces[k].to + 1
    /\ pieces[k].to <= Len(text)
    /\ Width(pieces[k]) <= ChunkSize
    /\ pieces[k].upto = Before(k) + Width(pieces[k])

PiecesOK == pieces \in Seq(Pieces) /\ \A k \in DOMAIN pieces : PieceOK(k)

InPiece(i) == \E k \in DOMAIN pieces : i \in pieces[k].from .. pieces[k].to
InWork(i) == \E n \in DOMAIN work : i \in work[n].from .. work[n].to

\* Every character is blank, in a piece, or still to be split.
Kept == \A i \in DOMAIN text : text[i] \in Blanks \/ InPiece(i) \/ InWork(i)

------------------------------------------------------------------------------
(* The invariant of the packing.                                           *)

PackOK ==
    /\ stage \in {"split", "merge", "locate", "chunked"}
    /\ first \in Nat \ {0}
    /\ next \in Nat \ {0}
    /\ first <= next
    /\ next <= Len(pieces) + 1
    /\ stage = "split" => first = 1 /\ next = 1 /\ chunks = <<>>
    /\ stage # "split" => work = <<>>
    /\ stage \in {"locate", "chunked"} => next = Len(pieces) + 1

\* The pieces f .. l are within the chunk size, or all but the last are within the overlap
\* and the last is within the chunk size.
Fits(f, l) ==
    \/ Before(l + 1) - Before(f) <= ChunkSize
    \/ Before(l) - Before(f) <= Overlap /\ Width(pieces[l]) <= ChunkSize

ChunkOK(c) ==
    /\ c.first \in Nat \ {0}
    /\ c.last \in Nat
    /\ c.first <= c.last
    /\ c.last < next
    /\ Fits(c.first, c.last)

ChunksOK ==
    /\ chunks \in Seq([first : Nat, last : Nat])
    /\ \A n \in DOMAIN chunks : ChunkOK(chunks[n])

CurrentFits == first < next => Fits(first, next - 1)

InChunk(k) == \E n \in DOMAIN chunks : k \in chunks[n].first .. chunks[n].last

\* Every piece packed is blank, in a chunk, or in the chunk under way.
Packed ==
    \A k \in 1 .. next - 1 :
        \/ IsBlank(pieces[k])
        \/ InChunk(k)
        \/ stage = "merge" /\ first <= k

SplitInv == text \in Seq(Chars) /\ WorkOK /\ PiecesOK /\ Kept
PackInv == PackOK /\ ChunksOK /\ CurrentFits /\ Packed

------------------------------------------------------------------------------
(* The invariant of the attempt.                                           *)

VectorsOK ==
    /\ vectors \in Seq(Nat)
    /\ Len(vectors) <= Len(chunks)
    /\ \A i \in 1 .. Len(vectors) : vectors[i] = i
    /\ stage # "chunked" => vectors = <<>>
    /\ step \in {"download", "retryable"} => stage = "split"

AttemptOK ==
    /\ step \in {"clear", "upsert"} =>
           stage = "chunked" /\ chunks # <<>> /\ Len(vectors) = Len(chunks)
    /\ step = "upsert" => points = {}
    /\ step \in {"download", "chunk", "clear", "upsert", "ok", "retryable", "orphaned", "dead"}

ChunkInv == SplitInv /\ PackInv
IInv == ChunkInv /\ VectorsOK /\ AttemptOK /\ PointsAreWhole

------------------------------------------------------------------------------
(* Splitting.                                                              *)

\* Stacking entries that are in order keeps the stack in order, and what the
\* old head covered has to be covered by them or be dealt with.
LEMMA StackStep ==
    ASSUME WorkOK, work # <<>>, NEW u \in Seq(Tasks), \A m \in DOMAIN u : TaskOK(u[m]),
           work' = u \o Tail(work), UNCHANGED text
    PROVE  /\ WorkOK'
           /\ \A i : InWork(i) => \/ i \in Head(work).from .. Head(work).to
                                  \/ InWork(i)'
           /\ \A i : (\E m \in DOMAIN u : i \in u[m].from .. u[m].to) => InWork(i)'
<1>1. /\ work' \in Seq(Tasks)
      /\ Head(work) = work[1] /\ 1 \in DOMAIN work
      /\ \A n \in DOMAIN work' : (\E m \in DOMAIN u : work'[n] = u[m]) \/ (\E m \in DOMAIN work : work'[n] = work[m])
      /\ \A m \in DOMAIN u : \E n \in DOMAIN work' : work'[n] = u[m]
      /\ \A m \in DOMAIN work : m # 1 => \E n \in DOMAIN work' : work'[n] = work[m]
    <2> DEFINE r == work'
    <2>1. work \in Seq(Tasks) /\ r = u \o Tail(work)
        BY DEF WorkOK
    <2> HIDE DEF r, Tasks
    <2> USE <2>1
    <2>7. /\ Tail(work) \in Seq(Tasks) /\ Len(Tail(work)) = Len(work) - 1
          /\ \A k \in 1 .. Len(work) - 1 : Tail(work)[k] = work[k + 1]
        OBVIOUS
    <2>2. /\ r \in Seq(Tasks) /\ Len(r) = Len(u) + (Len(work) - 1)
          /\ \A k \in 1 .. Len(u) : r[k] = u[k]
          /\ \A k \in 1 .. Len(work) - 1 : r[Len(u) + k] = work[k + 1]
        BY <2>7
    <2>3. \A n \in DOMAIN r : \/ \E m \in DOMAIN u : r[n] = u[m]
                              \/ \E m \in DOMAIN work : r[n] = work[m]
        <3> SUFFICES ASSUME NEW n \in DOMAIN r
                     PROVE  \/ \E m \in DOMAIN u : r[n] = u[m]
                            \/ \E m \in DOMAIN work : r[n] = work[m]
            OBVIOUS
        <3>1. n \in 1 .. Len(u) + (Len(work) - 1) /\ Len(u) \in Nat /\ Len(work) \in Nat
            BY <2>2
        <3>2. CASE n <= Len(u)
            <4>1. n \in DOMAIN u /\ r[n] = u[n]
                BY <2>2, <3>1, <3>2
            <4> QED BY <4>1
        <3>3. CASE n > Len(u)
            <4>1. n - Len(u) \in 1 .. Len(work) - 1 /\ Len(u) + (n - Len(u)) = n
                BY <3>1, <3>3
            <4>2. r[n] = work[n - Len(u) + 1] /\ n - Len(u) + 1 \in DOMAIN work
                BY <2>2, <4>1
            <4> QED BY <4>2
        <3> QED BY <3>1, <3>2, <3>3
    <2>4. \A m \in DOMAIN u : \E n \in DOMAIN r : r[n] = u[m]
        <3> SUFFICES ASSUME NEW m \in DOMAIN u PROVE \E n \in DOMAIN r : r[n] = u[m]
            OBVIOUS
        <3>1. m \in DOMAIN r /\ r[m] = u[m]
            BY <2>2
        <3> QED BY <3>1
    <2>5. \A m \in DOMAIN work : m # 1 => \E n \in DOMAIN r : r[n] = work[m]
        <3> SUFFICES ASSUME NEW m \in DOMAIN work, m # 1 PROVE \E n \in DOMAIN r : r[n] = work[m]
            OBVIOUS
        <3>1. m - 1 \in 1 .. Len(work) - 1 /\ (m - 1) + 1 = m
            OBVIOUS
        <3>2. Len(u) + (m - 1) \in DOMAIN r /\ r[Len(u) + (m - 1)] = work[m]
            BY <2>2, <3>1
        <3> QED BY <3>2
    <2>6. Head(work) = work[1] /\ 1 \in DOMAIN work
        OBVIOUS
    <2> QED BY <2>2, <2>3, <2>4, <2>5, <2>6 DEF r
<1>2. (\A n \in DOMAIN work : TaskOK(work[n]))'
    <2> SUFFICES ASSUME NEW n \in DOMAIN work' PROVE TaskOK(work[n])'
        OBVIOUS
    <2>1. CASE \E m \in DOMAIN u : work'[n] = u[m]
        BY <2>1 DEF TaskOK
    <2>2. CASE \E m \in DOMAIN work : work'[n] = work[m]
        BY <2>2 DEF TaskOK, WorkOK
    <2> QED BY <1>1, <2>1, <2>2
<1>3. \A i : InWork(i) => i \in Head(work).from .. Head(work).to \/ InWork(i)'
    BY <1>1 DEF InWork
<1>4. \A i : (\E m \in DOMAIN u : i \in u[m].from .. u[m].to) => InWork(i)'
    BY <1>1 DEF InWork
<1> QED BY <1>1, <1>2, <1>3, <1>4 DEF WorkOK

\* The head of the stack is in order.
LEMMA HeadOK ==
    ASSUME WorkOK, work # <<>>
    PROVE  Head(work) \in Tasks /\ TaskOK(Head(work))
<1>1. Head(work) = work[1] /\ 1 \in DOMAIN work
    BY DEF WorkOK
<1>2. work[1] \in Tasks
    BY <1>1 DEF WorkOK
<1> QED BY <1>1, <1>2 DEF WorkOK

\* A piece that fits may be appended.
LEMMA PieceStep ==
    ASSUME PiecesOK, NEW from \in Nat \ {0}, NEW to \in Nat, from <= to + 1, to <= Len(text),
           to - from + 1 <= ChunkSize, pieces' = AppendPiece(from, to), UNCHANGED text
    PROVE  /\ PiecesOK'
           /\ \A i : InPiece(i) => InPiece(i)'
           /\ \A i \in from .. to : InPiece(i)'
<1> DEFINE p == [from |-> from, to |-> to, upto |-> Before(Len(pieces) + 1) + (to - from + 1)]
<1>0. pieces \in Seq(Pieces)
    BY DEF PiecesOK
<1>1. Before(Len(pieces) + 1) \in Nat
    <2>1. CASE Len(pieces) = 0
        BY <2>1 DEF Before
    <2>2. CASE Len(pieces) # 0
        <3>1. Len(pieces) \in DOMAIN pieces /\ Len(pieces) + 1 # 1 /\ (Len(pieces) + 1) - 1 = Len(pieces)
            BY <1>0, <2>2
        <3>2. pieces[Len(pieces)] \in Pieces
            BY <1>0, <3>1
        <3>3. pieces[Len(pieces)].upto \in Nat
            BY <3>2 DEF Pieces
        <3> QED BY <3>1, <3>3 DEF Before
    <2> QED BY <2>1, <2>2
<1>2. p \in Pieces
    BY <1>1 DEF Pieces
<1>3. /\ pieces' = Append(pieces, p)
      /\ pieces' \in Seq(Pieces) /\ Len(pieces') = Len(pieces) + 1
      /\ pieces'[Len(pieces) + 1] = p
      /\ \A k \in 1 .. Len(pieces) : pieces'[k] = pieces[k]
    BY <1>0, <1>2 DEF AppendPiece
<1>4. \A k \in 1 .. Len(pieces) + 1 : Before(k)' = Before(k)
    <2> SUFFICES ASSUME NEW k \in 1 .. Len(pieces) + 1, k # 1
                 PROVE  pieces'[k - 1] = pieces[k - 1]
        BY DEF Before
    <2>1. k - 1 \in 1 .. Len(pieces)
        BY <1>0
    <2> QED BY <1>3, <2>1
<1>5. \A k \in DOMAIN pieces' : PieceOK(k)'
    <2> SUFFICES ASSUME NEW k \in DOMAIN pieces' PROVE PieceOK(k)'
        OBVIOUS
    <2>1. CASE k = Len(pieces) + 1
        <3>1. pieces'[k] = p /\ Before(k)' = Before(Len(pieces) + 1)
            BY <1>0, <1>3, <1>4, <2>1
        <3> QED BY <3>1, <1>1 DEF PieceOK, Width
    <2>2. CASE k # Len(pieces) + 1
        <3>1. k \in 1 .. Len(pieces)
            BY <1>0, <1>3, <2>2
        <3>2. pieces'[k] = pieces[k] /\ Before(k)' = Before(k) /\ PieceOK(k)
            BY <1>0, <1>3, <1>4, <3>1 DEF PiecesOK
        <3> QED BY <3>2 DEF PieceOK, Width
    <2> QED BY <2>1, <2>2
<1>6. \A i : InPiece(i) => InPiece(i)'
    BY <1>0, <1>3 DEF InPiece
<1>7. \A i \in from .. to : InPiece(i)'
    <2>1. Len(pieces) + 1 \in DOMAIN pieces' /\ p.from = from /\ p.to = to
        BY <1>0, <1>3
    <2> QED BY <1>3, <2>1 DEF InPiece
<1> QED BY <1>3, <1>5, <1>6, <1>7 DEF PiecesOK

\* A text that fits is a piece.
LEMMA TakeWholeStep ==
    ASSUME SplitInv, TakeWhole
    PROVE  SplitInv'
<1> DEFINE t == Head(work)
<1>1. work # <<>> /\ t \in Tasks /\ TaskOK(t) /\ Width(t) <= ChunkSize
    BY HeadOK DEF SplitInv, TakeWhole, Splitting
<1>2. /\ WorkOK'
      /\ \A i : InWork(i) => i \in t.from .. t.to \/ InWork(i)'
    <2> DEFINE u == <<>>
    <2>1. work' = Tail(work) /\ text' = text
        BY DEF TakeWhole, splitRest
    <2>2. u \in Seq(Tasks) /\ DOMAIN u = {}
        OBVIOUS
    <2>3. work \in Seq(Tasks)
        BY DEF SplitInv, WorkOK
    <2>4. Tail(work) = u \o Tail(work)
        BY <1>1, <2>3
    <2>5. \A m \in DOMAIN u : TaskOK(u[m])
        BY <2>2
    <2> HIDE DEF u
    <2> QED BY <1>1, <2>1, <2>2, <2>4, <2>5, StackStep DEF SplitInv
<1>3. PiecesOK' /\ (\A i : InPiece(i) => InPiece(i)') /\ \A i \in t.from .. t.to : InPiece(i)'
    <2>1. pieces' = AppendPiece(t.from, t.to) /\ UNCHANGED text
        BY DEF TakeWhole, splitRest
    <2> QED BY <1>1, <2>1, PieceStep DEF SplitInv, TaskOK, Width
<1>4. text' = text
    BY DEF TakeWhole, splitRest
<1>5. Kept'
    BY <1>2, <1>3, <1>4 DEF Kept, SplitInv
<1> QED BY <1>2, <1>3, <1>4, <1>5 DEF SplitInv

\* A text without separators is cut to the size.
LEMMA HardCutStep ==
    ASSUME SplitInv, HardCut
    PROVE  SplitInv'
<1> DEFINE t == Head(work)
           rest == Task("text", t.level, t.from + ChunkSize, t.to)
<1>1. work # <<>> /\ t \in Tasks /\ TaskOK(t) /\ Width(t) > ChunkSize
    BY HeadOK DEF SplitInv, HardCut, Splitting
<1>2. rest \in Tasks /\ TaskOK(rest)
    BY <1>1, SizeAssumption DEF Task, Tasks, TaskOK, Width
<1>3. /\ WorkOK'
      /\ \A i : InWork(i) => i \in t.from .. t.to \/ InWork(i)'
      /\ \A i \in rest.from .. rest.to : InWork(i)'
    <2>1. work' = <<rest>> \o Tail(work) /\ UNCHANGED text
        BY DEF HardCut, splitRest
    <2>2. <<rest>> \in Seq(Tasks) /\ DOMAIN <<rest>> = {1} /\ <<rest>>[1] = rest
        BY <1>2
    <2>3. \A m \in DOMAIN <<rest>> : TaskOK(<<rest>>[m])
        BY <1>2, <2>2
    <2>4. /\ WorkOK'
          /\ \A i : InWork(i) => i \in t.from .. t.to \/ InWork(i)'
          /\ \A i : (\E m \in DOMAIN <<rest>> : i \in <<rest>>[m].from .. <<rest>>[m].to) => InWork(i)'
        BY <1>1, <2>1, <2>2, <2>3, StackStep DEF SplitInv
    <2> QED BY <2>2, <2>4
<1>4. /\ PiecesOK' /\ (\A i : InPiece(i) => InPiece(i)')
      /\ \A i \in t.from .. t.from + ChunkSize - 1 : InPiece(i)'
    <2>1. pieces' = AppendPiece(t.from, t.from + ChunkSize - 1) /\ UNCHANGED text
        BY DEF HardCut, splitRest
    <2>2. t.from + ChunkSize - 1 \in Nat /\ t.from + ChunkSize - 1 <= Len(text) /\ t.from \in Nat \ {0}
          /\ t.from <= (t.from + ChunkSize - 1) + 1 /\ (t.from + ChunkSize - 1) - t.from + 1 <= ChunkSize
        BY <1>1, SizeAssumption DEF TaskOK, Width, SplitInv
    <2> QED BY <2>1, <2>2, PieceStep DEF SplitInv
<1>5. text' = text
    BY DEF HardCut, splitRest
<1>6. \A i \in t.from .. t.to : i \in t.from .. t.from + ChunkSize - 1 \/ i \in rest.from .. rest.to
    BY <1>1, SizeAssumption DEF TaskOK, Task
<1>7. Kept'
    BY <1>3, <1>4, <1>5, <1>6 DEF Kept, SplitInv
<1> QED BY <1>3, <1>4, <1>5, <1>7 DEF SplitInv

\* A separator that does not occur is passed over.
LEMMA DescendStep ==
    ASSUME SplitInv, Descend
    PROVE  SplitInv'
<1> DEFINE t == Head(work)
           s == IF Cuts(t) = {} THEN Task("text", t.level + 1, t.from, t.to)
                ELSE Task("parts", t.level, t.from, t.to)
<1>1. work # <<>> /\ t \in Tasks /\ TaskOK(t) /\ t.level <= Len(Separators)
    BY HeadOK DEF SplitInv, Descend, Splitting
<1>2. s \in Tasks /\ TaskOK(s) /\ s.from = t.from /\ s.to = t.to
    BY <1>1 DEF Task, Tasks, TaskOK
<1>3. /\ WorkOK'
      /\ \A i : InWork(i) => i \in t.from .. t.to \/ InWork(i)'
      /\ \A i \in t.from .. t.to : InWork(i)'
    <2>1. work' = <<s>> \o Tail(work) /\ UNCHANGED text
        BY DEF Descend
    <2>2. <<s>> \in Seq(Tasks) /\ DOMAIN <<s>> = {1} /\ <<s>>[1] = s
        BY <1>2
    <2>3. \A m \in DOMAIN <<s>> : TaskOK(<<s>>[m])
        BY <1>2, <2>2
    <2>4. /\ WorkOK'
          /\ \A i : InWork(i) => i \in t.from .. t.to \/ InWork(i)'
          /\ \A i : (\E m \in DOMAIN <<s>> : i \in <<s>>[m].from .. <<s>>[m].to) => InWork(i)'
        BY <1>1, <2>1, <2>2, <2>3, StackStep DEF SplitInv
    <2> QED BY <1>2, <2>2, <2>4
<1>4. UNCHANGED <<text, pieces>>
    BY DEF Descend
<1>5. PiecesOK' /\ \A i : InPiece(i) => InPiece(i)'
    BY <1>4 DEF SplitInv, PiecesOK, PieceOK, Before, Width, InPiece
<1>6. Kept'
    BY <1>3, <1>4, <1>5 DEF Kept, SplitInv
<1> QED BY <1>3, <1>4, <1>5, <1>6 DEF SplitInv

\* The part that ends with a separator lies in what is left, and is behind it.
LEMMA PartLies ==
    ASSUME NEW t \in Tasks, TaskOK(t), t.level <= Len(Separators),
           NEW end \in t.from - 1 .. t.to, PartEnds(t, end)
    PROVE  /\ end \in Nat
           /\ Rest(t, end) \in Seq(Tasks)
           /\ \A m \in DOMAIN Rest(t, end) : TaskOK(Rest(t, end)[m])
           /\ \A i \in t.from .. t.to :
                  \/ i \in t.from .. end
                  \/ \E m \in DOMAIN Rest(t, end) : i \in Rest(t, end)[m].from .. Rest(t, end)[m].to
<1>1. end \in Nat
    BY DEF TaskOK
<1>2. CASE Cuts(t) = {}
    <2>1. end = t.to /\ Rest(t, end) = <<>>
        BY <1>2 DEF PartEnds, Rest
    <2> QED BY <1>1, <2>1
<1>3. CASE Cuts(t) # {}
    <2> DEFINE r == Task("parts", t.level, end + 1, t.to)
    <2>1. Rest(t, end) = <<r>>
        BY <1>3 DEF Rest
    <2>2. r \in Tasks /\ TaskOK(r) /\ r.from = end + 1 /\ r.to = t.to
        BY <1>1 DEF Task, Tasks, TaskOK
    <2>3. <<r>> \in Seq(Tasks) /\ DOMAIN <<r>> = {1} /\ <<r>>[1] = r
        BY <2>2
    <2>4. \A i \in t.from .. t.to : i \in t.from .. end \/ i \in end + 1 .. t.to
        BY <1>1 DEF TaskOK
    <2> HIDE DEF r
    <2> QED BY <1>1, <2>1, <2>2, <2>3, <2>4
<1> QED BY <1>2, <1>3

\* A part is cut off and split by the separators that remain.
LEMMA NextPartStep ==
    ASSUME SplitInv, NextPart
    PROVE  SplitInv'
<1> DEFINE t == Head(work)
<1>1. work # <<>> /\ t \in Tasks /\ TaskOK(t) /\ t.level <= Len(Separators)
    BY HeadOK DEF SplitInv, NextPart, Splitting, TaskOK
<1>2. PICK end \in t.from - 1 .. t.to :
          /\ PartEnds(t, end)
          /\ \/ /\ IsBlank([from |-> t.from, to |-> end])
                /\ work' = Rest(t, end) \o Tail(work)
                /\ UNCHANGED pieces
             \/ /\ Width([from |-> t.from, to |-> end]) > ChunkSize
                /\ work' = (<<Task("text", t.level + 1, t.from, end)>> \o Rest(t, end)) \o Tail(work)
                /\ UNCHANGED pieces
             \/ /\ Width([from |-> t.from, to |-> end]) <= ChunkSize
                /\ pieces' = AppendPiece(t.from, end)
                /\ work' = Rest(t, end) \o Tail(work)
    BY DEF NextPart
<1>3. text' = text
    BY DEF NextPart, splitRest
<1> DEFINE r == Rest(t, end)
<1>4. /\ end \in Nat /\ r \in Seq(Tasks) /\ \A m \in DOMAIN r : TaskOK(r[m])
      /\ \A i \in t.from .. t.to : i \in t.from .. end \/ \E m \in DOMAIN r : i \in r[m].from .. r[m].to
    BY <1>1, <1>2, PartLies
<1>5. UNCHANGED pieces => PiecesOK' /\ \A i : InPiece(i) => InPiece(i)'
    BY <1>3 DEF SplitInv, PiecesOK, PieceOK, Before, Width, InPiece
<1> HIDE DEF r
<1>6. ASSUME work' = r \o Tail(work)
      PROVE  /\ WorkOK'
             /\ \A i : InWork(i) => i \in t.from .. end \/ InWork(i)'
    <2>1. /\ WorkOK'
          /\ \A i : InWork(i) => i \in t.from .. t.to \/ InWork(i)'
          /\ \A i : (\E m \in DOMAIN r : i \in r[m].from .. r[m].to) => InWork(i)'
        BY <1>1, <1>3, <1>4, <1>6, StackStep DEF SplitInv
    <2> QED BY <1>4, <2>1
<1>7. CASE /\ IsBlank([from |-> t.from, to |-> end])
           /\ work' = Rest(t, end) \o Tail(work)
           /\ UNCHANGED pieces
    <2>1. \A i \in t.from .. end : text[i] \in Blanks
        BY <1>7 DEF IsBlank
    <2>2. WorkOK' /\ \A i : InWork(i) => i \in t.from .. end \/ InWork(i)'
        BY <1>6, <1>7 DEF r
    <2>3. Kept'
        BY <1>3, <1>5, <1>7, <2>1, <2>2 DEF Kept, SplitInv
    <2> QED BY <1>3, <1>5, <1>7, <2>2, <2>3 DEF SplitInv
<1>8. CASE /\ Width([from |-> t.from, to |-> end]) > ChunkSize
           /\ work' = (<<Task("text", t.level + 1, t.from, end)>> \o Rest(t, end)) \o Tail(work)
           /\ UNCHANGED pieces
    <2> DEFINE s == Task("text", t.level + 1, t.from, end)
               u == <<s>> \o r
    <2>1. s \in Tasks /\ TaskOK(s) /\ s.from = t.from /\ s.to = end
        BY <1>1, <1>2, <1>4 DEF Task, Tasks, TaskOK
    <2> HIDE DEF s
    <2>2. /\ u \in Seq(Tasks) /\ 1 \in DOMAIN u /\ u[1] = s
          /\ \A m \in DOMAIN r : m + 1 \in DOMAIN u /\ u[m + 1] = r[m]
          /\ \A m \in DOMAIN u : m = 1 \/ (m - 1 \in DOMAIN r /\ u[m] = r[m - 1])
        BY <1>4, <2>1
    <2>3. \A m \in DOMAIN u : TaskOK(u[m])
        BY <1>4, <2>1, <2>2
    <2>4. work' = u \o Tail(work)
        BY <1>8 DEF r, s
    <2> HIDE DEF u
    <2>5. /\ WorkOK'
          /\ \A i : InWork(i) => i \in t.from .. t.to \/ InWork(i)'
          /\ \A i : (\E m \in DOMAIN u : i \in u[m].from .. u[m].to) => InWork(i)'
        BY <1>1, <1>3, <2>2, <2>3, <2>4, StackStep DEF SplitInv
    <2>6. \A i \in t.from .. t.to : \E m \in DOMAIN u : i \in u[m].from .. u[m].to
        BY <1>4, <2>1, <2>2
    <2>7. Kept'
        BY <1>3, <1>5, <1>8, <2>5, <2>6 DEF Kept, SplitInv
    <2> QED BY <1>3, <1>5, <1>8, <2>5, <2>7 DEF SplitInv
<1>9. CASE /\ Width([from |-> t.from, to |-> end]) <= ChunkSize
           /\ pieces' = AppendPiece(t.from, end)
           /\ work' = Rest(t, end) \o Tail(work)
    <2>1. /\ PiecesOK' /\ (\A i : InPiece(i) => InPiece(i)')
          /\ \A i \in t.from .. end : InPiece(i)'
        <3>1. t.from \in Nat \ {0} /\ t.from <= end + 1 /\ end <= Len(text)
              /\ end - t.from + 1 <= ChunkSize
            BY <1>1, <1>2, <1>4, <1>9 DEF TaskOK, Width, SplitInv
        <3> QED BY <1>3, <1>4, <1>9, <3>1, PieceStep DEF SplitInv
    <2>2. WorkOK' /\ \A i : InWork(i) => i \in t.from .. end \/ InWork(i)'
        BY <1>6, <1>9 DEF r
    <2>3. Kept'
        BY <1>3, <2>1, <2>2 DEF Kept, SplitInv
    <2> QED BY <1>3, <2>1, <2>2, <2>3 DEF SplitInv
<1> QED BY <1>2, <1>7, <1>8, <1>9

------------------------------------------------------------------------------
(* Packing.                                                                *)

\* The prefix sums of the lengths of the pieces.
LEMMA BeforeIsSum ==
    ASSUME PiecesOK
    PROVE  /\ \A k \in 1 .. Len(pieces) + 1 : Before(k) \in Nat
           /\ \A k \in 1 .. Len(pieces) :
                  /\ Before(k + 1) = Before(k) + Width(pieces[k])
                  /\ Width(pieces[k]) \in Nat
                  /\ Width(pieces[k]) <= ChunkSize
<1>1. pieces \in Seq(Pieces) /\ Len(pieces) \in Nat
    BY DEF PiecesOK
<1>2. \A k \in 1 .. Len(pieces) : pieces[k] \in Pieces /\ PieceOK(k)
    BY <1>1 DEF PiecesOK
<1>3. \A k \in 1 .. Len(pieces) + 1 : Before(k) \in Nat
    <2> SUFFICES ASSUME NEW k \in 1 .. Len(pieces) + 1, k # 1 PROVE pieces[k - 1].upto \in Nat
        BY DEF Before
    <2>1. k - 1 \in 1 .. Len(pieces)
        BY <1>1
    <2>2. pieces[k - 1] \in Pieces
        BY <1>2, <2>1
    <2> QED BY <2>2 DEF Pieces
<1>4. ASSUME NEW k \in 1 .. Len(pieces)
      PROVE  /\ Before(k + 1) = Before(k) + Width(pieces[k])
             /\ Width(pieces[k]) \in Nat
             /\ Width(pieces[k]) <= ChunkSize
    <2>1. PieceOK(k)
        BY <1>2
    <2>2. Before(k + 1) = pieces[k].upto
        <3>1. k + 1 # 1 /\ (k + 1) - 1 = k
            OBVIOUS
        <3> QED BY <3>1 DEF Before
    <2> QED BY <2>1, <2>2 DEF PieceOK, Width
<1> QED BY <1>3, <1>4

\* While the text is being split nothing is packed.
LEMMA SplitKeepsPackInv ==
    ASSUME PackInv, stage = "split", UNCHANGED <<stage, first, next, chunks>>, PiecesOK'
    PROVE  PackInv'
<1>1. first' = 1 /\ next' = 1 /\ chunks' = <<>> /\ stage' = "split"
    BY DEF PackInv, PackOK
<1>2. Len(pieces') \in Nat
    BY DEF PiecesOK
<1>3. PackOK'
    BY <1>1, <1>2 DEF PackOK
<1>4. ChunksOK'
    BY <1>1 DEF ChunksOK
<1>5. CurrentFits'
    BY <1>1 DEF CurrentFits
<1>6. Packed'
    BY <1>1 DEF Packed
<1> QED BY <1>3, <1>4, <1>5, <1>6 DEF PackInv

\* Emitting the pieces f .. next - 1 that are current.
LEMMA EmitStep ==
    ASSUME PiecesOK, PackInv, first < next,
           chunks' = Emitted([first |-> first, last |-> next - 1]),
           next' \in Nat, next <= next', UNCHANGED <<text, pieces>>
    PROVE  /\ ChunksOK'
           /\ \A k : InChunk(k) => InChunk(k)'
           /\ \A k \in first .. next - 1 : IsBlank(pieces[k]) \/ InChunk(k)'
<1>0. PICK c : c = [first |-> first, last |-> next - 1]
    OBVIOUS
<1>1. /\ first \in Nat \ {0} /\ next \in Nat \ {0} /\ next <= Len(pieces) + 1
      /\ c \in [first : Nat, last : Nat] /\ (next - 1) + 1 = next
      /\ c.first = first /\ c.last = next - 1
    BY <1>0 DEF PackInv, PackOK
<1>2. Fits(c.first, c.last)
    BY <1>1 DEF PackInv, CurrentFits
<1>3. \A d : ChunkOK(d) => ChunkOK(d)'
    BY <1>1 DEF ChunkOK, Fits, Before, Width
<1>4. CASE ChunkIsBlank(c)
    <2>1. chunks' = chunks
        BY <1>0, <1>4 DEF Emitted
    <2>2. \A k \in first .. next - 1 : IsBlank(pieces[k])
        BY <1>1, <1>4 DEF ChunkIsBlank
    <2>3. ChunksOK'
        <3>1. \A n \in DOMAIN chunks : ChunkOK(chunks[n])'
            BY <1>3, <2>1 DEF PackInv, ChunksOK, ChunkOK, Fits, Before, Width
        <3> QED BY <2>1, <3>1 DEF PackInv, ChunksOK
    <2> QED BY <2>1, <2>2, <2>3 DEF InChunk
<1>5. CASE ~ChunkIsBlank(c)
    <2>1. chunks' = Append(chunks, c) /\ chunks \in Seq([first : Nat, last : Nat])
        BY <1>0, <1>5 DEF Emitted, PackInv, ChunksOK
    <2>2. /\ chunks' \in Seq([first : Nat, last : Nat]) /\ Len(chunks') = Len(chunks) + 1
          /\ chunks'[Len(chunks) + 1] = c /\ Len(chunks) \in Nat
          /\ \A n \in 1 .. Len(chunks) : chunks'[n] = chunks[n]
          /\ DOMAIN chunks' = 1 .. Len(chunks) + 1 /\ DOMAIN chunks = 1 .. Len(chunks)
        <3> DEFINE S == [first : Nat, last : Nat]
        <3>1. c \in S /\ chunks \in Seq(S) /\ chunks' = Append(chunks, c)
            BY <1>1, <2>1
        <3> HIDE DEF S
        <3>2. /\ chunks' \in Seq(S) /\ Len(chunks') = Len(chunks) + 1
              /\ chunks'[Len(chunks) + 1] = c /\ Len(chunks) \in Nat
              /\ \A n \in 1 .. Len(chunks) : chunks'[n] = chunks[n]
              /\ DOMAIN chunks' = 1 .. Len(chunks) + 1 /\ DOMAIN chunks = 1 .. Len(chunks)
            BY <3>1
        <3> QED BY <3>2 DEF S
    <2>3. ChunkOK(c)'
        BY <1>1, <1>2 DEF ChunkOK, Fits, Before, Width
    <2>4. ChunksOK'
        <3> SUFFICES ASSUME NEW n \in DOMAIN chunks' PROVE ChunkOK(chunks[n])'
            BY <2>2 DEF ChunksOK
        <3>1. CASE n = Len(chunks) + 1
            BY <2>2, <2>3, <3>1 DEF ChunkOK, Fits, Before, Width
        <3>2. CASE n # Len(chunks) + 1
            <4>1. n \in 1 .. Len(chunks) /\ chunks'[n] = chunks[n]
                BY <2>2, <3>2
            <4>2. PICK d : d = chunks[n]
                OBVIOUS
            <4>3. ChunkOK(d)
                BY <2>1, <4>1, <4>2 DEF PackInv, ChunksOK
            <4>4. ChunkOK(d)'
                BY <1>3, <4>3
            <4>5. chunks'[n] = d
                BY <4>1, <4>2
            <4> QED BY <4>4, <4>5 DEF ChunkOK, Fits, Before, Width
        <3> QED BY <3>1, <3>2
    <2>5. \A k : InChunk(k) => InChunk(k)'
        BY <2>2 DEF InChunk
    <2>6. \A k \in first .. next - 1 : InChunk(k)'
        <3>1. Len(chunks) + 1 \in DOMAIN chunks'
            BY <2>2
        <3> QED BY <1>1, <2>2, <3>1 DEF InChunk
    <2> QED BY <2>4, <2>5, <2>6
<1> QED BY <1>4, <1>5

\* Packing one more piece keeps the invariant of packing.
LEMMA PackPieceStep ==
    ASSUME PiecesOK, PackInv, PackPiece
    PROVE  PackInv'
<1>1. /\ stage = "merge" /\ next <= Len(pieces) /\ next' = next + 1
      /\ UNCHANGED <<text, stage, work, pieces>>
    BY DEF PackPiece
<1>2. /\ first \in Nat \ {0} /\ next \in Nat \ {0} /\ first <= next /\ Len(pieces) \in Nat
      /\ work = <<>>
    BY <1>1 DEF PackInv, PackOK, PiecesOK
<1>3. /\ Before(first) \in Nat /\ Before(next) \in Nat
      /\ Before(next + 1) = Before(next) + Width(pieces[next])
      /\ Width(pieces[next]) \in Nat /\ Width(pieces[next]) <= ChunkSize
    <2>1. first \in 1 .. Len(pieces) + 1 /\ next \in 1 .. Len(pieces) /\ next \in 1 .. Len(pieces) + 1
        BY <1>1, <1>2
    <2> QED BY <2>1, BeforeIsSum
<1>4. \A k : Before(k)' = Before(k)
    BY <1>1 DEF Before
<1>5. CASE /\ IsFull
           /\ chunks' = Emitted([first |-> first, last |-> next - 1])
           /\ \E k \in first .. next : Carried(k) /\ first' = k
    <2>1. first' \in first .. next /\ Before(next) - Before(first') <= Overlap
        BY <1>5 DEF Carried
    <2>2. first < next
        BY <1>5 DEF IsFull
    <2>3. /\ ChunksOK'
          /\ \A k : InChunk(k) => InChunk(k)'
          /\ \A k \in first .. next - 1 : IsBlank(pieces[k]) \/ InChunk(k)'
        BY <1>1, <1>2, <1>5, <2>2, EmitStep
    <2>4. CurrentFits'
        <3>1. next' - 1 = next
            BY <1>1, <1>2
        <3>2. Fits(first', next)
            BY <1>3, <2>1 DEF Fits
        <3> QED BY <1>1, <3>1, <3>2 DEF CurrentFits, Fits, Before, Width
    <2>5. PackOK'
        BY <1>1, <1>2, <2>1 DEF PackInv, PackOK
    <2>6. Packed'
        <3> SUFFICES ASSUME NEW k \in 1 .. next' - 1
                     PROVE  IsBlank(pieces[k])' \/ InChunk(k)' \/ (stage' = "merge" /\ first' <= k)
            BY DEF Packed
        <3>1. k = next \/ k \in first .. next - 1 \/ (k \in 1 .. next - 1 /\ k < first)
            BY <1>1, <1>2
        <3>2. IsBlank(pieces[k])' <=> IsBlank(pieces[k])
            BY <1>1 DEF IsBlank
        <3>3. CASE k = next
            BY <1>1, <1>2, <2>1, <3>3
        <3>4. CASE k \in first .. next - 1
            BY <2>3, <3>2, <3>4
        <3>5. CASE k \in 1 .. next - 1 /\ k < first
            <4>1. IsBlank(pieces[k]) \/ InChunk(k)
                BY <1>2, <3>5 DEF PackInv, Packed
            <4> QED BY <2>3, <3>2, <4>1
        <3> QED BY <3>1, <3>3, <3>4, <3>5
    <2> QED BY <2>3, <2>4, <2>5, <2>6 DEF PackInv
<1>6. CASE ~IsFull /\ UNCHANGED <<chunks, first>>
    <2>1. PackOK'
        BY <1>1, <1>2, <1>6 DEF PackInv, PackOK
    <2>2. ChunksOK'
        <3>1. \A d : ChunkOK(d) => d.last < next' /\ ChunkOK(d)
            BY <1>1, <1>2 DEF ChunkOK
        <3> QED BY <1>1, <1>6, <3>1 DEF PackInv, ChunksOK, ChunkOK, Fits, Before, Width
    <2>3. CurrentFits'
        <3>1. next' - 1 = next
            BY <1>1, <1>2
        <3>2. CASE first = next
            <4>1. Fits(first, next)
                BY <1>3, <3>2, SizeAssumption DEF Fits
            <4> QED BY <1>1, <1>6, <3>1, <4>1 DEF CurrentFits, Fits, Before, Width
        <3>3. CASE first < next
            <4>1. Before(next + 1) - Before(first) <= ChunkSize
                BY <1>3, <1>6, <3>3, SizeAssumption DEF IsFull, CurrentLen
            <4> QED BY <1>1, <1>6, <3>1, <4>1 DEF CurrentFits, Fits, Before, Width
        <3> QED BY <1>2, <3>2, <3>3
    <2>4. Packed'
        <3> SUFFICES ASSUME NEW k \in 1 .. next' - 1
                     PROVE  IsBlank(pieces[k])' \/ InChunk(k)' \/ (stage' = "merge" /\ first' <= k)
            BY DEF Packed
        <3>1. k = next \/ k \in 1 .. next - 1
            BY <1>1, <1>2
        <3>2. (IsBlank(pieces[k])' <=> IsBlank(pieces[k])) /\ (InChunk(k)' <=> InChunk(k))
            BY <1>1, <1>6 DEF IsBlank, InChunk
        <3>3. CASE k = next
            BY <1>1, <1>2, <1>6, <3>3
        <3>4. CASE k \in 1 .. next - 1
            BY <1>1, <1>6, <3>2, <3>4 DEF PackInv, Packed
        <3> QED BY <3>1, <3>3, <3>4
    <2> QED BY <2>1, <2>2, <2>3, <2>4 DEF PackInv
<1> QED BY <1>5, <1>6 DEF PackPiece

\* The last chunk closes the packing.
LEMMA PackDoneStep ==
    ASSUME PiecesOK, PackInv, PackDone
    PROVE  PackInv'
<1>1. /\ stage = "merge" /\ next = Len(pieces) + 1 /\ stage' = "locate"
      /\ UNCHANGED <<text, work, pieces, first, next>>
    BY DEF PackDone
<1>2. /\ first \in Nat \ {0} /\ next \in Nat \ {0} /\ first <= next /\ work = <<>>
    BY <1>1 DEF PackInv, PackOK
<1>3. PackOK'
    BY <1>1, <1>2 DEF PackInv, PackOK
<1>4. CurrentFits'
    BY <1>1 DEF PackInv, CurrentFits, Fits, Before, Width
<1>5. \A k : IsBlank(pieces[k])' <=> IsBlank(pieces[k])
    BY <1>1 DEF IsBlank
<1>6. CASE first < next
    <2>1. chunks' = Emitted([first |-> first, last |-> next - 1])
        BY <1>6 DEF PackDone
    <2>2. /\ ChunksOK'
          /\ \A k : InChunk(k) => InChunk(k)'
          /\ \A k \in first .. next - 1 : IsBlank(pieces[k]) \/ InChunk(k)'
        BY <1>1, <1>2, <1>6, <2>1, EmitStep
    <2>3. Packed'
        <3> SUFFICES ASSUME NEW k \in 1 .. next - 1 PROVE IsBlank(pieces[k])' \/ InChunk(k)'
            BY <1>1 DEF Packed
        <3>1. CASE first <= k
            BY <1>2, <1>5, <2>2, <3>1
        <3>2. CASE ~(first <= k)
            BY <1>5, <2>2, <3>2 DEF PackInv, Packed
        <3> QED BY <3>1, <3>2
    <2> QED BY <1>3, <1>4, <2>2, <2>3 DEF PackInv
<1>7. CASE ~(first < next)
    <2>1. chunks' = chunks /\ first = next
        BY <1>2, <1>7 DEF PackDone
    <2>2. ChunksOK'
        BY <1>1, <2>1 DEF PackInv, ChunksOK, ChunkOK, Fits, Before, Width
    <2>3. Packed'
        <3> SUFFICES ASSUME NEW k \in 1 .. next - 1 PROVE IsBlank(pieces[k])' \/ InChunk(k)'
            BY <1>1 DEF Packed
        <3>1. ~(first <= k)
            BY <1>2, <2>1
        <3>2. InChunk(k)' <=> InChunk(k)
            BY <2>1 DEF InChunk
        <3> QED BY <1>5, <3>1, <3>2 DEF PackInv, Packed
    <2> QED BY <1>3, <1>4, <2>2, <2>3 DEF PackInv
<1> QED BY <1>6, <1>7

------------------------------------------------------------------------------
(* Chunking as a whole.                                                    *)

\* A chunker that begins anew.
Fresh ==
    /\ stage = "split"
    /\ work = FirstCall(text)
    /\ pieces = <<>>
    /\ first = 1
    /\ next = 1
    /\ chunks = <<>>

\* A run of the chunker that begins satisfies the invariant.
LEMMA FreshIsFine ==
    ASSUME text \in Seq(Chars), Fresh
    PROVE  ChunkInv
<1> DEFINE t == Task("text", 1, 1, Len(text))
<1>1. text \in Seq(Chars) /\ Len(text) \in Nat
    OBVIOUS
<1>2. WorkOK /\ Kept
    <2>1. CASE \A i \in DOMAIN text : text[i] \in Blanks
        BY <2>1 DEF Fresh, FirstCall, WorkOK, Kept
    <2>2. CASE ~\A i \in DOMAIN text : text[i] \in Blanks
        <3>1. work = <<t>>
            BY <2>2 DEF Fresh, FirstCall
        <3>2. t \in Tasks /\ t.from = 1 /\ t.to = Len(text) /\ t.level = 1 /\ t.kind = "text"
            BY <1>1 DEF Task, Tasks
        <3> HIDE DEF t
        <3>3. work \in Seq(Tasks) /\ DOMAIN work = {1} /\ work[1] = t
            BY <3>1, <3>2
        <3>4. TaskOK(t)
            BY <1>1, <3>2 DEF TaskOK
        <3>5. WorkOK
            BY <3>3, <3>4 DEF WorkOK
        <3>6. Kept
            BY <1>1, <3>2, <3>3 DEF Kept, InWork
        <3> QED BY <3>5, <3>6
    <2> QED BY <2>1, <2>2
<1>3. PiecesOK
    BY DEF Fresh, PiecesOK
<1>4. PackOK /\ ChunksOK /\ Packed
    BY <1>3 DEF Fresh, PackOK, ChunksOK, Packed
<1>5. CurrentFits
    BY DEF Fresh, CurrentFits
<1> QED BY <1>1, <1>2, <1>3, <1>4, <1>5 DEF ChunkInv, SplitInv, PackInv

\* The first run does.
LEMMA ChunkInitInv ==
    ASSUME ChunkInit
    PROVE  ChunkInv
BY FreshIsFine, TextAssumption DEF ChunkInit, Fresh

\* So does a run that a step begins.
LEMMA FreshInv == (text \in Seq(Chars) /\ Fresh)' => ChunkInv'
<1>1. text \in Seq(Chars) /\ Fresh => ChunkInv
    BY FreshIsFine
<1> QED BY <1>1, PTL

\* What does not touch the chunker's state keeps its invariant.
LEMMA ChunkStutter ==
    ASSUME ChunkInv, UNCHANGED <<text, stage, work, pieces, first, next, chunks>>
    PROVE  ChunkInv'
<1>1. SplitInv'
    BY DEF ChunkInv, SplitInv, WorkOK, TaskOK, PiecesOK, PieceOK, Before, Width, Kept, InPiece, InWork
<1>2. PackInv'
    BY DEF ChunkInv, PackInv, PackOK, ChunksOK, ChunkOK, CurrentFits, Fits, Before, Width,
           Packed, InChunk, IsBlank
<1> QED BY <1>1, <1>2 DEF ChunkInv

\* The packing begins with every piece at hand.
LEMMA SplitDoneStep ==
    ASSUME ChunkInv, SplitDone
    PROVE  ChunkInv'
<1>1. /\ stage = "split" /\ work = <<>> /\ stage' = "merge"
      /\ UNCHANGED <<text, work, pieces, first, next, chunks>>
    BY DEF SplitDone
<1>2. SplitInv'
    BY <1>1 DEF ChunkInv, SplitInv, WorkOK, TaskOK, PiecesOK, PieceOK, Before, Width, Kept, InPiece, InWork
<1>3. first = 1 /\ next = 1 /\ chunks = <<>>
    BY <1>1 DEF ChunkInv, PackInv, PackOK
<1>4. PackOK' /\ ChunksOK' /\ Packed'
    BY <1>1, <1>3 DEF ChunkInv, PackInv, PackOK, ChunksOK, Packed
<1>5. CurrentFits'
    BY <1>1, <1>3 DEF CurrentFits
<1> QED BY <1>2, <1>4, <1>5 DEF ChunkInv, PackInv

\* Every step of the chunker keeps its invariant.
LEMMA ChunkNextInv ==
    ASSUME ChunkInv, ChunkNext
    PROVE  ChunkInv'
<1> USE DEF ChunkInv
<1>1. CASE TakeWhole
    <2>1. SplitInv'
        BY <1>1, TakeWholeStep
    <2>2. stage = "split" /\ UNCHANGED <<stage, first, next, chunks>>
        BY <1>1 DEF TakeWhole, Splitting, splitRest
    <2> QED BY <2>1, <2>2, SplitKeepsPackInv DEF SplitInv
<1>2. CASE HardCut
    <2>1. SplitInv'
        BY <1>2, HardCutStep
    <2>2. stage = "split" /\ UNCHANGED <<stage, first, next, chunks>>
        BY <1>2 DEF HardCut, Splitting, splitRest
    <2> QED BY <2>1, <2>2, SplitKeepsPackInv DEF SplitInv
<1>3. CASE Descend
    <2>1. SplitInv'
        BY <1>3, DescendStep
    <2>2. stage = "split" /\ UNCHANGED <<stage, first, next, chunks>>
        BY <1>3 DEF Descend, Splitting
    <2> QED BY <2>1, <2>2, SplitKeepsPackInv DEF SplitInv
<1>4. CASE NextPart
    <2>1. SplitInv'
        BY <1>4, NextPartStep
    <2>2. stage = "split" /\ UNCHANGED <<stage, first, next, chunks>>
        BY <1>4 DEF NextPart, Splitting, splitRest
    <2> QED BY <2>1, <2>2, SplitKeepsPackInv DEF SplitInv
<1>5. CASE SplitDone
    BY <1>5, SplitDoneStep
<1>6. ASSUME PackPiece \/ PackDone
      PROVE  SplitInv'
    <2>1. UNCHANGED <<text, work, pieces>>
        BY <1>6 DEF PackPiece, PackDone
    <2> QED BY <2>1 DEF SplitInv, WorkOK, TaskOK, PiecesOK, PieceOK, Before, Width, Kept, InPiece, InWork
<1>7. CASE PackPiece
    BY <1>6, <1>7, PackPieceStep DEF SplitInv
<1>8. CASE PackDone
    BY <1>6, <1>8, PackDoneStep DEF SplitInv
<1>9. CASE Locate
    <2>1. UNCHANGED <<text, stage, work, pieces, first, next, chunks>>
        BY <1>9 DEF Locate
    <2> QED BY <2>1, ChunkStutter
<1>10. CASE LocateDone
    <2>1. /\ stage = "locate" /\ stage' = "chunked"
          /\ UNCHANGED <<text, work, pieces, first, next, chunks>>
        BY <1>10 DEF LocateDone
    <2>2. SplitInv'
        BY <2>1 DEF SplitInv, WorkOK, TaskOK, PiecesOK, PieceOK, Before, Width, Kept, InPiece, InWork
    <2>3. PackOK'
        BY <2>1 DEF PackInv, PackOK
    <2>4. ChunksOK' /\ CurrentFits'
        BY <2>1 DEF PackInv, ChunksOK, ChunkOK, CurrentFits, Fits, Before, Width
    <2>5. Packed'
        BY <2>1 DEF PackInv, Packed, InChunk, IsBlank
    <2> QED BY <2>2, <2>3, <2>4, <2>5 DEF PackInv
<1> QED BY <1>1, <1>2, <1>3, <1>4, <1>5, <1>7, <1>8, <1>9, <1>10 DEF ChunkNext

\* The bound and the completeness follow.
LEMMA ChunkInvMeans ==
    ASSUME ChunkInv
    PROVE  ChunksFit /\ NothingLost
<1>1. ChunksFit
    BY DEF ChunkInv, PackInv, ChunksOK, ChunkOK, Fits, ChunkWidth, ChunksFit
<1>2. NothingLost
    <2> SUFFICES ASSUME stage \in {"locate", "chunked"}, NEW i \in DOMAIN text, text[i] \notin Blanks
                 PROVE  \E n \in DOMAIN chunks : \E k \in chunks[n].first .. chunks[n].last :
                            i \in pieces[k].from .. pieces[k].to
        BY DEF NothingLost
    <2>1. work = <<>> /\ next = Len(pieces) + 1
        BY DEF ChunkInv, PackInv, PackOK
    <2>2. ~InWork(i)
        BY <2>1 DEF InWork
    <2>3. PICK k \in DOMAIN pieces : i \in pieces[k].from .. pieces[k].to
        BY <2>2 DEF ChunkInv, SplitInv, Kept, InPiece
    <2>4. ~IsBlank(pieces[k])
        BY <2>3 DEF IsBlank
    <2>5. k \in 1 .. next - 1
        BY <2>1, <2>3 DEF ChunkInv, SplitInv, PiecesOK
    <2>6. InChunk(k)
        BY <2>4, <2>5 DEF ChunkInv, PackInv, Packed
    <2> QED BY <2>3, <2>6 DEF InChunk
<1> QED BY <1>1, <1>2

------------------------------------------------------------------------------
(* The attempt.                                                            *)

\* A usable answer, put in order, names the inputs in the order of the request.
LEMMA OrderRestored ==
    ASSUME NEW n \in Nat, NEW data, IsUsable(data, n)
    PROVE  \A i \in 1 .. n : Ordered(data, n)[i] = i - 1
<1> SUFFICES ASSUME NEW i \in 1 .. n PROVE Ordered(data, n)[i] = i - 1
    OBVIOUS
<1>1. i - 1 \in {data[k].index : k \in DOMAIN data}
    <2>1. i - 1 \in 0 .. n - 1
        OBVIOUS
    <2> QED BY <2>1 DEF IsUsable
<1>2. \E k \in DOMAIN data : data[k].index = i - 1
    BY <1>1
<1>3. data[CHOOSE k \in DOMAIN data : data[k].index = i - 1].index = i - 1
    BY <1>2
<1> QED BY <1>3 DEF Ordered

\* The invariant holds at first.
LEMMA InitInv ==
    ASSUME Init
    PROVE  IInv
<1>1. ChunkInv
    BY ChunkInitInv DEF Init
<1>2. VectorsOK
    BY DEF Init, ChunkInit, VectorsOK
<1>3. AttemptOK /\ PointsAreWhole
    BY DEF Init, AttemptOK, PointsAreWhole
<1> QED BY <1>1, <1>2, <1>3 DEF IInv

\* The steps of the attempt leave the chunker alone.
LEMMA AttemptStutter ==
    ASSUME IInv, UNCHANGED chunkVars
    PROVE  ChunkInv'
BY ChunkStutter DEF IInv, chunkVars

\* The chunker at work does not disturb the attempt.
LEMMA ChunkStep ==
    ASSUME IInv, Chunk
    PROVE  IInv'
<1>1. ChunkInv'
    BY ChunkNextInv DEF IInv, Chunk
<1>2. step = "chunk" /\ step' = "chunk" /\ vectors' = vectors /\ stage # "chunked"
    BY DEF Chunk, indexVars, ChunkNext, TakeWhole, HardCut, Descend, NextPart, SplitDone, PackPiece,
           PackDone, Locate, LocateDone, Splitting
<1>3. vectors = <<>>
    BY <1>2 DEF IInv, VectorsOK
<1>4. VectorsOK'
    <2>1. Len(chunks') \in Nat
        BY <1>1 DEF ChunkInv, PackInv, ChunksOK
    <2> QED BY <1>2, <1>3, <2>1 DEF VectorsOK
<1>5. AttemptOK' /\ PointsAreWhole'
    BY <1>2 DEF AttemptOK, PointsAreWhole
<1> QED BY <1>1, <1>4, <1>5 DEF IInv

\* Two sequences of numbers one behind the other.
LEMMA ConcatOfNats ==
    ASSUME NEW a \in Seq(Nat), NEW b \in Seq(Nat)
    PROVE  a \o b \in Seq(Nat) /\ Len(a \o b) = Len(a) + Len(b)
OBVIOUS

\* A call that succeeds brings the vectors of its batch in order.
LEMMA EmbedStep ==
    ASSUME IInv, EmbedAnswered
    PROVE  IInv'
<1>0. PICK n : n = BatchLen
    OBVIOUS
<1>1. PICK data \in Data(n) :
        /\ IsUsable(data, n)
        /\ vectors' = vectors \o [i \in 1 .. n |-> Len(vectors) + 1 + Ordered(data, n)[i]]
    BY <1>0 DEF EmbedAnswered
<1>10. /\ step = "chunk" /\ stage = "chunked" /\ Len(vectors) < Len(chunks)
       /\ step' = IF Len(vectors) + n = Len(chunks) THEN "clear" ELSE step
       /\ UNCHANGED <<text, stage, work, pieces, first, next, chunks>>
    BY <1>0 DEF EmbedAnswered, Embedding, chunkVars
<1>2. /\ Len(chunks) \in Nat /\ vectors \in Seq(Nat) /\ Len(vectors) \in Nat
      /\ \A i \in 1 .. Len(vectors) : vectors[i] = i
    BY DEF IInv, ChunkInv, PackInv, ChunksOK, VectorsOK
<1>3. n \in Nat \ {0} /\ Len(vectors) + n <= Len(chunks)
    BY <1>0, <1>10, <1>2, EmbedAssumption DEF BatchLen
<1> DEFINE more == [i \in 1 .. n |-> Len(vectors) + 1 + Ordered(data, n)[i]]
<1>4. \A i \in 1 .. n : Ordered(data, n)[i] = i - 1
    BY <1>1, <1>3, OrderRestored
<1>5. /\ more \in Seq(Nat) /\ Len(more) = n
      /\ \A i \in 1 .. n : more[i] = Len(vectors) + i
    <2>1. \A i \in 1 .. n : more[i] = Len(vectors) + i
        BY <1>2, <1>3, <1>4
    <2>2. \A i \in 1 .. n : more[i] \in Nat
        BY <1>2, <1>3, <2>1
    <2>3. more \in [1 .. n -> Nat]
        BY <2>2
    <2> HIDE DEF more
    <2>4. more \in Seq(Nat) /\ Len(more) = n
        BY <1>3, <2>3
    <2> QED BY <2>1, <2>4
<1> HIDE DEF more
<1>6. /\ vectors' \in Seq(Nat) /\ Len(vectors') = Len(vectors) + n
      /\ \A i \in 1 .. Len(vectors') : vectors'[i] = i
    <2>1. vectors' = vectors \o more
        BY <1>1 DEF more
    <2>2. vectors' \in Seq(Nat) /\ Len(vectors') = Len(vectors) + n
        <3>1. vectors \in Seq(Nat) /\ more \in Seq(Nat) /\ Len(more) = n
            BY <1>2, <1>5
        <3> QED BY <2>1, <3>1, ConcatOfNats
    <2>3. ASSUME NEW i \in 1 .. Len(vectors) + n
          PROVE  vectors'[i] = i
        <3>1. CASE i <= Len(vectors)
            BY <1>2, <1>3, <1>5, <2>1, <3>1
        <3>2. CASE i > Len(vectors)
            <4>1. i - Len(vectors) \in 1 .. n /\ Len(vectors) + (i - Len(vectors)) = i
                BY <1>2, <1>3, <3>2
            <4>2. vectors'[i] = more[i - Len(vectors)]
                BY <1>2, <1>3, <1>5, <2>1, <3>2, <4>1
            <4> QED BY <1>5, <4>1, <4>2
        <3> QED BY <1>2, <1>3, <3>1, <3>2
    <2> QED BY <2>2, <2>3
<1>7. ChunkInv'
    BY <1>10, ChunkStutter DEF IInv
<1>8. VectorsOK'
    BY <1>10, <1>3, <1>6 DEF VectorsOK
<1>9. AttemptOK' /\ PointsAreWhole'
    <2>1. step' \in {"chunk", "clear"}
        BY <1>10
    <2>2. step' = "clear" => Len(vectors') = Len(chunks')
        BY <1>10, <1>6
    <2>3. chunks' # <<>>
        BY <1>10, <1>2
    <2> QED BY <1>10, <2>1, <2>2, <2>3 DEF AttemptOK, PointsAreWhole
<1> QED BY <1>7, <1>8, <1>9 DEF IInv

\* The endpoint refuses nothing that fits its window, and so nothing for good.
LEMMA RefusalIsNotFatal ==
    ASSUME ChunkInv, NEW r \in Refusals, MayRefuse(r, Batch), Len(vectors) \in Nat
    PROVE  ~IsFatal(r)
<1>1. \A i \in Batch : i \in DOMAIN chunks
    <2>1. Len(chunks) \in Nat /\ DOMAIN chunks = 1 .. Len(chunks)
        BY DEF ChunkInv, PackInv, ChunksOK
    <2> QED BY <2>1, EmbedAssumption DEF Batch
<1>2. ASSUME NEW i \in DOMAIN chunks
      PROVE  ChunkWidth(chunks[i]) \in Int /\ ChunkWidth(chunks[i]) <= ChunkSize + Overlap
    <2>1. PICK f, l : f = chunks[i].first /\ l = chunks[i].last
        OBVIOUS
    <2>2. PiecesOK /\ Len(pieces) \in Nat
        BY DEF ChunkInv, SplitInv, PiecesOK
    <2>3. f \in 1 .. Len(pieces) /\ l \in 1 .. Len(pieces) /\ Fits(f, l)
        <3>1. ChunkOK(chunks[i]) /\ next <= Len(pieces) + 1 /\ next \in Nat
            BY DEF ChunkInv, PackInv, ChunksOK, PackOK
        <3> QED BY <2>1, <2>2, <3>1 DEF ChunkOK
    <2>4. f \in 1 .. Len(pieces) + 1 /\ l \in 1 .. Len(pieces) + 1
        BY <2>2, <2>3
    <2>5. Before(f) \in Nat /\ Before(l) \in Nat
        BY <2>2, <2>4, BeforeIsSum
    <2>6. Width(pieces[l]) \in Nat /\ Before(l + 1) = Before(l) + Width(pieces[l])
        BY <2>2, <2>3, BeforeIsSum
    <2>7. ChunkWidth(chunks[i]) = Before(l + 1) - Before(f)
        BY <2>1 DEF ChunkWidth
    <2> QED BY <2>3, <2>5, <2>6, <2>7, SizeAssumption DEF Fits
<1>3. ~\E i \in Batch : ChunkWidth(chunks[i]) > Window
    BY <1>1, <1>2, WindowAssumption, SizeAssumption
<1>4. r.status # 413 /\ ~r.blames
    BY <1>3 DEF MayRefuse
<1> QED BY <1>4 DEF IsFatal

\* The write puts every chunk there under its own vector.
LEMMA UpsertStep ==
    ASSUME IInv, Upsert
    PROVE  IInv'
<1>1. /\ step = "upsert" /\ step' = "ok" /\ points' = Written
      /\ UNCHANGED <<vectors, stage, chunks>>
    BY DEF Upsert, chunkVars
<1>2. points = {} /\ Len(vectors) = Len(chunks) /\ stage = "chunked"
    BY <1>1 DEF IInv, AttemptOK
<1>3. \A i \in DOMAIN chunks : vectors[i] = i
    BY <1>2 DEF IInv, VectorsOK, ChunkInv, PackInv, ChunksOK
<1>4. points' = {[index |-> i - 1, version |-> "new", chunk |-> i, vector |-> i] : i \in DOMAIN chunks}
    <2>1. points' = NewPoints
        BY <1>1, <1>2 DEF Written
    <2> QED BY <1>3, <2>1 DEF NewPoints
<1>5. ChunkInv'
    BY AttemptStutter DEF Upsert
<1>6. VectorsOK'
    BY <1>1, <1>2 DEF IInv, VectorsOK
<1>7. AttemptOK' /\ PointsAreWhole'
    BY <1>1, <1>4 DEF AttemptOK, PointsAreWhole
<1> QED BY <1>5, <1>6, <1>7 DEF IInv

\* A step that ends the attempt, or goes on to the next call.
LEMMA QuietStep ==
    ASSUME IInv, UNCHANGED chunkVars, UNCHANGED vectors, step # "download" \/ step' # "ok",
           \/ step' \in {"chunk", "dead"}
           \/ step' = "download" /\ step = "retryable"
           \/ step' = "ok" /\ chunks = <<>>
    PROVE  IInv'
<1>1. ChunkInv'
    BY AttemptStutter
<1>2. VectorsOK' /\ AttemptOK' /\ PointsAreWhole'
    BY DEF IInv, VectorsOK, AttemptOK, PointsAreWhole, chunkVars
<1> QED BY <1>1, <1>2 DEF IInv

\* A failed attempt leaves nothing but what it wrote to the collection.
LEMMA GiveBackStep ==
    ASSUME IInv, GiveBack
    PROVE  IInv'
<1>1. /\ step' \in {"retryable", "orphaned"} /\ stage' = "split" /\ work' = FirstCall(text)
      /\ pieces' = <<>> /\ first' = 1 /\ next' = 1 /\ chunks' = <<>> /\ vectors' = <<>>
      /\ text' = text
    BY DEF GiveBack
<1>2. ChunkInv'
    <2>1. text' \in Seq(Chars)
        BY <1>1 DEF IInv, ChunkInv, SplitInv
    <2>2. Fresh'
        BY <1>1 DEF Fresh, FirstCall
    <2> QED BY <2>1, <2>2, FreshInv
<1>3. VectorsOK' /\ AttemptOK' /\ PointsAreWhole'
    BY <1>1 DEF VectorsOK, AttemptOK, PointsAreWhole
<1> QED BY <1>2, <1>3 DEF IInv

\* Every step keeps the invariant.
LEMMA NextInv ==
    ASSUME IInv, Next
    PROVE  IInv'
<1>1. CASE Download
    BY <1>1, QuietStep DEF Download
<1>2. CASE Chunk
    BY <1>2, ChunkStep
<1>3. CASE NoText
    BY <1>3, QuietStep DEF NoText
<1>4. CASE EmbedAnswered
    BY <1>4, EmbedStep
<1>5. CASE Clear
    <2>1. step = "clear" /\ points' = {} /\ step' = "upsert" /\ UNCHANGED <<stage, chunks, vectors>>
        BY <1>5 DEF Clear, chunkVars
    <2>2. ChunkInv'
        BY <1>5, AttemptStutter DEF Clear
    <2>3. VectorsOK' /\ AttemptOK' /\ PointsAreWhole'
        BY <2>1 DEF IInv, VectorsOK, AttemptOK, PointsAreWhole
    <2> QED BY <2>2, <2>3 DEF IInv
<1>6. CASE Upsert
    BY <1>6, UpsertStep
<1>7. CASE EmbedMalformed
    BY <1>7, GiveBackStep DEF EmbedMalformed
<1>8. CASE \E r \in Refusals : EmbedRefused(r)
    <2>1. PICK r \in Refusals : EmbedRefused(r)
        BY <1>8
    <2>2. ~IsFatal(r)
        BY <2>1, RefusalIsNotFatal DEF EmbedRefused, IInv, VectorsOK
    <2> QED BY <2>1, <2>2, GiveBackStep DEF EmbedRefused
<1>9. CASE AttemptFails
    BY <1>9, GiveBackStep DEF AttemptFails
<1>10. CASE Redeliver \/ DeadLetter
    BY <1>10, QuietStep DEF Redeliver, DeadLetter
<1> QED BY <1>1, <1>2, <1>3, <1>4, <1>5, <1>6, <1>7, <1>8, <1>9, <1>10 DEF Next

\* So does a step that changes nothing.
LEMMA StutterInv ==
    ASSUME IInv, UNCHANGED vars
    PROVE  IInv'
<1>1. UNCHANGED chunkVars /\ UNCHANGED <<step, vectors, points>>
    BY DEF vars, indexVars
<1>2. ChunkInv'
    BY <1>1, AttemptStutter
<1>3. VectorsOK' /\ AttemptOK' /\ PointsAreWhole'
    BY <1>1 DEF IInv, VectorsOK, AttemptOK, PointsAreWhole, chunkVars
<1> QED BY <1>2, <1>3 DEF IInv

------------------------------------------------------------------------------
(* Theorems.                                                               *)

\* The inductive invariant, for any texts and separators.
THEOREM IndexingInvariant == Spec => []IInv
<1>1. Init => IInv
    BY InitInv
<1>2. IInv /\ [Next]_vars => IInv'
    BY NextInv, StutterInv
<1> QED BY <1>1, <1>2, PTL DEF Spec

\* A chunk is within the chunk size, or all of it but its last piece is within the overlap
\* and that piece is within the chunk size (merge_with_overlap).
THEOREM ChunksFitHolds == Spec => []ChunksFit
<1>1. IInv => ChunksFit
    BY ChunkInvMeans DEF IInv
<1> QED BY <1>1, IndexingInvariant, PTL

\* Every character that is not blank is in some chunk (split_to_size,
\* merge_with_overlap).
THEOREM NothingLostHolds == Spec => []NothingLost
<1>1. IInv => NothingLost
    BY ChunkInvMeans DEF IInv
<1> QED BY <1>1, IndexingInvariant, PTL

\* After an attempt that wrote, the collection holds exactly the chunks, each
\* under its own vector (ingest, order_embeddings).
THEOREM PointsAreWholeHolds == Spec => []PointsAreWhole
<1>1. IInv => PointsAreWhole
    BY DEF IInv
<1> QED BY <1>1, IndexingInvariant, PTL

\* The old points stay until every vector is in hand (ingest).
THEOREM PointsChangeInHandHolds == Spec => PointsChangeInHand
<1>1. IInv /\ [Next]_vars => [points' # points => Len(vectors) = Len(chunks) /\ chunks # <<>>]_vars
    <2> SUFFICES ASSUME IInv, Next, points' # points
                 PROVE  Len(vectors) = Len(chunks) /\ chunks # <<>>
        OBVIOUS
    <2>1. step \in {"clear", "upsert"}
        BY DEF Next, Download, Chunk, NoText, EmbedAnswered, Clear, Upsert,
               EmbedMalformed, EmbedRefused, AttemptFails, Redeliver, DeadLetter, indexVars
    <2> QED BY <2>1 DEF IInv, AttemptOK
<1> QED BY <1>1, IndexingInvariant, PTL DEF Spec, PointsChangeInHand

\* No answer of the endpoint ends the attempts for good while inputs of a
\* chunk's size fit its window (is_fatal).
THEOREM NeverCondemnedHolds == Spec => []NeverCondemned
<1>1. IInv => NeverCondemned
    BY DEF IInv, AttemptOK, NeverCondemned
<1> QED BY <1>1, IndexingInvariant, PTL

------------------------------------------------------------------------------
(* Least and greatest elements, in place of induction.                     *)

\* A set of naturals that is not empty has a least element.
LEMMA LeastNatural ==
    ASSUME NEW T \in SUBSET Nat, T # {}
    PROVE  \E x \in T : \A y \in T : x <= y
<1> DEFINE R == OpToRel(<, Nat)
<1>1. IsWellFoundedOn(R, Nat)
    BY NatLessThanWellFounded
<1>2. \A x, y \in Nat : y < x => <<y, x>> \in R
    BY DEF OpToRel
<1> HIDE DEF R
<1>3. PICK x \in T : \A y \in T : ~(<<y, x>> \in R)
    BY <1>1, WFMin
<1>4. \A y \in T : y \in Nat /\ x \in Nat /\ ~(y < x)
    BY <1>2, <1>3
<1> QED BY <1>4

\* A bounded one has a greatest element.
LEMMA GreatestNatural ==
    ASSUME NEW T \in SUBSET Nat, T # {}, NEW b \in Nat, \A x \in T : x <= b
    PROVE  \E x \in T : \A y \in T : x >= y
<1> DEFINE U == {b - x : x \in T}
<1>1. U \in SUBSET Nat /\ U # {}
    <2>1. \A x \in T : b - x \in Nat
        OBVIOUS
    <2> QED BY <2>1
<1>2. PICK u \in U : \A v \in U : u <= v
    BY <1>1, LeastNatural
<1>3. PICK x \in T : u = b - x
    BY <1>2
<1>4. \A y \in T : b - x <= b - y
    BY <1>2, <1>3
<1>5. \A y \in T : x >= y
    BY <1>4
<1> QED BY <1>5

\* The minimum of the community modules is that element.
LEMMA MinIsLeast ==
    ASSUME NEW T \in SUBSET Nat, T # {}
    PROVE  Min(T) \in T /\ \A y \in T : Min(T) <= y
BY LeastNatural DEF Min

\* So is the maximum.
LEMMA MaxIsGreatest ==
    ASSUME NEW T \in SUBSET Nat, T # {}, NEW b \in Nat, \A x \in T : x <= b
    PROVE  Max(T) \in T /\ \A y \in T : y <= Max(T)
<1>1. \E x \in T : \A y \in T : x >= y
    BY GreatestNatural
<1>2. Max(T) \in T /\ \A y \in T : Max(T) >= y
    BY <1>1 DEF Max
<1> QED BY <1>2

\* What holds of 1 and is passed on by every step up to n holds up to n.
LEMMA Reaches ==
    ASSUME NEW n \in Nat, NEW T, 1 \in T, \A k \in 1 .. n - 1 : k \in T => k + 1 \in T
    PROVE  \A k \in 1 .. n : k \in T
<1> SUFFICES ASSUME NEW k \in 1 .. n, k \notin T PROVE FALSE
    OBVIOUS
<1> DEFINE U == {j \in 1 .. n : j \notin T}
<1>1. PICK u \in U : \A v \in U : u <= v
    <2>1. U \in SUBSET Nat /\ U # {}
        OBVIOUS
    <2> QED BY <2>1, LeastNatural
<1>2. u # 1 /\ u \in 1 .. n
    BY <1>1
<1>3. u - 1 \in 1 .. n - 1 /\ u - 1 \notin U
    BY <1>1, <1>2
<1>4. u - 1 \in T
    BY <1>3
<1>5. (u - 1) + 1 \in T
    BY <1>3, <1>4
<1> QED BY <1>1, <1>2, <1>5

------------------------------------------------------------------------------
(* The text of a chunk.                                                    *)

\* The prefix sums grow, each piece by its own length.
LEMMA BeforeGrows ==
    ASSUME PiecesOK, NEW j \in 1 .. Len(pieces) + 1, NEW k \in 1 .. Len(pieces) + 1, j <= k
    PROVE  Before(j) <= Before(k)
<1>0. Len(pieces) \in Nat
    BY DEF PiecesOK
<1> DEFINE n == Len(pieces) + 2
           T == {i \in Nat : j - 1 + i <= Len(pieces) + 1 => Before(j) <= Before(j - 1 + i)}
<1>1. \A i \in 1 .. Len(pieces) + 1 : Before(i) \in Nat
    BY BeforeIsSum
<1>2. 1 \in T
    BY <1>1
<1>3. ASSUME NEW i \in 1 .. n - 1, i \in T
      PROVE  i + 1 \in T
    <2> SUFFICES ASSUME j - 1 + (i + 1) <= Len(pieces) + 1
                 PROVE  Before(j) <= Before(j - 1 + (i + 1))
        BY <1>0
    <2>1. j - 1 + i \in 1 .. Len(pieces) /\ j - 1 + (i + 1) = (j - 1 + i) + 1
        BY <1>0
    <2>2. PICK m \in 1 .. Len(pieces) : m = j - 1 + i
        BY <2>1
    <2>3. Before(m + 1) = Before(m) + Width(pieces[m]) /\ Width(pieces[m]) \in Nat
        BY BeforeIsSum
    <2>4. Before(j) <= Before(m) /\ Before(m) \in Nat
        BY <1>0, <1>1, <2>1, <2>2, <1>3
    <2> QED BY <1>1, <2>1, <2>2, <2>3, <2>4
<1>4. n \in Nat /\ k - j + 1 \in 1 .. n
    BY <1>0
<1> HIDE DEF n, T
<1>5. \A i \in 1 .. n : i \in T
    BY <1>2, <1>3, <1>4, Reaches
<1>6. PICK i \in T : i = k - j + 1
    BY <1>4, <1>5
<1>7. j - 1 + i <= Len(pieces) + 1 => Before(j) <= Before(j - 1 + i)
    BY DEF T
<1>8. j - 1 + i = k
    BY <1>0, <1>6
<1> QED BY <1>0, <1>7, <1>8

\* The pieces of a chunk lie in order, and the width of a chunk is a number.
LEMMA ChunkLies ==
    ASSUME PiecesOK, PackInv, NEW c, ChunkOK(c)
    PROVE  /\ c.first \in 1 .. Len(pieces) /\ c.last \in c.first .. Len(pieces)
           /\ Before(c.first) \in Nat /\ Before(c.last + 1) \in Nat
           /\ ChunkWidth(c) \in Nat
           /\ Before(c.last + 1) = Before(c.first) + ChunkWidth(c)
<1>1. /\ c.first \in 1 .. Len(pieces) /\ c.last \in c.first .. Len(pieces) /\ Len(pieces) \in Nat
    BY DEF ChunkOK, PackInv, PackOK, PiecesOK
<1>2. /\ c.first \in 1 .. Len(pieces) + 1 /\ c.last + 1 \in 1 .. Len(pieces) + 1
      /\ c.first <= c.last + 1
    BY <1>1
<1>3. Before(c.first) \in Nat /\ Before(c.last + 1) \in Nat
    BY <1>2, BeforeIsSum
<1>4. Before(c.first) <= Before(c.last + 1)
    BY <1>2, BeforeGrows
<1> QED BY <1>1, <1>3, <1>4 DEF ChunkWidth

\* Every character of a chunk is in one of its pieces.
LEMMA HeldByAPiece ==
    ASSUME PiecesOK, PackInv, NEW c, ChunkOK(c), NEW p \in Int,
           Before(c.first) < p, p <= Before(c.last + 1)
    PROVE  \E k \in c.first .. c.last : Holds(k, p)
<1> DEFINE T == {k \in c.first .. c.last : p <= Before(k + 1)}
<1>0. c.first \in 1 .. Len(pieces) /\ c.last \in c.first .. Len(pieces) /\ Len(pieces) \in Nat
    BY ChunkLies DEF PiecesOK
<1>1. T \in SUBSET Nat /\ c.last \in T
    BY <1>0
<1>2. PICK k \in T : \A i \in T : k <= i
    BY <1>1, LeastNatural
<1>3. k \in c.first .. c.last /\ p <= Before(k + 1)
    BY <1>2
<1>4. Before(k) < p
    <2>1. CASE k = c.first
        BY <2>1
    <2>2. CASE k # c.first
        <3>1. k - 1 \in c.first .. c.last /\ k - 1 \notin T /\ (k - 1) + 1 = k
            BY <1>0, <1>2, <1>3, <2>2
        <3>2. Before(k) \in Nat
            <4>1. k \in 1 .. Len(pieces) + 1
                BY <1>0, <1>3
            <4> QED BY <4>1, BeforeIsSum
        <3>3. ~(p <= Before(k))
            BY <3>1
        <3> QED BY <3>2, <3>3
    <2> QED BY <2>1, <2>2
<1> QED BY <1>3, <1>4 DEF Holds

\* What trimming returns: from the first to the last character that is not blank.
LEMMA TrimMeans ==
    ASSUME NEW s, NEW n \in Nat, DOMAIN s = 1 .. n
    PROVE  LET solid == {i \in 1 .. n : s[i] \notin Blanks}
           IN /\ solid = {} => Trim(s) = <<>>
              /\ solid # {} => /\ Trim(s) = SubSeq(s, Min(solid), Max(solid))
                              /\ Min(solid) \in solid /\ Max(solid) \in solid
                              /\ \A i \in solid : Min(solid) <= i /\ i <= Max(solid)
<1> DEFINE solid == {i \in 1 .. n : s[i] \notin Blanks}
<1>1. solid = {i \in DOMAIN s : s[i] \notin Blanks}
    OBVIOUS
<1>2. Trim(s) = IF solid = {} THEN <<>> ELSE SubSeq(s, Min(solid), Max(solid))
    BY <1>1 DEF Trim
<1>3. solid \in SUBSET Nat /\ \A i \in solid : i <= n
    OBVIOUS
<1> HIDE DEF solid
<1>4. solid # {} => /\ Min(solid) \in solid /\ Max(solid) \in solid
                    /\ \A i \in solid : Min(solid) <= i /\ i <= Max(solid)
    BY <1>3, MinIsLeast, MaxIsGreatest
<1>5. solid = {i \in 1 .. n : s[i] \notin Blanks}
    BY DEF solid
<1> QED BY <1>2, <1>4, <1>5

\* The text of a chunk has a length.
LEMMA TextHasLength ==
    ASSUME PiecesOK, PackInv, NEW c, ChunkOK(c)
    PROVE  Len(ChunkText(c)) \in Nat
<1> DEFINE n == ChunkWidth(c)
           s == Concat(c)
           solid == {i \in 1 .. n : s[i] \notin Blanks}
<1>1. n \in Nat
    BY ChunkLies
<1>2. DOMAIN s = 1 .. n
    BY DEF Concat
<1>3. ChunkText(c) = Trim(s)
    BY DEF ChunkText
<1> HIDE DEF n, s
<1>4. /\ solid = {} => Trim(s) = <<>>
      /\ solid # {} => /\ Trim(s) = SubSeq(s, Min(solid), Max(solid))
                      /\ Min(solid) \in solid /\ Max(solid) \in solid
    BY <1>1, <1>2, TrimMeans
<1>5. CASE solid = {}
    BY <1>3, <1>4, <1>5
<1>6. CASE solid # {}
    <2>1. PICK l, h \in 1 .. n : Trim(s) = SubSeq(s, l, h)
        BY <1>4, <1>6
    <2> DEFINE S == {s[i] : i \in l .. h}
    <2>2. /\ l \in Int /\ h \in Int
          /\ \A i \in l .. h : s[i] \in S
        BY <1>1
    <2> HIDE DEF S
    <2>3. Len(SubSeq(s, l, h)) = IF l <= h THEN h - l + 1 ELSE 0
        BY <2>2, SubSeqProperties
    <2> QED BY <1>1, <1>3, <2>1, <2>3
<1> QED BY <1>5, <1>6

\* Where nothing was left out, a piece is as far into the document as the
\* pieces before it are long.
LEMMA NoGapsLines ==
    ASSUME PiecesOK, NoGaps
    PROVE  \A k \in 1 .. Len(pieces) : /\ pieces[k].from = pieces[1].from + Before(k)
                                       /\ pieces[k].to + 1 = pieces[1].from + Before(k + 1)
                                       /\ pieces[1].from \in Nat
                                       /\ pieces[k].from \in Nat /\ pieces[k].to \in Nat
                                       /\ Before(k) \in Nat /\ Before(k + 1) \in Nat
<1>0. Len(pieces) \in Nat /\ DOMAIN pieces = 1 .. Len(pieces)
    BY DEF PiecesOK
<1> DEFINE T == {k \in 1 .. Len(pieces) : pieces[k].from = pieces[1].from + Before(k)}
<1>1. ASSUME NEW k \in 1 .. Len(pieces), k \in T
      PROVE  /\ pieces[k].to + 1 = pieces[1].from + Before(k + 1)
             /\ pieces[1].from \in Nat /\ pieces[k].from \in Nat /\ pieces[k].to \in Nat
             /\ Before(k) \in Nat /\ Before(k + 1) \in Nat
    <2>1. PieceOK(k) /\ PieceOK(1)
        BY <1>0 DEF PiecesOK
    <2>2. pieces[1].from \in Nat /\ pieces[k].from \in Nat /\ pieces[k].to \in Nat
        BY <2>1 DEF PieceOK
    <2>3. Before(k + 1) = Before(k) + Width(pieces[k]) /\ Before(k) \in Nat /\ Before(k + 1) \in Nat
        <3>1. k \in 1 .. Len(pieces) + 1 /\ k + 1 \in 1 .. Len(pieces) + 1
            BY <1>0
        <3> QED BY <3>1, BeforeIsSum
    <2>4. Width(pieces[k]) = pieces[k].to - pieces[k].from + 1
        BY DEF Width
    <2>5. pieces[k].from = pieces[1].from + Before(k)
        BY <1>1
    <2> QED BY <2>2, <2>3, <2>4, <2>5
<1>2. CASE Len(pieces) = 0
    BY <1>2
<1>3. CASE Len(pieces) # 0
    <2>1. 1 \in T
        <3>1. PieceOK(1) /\ Before(1) = 0
            BY <1>0, <1>3 DEF PiecesOK, Before
        <3> QED BY <1>0, <1>3, <3>1 DEF PieceOK
    <2>2. ASSUME NEW k \in 1 .. Len(pieces) - 1, k \in T
          PROVE  k + 1 \in T
        <3>1. k \in 1 .. Len(pieces) /\ k + 1 \in 2 .. Len(pieces) /\ (k + 1) - 1 = k
            BY <1>0
        <3>2. pieces[k + 1].from = pieces[k].to + 1
            BY <3>1 DEF NoGaps
        <3>3. pieces[k].to + 1 = pieces[1].from + Before(k + 1)
            BY <1>1, <2>2, <3>1
        <3> QED BY <3>1, <3>2, <3>3
    <2> HIDE DEF T
    <2>3. \A k \in 1 .. Len(pieces) : k \in T
        BY <1>0, <2>1, <2>2, Reaches
    <2> QED BY <1>1, <2>3 DEF T
<1> QED BY <1>2, <1>3

\* There a chunk is a stretch of the text.
LEMMA ConcatIsStretch ==
    ASSUME PiecesOK, PackInv, NoGaps, NEW c, ChunkOK(c)
    PROVE  /\ ChunkWidth(c) = pieces[c.last].to + 1 - pieces[c.first].from
           /\ \A j \in 1 .. ChunkWidth(c) : Concat(c)[j] = text[pieces[c.first].from + j - 1]
<1>1. /\ c.first \in 1 .. Len(pieces) /\ c.last \in c.first .. Len(pieces) /\ Len(pieces) \in Nat
      /\ Before(c.first) \in Nat /\ Before(c.last + 1) \in Nat
      /\ ChunkWidth(c) \in Nat /\ Before(c.last + 1) = Before(c.first) + ChunkWidth(c)
    BY ChunkLies DEF PiecesOK
<1>2. /\ pieces[c.first].from = pieces[1].from + Before(c.first)
      /\ pieces[c.last].to + 1 = pieces[1].from + Before(c.last + 1)
      /\ pieces[1].from \in Nat /\ pieces[c.first].from \in Nat /\ pieces[c.last].to \in Nat
    <2>1. c.last \in 1 .. Len(pieces)
        BY <1>1
    <2> QED BY <1>1, <2>1, NoGapsLines
<1>3. ChunkWidth(c) = pieces[c.last].to + 1 - pieces[c.first].from
    <2> DEFINE f == pieces[c.first].from
               t == pieces[c.last].to
               p == pieces[1].from
               b == Before(c.first)
               w == ChunkWidth(c)
    <2>1. f \in Int /\ t \in Int /\ p \in Int /\ b \in Int /\ w \in Int
        BY <1>1, <1>2
    <2>2. f = p + b /\ t + 1 = p + (b + w)
        BY <1>1, <1>2
    <2> HIDE DEF f, t, p, b, w
    <2>3. w = t + 1 - f
        BY <2>1, <2>2
    <2> QED BY <2>3 DEF f, t, w
<1>4. ASSUME NEW j \in 1 .. ChunkWidth(c)
      PROVE  Concat(c)[j] = text[pieces[c.first].from + j - 1]
    <2> DEFINE p == Before(c.first) + j
               h == CHOOSE k \in c.first .. c.last : Holds(k, p)
    <2>1. p \in Int /\ Before(c.first) < p /\ p <= Before(c.last + 1)
        BY <1>1
    <2> HIDE DEF p
    <2>2. \E k \in c.first .. c.last : Holds(k, p)
        BY <2>1, HeldByAPiece
    <2>3. h \in c.first .. c.last
        BY <2>2
    <2>4. Concat(c)[j] = CharAt(p, h)
        BY DEF Concat, p
    <2> HIDE DEF h
    <2>5. h \in 1 .. Len(pieces) /\ h \in 1 .. Len(pieces) + 1
        BY <1>1, <2>3
    <2>6. pieces[h].from = pieces[1].from + Before(h) /\ Before(h) \in Nat
        BY <2>5, NoGapsLines, BeforeIsSum
    <2>7. pieces[h].from + (p - Before(h)) - 1 = pieces[c.first].from + j - 1
        <3> DEFINE f == pieces[c.first].from
                   q == pieces[1].from
                   g == pieces[h].from
                   b == Before(c.first)
                   d == Before(h)
        <3>1. f \in Int /\ q \in Int /\ g \in Int /\ b \in Int /\ d \in Int
            BY <1>1, <1>2, <2>6
        <3>2. f = q + b /\ g = q + d /\ p = b + j
            BY <1>2, <2>6 DEF p
        <3> HIDE DEF f, q, g, b, d
        <3>3. g + (p - d) - 1 = f + j - 1
            BY <3>1, <3>2
        <3> QED BY <3>3 DEF f, g, d
    <2> QED BY <2>4, <2>7 DEF CharAt
<1> QED BY <1>3, <1>4

\* The characters of a chunk that are not blank, by their place in the text.
SolidOf(c) == {i \in pieces[c.first].from .. pieces[c.last].to : text[i] \notin Blanks}
Lead(c) == Min(SolidOf(c))
Trail(c) == Max(SolidOf(c))

\* A chunk that is not blank has a first and a last character that is not, inside it.
LEMMA SolidBounds ==
    ASSUME SplitInv, PackInv, NoGaps, NEW c, ChunkOK(c), ~ChunkIsBlank(c)
    PROVE  /\ pieces[c.first].from \in Nat \ {0} /\ pieces[c.last].to \in Nat
           /\ pieces[c.last].to <= Len(text)
           /\ Lead(c) \in SolidOf(c) /\ Trail(c) \in SolidOf(c)
           /\ \A i \in SolidOf(c) : Lead(c) <= i /\ i <= Trail(c)
<1>1. /\ c.first \in 1 .. Len(pieces) /\ c.last \in c.first .. Len(pieces) /\ Len(pieces) \in Nat
      /\ DOMAIN pieces = 1 .. Len(pieces)
    BY ChunkLies DEF PiecesOK, SplitInv
<1>2. \A k \in 1 .. Len(pieces) : PieceOK(k)
    BY <1>1 DEF PiecesOK, SplitInv
<1>3. /\ pieces[c.first].from \in Nat \ {0} /\ pieces[c.last].to \in Nat
      /\ pieces[c.last].to <= Len(text)
    <2>1. PieceOK(c.first) /\ PieceOK(c.last)
        BY <1>1, <1>2
    <2> QED BY <2>1 DEF PieceOK
<1>4. SolidOf(c) # {}
    <2>1. PICK k \in c.first .. c.last : ~IsBlank(pieces[k])
        BY DEF ChunkIsBlank
    <2>2. PICK i \in pieces[k].from .. pieces[k].to : text[i] \notin Blanks
        BY <2>1 DEF IsBlank
    <2>3. k \in 1 .. Len(pieces) /\ PieceOK(k)
        BY <1>1, <1>2
    <2>4. /\ pieces[k].from = pieces[1].from + Before(k)
          /\ pieces[k].to + 1 = pieces[1].from + Before(k + 1)
          /\ pieces[k].from \in Nat /\ pieces[k].to \in Nat
          /\ pieces[c.first].from = pieces[1].from + Before(c.first)
          /\ pieces[c.last].to + 1 = pieces[1].from + Before(c.last + 1)
          /\ pieces[1].from \in Nat
        <3>1. c.last \in 1 .. Len(pieces)
            BY <1>1
        <3> QED BY <1>1, <2>3, <3>1, NoGapsLines DEF SplitInv
    <2>5. /\ Before(c.first) <= Before(k) /\ Before(k + 1) <= Before(c.last + 1)
          /\ Before(c.first) \in Nat /\ Before(k) \in Nat
          /\ Before(k + 1) \in Nat /\ Before(c.last + 1) \in Nat
        <3>1. /\ c.first \in 1 .. Len(pieces) + 1 /\ k \in 1 .. Len(pieces) + 1
              /\ k + 1 \in 1 .. Len(pieces) + 1 /\ c.last + 1 \in 1 .. Len(pieces) + 1
              /\ c.first <= k /\ k + 1 <= c.last + 1
            BY <1>1, <2>3
        <3> QED BY <3>1, BeforeGrows, BeforeIsSum DEF SplitInv
    <2>6. pieces[c.first].from <= pieces[k].from
        BY <2>4, <2>5
    <2>7. pieces[k].to <= pieces[c.last].to
        <3>1. pieces[k].to + 1 <= pieces[c.last].to + 1
            BY <2>4, <2>5
        <3> QED BY <1>3, <2>4, <3>1
    <2>8. i \in SolidOf(c)
        <3> DEFINE f == pieces[c.first].from
                   t == pieces[c.last].to
                   g == pieces[k].from
                   u == pieces[k].to
        <3>0. f \in Int /\ t \in Int /\ g \in Int /\ u \in Int /\ f <= g /\ u <= t /\ i \in g .. u
            BY <1>3, <2>2, <2>4, <2>6, <2>7
        <3> HIDE DEF f, t, g, u
        <3>1. i \in f .. t
            BY <3>0
        <3> USE DEF f, t
        <3> QED BY <2>2, <3>1 DEF SolidOf
    <2> QED BY <2>8
<1>5. SolidOf(c) \in SUBSET Nat /\ \A i \in SolidOf(c) : i <= pieces[c.last].to
    BY <1>3 DEF SolidOf
<1>6. /\ Lead(c) \in SolidOf(c) /\ Trail(c) \in SolidOf(c)
      /\ \A i \in SolidOf(c) : Lead(c) <= i /\ i <= Trail(c)
    BY <1>3, <1>4, <1>5, MinIsLeast, MaxIsGreatest DEF Lead, Trail
<1> QED BY <1>3, <1>6

\* There a chunk, trimmed, is the text from its first to its last character
\* that is not blank.
LEMMA TextIsStretch ==
    ASSUME SplitInv, PackInv, NoGaps, NEW c, ChunkOK(c), ~ChunkIsBlank(c)
    PROVE  /\ ChunkText(c) = SubSeq(text, Lead(c), Trail(c))
           /\ Len(ChunkText(c)) = Trail(c) - Lead(c) + 1
<1> DEFINE a == pieces[c.first].from
           b == pieces[c.last].to
           n == ChunkWidth(c)
           s == Concat(c)
           solid == {i \in 1 .. n : s[i] \notin Blanks}
           l == Min(solid)
           h == Max(solid)
<1>1. /\ a \in Nat \ {0} /\ b \in Nat /\ b <= Len(text)
      /\ Lead(c) \in SolidOf(c) /\ Trail(c) \in SolidOf(c)
      /\ \A i \in SolidOf(c) : Lead(c) <= i /\ i <= Trail(c)
    BY SolidBounds
<1>2. /\ n \in Nat /\ n = b + 1 - a
      /\ \A j \in 1 .. n : s[j] = text[a + j - 1]
    BY ChunkLies, ConcatIsStretch DEF SplitInv
<1>3. DOMAIN s = 1 .. n /\ ChunkText(c) = Trim(s)
    BY DEF Concat, ChunkText
<1>4. SolidOf(c) = {i \in a .. b : text[i] \notin Blanks}
    BY DEF SolidOf
<1>5. text \in Seq(Chars) /\ Len(text) \in Nat
    BY DEF SplitInv
<1> HIDE DEF a, b, n, s
<1>6. \A j \in 1 .. n : j \in solid => a + j - 1 \in SolidOf(c)
    BY <1>1, <1>2, <1>4
<1>7. ASSUME NEW i \in SolidOf(c)
      PROVE  i - a + 1 \in solid
    <2>1. i \in a .. b /\ text[i] \notin Blanks
        BY <1>4
    <2>2. i - a + 1 \in 1 .. n /\ a + (i - a + 1) - 1 = i
        BY <1>1, <1>2, <2>1
    <2>3. s[i - a + 1] = text[i]
        BY <1>2, <2>2
    <2> QED BY <2>1, <2>2, <2>3
<1>8. solid # {}
    BY <1>1, <1>7
<1>9. /\ Trim(s) = SubSeq(s, l, h)
      /\ l \in solid /\ h \in solid
      /\ \A i \in solid : l <= i /\ i <= h
    BY <1>2, <1>3, <1>8, TrimMeans
<1> HIDE DEF l, h
<1>10. l \in 1 .. n /\ h \in 1 .. n /\ Lead(c) \in a .. b /\ Trail(c) \in a .. b
    BY <1>1, <1>4, <1>9
<1>11. Lead(c) = a + l - 1
    <2>1. l <= Lead(c) - a + 1
        BY <1>1, <1>7, <1>9
    <2>2. Lead(c) <= a + l - 1
        BY <1>1, <1>6, <1>9, <1>10
    <2> QED BY <1>1, <1>2, <1>10, <2>1, <2>2
<1>12. Trail(c) = a + h - 1
    <2>1. Trail(c) - a + 1 <= h
        BY <1>1, <1>7, <1>9
    <2>2. a + h - 1 <= Trail(c)
        BY <1>1, <1>6, <1>9, <1>10
    <2> QED BY <1>1, <1>2, <1>10, <2>1, <2>2
<1>13. l <= h
    BY <1>9
<1> HIDE DEF solid
<1>14. ASSUME NEW i \in l .. h
       PROVE  s[i] = text[a + i - 1] /\ s[i] \in Chars
    <2>1. i \in 1 .. n
        BY <1>2, <1>10
    <2>2. a + i - 1 \in 1 .. Len(text)
        BY <1>1, <1>2, <1>5, <2>1
    <2> QED BY <1>2, <1>5, <2>1, <2>2
<1>15. /\ SubSeq(s, l, h) \in Seq(Chars)
       /\ Len(SubSeq(s, l, h)) = h - l + 1
       /\ \A i \in 1 .. h - l + 1 : SubSeq(s, l, h)[i] = s[l + i - 1]
    <2>1. l \in Int /\ h \in Int
        BY <1>2, <1>10
    <2> QED BY <1>13, <1>14, <2>1, SubSeqProperties
<1>16. /\ SubSeq(text, Lead(c), Trail(c)) \in Seq(Chars)
       /\ Len(SubSeq(text, Lead(c), Trail(c))) = Trail(c) - Lead(c) + 1
       /\ \A i \in 1 .. Trail(c) - Lead(c) + 1 :
              SubSeq(text, Lead(c), Trail(c))[i] = text[Lead(c) + i - 1]
    <2>1. Lead(c) \in Int /\ Trail(c) \in Int /\ Lead(c) <= Trail(c)
        BY <1>1, <1>10
    <2>2. \A i \in Lead(c) .. Trail(c) : text[i] \in Chars
        <3>1. \A i \in Lead(c) .. Trail(c) : i \in 1 .. Len(text)
            BY <1>1, <1>5, <1>10
        <3> QED BY <1>5, <3>1
    <2> QED BY <2>1, <2>2, SubSeqProperties
<1>17. Trail(c) - Lead(c) + 1 = h - l + 1
    BY <1>1, <1>2, <1>10, <1>11, <1>12
<1>18. ASSUME NEW i \in 1 .. h - l + 1
       PROVE  SubSeq(s, l, h)[i] = SubSeq(text, Lead(c), Trail(c))[i]
    <2>1. l + i - 1 \in l .. h /\ a + (l + i - 1) - 1 = Lead(c) + i - 1
        BY <1>1, <1>2, <1>10, <1>11
    <2>2. s[l + i - 1] = text[Lead(c) + i - 1]
        BY <1>14, <2>1
    <2> QED BY <1>15, <1>16, <1>17, <2>2
<1>19. SubSeq(s, l, h) = SubSeq(text, Lead(c), Trail(c))
    BY <1>15, <1>16, <1>17, <1>18, SeqEqual
<1> QED BY <1>3, <1>9, <1>16, <1>19

\* A chunk that begins no earlier has its first character no earlier.
LEMMA LeadGrows ==
    ASSUME SplitInv, PackInv, NoGaps, NEW c, ChunkOK(c), ~ChunkIsBlank(c),
           NEW d, ChunkOK(d), ~ChunkIsBlank(d), c.first <= d.first
    PROVE  Lead(c) <= Lead(d)
<1>1. /\ Lead(c) \in SolidOf(c) /\ \A i \in SolidOf(c) : Lead(c) <= i
      /\ pieces[c.first].from \in Nat /\ pieces[c.last].to \in Nat
    BY SolidBounds
<1>2. /\ Lead(d) \in SolidOf(d)
      /\ pieces[d.first].from \in Nat /\ pieces[d.last].to \in Nat
    BY SolidBounds
<1>3. pieces[c.first].from <= pieces[d.first].from
    <2>1. c.first \in 1 .. Len(pieces) /\ d.first \in 1 .. Len(pieces) /\ Len(pieces) \in Nat
        BY ChunkLies DEF SplitInv, PiecesOK
    <2>2. Before(c.first) <= Before(d.first)
        <3>1. c.first \in 1 .. Len(pieces) + 1 /\ d.first \in 1 .. Len(pieces) + 1
            BY <2>1
        <3> QED BY <3>1, BeforeGrows DEF SplitInv
    <2>3. /\ pieces[c.first].from = pieces[1].from + Before(c.first)
          /\ pieces[d.first].from = pieces[1].from + Before(d.first)
          /\ pieces[1].from \in Nat /\ Before(c.first) \in Nat /\ Before(d.first) \in Nat
        BY <2>1, NoGapsLines DEF SplitInv
    <2> QED BY <2>2, <2>3
<1>4. /\ Lead(c) \in Int /\ Lead(c) <= pieces[c.last].to
      /\ Lead(d) \in Int /\ pieces[d.first].from <= Lead(d) /\ text[Lead(d)] \notin Blanks
    BY <1>1, <1>2 DEF SolidOf
<1>5. CASE Lead(d) <= pieces[c.last].to
    <2>1. Lead(d) \in pieces[c.first].from .. pieces[c.last].to
        BY <1>1, <1>2, <1>3, <1>4, <1>5
    <2>2. Lead(d) \in SolidOf(c)
        BY <1>4, <2>1 DEF SolidOf
    <2> QED BY <1>1, <2>2
<1>6. CASE ~(Lead(d) <= pieces[c.last].to)
    BY <1>1, <1>4, <1>6
<1> QED BY <1>5, <1>6

------------------------------------------------------------------------------
(* The invariant of the spans.                                             *)

\* A span is given to one chunk after the other, once all are packed.
SpansOK ==
    /\ spans \in Seq([from : Nat \ {0}, to : Nat])
    /\ Len(spans) <= Len(chunks)
    /\ stage \in {"split", "merge"} => spans = <<>>

ChunksAreSolid == \A n \in DOMAIN chunks : ~ChunkIsBlank(chunks[n])

\* A chunk begins no earlier than the one before, the one under way last.
ChunksInOrder ==
    /\ \A m, n \in DOMAIN chunks : m <= n => chunks[m].first <= chunks[n].first
    /\ \A n \in DOMAIN chunks : chunks[n].first <= first

\* The scan has not gone past the beginning of the chunk it located last, so
\* that it cannot have passed the next one.
Located ==
    NoGaps => \A i \in DOMAIN spans : /\ Locates(spans[i], chunks[i])
                                      /\ spans[i].from <= Lead(chunks[i])

SpanInv == SpansOK /\ ChunksAreSolid /\ ChunksInOrder /\ Located

\* With no chunk there is nothing to say.
LEMMA SpanInvOfNothing ==
    ASSUME chunks = <<>>, spans = <<>>
    PROVE  SpanInv
BY DEF SpanInv, SpansOK, ChunksAreSolid, ChunksInOrder, Located

LEMMA SpanInvOfNothingNext == (chunks = <<>> /\ spans = <<>>)' => SpanInv'
<1>1. chunks = <<>> /\ spans = <<>> => SpanInv
    BY SpanInvOfNothing
<1> QED BY <1>1, PTL

\* What leaves chunks and spans alone keeps the invariant of the spans.
LEMMA SpanStutter ==
    ASSUME SpanInv, UNCHANGED <<text, pieces, first, chunks, spans>>,
           stage' \in {"split", "merge"} => stage \in {"split", "merge"}
    PROVE  SpanInv'
<1>1. SpansOK' /\ ChunksInOrder'
    BY DEF SpanInv, SpansOK, ChunksInOrder
<1>2. ChunksAreSolid'
    BY DEF SpanInv, ChunksAreSolid, ChunkIsBlank, IsBlank
<1>3. Located'
    <2>1. NoGaps' <=> NoGaps
        BY DEF NoGaps
    <2>2. \A c : Lead(c)' = Lead(c)
        BY DEF Lead, SolidOf
    <2>3. \A s, c : Locates(s, c)' <=> Locates(s, c)
        BY DEF Locates, ChunkText, Concat, CharAt, Holds, ChunkWidth, Before
    <2> QED BY <2>1, <2>2, <2>3 DEF SpanInv, Located
<1> QED BY <1>1, <1>2, <1>3 DEF SpanInv

\* What has been emitted begins where the chunk under way began.
LEMMA EmitKeepsSpanInv ==
    ASSUME SplitInv, PackInv, SpanInv, stage = "merge",
           chunks' = Emitted([first |-> first, last |-> next - 1]),
           first' \in Nat, first <= first', UNCHANGED <<text, pieces, spans>>
    PROVE  SpanInv'
<1>0. PICK c : c = [first |-> first, last |-> next - 1]
    OBVIOUS
<1>1. /\ spans = <<>> /\ chunks \in Seq([first : Nat, last : Nat]) /\ first \in Nat
      /\ c \in [first : Nat, last : Nat] /\ c.first = first
    BY <1>0 DEF SpanInv, SpansOK, PackInv, ChunksOK, PackOK
<1>2. \A d : ChunkIsBlank(d)' <=> ChunkIsBlank(d)
    BY DEF ChunkIsBlank, IsBlank
<1>3. spans' = <<>> /\ Located'
    BY <1>1 DEF Located
<1>4. \A n \in DOMAIN chunks : chunks[n].first \in Nat /\ chunks[n].first <= first /\ ~ChunkIsBlank(chunks[n])
    <2>1. \A n \in DOMAIN chunks : chunks[n].first \in Nat
        <3> DEFINE S == [first : Nat, last : Nat]
        <3>1. chunks \in Seq(S)
            BY <1>1
        <3> HIDE DEF S
        <3>2. \A n \in DOMAIN chunks : chunks[n] \in S
            BY <3>1
        <3> QED BY <3>2 DEF S
    <2> QED BY <2>1 DEF SpanInv, ChunksInOrder, ChunksAreSolid
<1>5. CASE ChunkIsBlank(c)
    <2>1. chunks' = chunks
        BY <1>0, <1>5 DEF Emitted
    <2>2. SpansOK'
        BY <1>1, <1>3, <2>1 DEF SpansOK
    <2>3. ChunksAreSolid'
        <3>1. \A n \in DOMAIN chunks : ~ChunkIsBlank(chunks[n])'
            BY <1>2, <1>4, <2>1 DEF ChunkIsBlank, IsBlank
        <3> QED BY <2>1, <3>1 DEF ChunksAreSolid
    <2>4. ChunksInOrder'
        <3>1. \A n \in DOMAIN chunks : chunks[n].first <= first'
            BY <1>1, <1>4
        <3> QED BY <2>1, <3>1 DEF SpanInv, ChunksInOrder
    <2> QED BY <1>3, <2>2, <2>3, <2>4 DEF SpanInv
<1>6. CASE ~ChunkIsBlank(c)
    <2> DEFINE S == [first : Nat, last : Nat]
    <2>1. chunks' = Append(chunks, c) /\ chunks \in Seq(S) /\ c \in S
        BY <1>0, <1>1, <1>6 DEF Emitted
    <2> HIDE DEF S
    <2>2. /\ chunks' \in Seq(S) /\ Len(chunks') = Len(chunks) + 1 /\ Len(chunks) \in Nat
          /\ chunks'[Len(chunks) + 1] = c
          /\ \A n \in 1 .. Len(chunks) : chunks'[n] = chunks[n]
          /\ DOMAIN chunks' = 1 .. Len(chunks) + 1 /\ DOMAIN chunks = 1 .. Len(chunks)
        BY <2>1
    <2>3. \A n \in DOMAIN chunks' : (n \in DOMAIN chunks /\ chunks'[n] = chunks[n])
                                    \/ (n = Len(chunks) + 1 /\ chunks'[n] = c)
        BY <2>2
    <2>4. SpansOK'
        BY <1>3, <2>2 DEF SpansOK
    <2>5. ChunksAreSolid'
        <3> SUFFICES ASSUME NEW n \in DOMAIN chunks' PROVE ~ChunkIsBlank(chunks[n])'
            BY DEF ChunksAreSolid
        <3>1. PICK d : d = chunks'[n]
            OBVIOUS
        <3>2. ~ChunkIsBlank(d)
            BY <1>4, <1>6, <2>3, <3>1
        <3>3. ~ChunkIsBlank(d)'
            BY <1>2, <3>2
        <3> QED BY <3>1, <3>3 DEF ChunkIsBlank, IsBlank
    <2>6. ChunksInOrder'
        <3>1. \A n \in DOMAIN chunks' : chunks'[n].first \in Nat /\ chunks'[n].first <= first
            BY <1>1, <1>4, <2>3
        <3>2. \A n \in DOMAIN chunks' : chunks'[n].first <= first'
            BY <1>1, <3>1
        <3>3. \A m, n \in DOMAIN chunks' : m <= n => chunks'[m].first <= chunks'[n].first
            <4> SUFFICES ASSUME NEW m \in DOMAIN chunks', NEW n \in DOMAIN chunks', m <= n
                         PROVE  chunks'[m].first <= chunks'[n].first
                OBVIOUS
            <4>1. CASE n = Len(chunks) + 1
                BY <1>1, <2>2, <3>1, <4>1
            <4>2. CASE n # Len(chunks) + 1
                <5>1. n \in DOMAIN chunks /\ m \in DOMAIN chunks
                    BY <2>2, <4>2
                <5> QED BY <2>2, <5>1 DEF SpanInv, ChunksInOrder
            <4> QED BY <4>1, <4>2
        <3> QED BY <3>2, <3>3 DEF ChunksInOrder
    <2> QED BY <1>3, <2>4, <2>5, <2>6 DEF SpanInv
<1> QED BY <1>5, <1>6

\* The chunk that is located next is found where it begins at the latest.
LEMMA NextIsFound ==
    ASSUME SplitInv, PackInv, SpanInv, NoGaps, stage = "locate",
           NEW n \in DOMAIN chunks, n = Len(spans) + 1
    PROVE  LET c == chunks[n]
           IN Lead(c) \in Found(ChunkText(c), Cursor)
<1> DEFINE c == chunks[n]
<1>1. ChunkOK(c) /\ ~ChunkIsBlank(c)
    BY DEF PackInv, ChunksOK, SpanInv, ChunksAreSolid
<1>2. /\ Len(spans) \in Nat /\ DOMAIN spans = 1 .. Len(spans)
      /\ Len(chunks) \in Nat /\ DOMAIN chunks = 1 .. Len(chunks)
      /\ spans \in Seq([from : Nat \ {0}, to : Nat])
    BY DEF SpanInv, SpansOK, PackInv, ChunksOK
<1>3. Cursor \in Nat \ {0} /\ Cursor <= Lead(c)
    <2>1. Lead(c) \in Nat \ {0}
        <3>1. Lead(c) \in SolidOf(c) /\ pieces[c.first].from \in Nat \ {0} /\ pieces[c.last].to \in Nat
            BY <1>1, SolidBounds
        <3>2. Lead(c) \in pieces[c.first].from .. pieces[c.last].to
            BY <3>1 DEF SolidOf
        <3> QED BY <3>1, <3>2
    <2>2. CASE spans = <<>>
        BY <2>1, <2>2 DEF Cursor
    <2>3. CASE spans # <<>>
        <3> DEFINE m == Len(spans)
                   d == chunks[m]
        <3>1. m \in DOMAIN spans /\ m \in DOMAIN chunks /\ m <= n
            <4>1. m # 0
                BY <1>2, <2>3
            <4> QED BY <1>2, <4>1
        <3>2. spans[m].from \in Nat \ {0} /\ Cursor = spans[m].from
            <4> DEFINE S == [from : Nat \ {0}, to : Nat]
            <4>1. spans \in Seq(S)
                BY <1>2
            <4> HIDE DEF S
            <4>2. spans[m] \in S
                BY <3>1, <4>1
            <4> QED BY <2>3, <4>2 DEF Cursor, S
        <3>3. spans[m].from <= Lead(d)
            BY <3>1 DEF SpanInv, Located
        <3>4. ChunkOK(d) /\ ~ChunkIsBlank(d) /\ d.first <= c.first
            BY <3>1 DEF PackInv, ChunksOK, SpanInv, ChunksAreSolid, ChunksInOrder
        <3> HIDE DEF c, d
        <3>5. Lead(d) <= Lead(c)
            BY <1>1, <3>4, LeadGrows
        <3>6. Lead(d) \in Int
            <4>1. Lead(d) \in SolidOf(d)
                BY <3>4, SolidBounds
            <4> QED BY <4>1 DEF SolidOf
        <3> QED BY <2>1, <3>2, <3>3, <3>5, <3>6
    <2> QED BY <2>2, <2>3
<1> HIDE DEF c
<1>4. /\ ChunkText(c) = SubSeq(text, Lead(c), Trail(c))
      /\ Len(ChunkText(c)) = Trail(c) - Lead(c) + 1
    BY <1>1, TextIsStretch
<1>5. Lead(c) \in Int /\ Trail(c) \in Int /\ Trail(c) <= Len(text) /\ Lead(c) <= Trail(c)
    <2>1. /\ Lead(c) \in SolidOf(c) /\ Trail(c) \in SolidOf(c)
          /\ \A i \in SolidOf(c) : Lead(c) <= i /\ i <= Trail(c)
          /\ pieces[c.first].from \in Nat /\ pieces[c.last].to \in Nat
          /\ pieces[c.last].to <= Len(text)
        BY <1>1, SolidBounds
    <2>2. /\ Lead(c) \in pieces[c.first].from .. pieces[c.last].to
          /\ Trail(c) \in pieces[c.first].from .. pieces[c.last].to
        BY <2>1 DEF SolidOf
    <2>3. Len(text) \in Nat
        BY DEF SplitInv
    <2> QED BY <2>1, <2>2, <2>3
<1>6. Len(text) \in Nat
    BY DEF SplitInv
<1>7. Lead(c) \in Cursor .. Len(text) - Len(ChunkText(c)) + 1
    <2>1. Lead(c) <= Len(text) - (Trail(c) - Lead(c) + 1) + 1
        BY <1>5, <1>6
    <2> QED BY <1>3, <1>4, <1>5, <1>6, <2>1
<1>8. SubSeq(text, Lead(c), Lead(c) + Len(ChunkText(c)) - 1) = ChunkText(c)
    <2>1. Lead(c) + (Trail(c) - Lead(c) + 1) - 1 = Trail(c)
        BY <1>5
    <2> QED BY <1>4, <2>1
<1>9. Lead(c) \in Found(ChunkText(c), Cursor)
    BY <1>7, <1>8 DEF Found
<1> QED BY <1>9 DEF c

\* A chunk located where it is found keeps the invariant.
LEMMA LocateStep ==
    ASSUME SplitInv, PackInv, SpanInv, Locate
    PROVE  SpanInv'
<1> DEFINE n == Len(spans) + 1
           c == chunks[n]
           needle == ChunkText(c)
           start == IF Found(needle, Cursor) = {} THEN Cursor ELSE Min(Found(needle, Cursor))
           s == [from |-> start, to |-> start + Len(needle) - 1]
           S == [from : Nat \ {0}, to : Nat]
<1>1. /\ stage = "locate" /\ Len(spans) < Len(chunks) /\ spans' = Append(spans, s)
      /\ UNCHANGED <<text, stage, work, pieces, first, next, chunks>>
    BY DEF Locate
<1>2. /\ Len(spans) \in Nat /\ DOMAIN spans = 1 .. Len(spans)
      /\ Len(chunks) \in Nat /\ DOMAIN chunks = 1 .. Len(chunks)
      /\ spans \in Seq(S)
    BY DEF SpanInv, SpansOK, PackInv, ChunksOK
<1>3. n \in DOMAIN chunks
    BY <1>1, <1>2
<1>4. ChunkOK(c) /\ Len(needle) \in Nat /\ Len(text) \in Nat
    BY <1>3, TextHasLength DEF PackInv, ChunksOK, SplitInv
<1>5. Cursor \in Nat \ {0}
    <2>1. CASE spans = <<>>
        BY <2>1 DEF Cursor
    <2>2. CASE spans # <<>>
        <3>1. Len(spans) \in DOMAIN spans
            BY <1>2, <2>2
        <3> HIDE DEF S
        <3>2. spans[Len(spans)] \in S
            BY <1>2, <3>1
        <3> QED BY <2>2, <3>2 DEF Cursor, S
    <2> QED BY <2>1, <2>2
<1> HIDE DEF needle
<1>6. Found(needle, Cursor) \in SUBSET Nat /\ \A i \in Found(needle, Cursor) : i # 0
    BY <1>4, <1>5 DEF Found
<1>7. Found(needle, Cursor) # {} => /\ start \in Found(needle, Cursor)
                                    /\ \A i \in Found(needle, Cursor) : start <= i
    BY <1>6, MinIsLeast
<1>8. start \in Nat \ {0}
    BY <1>5, <1>6, <1>7
<1> HIDE DEF start
<1>9. s \in S
    BY <1>4, <1>8
<1>10. s.from = start /\ s.to = start + Len(needle) - 1
    OBVIOUS
<1> HIDE DEF s, S
<1>11. /\ spans' \in Seq(S) /\ Len(spans') = Len(spans) + 1
       /\ spans'[n] = s
       /\ \A i \in 1 .. Len(spans) : spans'[i] = spans[i]
       /\ DOMAIN spans' = 1 .. Len(spans) + 1
    BY <1>1, <1>2, <1>9
<1>12. SpansOK'
    BY <1>1, <1>2, <1>11 DEF SpansOK, S
<1>13. ChunksInOrder'
    BY <1>1 DEF SpanInv, ChunksInOrder
<1>14. ChunksAreSolid'
    BY <1>1 DEF SpanInv, ChunksAreSolid, ChunkIsBlank, IsBlank
<1>15. Located'
    <2>1. NoGaps' <=> NoGaps
        BY <1>1 DEF NoGaps
    <2>2. \A d : Lead(d)' = Lead(d)
        BY <1>1 DEF Lead, SolidOf
    <2>3. \A r, d : Locates(r, d)' <=> Locates(r, d)
        BY <1>1 DEF Locates, ChunkText, Concat, CharAt, Holds, ChunkWidth, Before
    <2> SUFFICES ASSUME NoGaps, NEW i \in DOMAIN spans'
                 PROVE  Locates(spans'[i], chunks[i]) /\ spans'[i].from <= Lead(chunks[i])
        BY <1>1, <2>1, <2>2, <2>3 DEF Located
    <2>4. CASE i = n
        <3>1. Lead(c) \in Found(needle, Cursor)
            BY <1>1, <1>3, NextIsFound DEF needle
        <3>2. start \in Found(needle, Cursor) /\ start <= Lead(c)
            BY <1>7, <3>1
        <3>3. start + Len(needle) - 1 <= Len(text)
            <4>1. start \in Cursor .. Len(text) - Len(needle) + 1
                BY <3>2 DEF Found
            <4> QED BY <1>4, <1>8, <4>1
        <3>4. SubSeq(text, start, start + Len(needle) - 1) = needle
            BY <3>2 DEF Found
        <3>5. Locates(s, c)
            BY <1>10, <3>3, <3>4 DEF Locates, needle
        <3> QED BY <1>10, <1>11, <2>4, <3>2, <3>5
    <2>5. CASE i # n
        <3>1. i \in DOMAIN spans /\ spans'[i] = spans[i]
            BY <1>2, <1>11, <2>5
        <3> QED BY <3>1 DEF SpanInv, Located
    <2> QED BY <2>4, <2>5
<1> QED BY <1>12, <1>13, <1>14, <1>15 DEF SpanInv

\* Every step of the chunker keeps the invariant of the spans.
LEMMA ChunkNextKeepsSpanInv ==
    ASSUME ChunkInv, SpanInv, ChunkNext
    PROVE  SpanInv'
<1>0. SplitInv /\ PackInv /\ first \in Nat /\ next \in Nat /\ first <= next
    BY DEF ChunkInv, PackInv, PackOK
<1>1. CASE TakeWhole \/ HardCut \/ Descend \/ NextPart
    <2>1. stage = "split" /\ UNCHANGED <<chunks, spans>>
        BY <1>1 DEF TakeWhole, HardCut, Descend, NextPart, Splitting, splitRest
    <2>2. chunks = <<>> /\ spans = <<>>
        BY <2>1 DEF ChunkInv, PackInv, PackOK, SpanInv, SpansOK
    <2>3. chunks' = <<>> /\ spans' = <<>>
        BY <2>1, <2>2
    <2> QED BY <2>3, SpanInvOfNothingNext
<1>2. CASE SplitDone
    BY <1>2, SpanStutter DEF SplitDone
<1>3. CASE PackPiece
    <2>1. stage = "merge" /\ stage' = stage /\ UNCHANGED <<text, pieces, spans>>
        BY <1>3 DEF PackPiece
    <2>2. CASE UNCHANGED <<chunks, first>>
        BY <2>1, <2>2, SpanStutter
    <2>3. CASE /\ chunks' = Emitted([first |-> first, last |-> next - 1])
               /\ \E k \in first .. next : Carried(k) /\ first' = k
        <3>1. first' \in Nat /\ first <= first'
            BY <1>0, <2>3
        <3> QED BY <1>0, <2>1, <2>3, <3>1, EmitKeepsSpanInv
    <2> QED BY <1>3, <2>2, <2>3 DEF PackPiece
<1>4. CASE PackDone
    <2>1. stage = "merge" /\ stage' = "locate" /\ UNCHANGED <<text, pieces, first, spans>>
        BY <1>4 DEF PackDone
    <2>2. CASE chunks' = Emitted([first |-> first, last |-> next - 1])
        BY <1>0, <2>1, <2>2, EmitKeepsSpanInv
    <2>3. CASE chunks' = chunks
        BY <2>1, <2>3, SpanStutter
    <2> QED BY <1>4, <2>2, <2>3 DEF PackDone
<1>5. CASE Locate
    BY <1>0, <1>5, LocateStep
<1>6. CASE LocateDone
    BY <1>6, SpanStutter DEF LocateDone
<1> QED BY <1>1, <1>2, <1>3, <1>4, <1>5, <1>6 DEF ChunkNext

\* Every step of the specification does.
LEMMA SpanInvStep ==
    ASSUME IInv, SpanInv, [Next]_vars
    PROVE  SpanInv'
<1>1. CASE Chunk
    BY <1>1, ChunkNextKeepsSpanInv DEF Chunk, IInv
<1>2. CASE GiveBack
    <2>1. chunks' = <<>> /\ spans' = <<>>
        BY <1>2 DEF GiveBack
    <2> QED BY <2>1, SpanInvOfNothingNext
<1>3. CASE UNCHANGED chunkVars
    BY <1>3, SpanStutter DEF chunkVars
<1>4. Chunk \/ GiveBack \/ UNCHANGED chunkVars
    BY DEF Next, Download, NoText, EmbedAnswered, Clear, Upsert, EmbedMalformed,
           EmbedRefused, AttemptFails, Redeliver, DeadLetter, vars
<1> QED BY <1>1, <1>2, <1>3, <1>4

\* Added to the invariant above, the spans keep theirs.
THEOREM SpanInvariant == Spec => []SpanInv
<1>1. Init => SpanInv
    BY SpanInvOfNothing DEF Init, ChunkInit
<1>2. IInv /\ SpanInv /\ [Next]_vars => SpanInv'
    BY SpanInvStep
<1> QED BY <1>1, <1>2, IndexingInvariant, PTL DEF Spec

\* In a document of which no blank part was left out every span reads back the
\* chunk it describes, however often the text of a chunk occurs in the document
\* (chunk_with_spans).
THEOREM SpansReadBackHolds == Spec => []SpansReadBack
<1>1. SpanInv => SpansReadBack
    BY DEF SpanInv, Located, SpansReadBack
<1> QED BY <1>1, SpanInvariant, PTL

------------------------------------------------------------------------------
(* Types.                                                                  *)

\* The points are records of the collection, and an attempt is only under way as long as
\* the queue delivers its event.
StoreOK ==
    /\ points \subseteq Points
    /\ failures \in 0 .. DeliveryLimit + 1
    /\ step \in {"download", "chunk", "clear", "upsert"} => failures <= DeliveryLimit

\* What the write puts in are points.
LEMMA NewPointsArePoints ==
    ASSUME IInv, step = "upsert"
    PROVE  NewPoints \subseteq Points
<1>1. /\ Len(vectors) = Len(chunks) /\ vectors \in Seq(Nat)
      /\ DOMAIN chunks = 1 .. Len(chunks) /\ Len(chunks) \in Nat
    BY DEF IInv, AttemptOK, VectorsOK, ChunkInv, PackInv, ChunksOK
<1>2. \A i \in DOMAIN chunks : i - 1 \in Nat /\ i \in Nat /\ vectors[i] \in Nat
    BY <1>1
<1> QED BY <1>2 DEF NewPoints, Points

\* The collection stays a set of points, the failures within the delivery limit and one.
LEMMA StoreStep ==
    ASSUME IInv, StoreOK, [Next]_vars
    PROVE  StoreOK'
<1>1. points' \subseteq Points
    <2>1. points' = points \/ points' = {} \/ (step = "upsert" /\ points' = Written)
        BY DEF Next, Download, Chunk, NoText, EmbedAnswered, Clear, Upsert,
               EmbedMalformed, EmbedRefused, AttemptFails, Redeliver, DeadLetter, vars,
               indexVars
    <2>2. step = "upsert" => Written \subseteq Points
        BY NewPointsArePoints DEF Written, StoreOK
    <2> QED BY <2>1, <2>2 DEF StoreOK
<1>2. CASE GiveBack
    <2>1. step \in {"download", "chunk", "clear", "upsert"}
        BY <1>2 DEF Next, Download, Chunk, NoText, EmbedAnswered, Embedding, Clear, Upsert,
               EmbedMalformed, EmbedRefused, AttemptFails, Redeliver, DeadLetter, GiveBack,
               vars, indexVars
    <2> QED BY <1>1, <1>2, <2>1, EmbedAssumption DEF GiveBack, StoreOK
<1>3. CASE ~GiveBack
    <2>1. /\ failures' = failures
          /\ \/ step' \notin {"download", "chunk", "clear", "upsert"}
             \/ step \in {"download", "chunk", "clear", "upsert"}
             \/ failures <= DeliveryLimit
        BY <1>3 DEF Next, Download, Chunk, NoText, EmbedAnswered, Embedding, Clear, Upsert,
               EmbedMalformed, EmbedRefused, AttemptFails, Redeliver, DeadLetter, vars, indexVars
    <2> QED BY <1>1, <2>1 DEF StoreOK
<1> QED BY <1>2, <1>3

\* The type invariant of both modules.
THEOREM IndexingTypeCorrect == Spec => []TypeOK
<1>1. Init => StoreOK
    <2> SUFFICES ASSUME Init PROVE StoreOK
        OBVIOUS
    <2>1. PICK k \in 0 .. MaxOld : points = OldPoints(k)
        BY DEF Init
    <2>2. points \subseteq Points
        BY <2>1, EmbedAssumption DEF OldPoints, Points
    <2>3. failures = 0
        BY DEF Init
    <2> QED BY <2>2, <2>3, EmbedAssumption DEF StoreOK
<1>2. IInv /\ StoreOK /\ [Next]_vars => StoreOK'
    BY StoreStep
<1>3. IInv /\ SpanInv /\ StoreOK => TypeOK
    BY DEF IInv, ChunkInv, SplitInv, WorkOK, PiecesOK, PackInv, PackOK, ChunksOK, VectorsOK, AttemptOK,
           SpanInv, SpansOK, StoreOK, TypeOK, ChunkTypeOK
<1> QED BY <1>1, <1>2, <1>3, IndexingInvariant, SpanInvariant, PTL DEF Spec

------------------------------------------------------------------------------
(* The recursion.                                                          *)

EntryOK(t) ==
    /\ t.level <= Len(Separators) + 1
    /\ t.kind = "text" => t.from <= t.to

\* Where the text goes on behind entry n of the stack.
After(n) == IF n = Len(work) THEN Len(text) + 1 ELSE work[n + 1].from

\* The stack covers what is left of the text in order and without a gap, and no call
\* is made for nothing.
Stacked == \A n \in DOMAIN work : EntryOK(work[n]) /\ work[n].to + 1 = After(n)

\* Entries that cover what the head covered may take its place.
LEMMA Restacked ==
    ASSUME WorkOK, Stacked, work # <<>>, NEW u \in Seq(Tasks), \A m \in DOMAIN u : EntryOK(u[m]),
           \A m \in 1 .. Len(u) - 1 : u[m].to + 1 = u[m + 1].from,
           u # <<>> => u[Len(u)].to = Head(work).to,
           work' = u \o Tail(work), UNCHANGED text
    PROVE  /\ Stacked'
           /\ Front' = IF u = <<>> THEN Head(work).to + 1 ELSE u[1].from
           /\ u = <<>> => Len(work') = Len(work) - 1
           /\ u # <<>> => work' # <<>> /\ Head(work') = u[1]
<1>1. /\ work' \in Seq(Tasks)
      /\ Head(work) = work[1] /\ 1 \in DOMAIN work
      /\ Len(work) \in Nat /\ Len(u) \in Nat /\ Len(work) >= 1
      /\ DOMAIN work = 1 .. Len(work) /\ DOMAIN work' = 1 .. Len(work')
      /\ Len(work') = Len(u) + (Len(work) - 1)
      /\ \A k \in 1 .. Len(u) : work'[k] = u[k]
      /\ \A k \in 1 .. Len(work) - 1 : work'[Len(u) + k] = work[k + 1]
      /\ work' # <<>> => Head(work') = work'[1]
    <2> DEFINE r == work'
    <2>1. work \in Seq(Tasks) /\ r = u \o Tail(work)
        BY DEF WorkOK
    <2> HIDE DEF r, Tasks
    <2>2. /\ Tail(work) \in Seq(Tasks) /\ Len(Tail(work)) = Len(work) - 1
          /\ \A k \in 1 .. Len(work) - 1 : Tail(work)[k] = work[k + 1]
        BY <2>1
    <2>3. /\ r \in Seq(Tasks) /\ Len(r) = Len(u) + (Len(work) - 1)
          /\ \A k \in 1 .. Len(u) : r[k] = u[k]
          /\ \A k \in 1 .. Len(work) - 1 : r[Len(u) + k] = work[k + 1]
        BY <2>1, <2>2
    <2>4. /\ Head(work) = work[1] /\ 1 \in DOMAIN work
          /\ Len(work) \in Nat /\ Len(u) \in Nat /\ Len(work) >= 1
          /\ DOMAIN work = 1 .. Len(work)
        BY <2>1
    <2>5. DOMAIN r = 1 .. Len(r) /\ (r # <<>> => Head(r) = r[1])
        BY <2>3
    <2> QED BY <2>3, <2>4, <2>5 DEF r
<1>0. Len(work) \in Nat /\ Len(u) \in Nat /\ Len(work') = Len(u) + (Len(work) - 1)
    BY <1>1
<1>2. /\ \A n \in DOMAIN work : EntryOK(work[n]) /\ work[n].to + 1 = After(n)
      /\ After(1) = Head(work).to + 1
    BY <1>1 DEF Stacked
<1>3. \A k \in 1 .. Len(work) - 1 : After(Len(u) + k)' = After(k + 1)
    <2> SUFFICES ASSUME NEW k \in 1 .. Len(work) - 1 PROVE After(Len(u) + k)' = After(k + 1)
        OBVIOUS
    <2>1. CASE k = Len(work) - 1
        <3>1. Len(u) + k = Len(work') /\ k + 1 = Len(work)
            BY <1>1, <2>1
        <3> QED BY <3>1 DEF After
    <2>2. CASE k # Len(work) - 1
        <3>1. k + 1 \in 1 .. Len(work) - 1 /\ Len(u) + k # Len(work') /\ k + 1 # Len(work)
            BY <1>0, <2>2
        <3>2. Len(u) + (k + 1) = (Len(u) + k) + 1
            BY <1>0
        <3>3. work'[Len(u) + (k + 1)] = work[(k + 1) + 1]
            BY <1>1, <3>1
        <3> QED BY <3>1, <3>2, <3>3 DEF After
    <2> QED BY <2>1, <2>2
<1>4. After(Len(u))' = After(1)
    <2>1. CASE Len(work) = 1
        BY <1>1, <2>1 DEF After
    <2>2. CASE Len(work) # 1
        <3>1. 1 \in 1 .. Len(work) - 1 /\ Len(u) # Len(work')
            BY <1>1, <2>2
        <3>2. work'[Len(u) + 1] = work[1 + 1]
            BY <1>1, <3>1
        <3> QED BY <2>2, <3>1, <3>2 DEF After
    <2> QED BY <2>1, <2>2
<1>5. ASSUME NEW n \in DOMAIN work'
      PROVE  EntryOK(work'[n]) /\ work'[n].to + 1 = After(n)'
    <2>1. CASE n < Len(u)
        <3>1. n \in 1 .. Len(u) - 1 /\ n \in 1 .. Len(u) /\ n + 1 \in 1 .. Len(u) /\ n # Len(work')
            BY <1>1, <2>1
        <3>2. work'[n] = u[n] /\ After(n)' = u[n + 1].from
            BY <1>1, <3>1 DEF After
        <3> QED BY <3>1, <3>2
    <2>2. CASE n = Len(u)
        <3>1. n \in 1 .. Len(u) /\ u # <<>> /\ work'[n] = u[n]
            BY <1>1, <2>2
        <3> QED BY <1>2, <1>4, <2>2, <3>1
    <2>3. CASE n > Len(u)
        <3>1. PICK k \in 1 .. Len(work) - 1 : n = Len(u) + k
            <4>1. n - Len(u) \in 1 .. Len(work) - 1 /\ n = Len(u) + (n - Len(u))
                <5>1. n \in 1 .. Len(work')
                    BY <1>1
                <5> QED BY <1>0, <2>3, <5>1
            <4> QED BY <4>1
        <3>2. work'[n] = work[k + 1] /\ After(n)' = After(k + 1) /\ k + 1 \in DOMAIN work
            BY <1>1, <1>3, <3>1
        <3> QED BY <1>2, <3>2
    <2> QED BY <1>1, <2>1, <2>2, <2>3
<1>6. Stacked'
    BY <1>5 DEF Stacked, EntryOK
<1>7. Front' = IF u = <<>> THEN Head(work).to + 1 ELSE u[1].from
    <2>1. CASE u = <<>>
        <3>1. Len(u) = 0
            BY <2>1
        <3>2. After(0)' = Head(work).to + 1
            BY <1>2, <1>4, <3>1
        <3>3. CASE work' = <<>>
            <4>1. Len(work') = 0
                BY <3>3
            <4> QED BY <2>1, <3>2, <3>3, <4>1 DEF After, Front
        <3>4. CASE work' # <<>>
            <4>1. 0 # Len(work') /\ Head(work') = work'[0 + 1]
                BY <1>1, <3>4
            <4> QED BY <2>1, <3>2, <3>4, <4>1 DEF After, Front
        <3> QED BY <3>3, <3>4
    <2>2. CASE u # <<>>
        <3>1. 1 \in 1 .. Len(u)
            BY <1>1, <2>2
        <3>2. work' # <<>> /\ Head(work') = u[1]
            <4>1. Len(work') # 0
                BY <1>1, <3>1
            <4>2. work' # <<>>
                BY <4>1
            <4> QED BY <1>1, <3>1, <4>2
        <3> QED BY <2>2, <3>2 DEF Front
    <2> QED BY <2>1, <2>2
<1>8. u = <<>> => Len(work') = Len(work) - 1
    BY <1>1
<1>9. u # <<>> => work' # <<>> /\ Head(work') = u[1]
    <2> SUFFICES ASSUME u # <<>> PROVE work' # <<>> /\ Head(work') = u[1]
        OBVIOUS
    <2>1. 1 \in 1 .. Len(u)
        BY <1>1
    <2>2. Len(work') # 0
        BY <1>1, <2>1
    <2>3. work' # <<>>
        BY <2>2
    <2> QED BY <1>1, <2>1, <2>3
<1> QED BY <1>6, <1>7, <1>8, <1>9

\* How far on in the text the head can be, and how much it can have to do there.
LEMMA RankBounds ==
    ASSUME WorkOK, Stacked, text \in Seq(Chars)
    PROVE  /\ Front \in Nat /\ Front <= Len(text) + 1
           /\ Rank \in Nat /\ Rank <= 2 * (Len(Separators) + 2) + Len(work)
<1>0. Len(text) \in Nat /\ Len(Separators) \in Nat /\ Len(work) \in Nat
    BY SeparatorAssumption DEF WorkOK
<1>1. CASE work = <<>>
    BY <1>0, <1>1 DEF Front, Rank
<1>2. CASE work # <<>>
    <2> DEFINE t == Head(work)
    <2>1. TaskOK(t) /\ EntryOK(t)
        <3>1. t = work[1] /\ 1 \in DOMAIN work
            BY <1>2 DEF WorkOK
        <3> QED BY <3>1 DEF WorkOK, Stacked
    <2>2. Front = t.from /\ t.from \in Nat /\ t.from <= Len(text) + 1
        BY <1>0, <1>2, <2>1 DEF TaskOK, Front
    <2>3. t.level \in Nat \ {0} /\ t.level <= Len(Separators) + 1
        BY <2>1 DEF TaskOK, EntryOK
    <2>4. /\ Rank \in Nat
          /\ Rank <= 2 * (Len(Separators) + 2) + Len(work)
        <3>1. CASE t.from > t.to
            BY <1>0, <1>2, <3>1 DEF Rank
        <3>2. CASE ~(t.from > t.to)
            <4> DEFINE k == IF t.kind = "parts" THEN 1 ELSE 0
            <4>1. Rank = 2 * (Len(Separators) + 2 - t.level) - k
                BY <1>2, <3>2 DEF Rank
            <4>2. k \in {0, 1}
                OBVIOUS
            <4> HIDE DEF k
            <4> QED BY <1>0, <2>3, <4>1, <4>2
        <3> QED BY <3>1, <3>2
    <2> QED BY <2>2, <2>4
<1> QED BY <1>1, <1>2

Shrinks == Front' > Front \/ (Front' = Front /\ Rank' < Rank)

\* Steps that have nothing to do with the parts of a text.
LEMMA TextShrinks ==
    ASSUME SplitInv, Stacked, TakeWhole \/ HardCut \/ Descend
    PROVE  Stacked' /\ Shrinks
<1> DEFINE t == Head(work)
<1>1. work # <<>> /\ t.kind = "text" /\ text' = text /\ WorkOK
    BY DEF TakeWhole, HardCut, Descend, Splitting, splitRest, SplitInv
<1>2. TaskOK(t) /\ EntryOK(t) /\ t \in Tasks
    <2>1. t = work[1] /\ 1 \in DOMAIN work
        BY <1>1 DEF WorkOK
    <2> QED BY <1>1, <2>1, HeadOK DEF Stacked
<1>3. /\ t.from \in Nat \ {0} /\ t.to \in Nat /\ t.from <= t.to
      /\ t.level \in Nat \ {0} /\ t.level <= Len(Separators) + 1
      /\ Front = t.from /\ Len(Separators) \in Nat /\ ChunkSize \in Nat \ {0}
    BY <1>1, <1>2, SeparatorAssumption, SizeAssumption DEF TaskOK, EntryOK, Front
<1>4. CASE TakeWhole
    <2> DEFINE u == <<>>
    <2>1. /\ u \in Seq(Tasks) /\ u = <<>>
          /\ \A m \in DOMAIN u : EntryOK(u[m])
          /\ \A m \in 1 .. Len(u) - 1 : u[m].to + 1 = u[m + 1].from
        OBVIOUS
    <2>2. work' = u \o Tail(work)
        <3>1. work' = Tail(work) /\ Tail(work) \in Seq(Tasks)
            <4> HIDE DEF Tasks
            <4>1. work \in Seq(Tasks)
                BY <1>1 DEF WorkOK
            <4> QED BY <1>1, <1>4, <4>1 DEF TakeWhole
        <3> HIDE DEF Tasks
        <3> QED BY <3>1
    <2> HIDE DEF u
    <2>3. Stacked' /\ Front' = IF u = <<>> THEN t.to + 1 ELSE u[1].from
        BY <1>1, <2>1, <2>2, Restacked
    <2> QED BY <1>3, <2>1, <2>3 DEF Shrinks
<1>5. ASSUME NEW s \in Tasks, EntryOK(s), s.to = t.to, work' = <<s>> \o Tail(work)
      PROVE  Stacked' /\ Front' = s.from /\ work' # <<>> /\ Head(work') = s
    <2> DEFINE u == <<s>>
    <2>1. u \in Seq(Tasks) /\ DOMAIN u = {1} /\ u[1] = s /\ u # <<>> /\ Len(u) = 1
        OBVIOUS
    <2> HIDE DEF u
    <2>2. work' = u \o Tail(work)
        BY <1>5 DEF u
    <2>3. \A m \in DOMAIN u : EntryOK(u[m])
        BY <1>5, <2>1
    <2>4. \A m \in 1 .. Len(u) - 1 : u[m].to + 1 = u[m + 1].from
        BY <2>1
    <2>5. u[Len(u)].to = Head(work).to
        BY <1>5, <2>1
    <2>6. /\ Stacked' /\ Front' = IF u = <<>> THEN Head(work).to + 1 ELSE u[1].from
          /\ u # <<>> => work' # <<>> /\ Head(work') = u[1]
        BY <1>1, <2>1, <2>2, <2>3, <2>4, <2>5, Restacked
    <2> QED BY <2>1, <2>6
<1>6. CASE HardCut
    <2> DEFINE s == Task("text", t.level, t.from + ChunkSize, t.to)
    <2>1. Width(t) > ChunkSize /\ work' = <<s>> \o Tail(work)
        BY <1>6 DEF HardCut
    <2>2. s \in Tasks /\ EntryOK(s) /\ s.to = t.to /\ s.from = t.from + ChunkSize
        BY <1>3, <2>1 DEF Task, Tasks, EntryOK, Width
    <2> HIDE DEF s
    <2>3. Stacked' /\ Front' = s.from
        BY <1>5, <2>1, <2>2
    <2> QED BY <1>3, <2>2, <2>3 DEF Shrinks
<1>7. CASE Descend
    <2>0. t.level <= Len(Separators)
        BY <1>7 DEF Descend
    <2>1. Rank = 2 * (Len(Separators) + 2 - t.level)
        BY <1>1, <1>3 DEF Rank
    <2> DEFINE s == IF Cuts(t) = {} THEN Task("text", t.level + 1, t.from, t.to)
                    ELSE Task("parts", t.level, t.from, t.to)
    <2>2. work' = <<s>> \o Tail(work)
        BY <1>7 DEF Descend
    <2>3. /\ s \in Tasks /\ EntryOK(s) /\ s.to = t.to /\ s.from = t.from
          /\ (s.kind = "text" /\ s.level = t.level + 1) \/ (s.kind = "parts" /\ s.level = t.level)
        BY <1>3, <2>0 DEF Task, Tasks, EntryOK
    <2> HIDE DEF s
    <2>4. Stacked' /\ Front' = s.from /\ work' # <<>> /\ Head(work') = s
        BY <1>5, <2>2, <2>3
    <2>5. Rank' = 2 * (Len(Separators) + 2 - s.level) - (IF s.kind = "parts" THEN 1 ELSE 0)
        BY <1>3, <2>3, <2>4 DEF Rank
    <2>6. Rank' < Rank
        <3>1. CASE s.kind = "text" /\ s.level = t.level + 1
            BY <1>3, <2>1, <2>5, <3>1
        <3>2. CASE s.kind = "parts" /\ s.level = t.level
            BY <1>3, <2>1, <2>5, <3>2
        <3> QED BY <2>3, <3>1, <3>2
    <2> QED BY <1>3, <2>3, <2>4, <2>6 DEF Shrinks
<1> QED BY <1>4, <1>6, <1>7

\* So it is after a step.
LEMMA RankBoundsNext ==
    (WorkOK /\ Stacked /\ text \in Seq(Chars))' =>
        (/\ Front \in Nat /\ Front <= Len(text) + 1
         /\ Rank \in Nat /\ Rank <= 2 * (Len(Separators) + 2) + Len(work))'
<1>1. WorkOK /\ Stacked /\ text \in Seq(Chars) =>
          /\ Front \in Nat /\ Front <= Len(text) + 1
          /\ Rank \in Nat /\ Rank <= 2 * (Len(Separators) + 2) + Len(work)
    BY RankBounds
<1> QED BY <1>1, PTL

\* Dropping a call that has nothing left lowers the rank, whatever comes up.
LEMMA DroppingShrinks ==
    ASSUME WorkOK, work # <<>>, Head(work).from > Head(work).to,
           Rank' \in Nat, Rank' <= 2 * (Len(Separators) + 2) + Len(work'),
           Len(work') = Len(work) - 1
    PROVE  Rank' < Rank
<1>1. Len(Separators) \in Nat /\ Len(work) \in Nat
    BY SeparatorAssumption DEF WorkOK
<1>2. Rank = 2 * (Len(Separators) + 2) + Len(work)
    BY DEF Rank
<1> QED BY <1>1, <1>2

\* Cutting off a part leaves less to do at the head, or goes on in the text.
LEMMA PartShrinks ==
    ASSUME SplitInv, Stacked, NextPart, WorkOK'
    PROVE  Stacked' /\ Shrinks
<1> DEFINE t == Head(work)
<1>1. work # <<>> /\ t.kind = "parts" /\ text' = text /\ WorkOK /\ text \in Seq(Chars)
    BY DEF NextPart, Splitting, splitRest, SplitInv
<1>2. TaskOK(t) /\ EntryOK(t) /\ t \in Tasks
    <2>1. t = work[1] /\ 1 \in DOMAIN work
        BY <1>1 DEF WorkOK
    <2> QED BY <1>1, <2>1, HeadOK DEF Stacked
<1>3. /\ t.from \in Nat \ {0} /\ t.to \in Nat /\ t.from <= t.to + 1
      /\ t.level \in Nat \ {0} /\ t.level <= Len(Separators)
      /\ Front = t.from /\ Len(Separators) \in Nat /\ ChunkSize \in Nat \ {0}
    BY <1>1, <1>2, SeparatorAssumption, SizeAssumption DEF TaskOK, Front
<1>4. PICK end \in t.from - 1 .. t.to :
          /\ PartEnds(t, end)
          /\ \/ work' = Rest(t, end) \o Tail(work)
             \/ /\ Width([from |-> t.from, to |-> end]) > ChunkSize
                /\ work' = (<<Task("text", t.level + 1, t.from, end)>> \o Rest(t, end)) \o Tail(work)
    BY DEF NextPart
<1>5. end \in Int /\ end <= t.to
    BY <1>3, <1>4
<1> DEFINE r == Task("parts", t.level, end + 1, t.to)
           s == Task("text", t.level + 1, t.from, end)
<1>6. \/ Rest(t, end) = <<>> /\ end = t.to
      \/ Rest(t, end) = <<r>> /\ t.from <= end
    <2>1. CASE Cuts(t) = {}
        BY <1>4, <2>1 DEF PartEnds, Rest
    <2>2. CASE Cuts(t) # {}
        <3>1. PICK p \in Cuts(t) : end = p + Len(Separators[t.level]) - 1
            BY <1>4, <2>2 DEF PartEnds
        <3>2. t.from <= p /\ p \in Int
            BY <1>3 DEF Cuts
        <3>3. Len(Separators[t.level]) \in Nat \ {0}
            <4>1. Separators[t.level] \in Seq(Chars) \ {<<>>}
                BY <1>3, SeparatorAssumption
            <4> QED BY <4>1
        <3>4. t.from <= end
            BY <1>3, <1>5, <3>1, <3>2, <3>3
        <3> QED BY <2>2, <3>4 DEF Rest
    <2> QED BY <2>1, <2>2
<1>7. r \in Tasks /\ EntryOK(r) /\ r.from = end + 1 /\ r.to = t.to
    BY <1>3, <1>5 DEF Task, Tasks, EntryOK
<1>8. Width([from |-> t.from, to |-> end]) > ChunkSize =>
          /\ s \in Tasks /\ EntryOK(s) /\ s.from = t.from /\ s.to = end
          /\ s.level = t.level + 1 /\ s.kind = "text" /\ t.from <= end
    BY <1>3, <1>5 DEF Task, Tasks, EntryOK, Width
<1> HIDE DEF r, s
\* What comes in the place of the head, and where it begins.
<1>9. ASSUME NEW u \in Seq(Tasks), \A m \in DOMAIN u : EntryOK(u[m]),
             \A m \in 1 .. Len(u) - 1 : u[m].to + 1 = u[m + 1].from,
             u # <<>> => u[Len(u)].to = t.to,
             work' = u \o Tail(work)
      PROVE  /\ Stacked' /\ Rank' \in Nat /\ Rank' <= 2 * (Len(Separators) + 2) + Len(work')
             /\ Front' = IF u = <<>> THEN t.to + 1 ELSE u[1].from
             /\ u = <<>> => Len(work') = Len(work) - 1
             /\ u # <<>> => work' # <<>> /\ Head(work') = u[1]
    <2>1. /\ Stacked'
          /\ Front' = IF u = <<>> THEN t.to + 1 ELSE u[1].from
          /\ u = <<>> => Len(work') = Len(work) - 1
          /\ u # <<>> => work' # <<>> /\ Head(work') = u[1]
        BY <1>1, <1>9, Restacked
    <2>2. (WorkOK /\ Stacked /\ text \in Seq(Chars))'
        BY <1>1, <2>1
    <2>3. Rank' \in Nat /\ Rank' <= 2 * (Len(Separators) + 2) + Len(work')
        BY <2>2, RankBoundsNext
    <2> QED BY <2>1, <2>3
<1>10. CASE work' = Rest(t, end) \o Tail(work) /\ Rest(t, end) = <<>> /\ end = t.to
    <2> DEFINE u == <<>>
    <2>0. work' = u \o Tail(work)
        BY <1>10, Zenon
    <2>1. /\ u \in Seq(Tasks) /\ u = <<>> /\ work' = u \o Tail(work)
          /\ \A m \in DOMAIN u : EntryOK(u[m])
          /\ \A m \in 1 .. Len(u) - 1 : u[m].to + 1 = u[m + 1].from
        BY <2>0
    <2> HIDE DEF u
    <2>2. /\ Stacked' /\ Rank' \in Nat /\ Rank' <= 2 * (Len(Separators) + 2) + Len(work')
          /\ Front' = t.to + 1 /\ Len(work') = Len(work) - 1
        BY <1>9, <2>1
    <2>3. CASE t.from <= t.to
        BY <1>3, <2>2, <2>3 DEF Shrinks
    <2>4. CASE t.from > t.to
        <3>1. Rank' < Rank
            BY <1>1, <2>2, <2>4, DroppingShrinks
        <3> QED BY <1>3, <2>2, <2>4, <3>1 DEF Shrinks
    <2> QED BY <1>3, <2>2, <2>3, <2>4
<1>11. CASE work' = Rest(t, end) \o Tail(work) /\ Rest(t, end) = <<r>> /\ t.from <= end
    <2> DEFINE u == <<r>>
    <2>1. u \in Seq(Tasks) /\ DOMAIN u = {1} /\ u[1] = r /\ u # <<>> /\ Len(u) = 1
        BY <1>7
    <2>2. work' = u \o Tail(work)
        BY <1>11
    <2> HIDE DEF u
    <2>3. /\ \A m \in DOMAIN u : EntryOK(u[m])
          /\ \A m \in 1 .. Len(u) - 1 : u[m].to + 1 = u[m + 1].from
          /\ u[Len(u)].to = t.to
        BY <1>7, <2>1
    <2>4. Stacked' /\ Front' = r.from
        BY <1>9, <2>1, <2>2, <2>3
    <2> QED BY <1>3, <1>5, <1>7, <1>11, <2>4 DEF Shrinks
<1>12. CASE /\ Width([from |-> t.from, to |-> end]) > ChunkSize
            /\ work' = (<<s>> \o Rest(t, end)) \o Tail(work)
    <2>0. /\ s \in Tasks /\ EntryOK(s) /\ s.from = t.from /\ s.to = end
          /\ s.level = t.level + 1 /\ s.kind = "text" /\ t.from <= end
        BY <1>8, <1>12
    <2> DEFINE u == <<s>> \o Rest(t, end)
    <2>1. /\ u \in Seq(Tasks) /\ u # <<>> /\ u[1] = s
          /\ \A m \in DOMAIN u : EntryOK(u[m])
          /\ \A m \in 1 .. Len(u) - 1 : u[m].to + 1 = u[m + 1].from
          /\ u[Len(u)].to = t.to
        <3>0. <<s>> \in Seq(Tasks) /\ Len(<<s>>) = 1 /\ <<s>>[1] = s
            BY <2>0
        <3>1. CASE Rest(t, end) = <<>> /\ end = t.to
            <4>1. u = <<s>>
                BY <3>0, <3>1, ConcatEmptySeq, Zenon
            <4>2. u \in Seq(Tasks) /\ u[1] = s /\ Len(u) = 1
                BY <3>0, <4>1
            <4> HIDE DEF u
            <4>3. DOMAIN u = 1 .. 1
                BY <4>2, LenProperties
            <4>4. u # <<>>
                BY <4>2, EmptySeq
            <4>5. /\ \A m \in DOMAIN u : m = 1
                  /\ \A m \in 1 .. Len(u) - 1 : FALSE
                BY <4>2, <4>3
            <4> QED BY <2>0, <3>1, <4>2, <4>4, <4>5
        <3>2. CASE Rest(t, end) = <<r>>
            <4> DEFINE v == Rest(t, end)
            <4>1. v \in Seq(Tasks) /\ Len(v) = 1 /\ v[1] = r
                <5>1. <<r>> \in Seq(Tasks) /\ Len(<<r>>) = 1 /\ <<r>>[1] = r
                    BY <1>7
                <5> QED BY <3>2, <5>1
            <4> HIDE DEF v
            <4>2. /\ <<s>> \o v \in Seq(Tasks) /\ Len(<<s>> \o v) = 2
                  /\ (<<s>> \o v)[1] = s /\ (<<s>> \o v)[2] = r
                <5> DEFINE w == <<s>>
                <5>1. w \in Seq(Tasks) /\ Len(w) = 1 /\ w[1] = s
                    BY <3>0
                <5> HIDE DEF w
                <5>2. /\ w \o v \in Seq(Tasks) /\ Len(w \o v) = 2
                      /\ (w \o v)[1] = s /\ (w \o v)[2] = r
                    <6>1. /\ w \o v \in Seq(Tasks) /\ Len(w \o v) = Len(w) + Len(v)
                          /\ \A i \in 1 .. Len(w) + Len(v) :
                                 (w \o v)[i] = IF i <= Len(w) THEN w[i] ELSE v[i - Len(w)]
                        BY <4>1, <5>1, ConcatProperties
                    <6> QED BY <4>1, <5>1, <6>1
                <5> QED BY <5>2 DEF w
            <4>3. u \in Seq(Tasks) /\ u[1] = s /\ u[2] = r /\ Len(u) = 2
                BY <4>2 DEF v
            <4> HIDE DEF u
            <4>4. DOMAIN u = 1 .. 2 /\ u # <<>>
                BY <4>3, LenProperties, EmptySeq
            <4>5. /\ \A m \in DOMAIN u : m = 1 \/ m = 2
                  /\ \A m \in 1 .. Len(u) - 1 : m = 1
                BY <4>3, <4>4
            <4>6. \A m \in DOMAIN u : EntryOK(u[m])
                BY <2>0, <1>7, <4>3, <4>5
            <4>7. \A m \in 1 .. Len(u) - 1 : u[m].to + 1 = u[m + 1].from
                BY <2>0, <1>7, <4>3, <4>5
            <4> QED BY <1>7, <4>3, <4>4, <4>6, <4>7
        <3> QED BY <1>6, <3>1, <3>2
    <2>2. work' = u \o Tail(work)
        BY <1>12
    <2> HIDE DEF u
    <2>3. Stacked' /\ Front' = s.from /\ work' # <<>> /\ Head(work') = s
        BY <1>9, <2>1, <2>2
    <2>4. Rank' = 2 * (Len(Separators) + 2 - (t.level + 1))
        BY <1>3, <1>5, <2>0, <2>3 DEF Rank
    <2>5. Rank = 2 * (Len(Separators) + 2 - t.level) - 1
        BY <1>1, <1>3, <1>5, <2>0 DEF Rank
    <2> QED BY <1>3, <2>0, <2>3, <2>4, <2>5 DEF Shrinks
<1> QED BY <1>4, <1>6, <1>10, <1>11, <1>12 DEF s

\* The first call covers the text.
LEMMA FreshIsStacked ==
    ASSUME text \in Seq(Chars), work = FirstCall(text)
    PROVE  Stacked
<1>1. Len(text) \in Nat /\ Len(Separators) \in Nat
    BY SeparatorAssumption
<1>2. CASE \A i \in DOMAIN text : text[i] \in Blanks
    BY <1>2 DEF FirstCall, Stacked
<1>3. CASE ~\A i \in DOMAIN text : text[i] \in Blanks
    <2> DEFINE t == Task("text", 1, 1, Len(text))
    <2>1. work = <<t>> /\ Len(text) # 0
        BY <1>3 DEF FirstCall
    <2>2. t.kind = "text" /\ t.level = 1 /\ t.from = 1 /\ t.to = Len(text)
        BY DEF Task
    <2> HIDE DEF t
    <2>3. DOMAIN work = {1} /\ work[1] = t /\ Len(work) = 1
        BY <2>1
    <2>4. EntryOK(t)
        BY <1>1, <2>1, <2>2 DEF EntryOK
    <2> QED BY <2>2, <2>3, <2>4 DEF Stacked, After
<1> QED BY <1>2, <1>3

\* So does the first call of a run that a step begins.
LEMMA FreshIsStackedNext == (text \in Seq(Chars) /\ work = FirstCall(text))' => Stacked'
<1>1. text \in Seq(Chars) /\ work = FirstCall(text) => Stacked
    BY FreshIsStacked
<1> QED BY <1>1, PTL

\* The steps of the recursion.
LEMMA SplitStep ==
    ASSUME ChunkInv, Stacked, TakeWhole \/ HardCut \/ Descend \/ NextPart
    PROVE  Stacked' /\ Shrinks
<1>1. CASE TakeWhole \/ HardCut \/ Descend
    BY <1>1, TextShrinks DEF ChunkInv
<1>2. CASE NextPart
    <2>1. ChunkInv'
        BY <1>2, ChunkNextInv DEF ChunkNext
    <2> QED BY <1>2, <2>1, PartShrinks DEF ChunkInv, SplitInv
<1> QED BY <1>1, <1>2

\* Every step keeps the stack in one piece.
LEMMA StackedStep ==
    ASSUME IInv, Stacked, [Next]_vars
    PROVE  Stacked'
<1>1. CASE UNCHANGED <<text, work>>
    BY <1>1 DEF Stacked, EntryOK, After
<1>2. CASE GiveBack
    <2>1. text' \in Seq(Chars) /\ work' = FirstCall(text')
        BY <1>2 DEF GiveBack, FirstCall, IInv, ChunkInv, SplitInv
    <2>2. (text \in Seq(Chars) /\ work = FirstCall(text))'
        BY <2>1 DEF FirstCall
    <2> QED BY <2>2, FreshIsStackedNext
<1>3. CASE Chunk
    <2>1. CASE TakeWhole \/ HardCut \/ Descend \/ NextPart
        BY <2>1, SplitStep DEF IInv
    <2>2. CASE SplitDone \/ PackPiece \/ PackDone \/ Locate \/ LocateDone
        BY <1>1, <2>2 DEF SplitDone, PackPiece, PackDone, Locate, LocateDone
    <2> QED BY <1>3, <2>1, <2>2 DEF Chunk, ChunkNext
<1> QED BY <1>1, <1>2, <1>3 DEF Next, Download, NoText, EmbedAnswered, Clear, Upsert,
               EmbedMalformed, EmbedRefused, AttemptFails, Redeliver, DeadLetter, vars, chunkVars

\* The recursion ends for any text, any separators and any size: each step of it goes
\* on in the text or has less left to do where it is (split_to_size).
THEOREM SplittingShrinksHolds == Spec => SplittingShrinks
<1>1. Init => Stacked
    BY FreshIsStacked, TextAssumption DEF Init, ChunkInit
<1>2. IInv /\ Stacked /\ [Next]_vars => Stacked'
    BY StackedStep
<1>3. ASSUME IInv, IInv', Stacked, Stacked', Next,
             step' = step, stage = "split", stage' = "split"
      PROVE  /\ Front' \in Front .. Len(text) + 1
             /\ Rank' \in Nat
             /\ Front' = Front => Rank' < Rank
    <2>1. TakeWhole \/ HardCut \/ Descend \/ NextPart
        BY <1>3 DEF Next, Download, Chunk, ChunkNext, SplitDone, PackPiece, PackDone, Locate, LocateDone,
                   NoText, EmbedAnswered, Embedding, EmbedMalformed, EmbedRefused,
                   Clear, Upsert, AttemptFails, GiveBack, Redeliver, DeadLetter
    <2>2. Shrinks
        BY <1>3, <2>1, SplitStep DEF IInv
    <2>3. text' = text
        BY <2>1 DEF TakeWhole, HardCut, Descend, NextPart, splitRest
    <2>4. Front \in Nat /\ Rank \in Nat /\ Len(text) \in Nat
        BY <1>3, RankBounds DEF IInv, ChunkInv, SplitInv
    <2>5. (WorkOK /\ Stacked /\ text \in Seq(Chars))'
        BY <1>3 DEF IInv, ChunkInv, SplitInv
    <2>6. Front' \in Nat /\ Front' <= Len(text) + 1 /\ Rank' \in Nat
        BY <2>3, <2>5, RankBoundsNext
    <2> QED BY <2>2, <2>4, <2>6 DEF Shrinks
<1>4. IInv /\ IInv' /\ Stacked /\ Stacked' /\ [Next]_vars =>
          [step' = step /\ stage = "split" /\ stage' = "split" =>
               /\ Front' \in Front .. Len(text) + 1
               /\ Rank' \in Nat
               /\ Front' = Front => Rank' < Rank]_vars
    BY <1>3
<1> QED BY <1>1, <1>2, <1>4, IndexingInvariant, PTL DEF Spec, SplittingShrinks

===============================================================================

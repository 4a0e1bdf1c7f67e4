------------------------ MODULE MCDocumentLifecycle ------------------------
(* Values for the constants of DocumentLifecycle.                          *)
EXTENDS DocumentLifecycle, TLC

CONSTANTS d1, d2, w1, w2, short, long, alt, empty, huge

\* "long" has a chunk more than "short"; "alt" has as many as "long"; "empty" has no
\* text; "huge" is over the size cap.
MCChunksOf ==
    [c \in Contents |->
        CASE c = short -> {1}
          [] c = empty -> {}
          [] OTHER -> {1, 2}]

\* All sizes but the last are equal, so that HEAD cannot tell an overwrite.
MCSizeOf == [c \in Contents |-> IF c = huge THEN 2 ELSE 1]

WorkerSymmetry == Permutations(Workers)

=============================================================================

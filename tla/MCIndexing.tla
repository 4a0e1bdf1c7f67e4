------------------------------ MODULE MCIndexing ------------------------------
(* Values of the constants of Indexing for TLC: every text of up to six     *)
(* characters, each a word character, a space or a newline.                 *)
EXTENDS Indexing
MCTexts == UNION {[1 .. n -> {"x", "s", "n"}] : n \in 0 .. 6}
MCSeparators == << <<"n", "n">>, <<"n">>, <<"s">> >>
=============================================================================

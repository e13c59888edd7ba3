--------------------------- MODULE MCLineSplitter ---------------------------
(* All lines of a few characters for TLC.                                  *)
EXTENDS LineSplitter

MCLines == UNION {[1..n -> Chars] : n \in 0..MaxInput}
=============================================================================

------------------------------ MODULE MCBase58 ------------------------------
(***************************************************************************)
(* Numbers of three bytes for TLC: every value of the smallest byte, with  *)
(* bytes above it at the edges of the two bases, of a carry and of a       *)
(* borrow, and at zero.                                                    *)
(***************************************************************************)
EXTENDS Base58

Edges == {0, 1, 57, 58, 59, 127, 128, 255}

MCNumbers == {<<a, b, c>> : a \in Edges, b \in Edges, c \in Octets}
=============================================================================

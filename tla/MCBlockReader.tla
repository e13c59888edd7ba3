--------------------------- MODULE MCBlockReader ----------------------------
(***************************************************************************)
(* Chains for TLC: up to MaxBlocks blocks, each one of a few bodies, two   *)
(* to a file; the last block of a chain may be cut off.                    *)
(***************************************************************************)
EXTENDS BlockReader

CONSTANTS MaxBlocks   \* bound: the length of a chain

MCHashes == {"b0", "b1", "b2", "c", "d", "s", "t", "w", "o", "h"}

Tx(hash, inputs, length) ==
    [hash |-> hash, inputs |-> inputs, length |-> length, odd |-> hash = "o",
     segwit |-> hash = "w", huge |-> hash = "h"]

Coinbase(hash) == Tx(hash, <<NoHash>>, 1)

(* s spends the coinbase c, t spends s and the odd coinbase o spends       *)
(* nothing.                                                                *)
Bodies == {<<Coinbase("c")>>,
           <<Coinbase("d"), Tx("s", <<"c">>, 2)>>,
           <<Coinbase("d"), Tx("s", <<"c">>, 2), Tx("t", <<"s", "c">>, 3)>>,
           <<Coinbase("o")>>,
           <<Coinbase("d"), Tx("t", <<"o">>, 2)>>,
           <<Coinbase("d"), Tx("w", <<"c">>, 2)>>,
           <<Coinbase("d"), Tx("h", <<"c">>, 4)>>,
           <<Coinbase("c"), Tx("s", <<"c">>, 2), Tx("t", <<"s">>, 3), Tx("o", <<"t">>, 1)>>}

BlockNames == <<"b0", "b1", "b2">>

BlockAt(n, body, whole) ==
    [hash |-> BlockNames[n], prev |-> IF n = 1 THEN NoHash ELSE BlockNames[n - 1],
     file |-> n \div 2, offset |-> IF n % 2 = 1 THEN 12 ELSE 1,
     transactions |-> body, whole |-> whole]

MCChains ==
    UNION {{[n \in 1..length |-> BlockAt(n, bodies[n], n < length \/ lastWhole)] :
               bodies \in [1..length -> Bodies], lastWhole \in BOOLEAN} :
             length \in 1..MaxBlocks}
=============================================================================

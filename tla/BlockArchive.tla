---------------------------- MODULE BlockArchive ----------------------------
(***************************************************************************)
(* What readBlock promises to the commands that print blocks: an archive   *)
(* that takes in a block as a whole or not at all.  A block is returned    *)
(* when the file holds all of it, nothing in it is beyond the limits of    *)
(* the parser, and whatever it spends is known or its own; in one step its *)
(* transactions are then known, a new one by the first place it has in the *)
(* block and by its number, one that was known by what was known of it.  A *)
(* block that is not returned leaves nothing behind but a gap in the       *)
(* numbers.                                                                *)
(***************************************************************************)
EXTENDS Integers, Sequences

CONSTANTS NoHash,       \* what a coinbase input names
          PrefixLength, \* of what stands before the transactions of a block
          Limit         \* a block has fewer transactions than this

VARIABLES chain,    \* the sequence of the blocks on disk, whatever they are
          known,    \* the place and number of each transaction
          answer,   \* whether the last call returned a block
          next,     \* the number of the next transaction
          ended     \* the program was ended

vars == <<chain, known, answer, next, ended>>

Init == /\ DOMAIN chain = 1..Len(chain)
        /\ known = [h \in {} |-> h]
        /\ answer = FALSE
        /\ next = 0
        /\ ended = FALSE

HashesOf(b) == {b.transactions[i].hash : i \in DOMAIN b.transactions}

(* Where the transactions of a block start.                                *)
Starts(b) ==
    LET Start[i \in 1..(Len(b.transactions) + 1)] ==
            IF i = 1 THEN b.offset + PrefixLength
                     ELSE Start[i - 1] + b.transactions[i - 1].length
    IN  Start

Place(b, i) == [file |-> b.file, offset |-> Starts(b)[i],
                length |-> b.transactions[i].length, index |-> next + i - 1]

IsFirst(b, i) == \A j \in 1..(i - 1) : b.transactions[j].hash # b.transactions[i].hash

FirstPlace(b, h) == Place(b, CHOOSE i \in DOMAIN b.transactions :
                                b.transactions[i].hash = h /\ IsFirst(b, i))

Intact(b) == b.whole /\ Len(b.transactions) < Limit

(* All that the i-th transaction spends is known, or in the block.         *)
Covered(b, i) == LET inputs == b.transactions[i].inputs
                 IN  \A j \in DOMAIN inputs :
                        inputs[j] \in {NoHash} \cup DOMAIN known \cup HashesOf(b)

Return(b) ==
    /\ Intact(b)
    /\ \A i \in DOMAIN b.transactions : /\ ~b.transactions[i].segwit
                                        /\ ~b.transactions[i].huge
                                        /\ Covered(b, i)
    /\ known' = [h \in DOMAIN known \cup HashesOf(b) |->
                    IF h \in DOMAIN known THEN known[h] ELSE FirstPlace(b, h)]
    /\ answer' = TRUE
    /\ next' = next + Len(b.transactions)
    /\ UNCHANGED <<chain, ended>>

(* The parser cannot make sense of one of the transactions.                *)
Refuse(b) ==
    /\ Intact(b)
    /\ \E i \in DOMAIN b.transactions : b.transactions[i].segwit /\ next' = next + i - 1
    /\ answer' = FALSE
    /\ UNCHANGED <<chain, known, ended>>

(* The caller asked for no block of the chain.                             *)
RefuseIndex == answer' = FALSE /\ UNCHANGED <<chain, known, next, ended>>

(* The block is cut off or beyond the limits, or spends what is not known. *)
End(b) ==
    /\ \/ ~Intact(b) /\ next' = next
       \/ /\ Intact(b)
          /\ \E i \in DOMAIN b.transactions : b.transactions[i].huge /\ next' = next + i - 1
       \/ /\ Intact(b)
          /\ \E i \in DOMAIN b.transactions : ~Covered(b, i)
          /\ next' = next + Len(b.transactions)
    /\ ended' = TRUE
    /\ UNCHANGED <<chain, known, answer>>

Next == /\ ~ended
        /\ \/ \E n \in DOMAIN chain : Return(chain[n]) \/ Refuse(chain[n]) \/ End(chain[n])
           \/ RefuseIndex

Spec == Init /\ [][Next]_vars
=============================================================================

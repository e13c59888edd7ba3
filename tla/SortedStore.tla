---------------------------- MODULE SortedStore -----------------------------
(***************************************************************************)
(* What the database library promises to KeyValueDatabase: a store whose   *)
(* contents opening, reading, crashing and opening again never change, and *)
(* a reading that hands out the pairs of a range of keys in the order of   *)
(* the keys, each once, until no key of the range is left or the reading   *)
(* is given up.                                                            *)
(***************************************************************************)
EXTENDS Integers, Sequences

CONSTANTS Keys,     \* the keys, integers for their order
          Wanted    \* the keys a reading asks for

VARIABLES contents,     \* the pairs stored: a set of [key, value]
          phase,        \* of the reading: closed, reading, finished
          delivered     \* the pairs the reading handed out so far

vars == <<contents, phase, delivered>>

Init == /\ contents \subseteq [key : Keys, value : Nat]
        /\ phase = "closed"
        /\ delivered = << >>

(* The pairs of the range that the reading has not come to yet.            *)
Ahead == {pair \in contents :
            /\ pair.key \in Wanted
            /\ \A i \in DOMAIN delivered : delivered[i].key < pair.key}

Begin == /\ phase = "closed"
         /\ phase' = "reading"
         /\ delivered' = << >>
         /\ UNCHANGED contents

Deliver == /\ phase = "reading"
           /\ \E pair \in Ahead :
                 /\ \A other \in Ahead : pair.key <= other.key
                 /\ delivered' = Append(delivered, pair)
                 /\ phase' \in IF Ahead = {pair} THEN {"reading", "finished"} ELSE {"reading"}
           /\ UNCHANGED contents

(* There is nothing more in the range.                                     *)
FindNothing == /\ phase = "reading"
               /\ Ahead = {}
               /\ phase' = "finished"
               /\ UNCHANGED <<contents, delivered>>

(* The program ended, or was ended.                                        *)
Close == /\ phase' = "closed"
         /\ delivered' = << >>
         /\ UNCHANGED contents

Next == Begin \/ Deliver \/ FindNothing \/ Close

Spec == Init /\ [][Next]_vars
=============================================================================

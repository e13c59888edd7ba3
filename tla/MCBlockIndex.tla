---------------------------- MODULE MCBlockIndex ----------------------------
(***************************************************************************)
(* Databases for TLC: up to MaxEntries "b" entries in any order, with the  *)
(* entries of other prefixes before and after them.                        *)
(***************************************************************************)
EXTENDS BlockIndex

CONSTANTS Heights, Times, Counts,
          MaxEntries   \* bound: the number of "b" entries

MCPrefix == 1

BlockEntries == [prefix : {MCPrefix}, height : Heights, mTime : Times,
                 mTransactionCount : Counts]

Other(prefix) == [prefix |-> prefix, height |-> 0, mTime |-> 0, mTransactionCount |-> 1]

Around == {<<<< >>, << >>>>, <<<<Other(0)>>, <<Other(2)>>>>}

MCDatabases ==
    UNION {{around[1] \o blocks \o around[2] : blocks \in [1..n -> BlockEntries],
                                               around \in Around} : n \in 0..MaxEntries}

MCRequests == {<< >>, <<"bye">>, <<"help">>, <<"block">>, <<"reboot">>}
              \cup {<<"block", n>> : n \in -1..2}
=============================================================================

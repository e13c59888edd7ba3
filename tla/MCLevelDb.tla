----------------------------- MODULE MCLevelDb ------------------------------
(***************************************************************************)
(* Directories for TLC: a node wrote a few keys, one after another, and    *)
(* stopped or was stopped.  Where each write was by then is any placement  *)
(* that keeps the newer writes of a key above the older ones.              *)
(***************************************************************************)
EXTENDS LevelDb, SequencesExt

CONSTANT Histories      \* the writes: sequences of [key, del]

PutKey(key) == [key |-> key, del |-> FALSE]
DeleteKey(key) == [key |-> key, del |-> TRUE]

(* The keys 1 and 2 have the prefix, 0 and 3 lie around them.              *)
MCWanted == {1, 2}
MCHistories == {<<PutKey(1), PutKey(2), DeleteKey(1)>>,
                <<PutKey(0), PutKey(2)>>, <<PutKey(2), PutKey(2)>>, <<PutKey(1), PutKey(3)>>}

(* The places of a write: the levels 2 and 1, an older and a newer table   *)
(* of level 0, the log that the manifest names and a log after that.       *)
Places == 1..6

Placements(history) ==
    {place \in [DOMAIN history -> Places] :
        /\ \A i, j \in DOMAIN history :
              i < j /\ place[i] > place[j] =>
                  history[i].key # history[j].key /\ place[j] <= 2
        /\ (\E i \in DOMAIN history : place[i] = 6) => \E i \in DOMAIN history : place[i] = 5}

(* The directory: a table for each key in the levels 2 and 1, a record of  *)
(* a log for each write.  The last record may be torn; before the last     *)
(* log was made an unfinished compaction had taken the numbers 13 to 15.   *)
Directory(history, place, torn) ==
    LET entry(i) == [key |-> history[i].key, seq |-> i, del |-> history[i].del]
        at(p) == {i \in DOMAIN history : place[i] = p}
        keys(p) == {history[i].key : i \in at(p)}
        deep(p, key) == {entry(i) : i \in {j \in at(p) : history[j].key = key}}
        one(number, p) == IF at(p) = {} THEN << >> ELSE number :> {entry(i) : i \in at(p)}
        tables == [n \in {1 + k : k \in keys(1)} |-> deep(1, n - 1)]
                  @@ [n \in {5 + k : k \in keys(2)} |-> deep(2, n - 5)]
                  @@ one(9, 3) @@ one(10, 4)
        level(n) == IF n < 5 THEN 2 ELSE IF n < 9 THEN 1 ELSE 0
        added == {<<level(n), FileMetaData(n, tables[n])>> : n \in DOMAIN tables}
        tail(p) == IF torn /\ (p = 6 \/ at(6) = {}) THEN <<{}>> ELSE << >>
        log(p) == LET order == SetToSortSeq(at(p), <)
                  IN  [n \in DOMAIN order |-> {entry(order[n])}] \o tail(p)
    IN  [current |-> 11, temps |-> {},
         manifests |-> 11 :> <<[log |-> 12, next |-> 13, added |-> added, deleted |-> {},
                                last |-> Max({0} \cup UNION {at(p) : p \in 1..4})]>>,
         tables |-> tables @@ IF at(6) = {} THEN << >> ELSE [n \in 13..15 |-> {}],
         logs |-> 12 :> log(5) @@ IF at(6) = {} THEN << >> ELSE 16 :> log(6)]

MCDatabases ==
    {EmptyDirectory} \cup
    UNION {{Directory(history, place, torn) : place \in Placements(history), torn \in BOOLEAN} :
              history \in Histories}

(* A directory that level 1 of a node that held a snapshot may leave: two  *)
(* tables with writes of one key, the older in the later table.            *)
SplitKey ==
    LET del(key, seq) == [key |-> key, seq |-> seq, del |-> TRUE]
        put(key, seq) == [key |-> key, seq |-> seq, del |-> FALSE]
        tables == 1 :> {put(1, 1)} @@ 2 :> {put(2, 2)} @@ 3 :> {del(1, 5)}
                  @@ 4 :> {put(1, 3), put(2, 4)}
        added == {<<IF n < 3 THEN 2 ELSE 1, FileMetaData(n, tables[n])>> : n \in DOMAIN tables}
    IN  [current |-> 5, temps |-> {}, tables |-> tables, logs |-> 6 :> << >>,
         manifests |-> 5 :> <<[log |-> 6, next |-> 7, added |-> added, deleted |-> {},
                               last |-> 5]>>]

MCSplitKey == {SplitKey}

(* The node left its writes as it should in all directories but this one.  *)
ASSUME MCLevelDbAssumption == (\A d \in MCDatabases : Intact(d)) /\ ~Intact(SplitKey)
=============================================================================

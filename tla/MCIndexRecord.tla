--------------------------- MODULE MCIndexRecord ----------------------------
(***************************************************************************)
(* Records for TLC, in an encoding with four values to a byte: the fields  *)
(* are at the edges of one, two and three bytes or the largest there is,   *)
(* and the status bits take every combination.                             *)
(***************************************************************************)
EXTENDS IndexRecord

Edges == {0, 3, 4, 19, 20, WordSize - 1}

Statuses == {0, 8, 16, 29, 37, 157}

(* Any two fields take edges together, among values that need two bytes.   *)
MCObjects ==
    {[fields |-> [[[name \in Names |-> 7] EXCEPT !["mBlockStatus"] = status, ![a] = m]
                     EXCEPT ![b] = n],
      header |-> <<1, 2, 3, 4, 5, 6>>] :
        a \in Names \ {"mBlockStatus"}, b \in Names \ {"mBlockStatus"},
        m \in Edges, n \in Edges, status \in Statuses}
=============================================================================

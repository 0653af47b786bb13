----------------------------- MODULE MCRetrieval -----------------------------
(***************************************************************************)
(* Retrieval with two categories, the smaller of one product, and a search *)
(* whose similarities lie on both sides of the thresholds.                 *)
(***************************************************************************)
EXTENDS Retrieval

CONSTANTS p1, p2, p3

MCProduct == {p1, p2, p3}
MCCategory == {"data", "ai"}
MCCategoryOf == [p \in MCProduct |-> IF p = p3 THEN "ai" ELSE "data"]

Of(x, y, z) == [p \in MCProduct |-> IF p = p1 THEN x ELSE IF p = p2 THEN y ELSE z]

MCSimilarity == {Of(60, 19, 4), Of(2, 5, 40)}
MCHits == {Of(0, 0, 0), Of(0, 0, 1)}
=============================================================================

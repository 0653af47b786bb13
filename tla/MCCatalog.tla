------------------------------ MODULE MCCatalog ------------------------------
(***************************************************************************)
(* Catalog with one seeded course and one title more, two concurrent       *)
(* requests and two starts of the process.                                 *)
(***************************************************************************)
EXTENDS Catalog, TLC

CONSTANTS t1, t2

MCTitle == {t1, t2}
MCSeeded == {t1}
MCText == {"old", "new"}

Requests == Permutations(Request)
=============================================================================

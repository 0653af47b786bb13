------------------------------ MODULE MCTracker ------------------------------
(***************************************************************************)
(* Tracker with three events, three failures and an event that the         *)
(* database refuses.                                                       *)
(***************************************************************************)
EXTENDS Tracker
=============================================================================

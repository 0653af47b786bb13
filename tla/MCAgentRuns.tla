---------------------------- MODULE MCAgentRuns ----------------------------
(***************************************************************************)
(* AgentRuns on small instances.                                           *)
(***************************************************************************)
EXTENDS AgentRuns, TLC

View == [type |-> "product_view", product |-> "p1", query |-> FALSE, seconds |-> 0]
AddToCart == [type |-> "add_to_cart", product |-> "p1", query |-> FALSE, seconds |-> 0]

(* Two views or one add-to-cart pass the score; only the second is strong. *)
MCKind == {View, AddToCart}

(* One strong event is enough to open the gate.                            *)
MCStrongKind == {AddToCart}

Requests == Permutations(Request)
=============================================================================

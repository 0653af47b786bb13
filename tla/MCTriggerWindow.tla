-------------------------- MODULE MCTriggerWindow --------------------------
(***************************************************************************)
(* TriggerWindow on windows of up to four rows: one more than the volume   *)
(* threshold, with every event type and both sides of the time_spent cap.  *)
(***************************************************************************)
EXTENDS TriggerWindow

Plain(type, product) ==
    [type |-> type, product |-> product, query |-> FALSE, seconds |-> 0]

MCStamp == 1..4

MCWhat ==
    {Plain("page_view", NoProduct), Plain("product_view", "p1"),
     Plain("product_view", "p2"), Plain("click", "p1"),
     Plain("search", NoProduct), [Plain("search", NoProduct) EXCEPT !.query = TRUE],
     Plain("add_to_cart", "p1"), Plain("checkout_start", NoProduct),
     [Plain("time_spent", NoProduct) EXCEPT !.seconds = 239],
     [Plain("time_spent", NoProduct) EXCEPT !.seconds = 300]}
=============================================================================

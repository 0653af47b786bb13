------------------------- MODULE RecommendationFeed -------------------------
(***************************************************************************)
(* What the recommendation store promises the rest of the program, with    *)
(* no agent runs in sight: each user has at most one current               *)
(* recommendation, a newer one replaces it in one step, and everything     *)
(* ever shown stays in the history.  AgentRuns implements this module.     *)
(***************************************************************************)
EXTENDS Naturals

CONSTANT User

VARIABLES
    shown,   \* shown[u]: the current recommendation of u, a set of at most one
    past     \* past[u]: the recommendations u was shown before

feedVars == <<shown, past>>

Init ==
    /\ shown = [u \in User |-> {}]
    /\ past = [u \in User |-> {}]

(* A recommendation younger than all the others takes the current place.   *)
Publish(u) ==
    \E new \in shown'[u] :
        /\ new \in Nat
        /\ \A old \in shown[u] \cup past[u] : new > old
        /\ shown' = [shown EXCEPT ![u] = {new}]
        /\ past' = [past EXCEPT ![u] = @ \cup shown[u]]

Next == \E u \in User : Publish(u)

Spec == Init /\ [][Next]_feedVars
=============================================================================

--------------------------- MODULE TriggerWindow ---------------------------
(***************************************************************************)
(* The trigger gate seen from one user: the window of events the agent has *)
(* not processed yet grows, row by row and not always in the order of      *)
(* created_at, while the two timers of the gate start and run out.  What   *)
(* the arithmetic of TriggerGate promises is stated over every such        *)
(* window.                                                                 *)
(***************************************************************************)
EXTENDS TriggerGate

CONSTANTS
    Stamp,      \* the created_at values of the window's rows
    What        \* contents of events

(* A clock that is not set back during a visit: a negative time_spent      *)
(* would take from the score what other events add.                        *)
ASSUME WhatAssumption ==
    \A what \in What : what.type \in EventType /\ what.seconds \in Nat

VARIABLES window, fresh, cooling

windowVars == <<window, fresh, cooling>>

Init == window = {} /\ fresh \in BOOLEAN /\ cooling \in BOOLEAN

(* A row is committed; an earlier stamp may be committed after a later one.*)
Arrive ==
    /\ \E at \in Stamp \ {r.at : r \in window}, what \in What :
          window' = window \cup {[at |-> at, what |-> what]}
    /\ UNCHANGED <<fresh, cooling>>

CooldownEnds ==
    /\ cooling /\ cooling' = FALSE
    /\ UNCHANGED <<window, fresh>>

RecommendationAges ==
    /\ fresh /\ fresh' = FALSE
    /\ UNCHANGED <<window, cooling>>

Next == Arrive \/ CooldownEnds \/ RecommendationAges

Spec == Init /\ [][Next]_windowVars

GateOpen == Opens(window, Cardinality(window), fresh, cooling)

-----------------------------------------------------------------------------
(* should_trigger: once the gate is open, neither more activity nor the    *)
(* passing of time closes it; only a run does.                             *)
OnlyARunCloses == [][GateOpen => GateOpen']_windowVars

(* A purchase intent opens the gate by itself, whatever else is in the     *)
(* window and however fresh the last recommendation, once it is not        *)
(* cooling: weights, score threshold and STRONG_SIGNAL_TYPES agree.        *)
BuyingIntentOpens ==
    (/\ ~cooling
     /\ \E r \in window : r.what.type \in {"add_to_cart", "checkout_start"})
        => GateOpen

(* The bonus for repeated views (trigger_service.py:49-57) never decides:  *)
(* two views reach the score without it and three events need no score.    *)
RepeatBonusNeverDecides ==
    LET n == Cardinality(window)
        Score(r) == ScoreEvent(r.what)
    IN  EnoughActivity(window, n)
            <=> \/ n >= EVENT_THRESHOLD
                \/ n > 0 /\ MapThenSumSet(Score, window) >= MIN_SCORE_THRESHOLD
=============================================================================

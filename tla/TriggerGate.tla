---------------------------- MODULE TriggerGate ----------------------------
(***************************************************************************)
(* The decision of app/services/trigger_service.py: may the new activity   *)
(* of a user start an agent run?  Pure operators over the rows that the    *)
(* gate has read; the modules that use them say when each row, cursor and  *)
(* timestamp was read.                                                     *)
(*                                                                         *)
(* A row of the events table is [at |-> its place in the (created_at, id)  *)
(* order, what |-> its content].  Scores are counted in eightieths of a    *)
(* point, the unit in which every weight of the code is a whole number:    *)
(* one second of time_spent is worth 1/60 * 0.75 = 1/80 of a point.        *)
(***************************************************************************)
EXTENDS Integers, FiniteSets, FiniteSetsExt

EventType == {"page_view", "product_view", "search", "click", "time_spent",
              "add_to_cart", "checkout_start"}

EVENT_THRESHOLD == 3
MIN_SCORE_THRESHOLD == 240      \* 3.0 points
(* Mutant: a checkout is not a strong signal.                              *)
StrongWithoutCheckout == {"add_to_cart", "search"}

STRONG_SIGNAL_TYPES == {"add_to_cart", "checkout_start", "search"}

(* Mutant: a view is worth less than half of the score threshold.          *)
LighterViews ==
    [page_view |-> 32, product_view |-> 110, search |-> 160, click |-> 80,
     time_spent |-> 48, add_to_cart |-> 240, checkout_start |-> 320]

EVENT_WEIGHTS ==
    [page_view |-> 32, product_view |-> 120, search |-> 160, click |-> 80,
     time_spent |-> 48, add_to_cart |-> 240, checkout_start |-> 320]

TIME_SPENT_CAP == 240           \* 3.0 points
QUERY_BONUS == 40               \* 0.5 point
REPEAT_VIEW_BONUS == 40
REPEAT_VIEW_CAP == 160          \* 2.0 points

NoProduct == "no product"

(***************************************************************************)
(* What an event says, as far as the gate looks at it.  product is         *)
(* NoProduct when the column is NULL, query tells whether the metadata     *)
(* carry a non-empty query, seconds is the time_spent payload (tracker.js  *)
(* sends a negative one only if the clock is set back during the visit).   *)
(***************************************************************************)
Content(Product) ==
    [type : EventType, product : Product \cup {NoProduct},
     query : BOOLEAN, seconds : Nat]

AtMost(n, cap) == IF n < cap THEN n ELSE cap

ScoreEvent(e) ==
    IF e.type = "time_spent"
    THEN AtMost(e.seconds, TIME_SPENT_CAP)
    ELSE EVENT_WEIGHTS[e.type]
         + (IF e.type = "search" /\ e.query THEN QUERY_BONUS ELSE 0)

(* Second and later views of one product add to the batch, up to a cap.    *)
RepeatBonus(views) ==
    IF views > 1 THEN AtMost((views - 1) * REPEAT_VIEW_BONUS, REPEAT_VIEW_CAP)
                 ELSE 0

ViewsOf(rows, p) ==
    {r \in rows : r.what.type = "product_view" /\ r.what.product = p}

ScoreEventBatch(rows) ==
    LET viewed == {r.what.product : r \in rows} \ {NoProduct}
        Score(r) == ScoreEvent(r.what)
        Bonus(p) == RepeatBonus(Cardinality(ViewsOf(rows, p)))
    IN  MapThenSumSet(Score, rows) + MapThenSumSet(Bonus, viewed)

(* The n newest rows, as ORDER BY created_at DESC, id DESC LIMIT n.        *)
NewestRows(rows, n) ==
    {r \in rows : Cardinality({s \in rows : s.at > r.at}) < n}

(* The volume and intensity test: n is the COUNT-based number of new       *)
(* events, rows the rows fetched for it.                                   *)
EnoughActivity(rows, n) ==
    /\ n > 0
    /\ \/ ScoreEventBatch(rows) >= MIN_SCORE_THRESHOLD
       \/ n >= EVENT_THRESHOLD

(* Mutant: one weak event is enough to keep the gate shut.                 *)
BlocksOnAnyWeakRow(rows, fresh) ==
    /\ fresh
    /\ \E r \in rows : r.what.type \notin STRONG_SIGNAL_TYPES

(* fresh: the user's newest active recommendation is younger than the TTL. *)
FreshRecommendationBlocks(rows, fresh) ==
    /\ fresh
    /\ \A r \in rows : r.what.type \notin STRONG_SIGNAL_TYPES

(* cooling: the cognitive model was updated within the cooldown.           *)
Opens(rows, n, fresh, cooling) ==
    /\ EnoughActivity(rows, n)
    /\ ~FreshRecommendationBlocks(rows, fresh)
    /\ ~cooling
=============================================================================

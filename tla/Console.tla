------------------------------- MODULE Console -------------------------------
(***************************************************************************)
(* The admin console's view of the runs (app/services/admin_stats.py): the *)
(* rows of the call log are cut into clusters wherever two neighbours lie  *)
(* more than Gap apart, and a cluster is shown with the recommendation     *)
(* that was stored within Window after its last row, if there is just one. *)
(* The rows and the recommendations are read by two queries; the model     *)
(* goes on between them.  A cluster is known by its first stamp.           *)
(***************************************************************************)
EXTENDS LLMGateway

CONSTANTS
    Gap,       \* RUN_CLUSTER_GAP_SECONDS, in ticks
    Window     \* RECOMMENDATION_MATCH_WINDOW_SECONDS, in ticks

ASSUME ConsoleAssumption == Gap \in Nat /\ Window \in Nat /\ Window <= Gap

VARIABLES calls   \* the rows the console has read

vars == <<gateway, calls>>

Init == GatewayInit /\ calls = {}

TypeOK == GatewayTypeOK /\ calls \subseteq log

(* The first query: the rows since some moment.                            *)
ReadCalls ==
    /\ calls = {} /\ \E since \in Time : calls' = {r \in log : r.at >= since}
    /\ UNCHANGED gateway

Next ==
    \/ GatewayNext /\ UNCHANGED calls
    \/ ReadCalls

Spec == Init /\ [][Next]_vars

(* A run that has begun is driven on by its task: requests are answered    *)
(* (the client gives up after its timeout) and nodes return.               *)
FairSpec == Spec /\ \A c \in Callers : WF_vars(Advance(c) /\ UNCHANGED calls)

-----------------------------------------------------------------------------
(* cluster_calls.                                                          *)
Stamps == {r.at : r \in calls}

(* Mutant: calls that lie Gap apart are cut.                               *)
StartsTight == {t \in Stamps : \A u \in Stamps : u < t => t - u >= Gap}

Starts == {t \in Stamps : \A u \in Stamps : u < t => t - u > Gap}

Cluster(s) ==
    {r \in calls : r.at >= s /\ \A t \in Starts : t <= r.at => t <= s}

(* Mutant: anything stored after the cluster will do.                      *)
MatchableLate(s) ==
    {c \in Agents : rec[c] # Never /\ \A r \in Cluster(s) : r.at <= rec[c]}

(* Mutant: the window is a tick wider than the gap.                        *)
MatchableWide(s) ==
    {c \in Agents :
        /\ rec[c] # Never
        /\ \A r \in Cluster(s) : r.at <= rec[c]
        /\ \E r \in Cluster(s) : rec[c] <= r.at + Gap + 1}

(* _match_recommendations: what is stored, at the second query, not before *)
(* the last row of the cluster and within Window of it.                    *)
Matchable(s) ==
    {c \in Agents :
        /\ rec[c] # Never
        /\ \A r \in Cluster(s) : r.at <= rec[c]
        /\ \E r \in Cluster(s) : rec[c] <= r.at + Window}

(* Mutant: of several candidates the first one is taken.                   *)
AttachedFirst(s) == {c \in Matchable(s) : \A d \in Matchable(s) : rec[c] <= rec[d]}

Attached(s) == {c \in Matchable(s) : Matchable(s) = {c}}

-----------------------------------------------------------------------------
(* The bound on what goes over the wire (llm_client.py:22, 70, 95): a chat *)
(* call is at most two requests per attempt and an embedding one, and each *)
(* request is sent at most ClientRetries times again, whatever comes back. *)
Requests(c) == MaxAttempts * (IF IsChat(c) THEN 2 ELSE 1)

AttemptBudget == \A c \in Callers : sent[c] <= Requests(c) * (1 + ClientRetries)

RowsOf(c) == {r \in calls : r.by = c}

(* Rows of one run with nothing longer than Gap between them.              *)
Close(c) ==
    \A r \in RowsOf(c) :
        \/ \A q \in RowsOf(c) : q.at >= r.at
        \/ \E q \in RowsOf(c) : q.at < r.at /\ r.at - q.at <= Gap

(* A run whose calls follow each other closely is never split over two     *)
(* clusters, whatever other rows lie between and whenever the window       *)
(* begins (cluster_calls).                                                 *)
RunNotSplit ==
    \A c \in Callers : Close(c) /\ RowsOf(c) # {} =>
        \E s \in Starts : RowsOf(c) \subseteq Cluster(s)

(* What the run behind an attached recommendation logged within Gap of     *)
(* storing it, and the console has read, lies in the cluster it is         *)
(* attached to (_match_recommendations).                                   *)
OwnRowsTogether ==
    \A s \in Starts : \A c \in Attached(s) : \A r \in RowsOf(c) :
        rec[c] - r.at <= Gap => r \in Cluster(s)

LastRows(s) == {r \in Cluster(s) : \A q \in Cluster(s) : q.at <= r.at}

(* "Only attaches when exactly one recommendation lands in the window"     *)
(* (admin_stats.py:96): a cluster that ends with a row of a run which      *)
(* stored its recommendation in time is never shown with another's.        *)
MatchNotGuessed ==
    \A s \in Starts : \A c \in Attached(s) : \A r \in LastRows(s) :
        (/\ r.by \in Agents /\ rec[r.by] # Never
         /\ rec[r.by] <= r.at + Window) => r.by = c

(* A recommendation is shown under one cluster only.                       *)
MatchedOnce ==
    \A s, t \in Starts : s # t => Attached(s) \cap Attached(t) = {}

(* Every run that begins comes to an end, whatever the gateway answers.    *)
CallersSettle == \A c \in Callers : at[c] \in Active ~> Settled(c)
=============================================================================

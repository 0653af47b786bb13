------------------------------ MODULE LLMGateway ------------------------------
(***************************************************************************)
(* The single choke point for model calls (app/services/llm_client.py) and *)
(* the log it writes (app/models/llm_call_log.py).                         *)
(*                                                                         *)
(* A run of the agent makes a chat call, an embedding call and a chat call *)
(* and stores a recommendation; a catalog sync makes one embedding call.   *)
(* A call is up to three attempts, an attempt of a chat call up to two     *)
(* requests: the first asks for json mode, the second does without when    *)
(* the answer was empty.  A request may go over the wire more than once:   *)
(* AsyncOpenAI is built with its default max_retries (llm_client.py:22).   *)
(* Each request leaves a row in the log if the row can be written, stamped *)
(* when the last answer to it came.  An element of Agents or Syncs is one  *)
(* run; the time between two ticks is up to the instance.                  *)
(***************************************************************************)
EXTENDS Naturals, FiniteSets

CONSTANTS
    Agents, Syncs,
    MaxAttempts,   \* stop_after_attempt
    ClientRetries, \* max_retries of the OpenAI client (2 by default)
    MaxTime,       \* bound: ticks
    MaxFaults      \* bound: rows that are lost and nodes and processes that fail

Callers == Agents \cup Syncs

ASSUME GatewayAssumption ==
    /\ Agents \cap Syncs = {}
    /\ MaxAttempts \in Nat \ {0}
    /\ ClientRetries \in Nat
    /\ MaxTime \in Nat /\ MaxFaults \in Nat

VARIABLES
    now,
    at,        \* where a run is
    call,      \* the call it is making
    attempt,   \* the attempt of that call
    plain,     \* the attempt has fallen back to no json mode
    resent,    \* times the client has sent the present request again
    sent,      \* times that call has gone over the wire
    log,       \* llm_call_logs: whose request, and when
    rec,       \* when the run stored its recommendation
    faults

progress == <<at, call, attempt, plain, resent, sent>>
gateway == <<now, progress, log, rec, faults>>

Never == MaxTime + 1
Time == 0..MaxTime
Row == [by : Callers, at : Time]

(* An agent's calls are chat, embedding, chat; a sync's is an embedding.   *)
IsChat(c) == c \in Agents /\ call[c] # 2

Active == {"request", "store"}
Settled(c) == at[c] \in {"done", "failed"}

GatewayInit ==
    /\ now = 0 /\ log = {} /\ faults = 0
    /\ at = [c \in Callers |-> "idle"]
    /\ call = [c \in Callers |-> 1]
    /\ attempt = [c \in Callers |-> 1]
    /\ plain = [c \in Callers |-> FALSE]
    /\ resent = [c \in Callers |-> 0]
    /\ sent = [c \in Callers |-> 0]
    /\ rec = [c \in Callers |-> Never]

GatewayTypeOK ==
    /\ now \in Time /\ faults \in 0..MaxFaults
    /\ at \in [Callers -> Active \cup {"idle", "done", "failed"}]
    /\ call \in [Callers -> 1..3]
    /\ attempt \in [Callers -> 1..MaxAttempts]
    /\ plain \in [Callers -> BOOLEAN]
    /\ resent \in [Callers -> 0..ClientRetries]
    /\ sent \in [Callers -> Nat]
    /\ log \subseteq {r \in Row : r.at <= now}
    /\ rec \in [Callers -> Time \cup {Never}]

-----------------------------------------------------------------------------
Goto(c, place) == at' = [at EXCEPT ![c] = place]

(* _log_call: a row that cannot be written is swallowed.                   *)
LogCall(c) ==
    \/ log' = log \cup {[by |-> c, at |-> now]} /\ UNCHANGED faults
    \/ faults < MaxFaults /\ faults' = faults + 1 /\ UNCHANGED log

Begin(c) ==
    /\ at[c] = "idle" /\ Goto(c, "request")
    /\ sent' = [sent EXCEPT ![c] = 1]
    /\ UNCHANGED <<now, call, attempt, plain, resent, log, rec, faults>>

(* Mutant: the call counter is not reset.                                  *)
LeaveCounting(c, place) ==
    /\ Goto(c, place)
    /\ attempt' = [attempt EXCEPT ![c] = 1]
    /\ plain' = [plain EXCEPT ![c] = FALSE]
    /\ resent' = [resent EXCEPT ![c] = 0]
    /\ call' = [call EXCEPT ![c] = @ + 1]
    /\ sent' = [sent EXCEPT ![c] = IF place = "request" THEN 1 ELSE 0]

(* Where a run stands after its call is over, as a new call starts from    *)
(* its first attempt.                                                      *)
Leave(c, place) ==
    /\ Goto(c, place)
    /\ attempt' = [attempt EXCEPT ![c] = 1]
    /\ plain' = [plain EXCEPT ![c] = FALSE]
    /\ resent' = [resent EXCEPT ![c] = 0]
    /\ call' = [call EXCEPT ![c] = IF place = "request" THEN @ + 1 ELSE 1]
    /\ sent' = [sent EXCEPT ![c] = IF place = "request" THEN 1 ELSE 0]

(* _chat_once: the first chat leads to the embedding, the second one to    *)
(* the store node.                                                         *)
ChatSucceeds(c) ==
    /\ at[c] = "request" /\ IsChat(c)
    /\ LogCall(c)
    /\ Leave(c, IF call[c] = 1 THEN "request" ELSE "store")
    /\ UNCHANGED <<now, rec>>

(* get_embedding: a sync has what it wanted.  An agent goes on with its    *)
(* second chat, unless there are no candidates to ask about.               *)
EmbeddingSucceeds(c) ==
    /\ at[c] = "request" /\ ~IsChat(c)
    /\ LogCall(c)
    /\ \E place \in IF c \in Agents THEN {"request", "store"} ELSE {"done"} :
           Leave(c, place)
    /\ UNCHANGED <<now, rec>>

(* The answer came, and the node that wanted it fails: the reply does not  *)
(* parse, a query fails.                                                   *)
NodeFails(c) ==
    /\ at[c] = "request"
    /\ log' = log \cup {[by |-> c, at |-> now]}
    /\ faults < MaxFaults /\ faults' = faults + 1
    /\ Leave(c, "failed")
    /\ UNCHANGED <<now, rec>>

(* The OpenAI client by itself: no connection, a timeout, a 408, 409, 429  *)
(* or 5xx.  It sends the same request again and nothing is logged.         *)
ClientResends(c) ==
    /\ at[c] = "request" /\ resent[c] < ClientRetries
    /\ resent' = [resent EXCEPT ![c] = @ + 1]
    /\ sent' = [sent EXCEPT ![c] = @ + 1]
    /\ UNCHANGED <<now, at, call, attempt, plain, log, rec, faults>>

(* Mutant: the fallback asks in json mode again.                           *)
FallBackAgain(c) ==
    /\ at[c] = "request" /\ IsChat(c) /\ ~plain[c]
    /\ LogCall(c)
    /\ resent' = [resent EXCEPT ![c] = 0]
    /\ sent' = [sent EXCEPT ![c] = @ + 1]
    /\ UNCHANGED <<now, at, call, attempt, plain, rec>>

(* chat_completion: what was answered with nothing in json mode is asked   *)
(* again without it, inside the same attempt.                              *)
FallBack(c) ==
    /\ at[c] = "request" /\ IsChat(c) /\ ~plain[c]
    /\ LogCall(c)
    /\ plain' = [plain EXCEPT ![c] = TRUE]
    /\ resent' = [resent EXCEPT ![c] = 0]
    /\ sent' = [sent EXCEPT ![c] = @ + 1]
    /\ UNCHANGED <<now, at, call, attempt, rec>>

(* Mutant: attempts are not counted.                                       *)
RetryUncounted(c) ==
    /\ at[c] = "request"
    /\ LogCall(c)
    /\ plain' = [plain EXCEPT ![c] = FALSE]
    /\ resent' = [resent EXCEPT ![c] = 0]
    /\ sent' = [sent EXCEPT ![c] = 1]
    /\ UNCHANGED <<now, at, call, attempt, rec>>

(* A 5xx or a network error that the client has given up on, an empty      *)
(* answer without json mode, an embedding without data: the next attempt,  *)
(* in json mode again.                                                     *)
Retry(c) ==
    /\ at[c] = "request" /\ attempt[c] < MaxAttempts
    /\ LogCall(c)
    /\ attempt' = [attempt EXCEPT ![c] = @ + 1]
    /\ plain' = [plain EXCEPT ![c] = FALSE]
    /\ resent' = [resent EXCEPT ![c] = 0]
    /\ sent' = [sent EXCEPT ![c] = @ + 1]
    /\ UNCHANGED <<now, at, call, rec>>

(* The last attempt has failed, or the status is one that is not retried,  *)
(* 429 among them (_is_retryable), however often the client sent it.       *)
GiveUp(c) ==
    /\ at[c] = "request"
    /\ LogCall(c)
    /\ Leave(c, "failed")
    /\ UNCHANGED <<now, rec>>

Store(c) ==
    /\ at[c] = "store"
    /\ \/ Goto(c, "done") /\ rec' = [rec EXCEPT ![c] = now] /\ UNCHANGED faults
       \/ /\ faults < MaxFaults /\ faults' = faults + 1
          /\ Goto(c, "failed") /\ UNCHANGED rec
    /\ UNCHANGED <<now, call, attempt, plain, resent, sent, log>>

(* The process dies: no run goes on, no answer is logged.                  *)
Crash ==
    /\ faults < MaxFaults /\ faults' = faults + 1
    /\ LET dead == {c \in Callers : at[c] \in Active}
           Cut(f, start) == [c \in Callers |-> IF c \in dead THEN start ELSE f[c]]
       IN  /\ dead # {}
           /\ at' = Cut(at, "failed") /\ call' = Cut(call, 1)
           /\ attempt' = Cut(attempt, 1) /\ plain' = Cut(plain, FALSE)
           /\ resent' = Cut(resent, 0) /\ sent' = Cut(sent, 0)
    /\ UNCHANGED <<now, log, rec>>

Tick == now < MaxTime /\ now' = now + 1 /\ UNCHANGED <<progress, log, rec, faults>>

(* What a run does by itself once it has begun.                            *)
Advance(c) ==
    \/ ChatSucceeds(c) \/ EmbeddingSucceeds(c) \/ NodeFails(c)
    \/ ClientResends(c) \/ FallBack(c) \/ Retry(c) \/ GiveUp(c) \/ Store(c)

GatewayNext ==
    \/ \E c \in Callers : Begin(c) \/ Advance(c)
    \/ Crash \/ Tick
=============================================================================

----------------------------- MODULE AgentRuns -----------------------------
(***************************************************************************)
(* From a batch of events to a stored recommendation: the ingest handler   *)
(* (routers/events.py), the trigger gate's reads (services/                *)
(* trigger_service.py), the per-user guard (agent/runner.py), the nodes of *)
(* the agent that touch the database (agent/nodes/model_user.py and        *)
(* store.py) and the daily digest (services/scheduler.py), all running as  *)
(* coroutines of one process over one database.                            *)
(*                                                                         *)
(* Every await is a place where another coroutine may run, so every        *)
(* database statement is a step of its own and sees what is committed      *)
(* then; what a coroutine has read it keeps in its locals.  A crash loses  *)
(* the coroutines, the in-memory guard and every uncommitted row.          *)
(*                                                                         *)
(* Time: created_at of events and recommendations is a global stamp (the   *)
(* code's microseconds); the two ages the gate measures, the cooldown and  *)
(* the TTL, are timers that start when a row is written and run out at any *)
(* moment later.                                                           *)
(***************************************************************************)
EXTENDS TriggerGate, Sequences

CONSTANTS
    User,
    Request,      \* slots for concurrent POST /api/events requests
    Digest,       \* the scheduler's job (max_instances = 1)
    Kind,         \* contents of the events the users generate
    MaxBatch,     \* bound: events in one batch
    MaxStamps,    \* bound: no request or digest starts after so many rows
    MAX_EVENTS_CONSIDERED,
    NoUser

ASSUME ActorAssumption == Digest \notin Request /\ NoUser \notin User
ASSUME BoundAssumption ==
    MaxBatch \in Nat /\ MaxStamps \in Nat /\ MAX_EVENTS_CONSIDERED \in Nat \ {0}

Actor == Request \cup {Digest}

VARIABLES
    \* the database
    events,       \* committed rows of the events table, per user
    profile,      \* users with a committed user_cognitive_models row
    cursor,       \* last_event_count_at_update
    recs,         \* committed recommendations
    seen,         \* history: events the stored profiles were inferred from
    \* ages
    clock,        \* the next created_at
    cooling,      \* users whose cognitive model was updated in the last 60 s
    fresh,        \* users whose active recommendation is younger than the TTL
    \* the process
    inFlight,     \* _in_flight
    pc, user,     \* where each coroutine is, and for whom
    rows,         \* event rows it holds
    count,        \* number or stamp it has read
    cool,         \* the cooldown it has read
    olds,         \* active recommendations it has read
    pending,      \* coroutines with a flushed, uncommitted cognitive model
    todo,         \* users the digest has still to look at
    due           \* the digest of the day has not started yet

dbVars == <<events, profile, cursor, recs, seen>>
timeVars == <<clock, cooling, fresh>>
localVars == <<user, rows, count, cool, olds>>
digestVars == <<todo, due>>
vars == <<dbVars, timeVars, inFlight, pc, localVars, pending, digestVars>>

Row == [at : Nat, what : Kind]
Rec == [at : Nat, active : BOOLEAN]

IngestPC == {"inserted", "committed", "counted", "creating", "modelRead", "fetched"}
DigestPC == {"select", "lastRec", "newEvents", "freshness"}
RunPC == {"readModel", "readEvents", "readCount", "infer", "pipeline",
          "storeCommit", "release"}
PC == {"idle", "claim"} \cup IngestPC \cup DigestPC \cup RunPC

DatabaseTyped ==
    /\ events \in [User -> SUBSET Row]
    /\ \A u \in User : IsFiniteSet(events[u])
    /\ profile \in SUBSET User
    /\ cursor \in [User -> Nat]
    /\ recs \in [User -> SUBSET Rec]
    /\ seen \in [User -> SUBSET Row]

AgesTyped ==
    /\ clock \in Nat
    /\ cooling \in SUBSET User /\ fresh \in SUBSET User

ProcessTyped ==
    /\ inFlight \in SUBSET User
    /\ pc \in [Actor -> PC]
    /\ user \in [Actor -> User \cup {NoUser}]
    /\ \A a \in Actor : pc[a] \notin {"idle", "select"} => user[a] \in User
    /\ pending \in SUBSET Actor
    /\ todo \in SUBSET User
    /\ due \in BOOLEAN

LocalsTyped ==
    /\ rows \in [Actor -> SUBSET Row]
    /\ \A a \in Actor : IsFiniteSet(rows[a])
    /\ count \in [Actor -> Nat]
    /\ cool \in [Actor -> BOOLEAN]
    /\ olds \in [Actor -> SUBSET Rec]

TypeOK == DatabaseTyped /\ AgesTyped /\ ProcessTyped /\ LocalsTyped

Init ==
    /\ events = [u \in User |-> {}]
    /\ profile = {}
    /\ cursor = [u \in User |-> 0]
    /\ recs = [u \in User |-> {}]
    /\ clock = 0
    /\ cooling = {} /\ fresh = {}
    /\ inFlight = {}
    /\ pc = [a \in Actor |-> "idle"]
    /\ user = [a \in Actor |-> NoUser]
    /\ rows = [a \in Actor |-> {}]
    /\ count = [a \in Actor |-> 0]
    /\ cool = [a \in Actor |-> FALSE]
    /\ olds = [a \in Actor |-> {}]
    /\ pending = {}
    /\ todo = {} /\ due = TRUE
    /\ seen = [u \in User |-> {}]

-----------------------------------------------------------------------------
(* Helpers.                                                                *)

Goto(a, from, to) ==
    /\ pc[a] = from
    /\ pc' = [pc EXCEPT ![a] = to]

(* Mutant: the digest goes on without selecting the next user.             *)
FinishedUnselected(a) == IF a = Digest THEN "lastRec" ELSE "idle"

(* The coroutine ends: its locals are gone.  The digest goes on with the   *)
(* next user.                                                              *)
Finished(a) == IF a = Digest THEN "select" ELSE "idle"

Forget(a) ==
    /\ user' = [user EXCEPT ![a] = NoUser]
    /\ rows' = [rows EXCEPT ![a] = {}]
    /\ count' = [count EXCEPT ![a] = 0]
    /\ cool' = [cool EXCEPT ![a] = FALSE]
    /\ olds' = [olds EXCEPT ![a] = {}]

End(a) ==
    /\ pc' = [pc EXCEPT ![a] = Finished(a)]
    /\ Forget(a)

Active(u) == {r \in recs[u] : r.active}
Deactivated(R) == {[r EXCEPT !.active = FALSE] : r \in R}

(* user_id is unique: a second INSERT waits for the transaction that holds *)
(* an uncommitted row for the same user, be it the session of its own      *)
(* request: a run has a session of its own.                                *)
InsertBlocked(a) ==
    \E b \in pending : user[b] = user[a]

-----------------------------------------------------------------------------
(* POST /api/events: ingest_events, should_trigger and the background task *)

(* db.add_all and the flush: every row gets its created_at, in the order   *)
(* of the batch.  The schema accepts a batch without events, which asks    *)
(* the gate like any other.                                                *)
IngestInsert(a) ==
    /\ \E u \in User, n \in 0..MaxBatch : \E batch \in [1..n -> Kind] :
        /\ clock + n <= MaxStamps
        /\ user' = [user EXCEPT ![a] = u]
        /\ rows' = [rows EXCEPT ![a] =
                      {[at |-> clock + i - 1, what |-> batch[i]] : i \in 1..n}]
        /\ clock' = clock + n
    /\ Goto(a, "idle", "inserted")
    /\ UNCHANGED <<dbVars, cooling, fresh, inFlight, count, cool, olds,
                   pending, digestVars>>

IngestCommit(a) ==
    /\ Goto(a, "inserted", "committed")
    /\ events' = [events EXCEPT ![user[a]] = @ \cup rows[a]]
    /\ rows' = [rows EXCEPT ![a] = {}]
    /\ UNCHANGED <<profile, cursor, recs, seen, timeVars, inFlight, user, count,
                   cool, olds, pending, digestVars>>

(* should_trigger, first statement: SELECT COUNT.                          *)
GateCount(a) ==
    /\ Goto(a, "committed", "counted")
    /\ count' = [count EXCEPT ![a] = Cardinality(events[user[a]])]
    /\ UNCHANGED <<dbVars, timeVars, inFlight, user, rows, cool, olds,
                   pending, digestVars>>

(* get_or_create_cognitive_model finds the model; count becomes the number *)
(* of new events, and without any the request is answered.                 *)
GateModel(a) ==
    LET new == count[a] - cursor[user[a]]
    IN  /\ pc[a] = "counted"
        /\ user[a] \in profile
        /\ IF new <= 0
           THEN End(a)
           ELSE /\ pc' = [pc EXCEPT ![a] = "modelRead"]
                /\ count' = [count EXCEPT ![a] = new]
                /\ cool' = [cool EXCEPT ![a] = user[a] \in cooling]
                /\ UNCHANGED <<user, rows, olds>>
        /\ UNCHANGED <<dbVars, timeVars, inFlight, pending, digestVars>>

GateModelMissing(a) ==
    /\ user[a] \notin profile
    /\ Goto(a, "counted", "creating")
    /\ UNCHANGED <<dbVars, timeVars, inFlight, localVars, pending, digestVars>>

(* The flush of the new model: cursor 0 and an updated_at far in the past. *)
(* If another transaction created it meanwhile the INSERT is refused and   *)
(* the request ends with a 500, its events already committed.              *)
GateCreate(a) ==
    /\ pc[a] = "creating"
    /\ ~InsertBlocked(a)
    /\ IF user[a] \in profile
       THEN End(a) /\ UNCHANGED pending
       ELSE /\ pc' = [pc EXCEPT ![a] = "modelRead"]
            /\ pending' = pending \cup {a}
            /\ UNCHANGED localVars
    /\ UNCHANGED <<dbVars, timeVars, inFlight, digestVars>>

(* The request's second commit, which makes a model it created permanent.  *)
CommitModel(a) ==
    /\ profile' = IF a \in pending THEN profile \cup {user[a]} ELSE profile
    /\ pending' = pending \ {a}

(* _fetch_new_events and the score; below the thresholds the request is    *)
(* answered, and so it is when the model is new and there is no event yet. *)
GateFetch(a) ==
    LET new == NewestRows(events[user[a]], count[a])
    IN  /\ pc[a] = "modelRead"
        /\ IF EnoughActivity(new, count[a])
           THEN /\ pc' = [pc EXCEPT ![a] = "fetched"]
                /\ rows' = [rows EXCEPT ![a] = new]
                /\ UNCHANGED <<profile, pending, user, count, cool, olds>>
           ELSE End(a) /\ CommitModel(a)
        /\ UNCHANGED <<events, cursor, recs, seen, timeVars, inFlight, digestVars>>

(* Mutant: the second commit is left until the background task is over.    *)
GateDecideUncommitted(a) ==
    /\ pc[a] = "fetched"
    /\ IF Opens(rows[a], count[a], user[a] \in fresh, cool[a])
       THEN /\ pc' = [pc EXCEPT ![a] = "claim"]
            /\ rows' = [rows EXCEPT ![a] = {}]
            /\ count' = [count EXCEPT ![a] = 0]
            /\ cool' = [cool EXCEPT ![a] = FALSE]
            /\ UNCHANGED <<user, olds, profile, pending>>
       ELSE End(a) /\ CommitModel(a)
    /\ UNCHANGED <<events, cursor, recs, seen, timeVars, inFlight, digestVars>>

(* The freshness query, the cooldown test, the second commit and the       *)
(* answer; an open gate leaves a background task behind.  A cooldown that  *)
(* was running when the model was read may have run out since.             *)
GateDecide(a) ==
    /\ pc[a] = "fetched"
    /\ \E cooled \in {cool[a], FALSE} :
        IF Opens(rows[a], count[a], user[a] \in fresh, cooled)
        THEN /\ pc' = [pc EXCEPT ![a] = "claim"]
             /\ rows' = [rows EXCEPT ![a] = {}]
             /\ count' = [count EXCEPT ![a] = 0]
             /\ cool' = [cool EXCEPT ![a] = FALSE]
             /\ UNCHANGED <<user, olds>>
        ELSE End(a)
    /\ CommitModel(a)
    /\ UNCHANGED <<events, cursor, recs, seen, timeVars, inFlight, digestVars>>

(* An exception in the handler: the transaction rolls back, the client     *)
(* gets a 500, and rows committed before stay.                             *)
RequestFails(a) ==
    /\ pc[a] \in IngestPC
    /\ End(a)
    /\ pending' = pending \ {a}
    /\ UNCHANGED <<dbVars, timeVars, inFlight, digestVars>>

-----------------------------------------------------------------------------
(* run_agent_for_user and the graph's database steps.                      *)

(* Mutant: the guard does not look whether a run is in flight.             *)
ClaimUnchecked(a) ==
    /\ Goto(a, "claim", "readModel")
    /\ inFlight' = inFlight \cup {user[a]}
    /\ UNCHANGED <<dbVars, timeVars, localVars, pending, digestVars>>

Claim(a) ==
    /\ pc[a] = "claim"
    /\ IF user[a] \in inFlight
       THEN End(a) /\ UNCHANGED inFlight
       ELSE /\ inFlight' = inFlight \cup {user[a]}
            /\ pc' = [pc EXCEPT ![a] = "readModel"]
            /\ UNCHANGED localVars
    /\ UNCHANGED <<dbVars, timeVars, pending, digestVars>>

(* model_user: get_or_create_cognitive_model.                              *)
ReadModel(a) ==
    /\ Goto(a, "readModel", "readEvents")
    /\ \/ user[a] \in profile /\ UNCHANGED pending
       \/ /\ user[a] \notin profile /\ ~InsertBlocked(a)
          /\ pending' = pending \cup {a}
    /\ UNCHANGED <<dbVars, timeVars, inFlight, localVars, digestVars>>

(* model_user: the rows shown to the language model.                       *)
ReadEvents(a) ==
    /\ Goto(a, "readEvents", "readCount")
    /\ rows' = [rows EXCEPT ![a] =
                   NewestRows(events[user[a]], MAX_EVENTS_CONSIDERED)]
    /\ UNCHANGED <<dbVars, timeVars, inFlight, user, count, cool, olds,
                   pending, digestVars>>

(* Mutant: the length of the capped list instead of the real total.        *)
ReadCountCapped(a) ==
    /\ Goto(a, "readCount", "infer")
    /\ count' = [count EXCEPT ![a] = Cardinality(rows[a])]
    /\ UNCHANGED <<dbVars, timeVars, inFlight, user, rows, cool, olds,
                   pending, digestVars>>

(* model_user: total_event_count, a statement of its own.                  *)
ReadCount(a) ==
    /\ Goto(a, "readCount", "infer")
    /\ count' = [count EXCEPT ![a] = Cardinality(events[user[a]])]
    /\ UNCHANGED <<dbVars, timeVars, inFlight, user, rows, cool, olds,
                   pending, digestVars>>

(* Mutant: the total is added to the cursor instead of replacing it.       *)
InferAdding(a) ==
    /\ Goto(a, "infer", "pipeline")
    /\ cursor' = [cursor EXCEPT ![user[a]] = @ + count[a]]
    /\ profile' = profile \cup {user[a]}
    /\ pending' = pending \ {a}
    /\ cooling' = cooling \cup {user[a]}
    /\ seen' = [seen EXCEPT ![user[a]] = @ \cup rows[a]]
    /\ rows' = [rows EXCEPT ![a] = {}]
    /\ count' = [count EXCEPT ![a] = 0]
    /\ UNCHANGED <<events, recs, clock, fresh, inFlight, user, cool, olds, digestVars>>

(* model_user: the language model has answered and the profile is stored.  *)
(* onupdate renews updated_at unless no column of the row changed, which   *)
(* takes an unchanged count.                                               *)
Infer(a) ==
    /\ Goto(a, "infer", "pipeline")
    /\ cursor' = [cursor EXCEPT ![user[a]] = count[a]]
    /\ profile' = profile \cup {user[a]}
    /\ pending' = pending \ {a}
    /\ \/ cooling' = cooling \cup {user[a]}
       \/ /\ count[a] = cursor[user[a]] /\ user[a] \in profile
          /\ UNCHANGED cooling
    /\ seen' = [seen EXCEPT ![user[a]] = @ \cup rows[a]]
    /\ rows' = [rows EXCEPT ![a] = {}]
    /\ count' = [count EXCEPT ![a] = 0]
    /\ UNCHANGED <<events, recs, clock, fresh, inFlight, user, cool, olds,
                   digestVars>>

(* Mutant: an empty result deactivates the current recommendation.         *)
StoreNothing(a) ==
    /\ Goto(a, "pipeline", "release")
    /\ recs' = [recs EXCEPT ![user[a]] = Deactivated(@)]
    /\ UNCHANGED <<events, profile, cursor, seen, timeVars, inFlight, localVars,
                   pending, digestVars>>

(* retrieve to reflect found no product: store leaves the database alone.  *)
RecommendNothing(a) ==
    /\ Goto(a, "pipeline", "release")
    /\ UNCHANGED <<dbVars, timeVars, inFlight, localVars, pending, digestVars>>

(* They found some, and store has selected the active recommendations.     *)
StoreRead(a) ==
    /\ Goto(a, "pipeline", "storeCommit")
    /\ olds' = [olds EXCEPT ![a] = Active(user[a])]
    /\ UNCHANGED <<dbVars, timeVars, inFlight, user, rows, count, cool,
                   pending, digestVars>>

(* store: those rows become inactive and the new one is added, in one      *)
(* transaction.                                                            *)
StoreCommit(a) ==
    LET new == [at |-> clock, active |-> TRUE]
    IN  /\ Goto(a, "storeCommit", "release")
        /\ recs' = [recs EXCEPT ![user[a]] =
                       (@ \ olds[a]) \cup Deactivated(olds[a]) \cup {new}]
        /\ clock' = clock + 1
        /\ fresh' = fresh \cup {user[a]}
        /\ olds' = [olds EXCEPT ![a] = {}]
        /\ UNCHANGED <<events, profile, cursor, seen, cooling, inFlight, user, rows,
                       count, cool, pending, digestVars>>

(* Mutant: a failing run ends without the finally clause.                  *)
RunFailsUnreleased(a) ==
    /\ pc[a] \in RunPC \ {"release"}
    /\ End(a)
    /\ pending' = pending \ {a}
    /\ UNCHANGED <<dbVars, timeVars, inFlight, digestVars>>

(* Any exception of the graph: logged, and the finally clause comes next.  *)
RunFails(a) ==
    /\ pc[a] \in RunPC \ {"release"}
    /\ pc' = [pc EXCEPT ![a] = "release"]
    /\ rows' = [rows EXCEPT ![a] = {}]
    /\ count' = [count EXCEPT ![a] = 0]
    /\ olds' = [olds EXCEPT ![a] = {}]
    /\ pending' = pending \ {a}
    /\ UNCHANGED <<dbVars, timeVars, inFlight, user, cool, digestVars>>

Release(a) ==
    /\ pc[a] = "release"
    /\ inFlight' = inFlight \ {user[a]}
    /\ End(a)
    /\ UNCHANGED <<dbVars, timeVars, pending, digestVars>>

-----------------------------------------------------------------------------
(* run_daily_digest: the users with events of the last 24 hours, one after *)
(* the other.                                                              *)

DigestStart ==
    /\ due
    /\ due' = FALSE
    /\ Goto(Digest, "idle", "select")
    /\ \E active \in SUBSET {u \in User : events[u] # {}} : todo' = active
    /\ UNCHANGED <<dbVars, timeVars, inFlight, localVars, pending>>

DigestSelect ==
    /\ \E u \in todo :
        /\ user' = [user EXCEPT ![Digest] = u]
        /\ todo' = todo \ {u}
    /\ Goto(Digest, "select", "lastRec")
    /\ UNCHANGED <<dbVars, timeVars, inFlight, rows, count, cool, olds,
                   pending, due>>

DigestEnd ==
    /\ todo = {}
    /\ Goto(Digest, "select", "idle")
    /\ UNCHANGED <<dbVars, timeVars, inFlight, localVars, pending, digestVars>>

(* _should_digest_user: the newest recommendation, active or not.          *)
DigestLastRec ==
    LET stored == recs[user[Digest]]
    IN  /\ pc[Digest] = "lastRec"
        /\ \/ /\ stored = {}
              /\ pc' = [pc EXCEPT ![Digest] = "claim"]
              /\ UNCHANGED count
           \/ \E last \in stored :
              /\ \A r \in stored : r.at <= last.at
              /\ pc' = [pc EXCEPT ![Digest] = "newEvents"]
              /\ count' = [count EXCEPT ![Digest] = last.at]
        /\ UNCHANGED <<dbVars, timeVars, inFlight, user, rows, cool, olds,
                       pending, digestVars>>

(* _should_digest_user: the events after it.                               *)
DigestNewEvents ==
    LET newer == {e \in events[user[Digest]] : e.at > count[Digest]}
    IN  /\ pc[Digest] = "newEvents"
        /\ IF newer = {}
           THEN End(Digest)
           ELSE /\ pc' = [pc EXCEPT ![Digest] = "freshness"]
                /\ rows' = [rows EXCEPT ![Digest] = newer]
                /\ count' = [count EXCEPT ![Digest] = 0]
                /\ UNCHANGED <<user, cool, olds>>
        /\ UNCHANGED <<dbVars, timeVars, inFlight, pending, digestVars>>

(* _should_digest_user: the TTL gate of the event trigger.                 *)
DigestFreshness ==
    /\ pc[Digest] = "freshness"
    /\ IF FreshRecommendationBlocks(rows[Digest], user[Digest] \in fresh)
       THEN End(Digest)
       ELSE /\ pc' = [pc EXCEPT ![Digest] = "claim"]
            /\ rows' = [rows EXCEPT ![Digest] = {}]
            /\ UNCHANGED <<user, count, cool, olds>>
    /\ UNCHANGED <<dbVars, timeVars, inFlight, pending, digestVars>>

(* _should_digest_user runs outside the try block: an exception in it ends *)
(* the job, and the users still to come are not looked at.                 *)
DigestAborts ==
    /\ pc[Digest] \in {"lastRec", "newEvents", "freshness"}
    /\ pc' = [pc EXCEPT ![Digest] = "idle"]
    /\ Forget(Digest)
    /\ todo' = {}
    /\ UNCHANGED <<dbVars, timeVars, inFlight, pending, due>>

-----------------------------------------------------------------------------
(* Time and crashes.                                                       *)

CooldownEnds(u) ==
    /\ u \in cooling
    /\ cooling' = cooling \ {u}
    /\ UNCHANGED <<dbVars, clock, fresh, inFlight, pc, localVars, pending, digestVars>>

RecommendationAges(u) ==
    /\ u \in fresh
    /\ fresh' = fresh \ {u}
    /\ UNCHANGED <<dbVars, clock, cooling, inFlight, pc, localVars, pending, digestVars>>

(* The next digest is a day away, longer than both timers and any request: *)
(* the new day is taken to begin at a moment when none of them is running. *)
NewDay ==
    /\ clock < MaxStamps
    /\ ~due /\ cooling = {} /\ fresh = {}
    /\ \A a \in Actor : pc[a] = "idle"
    /\ due' = TRUE
    /\ UNCHANGED <<dbVars, timeVars, inFlight, pc, localVars, pending, todo>>

(* The process dies and starts again: _in_flight is a module variable, and *)
(* the scheduler forgets a digest that fell into the outage.               *)
Crash ==
    /\ \E a \in Actor : pc[a] # "idle"
    /\ inFlight' = {}
    /\ pc' = [a \in Actor |-> "idle"]
    /\ user' = [a \in Actor |-> NoUser]
    /\ rows' = [a \in Actor |-> {}]
    /\ count' = [a \in Actor |-> 0]
    /\ cool' = [a \in Actor |-> FALSE]
    /\ olds' = [a \in Actor |-> {}]
    /\ pending' = {}
    /\ todo' = {}
    /\ due' \in {due, FALSE}
    /\ UNCHANGED <<dbVars, timeVars>>

-----------------------------------------------------------------------------
RunProgress(a) ==
    \/ Claim(a) \/ ReadModel(a) \/ ReadEvents(a) \/ ReadCount(a) \/ Infer(a)
    \/ RecommendNothing(a) \/ StoreRead(a) \/ StoreCommit(a) \/ Release(a)

RequestProgress(a) ==
    \/ IngestCommit(a) \/ GateCount(a) \/ GateModel(a) \/ GateModelMissing(a)
    \/ GateCreate(a) \/ GateFetch(a) \/ GateDecide(a)

DigestProgress ==
    \/ DigestSelect \/ DigestEnd \/ DigestLastRec \/ DigestNewEvents
    \/ DigestFreshness

RunStep(a) == RunProgress(a) \/ RunFails(a)

RequestStep(a) == RequestProgress(a) \/ RequestFails(a)

DigestStep == DigestProgress \/ DigestAborts

Next ==
    \/ \E a \in Actor : RunStep(a)
    \/ \E a \in Request : IngestInsert(a) \/ RequestStep(a)
    \/ DigestStart \/ DigestStep
    \/ \E u \in User : CooldownEnds(u) \/ RecommendationAges(u)
    \/ NewDay \/ Crash

Spec == Init /\ [][Next]_vars

(* Coroutines are scheduled: a statement, model call or commit that can    *)
(* return does.  No failure is counted on: neither engine nor pool sets a  *)
(* lock or statement timeout that would end a wait.  A waiting INSERT is   *)
(* granted when its row is free again and again, whoever comes in between  *)
(* (SF).  Nothing makes users send events, the digest start, a step fail   *)
(* or the process crash.                                                   *)
Fairness ==
    /\ \A a \in Actor : WF_vars(RunProgress(a)) /\ SF_vars(ReadModel(a))
    /\ \A a \in Request : WF_vars(RequestProgress(a)) /\ SF_vars(GateCreate(a))
    /\ WF_vars(DigestProgress)

FairSpec == Spec /\ Fairness

-----------------------------------------------------------------------------
(* Properties.                                                             *)

Running(u) == {a \in Actor : pc[a] \in RunPC /\ user[a] = u}

(* The guard of runner.py is exact: a user is in _in_flight when, and only *)
(* when, one coroutine is inside the graph for that user.  No second run   *)
(* slips in, and no failure or crash leaves the slot taken.                *)
SlotsExact ==
    \A u \in User :
        /\ u \in inFlight <=> Running(u) # {}
        /\ \A a, b \in Running(u) : a = b

(* store.py reads the active recommendations and writes in two statements; *)
(* still no interleaving of requests and digest leaves a user with two.    *)
AtMostOneActive ==
    \A u \in User : \A r, s \in Active(u) : r = s

(* The cursor never runs ahead of the table: new_events in should_trigger  *)
(* is never negative because of what model_user stored.                    *)
CursorWithinEvents ==
    \A u \in User : cursor[u] <= Cardinality(events[u])

(* The number of new events that should_trigger computes is at most the    *)
(* number of events no stored profile was inferred from.  Which rows the   *)
(* slice of that length holds is another question.                         *)
SeenNotCountedAgain ==
    \A u \in User :
        Cardinality(events[u]) - cursor[u] <= Cardinality(events[u] \ seen[u])

(* The cursor never goes back, although model_user writes a total it       *)
(* counted before the language model was called: no run raises again the   *)
(* number of new events that an earlier one had lowered.                   *)
CursorMonotone ==
    [][\A u \in User : cursor'[u] >= cursor[u]]_vars

(* What the readers of the recommendations table see of it.                *)
shownRecs == [u \in User |-> {r.at : r \in Active(u)}]
pastRecs == [u \in User |-> {r.at : r \in recs[u] \ Active(u)}]

(* GET /api/recommendations/me and the history behind it: each store       *)
(* replaces the current recommendation by a younger one in one step, a run *)
(* without products or a failed run leaves it, and nothing is forgotten.   *)
Feed == INSTANCE RecommendationFeed WITH shown <- shownRecs, past <- pastRecs

ImplementsFeed == Feed!Spec

(* The places at which a transaction that created a model waits for no     *)
(* other one: its statements return, the language model answers.           *)
AtWork == {"modelRead", "fetched", "readEvents", "readCount", "infer"}

(* An INSERT of a user's model that has to wait (trigger_service.py:83,    *)
(* model_user.py:144) waits for a coroutine that is at work and will       *)
(* commit or roll back: never for one that waits in turn, for itself in    *)
(* another session, or for one that has gone and left its row behind.      *)
NoCircularWait ==
    \A a, b \in Actor :
        (/\ pc[a] \in {"creating", "readModel"}
         /\ b \in pending /\ user[b] = user[a]) => pc[b] \in AtWork

(* The README's cooldown: no run of a user begins while the cognitive      *)
(* model is less than 60 seconds old.                                      *)
CooldownBetweenRuns ==
    [][\A u \in User : u \in inFlight' \ inFlight => u \notin cooling]_vars

=============================================================================

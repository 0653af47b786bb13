------------------------------- MODULE Tracker -------------------------------
(***************************************************************************)
(* The browser's event tracker (app/static/js/tracker.js) on one page and  *)
(* the ingestion endpoint it talks to (app/routers/events.py).             *)
(*                                                                         *)
(* Events wait in a queue.  A flush - every five seconds, at once after a  *)
(* cart or checkout event, and when the page is left - empties the queue   *)
(* into one request.  A request that is refused or whose answer is lost    *)
(* puts its events back in front of the queue, although the server may     *)
(* have stored them, or may store them later: a request the page has given *)
(* up can be adrift.  Events are numbered in the order in which they       *)
(* happen.                                                                 *)
(***************************************************************************)
EXTENDS Integers, Sequences, SequencesExt

CONSTANTS
    MaxEvents,     \* bound: events of the page
    MaxFailures,   \* bound: requests that fail although they could be stored
    Poison         \* events the database refuses (a product that is gone)

Event == 1..MaxEvents

ASSUME TrackerAssumption ==
    MaxEvents \in Nat \ {0} /\ MaxFailures \in Nat /\ Poison \subseteq Event

VARIABLES
    page,        \* open or left
    token,       \* the access token in localStorage
    queue,       \* events waiting in the page
    happened,    \* number of events so far
    requests,    \* requests under way
    adrift,      \* adrift[n]: events of the n-th failed request, if it may
                 \* still reach the server
    stored,      \* the events table, in commit order
    failures,    \* failures so far
    dropped,     \* history: events thrown away because nobody is signed in
    repeated,    \* history: events of failed requests that had stored
                 \* them or were adrift
    overlapped   \* history: a request was sent while another was under way
                 \* or adrift

browser == <<page, token, queue, happened>>
history == <<dropped, repeated, overlapped>>
vars == <<browser, requests, adrift, stored, failures, history>>

(* signedIn: the token was valid when the request was sent.                *)
RequestType == [events : Seq(Event), at : {"sent", "stored"}, signedIn : BOOLEAN]

TypeOK ==
    /\ page \in {"open", "left"} /\ token \in {"none", "valid", "expired"}
    /\ queue \in Seq(Event) /\ stored \in Seq(Event)
    /\ happened \in 0..MaxEvents /\ failures \in 0..MaxFailures
    /\ requests \subseteq RequestType
    /\ adrift \in [1..MaxFailures -> Seq(Event)]
    /\ dropped \subseteq Event /\ repeated \subseteq Event
    /\ overlapped \in BOOLEAN
    /\ page = "left" => queue = <<>>

Init ==
    /\ page = "open" /\ token \in {"none", "valid", "expired"}
    /\ queue = <<>> /\ happened = 0
    /\ requests = {} /\ stored = <<>> /\ failures = 0
    /\ adrift = [n \in 1..MaxFailures |-> <<>>]
    /\ dropped = {} /\ repeated = {} /\ overlapped = FALSE

-----------------------------------------------------------------------------
(* The page.                                                               *)

Outstanding == requests # {} \/ \E n \in 1..MaxFailures : adrift[n] # <<>>

(* Mutant: the queue is emptied only when the answer has come.             *)
SendKeeping(events) ==
    /\ queue' = events
    /\ requests' = requests \cup
           {[events |-> events, at |-> "sent", signedIn |-> token = "valid"]}
    /\ overlapped' = (overlapped \/ Outstanding)
    /\ UNCHANGED <<token, adrift, stored, failures, repeated, dropped>>

(* flush: without a token the events are thrown away.                      *)
Send(events) ==
    /\ queue' = <<>>
    /\ IF token = "none"
       THEN /\ dropped' = dropped \cup ToSet(events)
            /\ UNCHANGED <<requests, overlapped>>
       ELSE /\ requests' = requests \cup
                   {[events |-> events, at |-> "sent", signedIn |-> token = "valid"]}
            /\ overlapped' = (overlapped \/ Outstanding)
            /\ UNCHANGED dropped
    /\ UNCHANGED <<token, adrift, stored, failures, repeated>>

(* A view, a click or a search waits for the next flush.                   *)
QueueEvent ==
    /\ page = "open" /\ happened < MaxEvents
    /\ happened' = happened + 1
    /\ queue' = Append(queue, happened + 1)
    /\ UNCHANGED <<page, token, requests, adrift, stored, failures, history>>

(* A cart or checkout event is sent at once, with all that waits.          *)
QueueUrgent ==
    /\ page = "open" /\ happened < MaxEvents
    /\ happened' = happened + 1
    /\ Send(Append(queue, happened + 1))
    /\ UNCHANGED page

(* Mutant: a single event waits for company.                               *)
FlushTogether ==
    /\ page = "open" /\ Len(queue) > 1
    /\ Send(queue)
    /\ UNCHANGED <<page, happened>>

Flush ==
    /\ page = "open" /\ queue # <<>>
    /\ Send(queue)
    /\ UNCHANGED <<page, happened>>

(* Mutant: what waits is not sent when the page is left.                   *)
LeaveUnsent ==
    /\ page = "open" /\ happened < MaxEvents
    /\ happened' = happened + 1
    /\ page' = "left"
    /\ queue' = Append(queue, happened + 1)
    /\ UNCHANGED <<token, requests, adrift, stored, failures, history>>

(* beforeunload: the time spent on the page is its last event.             *)
Leave ==
    /\ page = "open" /\ happened < MaxEvents
    /\ happened' = happened + 1
    /\ page' = "left"
    /\ Send(Append(queue, happened + 1))

(* Another page of the site, or the clock, changes the token.              *)
ChangeToken ==
    /\ token' \in {"none", "valid", "expired"} \ {token}
    /\ UNCHANGED <<page, queue, happened, requests, adrift, stored, failures, history>>

-----------------------------------------------------------------------------
(* A request.                                                              *)

(* Mutants: failed events go behind those that have waited; they are lost. *)
RequeueBehind(r) ==
    /\ requests' = requests \ {r}
    /\ queue' = IF page = "open" THEN queue \o r.events ELSE queue
    /\ UNCHANGED <<page, token, happened, dropped, overlapped>>

RequeueNothing(r) ==
    /\ requests' = requests \ {r}
    /\ UNCHANGED <<queue, page, token, happened, dropped, overlapped>>

(* The events go back to the front of the queue, if there is still a page. *)
Requeue(r) ==
    /\ requests' = requests \ {r}
    /\ queue' = IF page = "open" THEN r.events \o queue ELSE queue
    /\ UNCHANGED <<page, token, happened, dropped, overlapped>>

Storable(r) == r.signedIn /\ ToSet(r.events) \cap Poison = {}

(* The batch is committed as a whole.                                      *)
Commit(r) ==
    /\ r.at = "sent" /\ Storable(r)
    /\ stored' = stored \o r.events
    /\ requests' = (requests \ {r}) \cup {[r EXCEPT !.at = "stored"]}
    /\ UNCHANGED <<browser, adrift, failures, history>>

Answer(r) ==
    /\ r.at = "stored"
    /\ requests' = requests \ {r}
    /\ UNCHANGED <<browser, adrift, stored, failures, history>>

(* 401, or the database refuses the whole batch.                           *)
Refuse(r) ==
    /\ r.at = "sent" /\ ~Storable(r)
    /\ Requeue(r)
    /\ UNCHANGED <<adrift, stored, failures, repeated>>

(* The network or the server fails, before the commit or after it: the     *)
(* trigger gate runs, and commits again, before the answer is sent.        *)
Break(r) ==
    /\ failures < MaxFailures /\ failures' = failures + 1
    /\ Requeue(r)
    /\ repeated' = IF r.at = "stored" THEN repeated \cup ToSet(r.events)
                   ELSE repeated
    /\ UNCHANGED <<adrift, stored>>

(* The connection fails, but the request may still reach the server.       *)
Drift(r) ==
    /\ r.at = "sent" /\ Storable(r)
    /\ failures < MaxFailures /\ failures' = failures + 1
    /\ Requeue(r)
    /\ adrift' = [adrift EXCEPT ![failures + 1] = r.events]
    /\ repeated' = repeated \cup ToSet(r.events)
    /\ UNCHANGED stored

(* It does, and nobody waits for the answer.                               *)
Arrive(n) ==
    /\ adrift[n] # <<>>
    /\ stored' = stored \o adrift[n]
    /\ adrift' = [adrift EXCEPT ![n] = <<>>]
    /\ UNCHANGED <<browser, requests, failures, history>>

-----------------------------------------------------------------------------
Next ==
    \/ QueueEvent \/ QueueUrgent \/ Flush \/ Leave \/ ChangeToken
    \/ \E r \in requests : Commit(r) \/ Answer(r) \/ Refuse(r) \/ Break(r) \/ Drift(r)
    \/ \E n \in 1..MaxFailures : Arrive(n)

Spec == Init /\ [][Next]_vars

(* The interval timer runs while the page is open, and a fetch is settled. *)
FairSpec ==
    /\ Spec
    /\ WF_vars(Flush)
    /\ WF_vars(\E r \in requests : Commit(r) \/ Answer(r) \/ Refuse(r))

-----------------------------------------------------------------------------
(* Properties.                                                             *)

UnderWay == UNION {ToSet(r.events) : r \in requests}

(* While the page is open no event that happened is lost, whatever is      *)
(* refused or broken: it waits, is under way or is stored, unless it was   *)
(* thrown away because nobody was signed in.                               *)
NothingLost ==
    page = "open" =>
        1..happened = ToSet(queue) \cup UnderWay \cup ToSet(stored) \cup dropped

(* The page holds an event once, in its queue or in one request, so it is  *)
(* stored twice only when a request failed that had stored it, or that     *)
(* stored it after the page had given it up.                               *)
StoredTwiceOnlyAfterFailure ==
    \A i, j \in DOMAIN stored :
        (i # j /\ stored[i] = stored[j]) => stored[i] \in repeated

(* As long as no two requests were under way together, be it that the page *)
(* had given one up, events reach the table in the order in which they     *)
(* happened, repetitions apart.                                            *)
OrderKept ==
    ~overlapped =>
        \A i, j \in DOMAIN stored :
            i < j => \/ stored[i] < stored[j]
                     \/ \E k \in 1..i : stored[k] = stored[j]

(* An event that waits is stored in the end, if the page stays open, the   *)
(* user signed in and no event is one the database refuses.                *)
Hopeless == page = "left" \/ token # "valid" \/ 1..happened \cap Poison # {}
Delivered ==
    \A e \in Event :
        (e \in ToSet(queue)) ~> (e \in ToSet(stored) \/ Hopeless)
=============================================================================

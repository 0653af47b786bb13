---------------------------- MODULE TrackerProofs ----------------------------
(***************************************************************************)
(* At-least-once delivery of the tracker, for any number of events and     *)
(* failures and any set of events the database refuses: nothing is lost    *)
(* while the page is open, and an event is stored twice only when a        *)
(* request failed after it had stored it.                                  *)
(***************************************************************************)
EXTENDS Tracker, SequenceTheorems, TLAPS

-----------------------------------------------------------------------------
(* Sequences without repetition.                                           *)

(* The set of a sequence consists of its elements.                         *)
LEMMA SetOfSeq ==
    ASSUME NEW S, NEW s \in Seq(S)
    PROVE  /\ ToSet(s) \subseteq S
           /\ \A e : e \in ToSet(s) <=> \E i \in 1..Len(s) : s[i] = e
<1>1. DOMAIN s = 1..Len(s) /\ \A i \in 1..Len(s) : s[i] \in S
  BY LenProperties, ElementOfSeq
<1> QED BY <1>1 DEF ToSet

(* A concatenation consists of the elements of both sequences, and has no  *)
(* repetition when neither has and they share nothing.                     *)
LEMMA SetOfConcat ==
    ASSUME NEW S, NEW s \in Seq(S), NEW t \in Seq(S)
    PROVE  /\ s \o t \in Seq(S)
           /\ ToSet(s \o t) = ToSet(s) \cup ToSet(t)
           /\ (IsInjective(s) /\ IsInjective(t) /\ ToSet(s) \cap ToSet(t) = {})
                 => IsInjective(s \o t)
<1> DEFINE st == s \o t
<1>1. /\ st \in Seq(S) /\ Len(st) = Len(s) + Len(t)
      /\ \A i \in 1..Len(s) + Len(t) :
            st[i] = IF i <= Len(s) THEN s[i] ELSE t[i - Len(s)]
  BY ConcatProperties
<1>2. Len(s) \in Nat /\ Len(t) \in Nat
  BY LenProperties
<1>3. /\ \A i \in 1..Len(s) : i \in 1..Len(st) /\ st[i] = s[i]
      /\ \A i \in 1..Len(t) : Len(s) + i \in 1..Len(st) /\ st[Len(s) + i] = t[i]
  BY <1>1, <1>2, Z3
<1>4. \A i \in 1..Len(st) :
         \/ i \in 1..Len(s) /\ st[i] = s[i]
         \/ i - Len(s) \in 1..Len(t) /\ st[i] = t[i - Len(s)]
  BY <1>1, <1>2, Z3
<1> HIDE DEF st
<1>5. ToSet(st) = ToSet(s) \cup ToSet(t)
  <2>1. ToSet(st) \subseteq ToSet(s) \cup ToSet(t)
    BY <1>1, <1>4, SetOfSeq
  <2>2. ToSet(s) \subseteq ToSet(st)
    BY <1>1, <1>3, SetOfSeq
  <2>3. ASSUME NEW e \in ToSet(t) PROVE e \in ToSet(st)
    <3>1. PICK i \in 1..Len(t) : t[i] = e
      BY SetOfSeq
    <3>2. Len(s) + i \in 1..Len(st) /\ st[Len(s) + i] = e
      BY <1>3, <3>1
    <3> QED BY <1>1, <3>2, SetOfSeq
  <2> QED BY <2>1, <2>2, <2>3
<1>6. ASSUME IsInjective(s), IsInjective(t), ToSet(s) \cap ToSet(t) = {}
      PROVE  IsInjective(st)
  <2>1. DOMAIN s = 1..Len(s) /\ DOMAIN t = 1..Len(t) /\ DOMAIN st = 1..Len(st)
    BY <1>1, LenProperties
  <2> SUFFICES ASSUME NEW i \in 1..Len(st), NEW j \in 1..Len(st), st[i] = st[j]
               PROVE  i = j
    BY <2>1 DEF IsInjective
  <2>2. \A k \in 1..Len(s), l \in 1..Len(t) : s[k] # t[l]
    BY <1>6, SetOfSeq
  <2>3. i \in Int /\ j \in Int
    BY <1>1, <1>2
  <2>4. CASE i \in 1..Len(s) /\ j \in 1..Len(s) /\ st[i] = s[i] /\ st[j] = s[j]
    BY <2>4, <1>6, <2>1 DEF IsInjective
  <2>5. CASE /\ i - Len(s) \in 1..Len(t) /\ j - Len(s) \in 1..Len(t)
             /\ st[i] = t[i - Len(s)] /\ st[j] = t[j - Len(s)]
    <3>1. i - Len(s) = j - Len(s)
      BY <2>5, <1>6, <2>1 DEF IsInjective
    <3> QED BY <3>1, <2>3, <1>2
  <2> QED BY <1>4, <2>2, <2>4, <2>5
<1> QED BY <1>1, <1>5, <1>6 DEF st

(* An appended element that is new leaves a sequence without repetition.   *)
LEMMA SetOfAppend ==
    ASSUME NEW S, NEW s \in Seq(S), NEW e \in S
    PROVE  /\ Append(s, e) \in Seq(S)
           /\ ToSet(Append(s, e)) = ToSet(s) \cup {e}
           /\ (IsInjective(s) /\ e \notin ToSet(s)) => IsInjective(Append(s, e))
<1> DEFINE t == <<e>>
<1>1. t \in Seq(S) /\ Append(s, e) = s \o t
  BY AppendIsConcat
<1>2. ToSet(t) = {e} /\ IsInjective(t)
  BY DEF ToSet, IsInjective
<1> HIDE DEF t
<1>3. ToSet(s) \cap ToSet(t) = {} <=> e \notin ToSet(s)
  BY <1>2
<1> QED BY <1>1, <1>2, <1>3, SetOfConcat

(* The empty sequence.                                                     *)
LEMMA SetOfEmpty ==
    ToSet(<<>>) = {} /\ IsInjective(<<>>) /\ <<>> \in Seq(Event)
BY EmptySeq DEF ToSet, IsInjective
-----------------------------------------------------------------------------
(* Types.                                                                  *)

(* What a flush makes of well-typed events is well typed.                  *)
LEMMA SendTypes ==
    ASSUME TypeOK, NEW events \in Seq(Event), Send(events)
    PROVE  /\ queue' = <<>> /\ requests' \subseteq RequestType
           /\ dropped' \subseteq Event /\ overlapped' \in BOOLEAN
           /\ UNCHANGED <<token, adrift, stored, failures, repeated>>
<1>1. ToSet(events) \subseteq Event
  BY SetOfSeq
<1>2. [events |-> events, at |-> "sent", signedIn |-> token = "valid"] \in RequestType
  BY DEF RequestType
<1>3. CASE token = "none"
  BY <1>1, <1>3 DEF Send, TypeOK
<1>4. CASE token # "none"
  BY <1>2, <1>4 DEF Send, TypeOK
<1> QED BY <1>3, <1>4

(* What a failed request puts back is well typed.                          *)
LEMMA RequeueTypes ==
    ASSUME TypeOK, NEW r \in requests, Requeue(r)
    PROVE  /\ queue' \in Seq(Event) /\ requests' \subseteq RequestType
           /\ page = "left" => queue' = <<>>
           /\ UNCHANGED <<page, token, happened, dropped, overlapped>>
<1>1. r.events \in Seq(Event) /\ queue \in Seq(Event)
  BY DEF TypeOK, RequestType
<1>2. r.events \o queue \in Seq(Event)
  BY <1>1, SetOfConcat
<1> QED BY <1>1, <1>2 DEF Requeue, TypeOK

(* The next event is one of the numbered ones.                             *)
LEMMA NextEvent ==
    ASSUME TypeOK, happened < MaxEvents
    PROVE  /\ happened \in Nat /\ happened + 1 \in Event
           /\ 1..happened \subseteq Event
           /\ happened + 1 \notin 1..happened
           /\ 1..(happened + 1) = (1..happened) \cup {happened + 1}
           /\ happened + 1 \in 0..MaxEvents
<1>1. happened \in 0..MaxEvents /\ MaxEvents \in Nat
  BY TrackerAssumption DEF TypeOK
<1> QED BY <1>1 DEF Event

(* No step leaves the types.                                               *)
LEMMA NextTypes == TypeOK /\ [Next]_vars => TypeOK'
<1> SUFFICES ASSUME TypeOK, [Next]_vars PROVE TypeOK'
  OBVIOUS
<1>1. CASE QueueEvent
  <2>1. Append(queue, happened + 1) \in Seq(Event) /\ happened + 1 \in 0..MaxEvents
    BY <1>1, NextEvent, SetOfAppend DEF QueueEvent, TypeOK
  <2> QED BY <1>1, <2>1 DEF QueueEvent, TypeOK, history
<1>2. CASE QueueUrgent \/ Leave
  <2>1. Append(queue, happened + 1) \in Seq(Event) /\ happened + 1 \in 0..MaxEvents
    BY <1>2, NextEvent, SetOfAppend DEF QueueUrgent, Leave, TypeOK
  <2>2. /\ queue' = <<>> /\ requests' \subseteq RequestType
        /\ dropped' \subseteq Event /\ overlapped' \in BOOLEAN
        /\ UNCHANGED <<token, adrift, stored, failures, repeated>>
    BY <1>2, <2>1, SendTypes DEF QueueUrgent, Leave
  <2>3. page' \in {"open", "left"} /\ happened' \in 0..MaxEvents
    BY <1>2, <2>1 DEF QueueUrgent, Leave, TypeOK
  <2> QED BY <2>2, <2>3, SetOfEmpty DEF TypeOK
<1>3. CASE Flush
  <2>1. queue \in Seq(Event)
    BY DEF TypeOK
  <2>2. /\ queue' = <<>> /\ requests' \subseteq RequestType
        /\ dropped' \subseteq Event /\ overlapped' \in BOOLEAN
        /\ UNCHANGED <<token, adrift, stored, failures, repeated>>
    BY <1>3, <2>1, SendTypes DEF Flush
  <2>3. UNCHANGED <<page, happened>>
    BY <1>3 DEF Flush
  <2> QED BY <2>2, <2>3, SetOfEmpty DEF TypeOK
<1>4. CASE ChangeToken
  BY <1>4 DEF ChangeToken, TypeOK, history
<1>5. ASSUME NEW r \in requests, Commit(r) PROVE TypeOK'
  <2>1. r.events \in Seq(Event) /\ [r EXCEPT !.at = "stored"] \in RequestType
    BY DEF TypeOK, RequestType
  <2>2. stored \o r.events \in Seq(Event)
    BY <2>1, SetOfConcat DEF TypeOK
  <2> QED BY <1>5, <2>1, <2>2 DEF Commit, TypeOK, browser, history
<1>6. ASSUME NEW r \in requests, Answer(r) PROVE TypeOK'
  BY <1>6 DEF Answer, TypeOK, browser, history
<1>7. ASSUME NEW r \in requests, Refuse(r) PROVE TypeOK'
  BY <1>7, RequeueTypes DEF Refuse, TypeOK
<1>8. ASSUME NEW r \in requests, Break(r) PROVE TypeOK'
  <2>1. ToSet(r.events) \subseteq Event
    <3>1. r.events \in Seq(Event)
      BY DEF TypeOK, RequestType
    <3> QED BY <3>1, SetOfSeq
  <2>2. failures' \in 0..MaxFailures /\ repeated' \subseteq Event
    BY <1>8, <2>1, TrackerAssumption DEF Break, TypeOK
  <2> QED BY <1>8, <2>2, RequeueTypes DEF Break, TypeOK
<1>9. ASSUME NEW r \in requests, Drift(r) PROVE TypeOK'
  <2>1. r.events \in Seq(Event)
    BY DEF TypeOK, RequestType
  <2>2. repeated' \subseteq Event
    BY <1>9, <2>1, SetOfSeq DEF Drift, TypeOK
  <2>3. failures' \in 0..MaxFailures /\ adrift' \in [1..MaxFailures -> Seq(Event)]
    BY <1>9, <2>1, TrackerAssumption DEF Drift, TypeOK
  <2> QED BY <1>9, <2>2, <2>3, RequeueTypes DEF Drift, TypeOK
<1>10. ASSUME NEW n \in 1..MaxFailures, Arrive(n) PROVE TypeOK'
  <2>1. stored' \in Seq(Event) /\ adrift' \in [1..MaxFailures -> Seq(Event)]
    BY <1>10, SetOfConcat, SetOfEmpty DEF Arrive, TypeOK
  <2> QED BY <1>10, <2>1 DEF Arrive, TypeOK, browser, history
<1>11. CASE UNCHANGED vars
  BY <1>11 DEF vars, browser, history, TypeOK
<1> QED BY <1>1, <1>2, <1>3, <1>4, <1>5, <1>6, <1>7, <1>8, <1>9, <1>10, <1>11 DEF Next

(* Every reachable state is well typed; a page that was left holds no      *)
(* events.                                                                 *)
THEOREM TrackerTypes == Spec => []TypeOK
<1>1. Init => TypeOK
  <2> SUFFICES ASSUME Init PROVE TypeOK
    OBVIOUS
  <2>1. 0 \in 0..MaxEvents /\ 0 \in 0..MaxFailures
    BY TrackerAssumption
  <2> QED BY <2>1, SetOfEmpty DEF Init, TypeOK
<1> QED BY <1>1, NextTypes, PTL DEF Spec
-----------------------------------------------------------------------------
(* Nothing is lost.                                                        *)

(* What a request has committed is in the table.                           *)
Committed ==
    \A r \in requests : r.at = "stored" => ToSet(r.events) \subseteq ToSet(stored)

(* The table only grows.                                                   *)
LEMMA CommitStores ==
    ASSUME TypeOK, NEW r \in requests, Commit(r)
    PROVE  /\ ToSet(stored') = ToSet(stored) \cup ToSet(r.events)
           /\ r.events \in Seq(Event) /\ stored \in Seq(Event)
           /\ [r EXCEPT !.at = "stored"].events = r.events
           /\ [r EXCEPT !.at = "stored"].at = "stored"
<1>1. r.events \in Seq(Event) /\ stored \in Seq(Event)
  BY DEF TypeOK, RequestType
<1>2. stored' = stored \o r.events
  BY DEF Commit
<1>3. r \in RequestType
  BY DEF TypeOK
<1> QED BY <1>1, <1>2, <1>3, SetOfConcat DEF RequestType

(* A request that was given up adds its events when it arrives.            *)
LEMMA ArriveStores ==
    ASSUME TypeOK, NEW n \in 1..MaxFailures, Arrive(n)
    PROVE  /\ ToSet(stored') = ToSet(stored) \cup ToSet(adrift[n])
           /\ adrift[n] \in Seq(Event) /\ stored \in Seq(Event)
           /\ stored' = stored \o adrift[n]
<1>1. adrift[n] \in Seq(Event) /\ stored \in Seq(Event)
  BY DEF TypeOK
<1>2. stored' = stored \o adrift[n]
  BY DEF Arrive
<1> QED BY <1>1, <1>2, SetOfConcat

(* No step takes a committed request's events out of the table.            *)
LEMMA NextCommitted == TypeOK /\ Committed /\ [Next]_vars => Committed'
<1> SUFFICES ASSUME TypeOK, Committed, [Next]_vars PROVE Committed'
  OBVIOUS
<1>1. CASE QueueEvent \/ ChangeToken \/ UNCHANGED vars
  BY <1>1 DEF QueueEvent, ChangeToken, vars, history, browser, Committed
<1>2. ASSUME NEW events, Send(events) PROVE Committed'
  BY <1>2 DEF Send, Committed
<1>3. ASSUME NEW r \in requests, Requeue(r), UNCHANGED stored PROVE Committed'
  BY <1>3 DEF Requeue, Committed
<1>4. ASSUME NEW r \in requests, Commit(r) PROVE Committed'
  <2> DEFINE t == [r EXCEPT !.at = "stored"]
  <2>1. requests' = (requests \ {r}) \cup {t}
    BY <1>4 DEF Commit
  <2>2. t.events = r.events /\ ToSet(stored') = ToSet(stored) \cup ToSet(r.events)
    BY <1>4, CommitStores
  <2> HIDE DEF t
  <2> QED BY <2>1, <2>2 DEF Committed
<1>5. ASSUME NEW r \in requests, Answer(r) PROVE Committed'
  BY <1>5 DEF Answer, Committed, history
<1>6. ASSUME NEW n \in 1..MaxFailures, Arrive(n) PROVE Committed'
  <2>1. requests' = requests /\ ToSet(stored) \subseteq ToSet(stored')
    BY <1>6, ArriveStores DEF Arrive
  <2> QED BY <2>1 DEF Committed
<1> QED BY <1>1, <1>2, <1>3, <1>4, <1>5, <1>6
        DEF Next, QueueUrgent, Flush, Leave, Refuse, Break, Drift

(* What is sent is under way, or thrown away.                              *)
LEMMA SendKeeps ==
    ASSUME NEW events, Send(events)
    PROVE  /\ UnderWay' \cup dropped' = ToSet(events) \cup UnderWay \cup dropped
           /\ queue' = <<>> /\ stored' = stored
<1>1. CASE token = "none"
  BY <1>1 DEF Send, UnderWay
<1>2. CASE token # "none"
  <2> DEFINE r == [events |-> events, at |-> "sent", signedIn |-> token = "valid"]
  <2>1. r.events = events /\ requests' = requests \cup {r} /\ dropped' = dropped
    BY <1>2 DEF Send
  <2> HIDE DEF r
  <2>2. UnderWay' = UnderWay \cup ToSet(events)
    BY <2>1 DEF UnderWay
  <2> QED BY <1>2, <2>1, <2>2 DEF Send
<1> QED BY <1>1, <1>2

(* What a failed request had under way waits again.                        *)
LEMMA RequeueKeeps ==
    ASSUME TypeOK, page = "open", NEW r \in requests, Requeue(r)
    PROVE  ToSet(queue') \cup UnderWay' = ToSet(queue) \cup UnderWay
<1>1. r.events \in Seq(Event) /\ queue \in Seq(Event)
  BY DEF TypeOK, RequestType
<1>2. queue' = r.events \o queue /\ requests' = requests \ {r}
  BY DEF Requeue
<1>3. ToSet(queue') = ToSet(r.events) \cup ToSet(queue)
  BY <1>1, <1>2, SetOfConcat
<1>4. UnderWay = UnderWay' \cup ToSet(r.events)
  BY <1>2 DEF UnderWay
<1> QED BY <1>3, <1>4

(* What is adrift has happened on this page.                               *)
AdriftHappened ==
    page = "open" => \A n \in 1..MaxFailures : ToSet(adrift[n]) \subseteq 1..happened

(* Only what was under way goes adrift.                                    *)
LEMMA NextAdrift ==
    TypeOK /\ NothingLost /\ AdriftHappened /\ [Next]_vars => AdriftHappened'
<1> SUFFICES ASSUME TypeOK, NothingLost, AdriftHappened, [Next]_vars, page' = "open",
                    NEW n \in 1..MaxFailures
             PROVE  ToSet(adrift'[n]) \subseteq 1..happened'
  BY DEF AdriftHappened
<1>1. page = "open" /\ 1..happened \subseteq 1..happened'
  <2>1. CASE QueueEvent \/ QueueUrgent \/ Leave
    <3>1. happened < MaxEvents /\ happened' = happened + 1 /\ page = "open"
      BY <2>1 DEF QueueEvent, QueueUrgent, Leave
    <3> QED BY <3>1, NextEvent
  <2>2. CASE ~(QueueEvent \/ QueueUrgent \/ Leave)
    BY <2>2 DEF Next, Flush, ChangeToken, Commit, Answer, Refuse, Break, Drift,
                Arrive, Requeue, browser, vars
  <2> QED BY <2>1, <2>2
<1>2. ToSet(adrift[n]) \subseteq 1..happened
  BY <1>1 DEF AdriftHappened
<1>3. CASE adrift' = adrift
  BY <1>1, <1>2, <1>3
<1>4. ASSUME NEW r \in requests, Drift(r) PROVE ToSet(adrift'[n]) \subseteq 1..happened'
  <2>1. adrift'[n] \in {adrift[n], r.events}
    BY <1>4 DEF Drift, TypeOK
  <2>2. ToSet(r.events) \subseteq 1..happened
    BY <1>1 DEF NothingLost, UnderWay
  <2> QED BY <1>1, <1>2, <2>1, <2>2
<1>5. ASSUME NEW m \in 1..MaxFailures, Arrive(m)
      PROVE  ToSet(adrift'[n]) \subseteq 1..happened'
  <2>1. adrift'[n] \in {adrift[n], <<>>}
    BY <1>5 DEF Arrive, TypeOK
  <2> QED BY <1>1, <1>2, <2>1, SetOfEmpty
<1> QED BY <1>3, <1>4, <1>5
        DEF Next, QueueEvent, QueueUrgent, Flush, Leave, Send, ChangeToken, Commit,
            Answer, Refuse, Break, vars

(* No step of the page or of a request loses an event while the page is    *)
(* open.                                                                   *)
LEMMA NextKeeps ==
    TypeOK /\ Committed /\ AdriftHappened /\ NothingLost /\ [Next]_vars => NothingLost'
<1> SUFFICES ASSUME TypeOK, Committed, AdriftHappened, NothingLost, [Next]_vars,
                    page' = "open"
             PROVE  1..happened' = ToSet(queue') \cup UnderWay' \cup ToSet(stored') \cup dropped'
  BY DEF NothingLost
<1>1. page = "open"
  <2>1. CASE Next
    BY <2>1 DEF Next, QueueEvent, QueueUrgent, Flush, Leave, ChangeToken, Commit,
                Answer, Refuse, Break, Drift, Arrive, Requeue, browser
  <2> QED BY <2>1 DEF vars, browser
<1>2. 1..happened = ToSet(queue) \cup UnderWay \cup ToSet(stored) \cup dropped
  BY <1>1 DEF NothingLost
<1>3. queue \in Seq(Event)
  BY DEF TypeOK
<1>4. CASE QueueEvent
  <2>1. ToSet(queue') = ToSet(queue) \cup {happened + 1}
    BY <1>3, <1>4, NextEvent, SetOfAppend DEF QueueEvent
  <2> QED BY <1>2, <1>4, <2>1, NextEvent DEF QueueEvent, UnderWay, history
<1>5. CASE QueueUrgent \/ Leave
  <2>1. ToSet(Append(queue, happened + 1)) = ToSet(queue) \cup {happened + 1}
    BY <1>3, <1>5, NextEvent, SetOfAppend DEF QueueUrgent, Leave
  <2>2. /\ UnderWay' \cup dropped'
              = ToSet(queue) \cup {happened + 1} \cup UnderWay \cup dropped
        /\ queue' = <<>> /\ stored' = stored
    BY <1>5, <2>1, SendKeeps DEF QueueUrgent, Leave
  <2>3. 1..happened' = (1..happened) \cup {happened + 1}
    BY <1>5, NextEvent DEF QueueUrgent, Leave
  <2> QED BY <1>2, <2>2, <2>3, SetOfEmpty
<1>6. CASE Flush
  <2>1. /\ UnderWay' \cup dropped' = ToSet(queue) \cup UnderWay \cup dropped
        /\ queue' = <<>> /\ stored' = stored /\ happened' = happened
    BY <1>6, SendKeeps DEF Flush
  <2> QED BY <1>2, <2>1, SetOfEmpty
<1>7. CASE ChangeToken
  BY <1>2, <1>7 DEF ChangeToken, UnderWay, history
<1>8. ASSUME NEW r \in requests, Commit(r)
      PROVE  1..happened' = ToSet(queue') \cup UnderWay' \cup ToSet(stored') \cup dropped'
  <2> DEFINE t == [r EXCEPT !.at = "stored"]
  <2>1. requests' = (requests \ {r}) \cup {t}
    BY <1>8 DEF Commit
  <2>2. t.events = r.events /\ ToSet(stored') = ToSet(stored) \cup ToSet(r.events)
    BY <1>8, CommitStores
  <2> HIDE DEF t
  <2>3. UnderWay' = UnderWay /\ ToSet(r.events) \subseteq UnderWay
    BY <2>1, <2>2 DEF UnderWay
  <2> QED BY <1>2, <1>8, <2>2, <2>3 DEF Commit, browser, history
<1>9. ASSUME NEW r \in requests, Answer(r)
      PROVE  1..happened' = ToSet(queue') \cup UnderWay' \cup ToSet(stored') \cup dropped'
  <2>1. UnderWay = UnderWay' \cup ToSet(r.events)
    BY <1>9 DEF Answer, UnderWay
  <2>2. ToSet(r.events) \subseteq ToSet(stored)
    BY <1>9 DEF Answer, Committed
  <2> QED BY <1>2, <1>9, <2>1, <2>2 DEF Answer, browser, history
<1>10. ASSUME NEW r \in requests, Refuse(r) \/ Break(r) \/ Drift(r)
       PROVE  1..happened' = ToSet(queue') \cup UnderWay' \cup ToSet(stored') \cup dropped'
  <2>1. /\ ToSet(queue') \cup UnderWay' = ToSet(queue) \cup UnderWay
        /\ stored' = stored /\ happened' = happened /\ dropped' = dropped
    BY <1>1, <1>10, RequeueKeeps DEF Refuse, Break, Drift, Requeue
  <2> QED BY <1>2, <2>1
<1>11. CASE UNCHANGED vars
  BY <1>2, <1>11 DEF vars, browser, history, UnderWay
<1>12. ASSUME NEW n \in 1..MaxFailures, Arrive(n)
       PROVE  1..happened' = ToSet(queue') \cup UnderWay' \cup ToSet(stored') \cup dropped'
  <2>1. /\ ToSet(stored') = ToSet(stored) \cup ToSet(adrift[n])
        /\ UNCHANGED <<browser, requests, dropped>>
    BY <1>12, ArriveStores DEF Arrive, history
  <2>2. UnderWay' = UnderWay /\ queue' = queue /\ happened' = happened
    BY <2>1 DEF UnderWay, browser
  <2>3. ToSet(adrift[n]) \subseteq 1..happened
    BY <1>1 DEF AdriftHappened
  <2> QED BY <1>2, <2>1, <2>2, <2>3
<1> QED BY <1>4, <1>5, <1>6, <1>7, <1>8, <1>9, <1>10, <1>11, <1>12 DEF Next

(* While the page is open every event that happened waits, is under way or *)
(* is stored, unless it was thrown away because nobody was signed in.      *)
THEOREM NothingIsLost == Spec => []NothingLost
<1>1. Init => Committed
  BY DEF Init, Committed
<1>2. Init => NothingLost
  <2> SUFFICES ASSUME Init PROVE 1..happened = {}
    BY SetOfEmpty DEF Init, NothingLost, UnderWay
  <2> QED BY DEF Init
<1>3. Init => AdriftHappened
  BY SetOfEmpty DEF Init, AdriftHappened
<1>4. TypeOK /\ (Committed /\ AdriftHappened /\ NothingLost) /\ [Next]_vars
        => (Committed /\ AdriftHappened /\ NothingLost)'
  BY NextCommitted, NextAdrift, NextKeeps
<1> QED BY <1>1, <1>2, <1>3, <1>4, TrackerTypes, PTL DEF Spec
-----------------------------------------------------------------------------
(* Repetitions.                                                            *)

(* An event is held once: in the queue or in one request.                  *)
HeldOnce ==
    /\ IsInjective(queue)
    /\ \A r \in requests :
          IsInjective(r.events) /\ ToSet(r.events) \cap ToSet(queue) = {}
    /\ \A r, s \in requests : r # s => ToSet(r.events) \cap ToSet(s.events) = {}

(* Nothing is held or stored that has not happened.                        *)
Heard ==
    /\ ToSet(queue) \cup UnderWay \cup ToSet(stored) \subseteq 1..happened
    /\ \A n \in 1..MaxFailures : ToSet(adrift[n]) \subseteq 1..happened

(* What is still to be stored and is stored already was stored by a        *)
(* request that failed; what is adrift counts as repeated already.         *)
Waiting ==
    /\ \A n \in 1..MaxFailures : ToSet(adrift[n]) \subseteq repeated
    /\ ToSet(queue) \cap ToSet(stored) \subseteq repeated
    /\ \A r \in requests :
          r.at = "sent" => ToSet(r.events) \cap ToSet(stored) \subseteq repeated

RepeatInv == HeldOnce /\ Heard /\ Waiting /\ StoredTwiceOnlyAfterFailure

(* The record that Send makes, for the proofs to name it.                  *)
Sent(events) == [events |-> events, at |-> "sent", signedIn |-> token = "valid"]

(* Events that are held nowhere else and wait rightly may be sent.         *)
LEMMA SendOnce ==
    ASSUME TypeOK, RepeatInv, NEW events \in Seq(Event), Send(events),
           IsInjective(events),
           \A r \in requests : ToSet(r.events) \cap ToSet(events) = {},
           ToSet(events) \cap ToSet(stored) \subseteq repeated,
           happened' \in Nat, happened' >= happened,
           ToSet(events) \subseteq 1..happened'
    PROVE  RepeatInv'
<1>1. /\ requests' \subseteq requests \cup {Sent(events)}
      /\ queue' = <<>> /\ stored' = stored /\ repeated' = repeated
      /\ adrift' = adrift
  BY DEF Send, Sent
<1>2. Sent(events).events = events
  BY DEF Sent
<1>3. HeldOnce'
  BY <1>1, <1>2, SetOfEmpty DEF RepeatInv, HeldOnce
<1>4. Heard'
  <2>1. UnderWay' \subseteq UnderWay \cup ToSet(events)
    BY <1>1, <1>2 DEF UnderWay
  <2>2. 1..happened \subseteq 1..happened'
    BY DEF TypeOK
  <2> QED BY <1>1, <2>1, <2>2, SetOfEmpty DEF RepeatInv, Heard
<1>5. Waiting'
  BY <1>1, <1>2, SetOfEmpty DEF RepeatInv, Waiting
<1>6. StoredTwiceOnlyAfterFailure'
  BY <1>1 DEF RepeatInv, StoredTwiceOnlyAfterFailure
<1> QED BY <1>3, <1>4, <1>5, <1>6 DEF RepeatInv

(* Events that a request gives up may wait in front of the others.         *)
LEMMA RequeueOnce ==
    ASSUME TypeOK, RepeatInv, NEW r \in requests, Requeue(r), stored' = stored,
           repeated \subseteq repeated',
           \A n \in 1..MaxFailures :
              \/ adrift'[n] = adrift[n]
              \/ adrift'[n] = r.events /\ ToSet(r.events) \subseteq repeated',
           ToSet(r.events) \cap ToSet(stored) \subseteq repeated'
    PROVE  RepeatInv'
<1>1. requests' = requests \ {r} /\ happened' = happened
  BY DEF Requeue
<1>2. r.events \in Seq(Event) /\ queue \in Seq(Event)
  BY DEF TypeOK, RequestType
<1>3. /\ IsInjective(queue')
      /\ ToSet(queue') \subseteq ToSet(r.events) \cup ToSet(queue)
  BY <1>2, SetOfConcat DEF Requeue, RepeatInv, HeldOnce
<1>4. HeldOnce'
  BY <1>1, <1>3 DEF RepeatInv, HeldOnce
<1>5. Heard'
  BY <1>1, <1>3 DEF RepeatInv, Heard, UnderWay
<1>6. Waiting'
  BY <1>1, <1>3 DEF RepeatInv, Waiting
<1>7. StoredTwiceOnlyAfterFailure'
  BY DEF RepeatInv, StoredTwiceOnlyAfterFailure
<1> QED BY <1>4, <1>5, <1>6, <1>7 DEF RepeatInv

(* The table with one more batch.                                          *)
LEMMA StoredAgain ==
    ASSUME NEW S, NEW s \in Seq(S), NEW t \in Seq(S), NEW again,
           IsInjective(t) \/ ToSet(t) \subseteq again,
           ToSet(t) \cap ToSet(s) \subseteq again,
           \A i, j \in DOMAIN s : (i # j /\ s[i] = s[j]) => s[i] \in again
    PROVE  \A i, j \in DOMAIN (s \o t) :
              (i # j /\ (s \o t)[i] = (s \o t)[j]) => (s \o t)[i] \in again
<1> DEFINE st == s \o t
           m == Len(s)
           n == Len(t)
<1>1. /\ m \in Nat /\ n \in Nat
      /\ DOMAIN s = 1..m /\ DOMAIN t = 1..n
      /\ st \in Seq(S) /\ Len(st) = m + n
      /\ \A i \in 1..m + n : st[i] = IF i <= m THEN s[i] ELSE t[i - m]
  BY ConcatProperties, LenProperties
<1>2. DOMAIN st = 1..m + n
  BY <1>1, LenProperties
<1> HIDE DEF m, n, st
<1>3. \A i \in 1..m + n :
         \/ i \in 1..m /\ st[i] = s[i]
         \/ i - m \in 1..n /\ st[i] = t[i - m]
  BY <1>1, Z3
<1>4. \A i \in 1..m : s[i] \in ToSet(s)
  BY <1>1 DEF ToSet
<1>5. \A i \in 1..n : t[i] \in ToSet(t)
  BY <1>1 DEF ToSet
<1>6. ASSUME NEW i \in 1..m + n, NEW j \in 1..m + n, i # j, st[i] = st[j]
      PROVE  st[i] \in again
  <2>1. CASE /\ i \in 1..m /\ st[i] = s[i]
             /\ j \in 1..m /\ st[j] = s[j]
    BY <1>1, <1>6, <2>1
  <2>2. CASE /\ i - m \in 1..n /\ st[i] = t[i - m]
             /\ j - m \in 1..n /\ st[j] = t[j - m]
    <3>1. CASE IsInjective(t)
      <4>1. i - m = j - m
        BY <1>1, <1>6, <2>2, <3>1 DEF IsInjective
      <4>2. i \in Int /\ j \in Int
        BY <1>1
      <4> QED BY <1>1, <1>6, <4>1, <4>2
    <3> QED BY <1>5, <2>2, <3>1
  <2> QED BY <1>3, <1>4, <1>5, <1>6, <2>1, <2>2
<1> QED BY <1>2, <1>6 DEF st

(* A request that was given up and arrives repeats its events.             *)
LEMMA ArriveOnce ==
    ASSUME TypeOK, RepeatInv, NEW n \in 1..MaxFailures, Arrive(n)
    PROVE  RepeatInv'
<1>1. /\ ToSet(stored') = ToSet(stored) \cup ToSet(adrift[n])
      /\ adrift[n] \in Seq(Event) /\ stored \in Seq(Event)
      /\ stored' = stored \o adrift[n]
  BY ArriveStores
<1>2. /\ UNCHANGED <<queue, happened, requests, repeated>>
      /\ \A m \in 1..MaxFailures : adrift'[m] \in {adrift[m], <<>>}
  BY DEF Arrive, browser, history, TypeOK
<1>3. ToSet(adrift[n]) \subseteq repeated /\ ToSet(adrift[n]) \subseteq 1..happened
  BY DEF RepeatInv, Waiting, Heard
<1>4. HeldOnce'
  BY <1>2 DEF RepeatInv, HeldOnce
<1>5. Heard'
  BY <1>1, <1>2, <1>3, SetOfEmpty DEF RepeatInv, Heard, UnderWay
<1>6. Waiting'
  BY <1>1, <1>2, <1>3, SetOfEmpty DEF RepeatInv, Waiting
<1>7. StoredTwiceOnlyAfterFailure'
  <2>1. \A i, j \in DOMAIN stored : (i # j /\ stored[i] = stored[j]) => stored[i] \in repeated
    BY DEF RepeatInv, StoredTwiceOnlyAfterFailure
  <2> DEFINE st == stored \o adrift[n]
  <2>2. \A i, j \in DOMAIN st : (i # j /\ st[i] = st[j]) => st[i] \in repeated
    <3>1. ToSet(adrift[n]) \cap ToSet(stored) \subseteq repeated
      BY <1>3
    <3> QED BY <1>1, <1>3, <2>1, <3>1, StoredAgain
  <2> QED BY <1>1, <1>2, <2>2 DEF StoredTwiceOnlyAfterFailure
<1> QED BY <1>4, <1>5, <1>6, <1>7 DEF RepeatInv

(* A commit repeats only events that wait rightly.                         *)
LEMMA CommitOnce ==
    ASSUME TypeOK, RepeatInv, NEW r \in requests, Commit(r)
    PROVE  RepeatInv'
<1> DEFINE t == [r EXCEPT !.at = "stored"]
<1>1. /\ ToSet(stored') = ToSet(stored) \cup ToSet(r.events)
      /\ r.events \in Seq(Event) /\ stored \in Seq(Event)
      /\ t.events = r.events /\ t.at = "stored"
  BY CommitStores
<1>2. /\ r.at = "sent" /\ stored' = stored \o r.events
      /\ requests' = (requests \ {r}) \cup {t}
      /\ UNCHANGED <<queue, happened, repeated, adrift>>
  BY DEF Commit, browser, history
<1> HIDE DEF t
<1>3. HeldOnce'
  BY <1>1, <1>2 DEF RepeatInv, HeldOnce
<1>4. Heard'
  BY <1>1, <1>2 DEF RepeatInv, Heard, UnderWay
<1>5. Waiting'
  BY <1>1, <1>2 DEF RepeatInv, Waiting, HeldOnce
<1>6. StoredTwiceOnlyAfterFailure'
  <2>1. ToSet(r.events) \cap ToSet(stored) \subseteq repeated /\ IsInjective(r.events)
    BY <1>2 DEF RepeatInv, Waiting, HeldOnce
  <2>2. \A i, j \in DOMAIN stored : (i # j /\ stored[i] = stored[j]) => stored[i] \in repeated
    BY DEF RepeatInv, StoredTwiceOnlyAfterFailure
  <2> DEFINE st == stored \o r.events
  <2>3. \A i, j \in DOMAIN st : (i # j /\ st[i] = st[j]) => st[i] \in repeated
    BY <1>1, <2>1, <2>2, StoredAgain
  <2> QED BY <1>2, <2>3 DEF StoredTwiceOnlyAfterFailure
<1> QED BY <1>3, <1>4, <1>5, <1>6 DEF RepeatInv

(* No step makes the page hold an event twice.                             *)
LEMMA NextOnce == TypeOK /\ RepeatInv /\ [Next]_vars => RepeatInv'
<1> SUFFICES ASSUME TypeOK, RepeatInv, [Next]_vars PROVE RepeatInv'
  OBVIOUS
<1>1. queue \in Seq(Event) /\ happened \in Nat
  BY DEF TypeOK
<1>2. ASSUME happened < MaxEvents
      PROVE  LET events == Append(queue, happened + 1)
             IN  /\ events \in Seq(Event) /\ IsInjective(events)
                 /\ ToSet(events) = ToSet(queue) \cup {happened + 1}
                 /\ \A r \in requests : ToSet(r.events) \cap ToSet(events) = {}
                 /\ ToSet(events) \cap ToSet(stored) \subseteq repeated
                 /\ ToSet(events) \subseteq 1..(happened + 1)
  <2>1. /\ happened + 1 \notin ToSet(queue) /\ happened + 1 \notin ToSet(stored)
        /\ \A r \in requests : happened + 1 \notin ToSet(r.events)
    BY <1>2, NextEvent DEF RepeatInv, Heard, UnderWay
  <2>2. LET events == Append(queue, happened + 1)
        IN  /\ events \in Seq(Event) /\ IsInjective(events)
            /\ ToSet(events) = ToSet(queue) \cup {happened + 1}
    BY <1>1, <1>2, <2>1, NextEvent, SetOfAppend DEF RepeatInv, HeldOnce
  <2>3. ToSet(queue) \cup {happened + 1} \subseteq 1..(happened + 1)
    BY <1>2, NextEvent DEF RepeatInv, Heard
  <2> QED BY <2>1, <2>2, <2>3 DEF RepeatInv, HeldOnce, Waiting
<1>3. CASE QueueEvent
  <2>1. /\ queue' = Append(queue, happened + 1) /\ happened' = happened + 1
        /\ happened < MaxEvents
        /\ UNCHANGED <<requests, adrift, stored, repeated>>
    BY <1>3 DEF QueueEvent, history
  <2>2. HeldOnce'
    BY <1>2, <2>1 DEF RepeatInv, HeldOnce
  <2>3. Heard'
    BY <1>2, <2>1, NextEvent DEF RepeatInv, Heard, UnderWay
  <2>4. Waiting' /\ StoredTwiceOnlyAfterFailure'
    BY <1>2, <2>1 DEF RepeatInv, Waiting, StoredTwiceOnlyAfterFailure
  <2> QED BY <2>2, <2>3, <2>4 DEF RepeatInv
<1>4. CASE QueueUrgent \/ Leave
  <2> DEFINE events == Append(queue, happened + 1)
  <2>1. Send(events) /\ happened' = happened + 1 /\ happened < MaxEvents
    BY <1>4 DEF QueueUrgent, Leave
  <2>2. /\ events \in Seq(Event) /\ IsInjective(events)
        /\ \A r \in requests : ToSet(r.events) \cap ToSet(events) = {}
        /\ ToSet(events) \cap ToSet(stored) \subseteq repeated
        /\ ToSet(events) \subseteq 1..happened'
    BY <1>2, <2>1
  <2> HIDE DEF events
  <2>3. happened' \in Nat /\ happened' >= happened
    BY <1>1, <2>1
  <2> QED BY <2>1, <2>2, <2>3, SendOnce
<1>5. CASE Flush
  <2>1. Send(queue) /\ happened' = happened
    BY <1>5 DEF Flush
  <2>2. /\ IsInjective(queue) /\ ToSet(queue) \subseteq 1..happened
        /\ \A r \in requests : ToSet(r.events) \cap ToSet(queue) = {}
        /\ ToSet(queue) \cap ToSet(stored) \subseteq repeated
    BY DEF RepeatInv, HeldOnce, Heard, Waiting
  <2> QED BY <1>1, <2>1, <2>2, SendOnce
<1>6. CASE ChangeToken \/ UNCHANGED vars
  BY <1>6 DEF ChangeToken, vars, browser, history, RepeatInv, HeldOnce, Heard,
              UnderWay, Waiting, StoredTwiceOnlyAfterFailure
<1>7. ASSUME NEW r \in requests, Commit(r) PROVE RepeatInv'
  BY <1>7, CommitOnce
<1>8. ASSUME NEW r \in requests, Answer(r) PROVE RepeatInv'
  BY <1>8 DEF Answer, browser, history, RepeatInv, HeldOnce, Heard, UnderWay,
              Waiting, StoredTwiceOnlyAfterFailure
<1>9. ASSUME NEW r \in requests, Refuse(r) PROVE RepeatInv'
  BY <1>9, RequeueOnce DEF Refuse, RepeatInv, Waiting
<1>10. ASSUME NEW r \in requests, Break(r) PROVE RepeatInv'
  <2>1. r.at \in {"sent", "stored"}
    BY DEF TypeOK, RequestType
  <2>2. /\ Requeue(r) /\ stored' = stored /\ repeated \subseteq repeated'
        /\ ToSet(r.events) \cap ToSet(stored) \subseteq repeated'
    BY <1>10, <2>1 DEF Break, RepeatInv, Waiting
  <2>3. adrift' = adrift
    BY <1>10 DEF Break
  <2> QED BY <2>2, <2>3, RequeueOnce
<1>11. ASSUME NEW r \in requests, Drift(r) PROVE RepeatInv'
  <2>1. /\ Requeue(r) /\ stored' = stored
        /\ repeated \subseteq repeated' /\ ToSet(r.events) \subseteq repeated'
    BY <1>11 DEF Drift
  <2>2. \A n \in 1..MaxFailures : adrift'[n] \in {adrift[n], r.events}
    BY <1>11 DEF Drift, TypeOK
  <2> QED BY <2>1, <2>2, RequeueOnce
<1>12. ASSUME NEW n \in 1..MaxFailures, Arrive(n) PROVE RepeatInv'
  BY <1>12, ArriveOnce
<1> QED BY <1>3, <1>4, <1>5, <1>6, <1>7, <1>8, <1>9, <1>10, <1>11, <1>12 DEF Next

(* The page holds every event once, in every reachable state.              *)
LEMMA RepeatsInvariant == Spec => []RepeatInv
<1>1. Init => RepeatInv
  <2> SUFFICES ASSUME Init PROVE RepeatInv
    OBVIOUS
  <2>1. HeldOnce /\ Waiting
    BY SetOfEmpty DEF Init, HeldOnce, Waiting
  <2>2. Heard
    BY SetOfEmpty DEF Init, Heard, UnderWay
  <2>3. StoredTwiceOnlyAfterFailure
    BY DEF Init, StoredTwiceOnlyAfterFailure
  <2> QED BY <2>1, <2>2, <2>3 DEF RepeatInv
<1> QED BY <1>1, NextOnce, TrackerTypes, PTL DEF Spec

(* An event is stored twice only when a request failed that had stored it. *)
THEOREM RepeatsExplained == Spec => []StoredTwiceOnlyAfterFailure
<1>1. RepeatInv => StoredTwiceOnlyAfterFailure
  BY DEF RepeatInv
<1> QED BY <1>1, RepeatsInvariant, PTL
-----------------------------------------------------------------------------
(* The order of the table.                                                 *)

(* A sequence of events in the order in which they happened.               *)
Increasing(s) == \A i, j \in DOMAIN s : i < j => s[i] < s[j]

(* What may still reach a table is there already, or younger than all that *)
(* is there.                                                               *)
Fresh(s, table) ==
    \A e \in ToSet(s) : e \in ToSet(table) \/ \A f \in ToSet(table) : f < e

(* One batch at a time is under way or adrift.                             *)
OneBatch ==
    /\ \A r, s \in requests : r = s
    /\ requests # {} => \A n \in 1..MaxFailures : adrift[n] = <<>>
    /\ \A m, n \in 1..MaxFailures : adrift[m] # <<>> /\ adrift[n] # <<>> => m = n

(* It is older than what waits; what is adrift may wait again as well.     *)
InOrder ==
    /\ Increasing(queue) /\ Fresh(queue, stored)
    /\ \A r \in requests :
          /\ Increasing(r.events) /\ Fresh(r.events, stored)
          /\ \A e \in ToSet(r.events), f \in ToSet(queue) : e < f
    /\ \A n \in 1..MaxFailures :
          /\ Increasing(adrift[n]) /\ Fresh(adrift[n], stored)
          /\ \A e \in ToSet(adrift[n]), f \in ToSet(queue) :
                f \in ToSet(adrift[n]) \/ e < f

(* The order of a table, repetitions apart.                                *)
Kept(s) ==
    \A i, j \in DOMAIN s :
        i < j => s[i] < s[j] \/ \E k \in 1..i : s[k] = s[j]

OrderInv == ~overlapped => OneBatch /\ InOrder /\ Kept(stored)

(* Where the elements of a concatenation come from.                        *)
LEMMA ConcatSplit ==
    ASSUME NEW S, NEW s \in Seq(S), NEW t \in Seq(S)
    PROVE  /\ Len(s) \in Nat /\ Len(t) \in Nat
           /\ DOMAIN s = 1..Len(s) /\ DOMAIN t = 1..Len(t)
           /\ DOMAIN (s \o t) = 1..(Len(s) + Len(t))
           /\ \A i \in 1..(Len(s) + Len(t)) :
                 \/ i \in 1..Len(s) /\ (s \o t)[i] = s[i]
                 \/ /\ i > Len(s) /\ i - Len(s) \in 1..Len(t)
                    /\ (s \o t)[i] = t[i - Len(s)]
           /\ \A i \in 1..Len(s) : (s \o t)[i] = s[i]
<1> DEFINE st == s \o t
           m == Len(s)
           n == Len(t)
<1>1. /\ m \in Nat /\ n \in Nat /\ DOMAIN s = 1..m /\ DOMAIN t = 1..n
      /\ st \in Seq(S) /\ Len(st) = m + n
      /\ \A i \in 1..m + n : st[i] = IF i <= m THEN s[i] ELSE t[i - m]
  BY ConcatProperties, LenProperties
<1>2. DOMAIN st = 1..(m + n)
  BY <1>1, LenProperties
<1> HIDE DEF st, m, n
<1>3. /\ \A i \in 1..(m + n) :
            \/ i \in 1..m /\ st[i] = s[i]
            \/ i > m /\ i - m \in 1..n /\ st[i] = t[i - m]
      /\ \A i \in 1..m : st[i] = s[i]
  BY <1>1, Z3
<1> QED BY <1>1, <1>2, <1>3 DEF st, m, n

(* Older events in front of younger ones.                                  *)
LEMMA IncreasingConcat ==
    ASSUME NEW s \in Seq(Event), NEW t \in Seq(Event),
           Increasing(s), Increasing(t),
           \A e \in ToSet(s), f \in ToSet(t) : e < f
    PROVE  Increasing(s \o t)
<1> DEFINE st == s \o t
           m == Len(s)
           n == Len(t)
<1>1. /\ m \in Nat /\ n \in Nat /\ DOMAIN s = 1..m /\ DOMAIN t = 1..n
      /\ DOMAIN st = 1..(m + n)
      /\ \A i \in 1..(m + n) :
            \/ i \in 1..m /\ st[i] = s[i]
            \/ i > m /\ i - m \in 1..n /\ st[i] = t[i - m]
  BY ConcatSplit
<1> HIDE DEF st, m, n
<1>2. \A i \in 1..m, j \in 1..n : s[i] < t[j]
  BY <1>1 DEF ToSet
<1>3. \A i, j \in 1..m : i < j => s[i] < s[j]
  BY <1>1 DEF Increasing
<1>4. \A i, j \in 1..n : i < j => t[i] < t[j]
  BY <1>1 DEF Increasing
<1>5. ASSUME NEW i \in 1..(m + n), NEW j \in 1..(m + n), i < j PROVE st[i] < st[j]
  <2>1. CASE j \in 1..m /\ st[j] = s[j]
    <3>1. i \in 1..m /\ st[i] = s[i]
      BY <1>1, <1>5, <2>1
    <3> QED BY <1>3, <1>5, <2>1, <3>1
  <2>2. CASE /\ i \in 1..m /\ st[i] = s[i]
             /\ j - m \in 1..n /\ st[j] = t[j - m]
    BY <1>2, <2>2
  <2>3. CASE /\ i - m \in 1..n /\ st[i] = t[i - m]
             /\ j - m \in 1..n /\ st[j] = t[j - m]
    <3>1. i - m < j - m
      BY <1>1, <1>5
    <3> QED BY <1>4, <2>3, <3>1
  <2> QED BY <1>1, <2>1, <2>2, <2>3
<1> QED BY <1>1, <1>5 DEF Increasing, st

(* A batch in order, each event of which is stored or younger than all     *)
(* that is stored, leaves the table in order.                              *)
LEMMA KeptConcat ==
    ASSUME NEW s \in Seq(Event), NEW t \in Seq(Event),
           Kept(s), Increasing(t), Fresh(t, s)
    PROVE  Kept(s \o t)
<1> DEFINE st == s \o t
           m == Len(s)
           n == Len(t)
<1>1. /\ m \in Nat /\ n \in Nat /\ DOMAIN s = 1..m /\ DOMAIN t = 1..n
      /\ DOMAIN st = 1..(m + n)
      /\ \A i \in 1..(m + n) :
            \/ i \in 1..m /\ st[i] = s[i]
            \/ i > m /\ i - m \in 1..n /\ st[i] = t[i - m]
      /\ \A i \in 1..m : st[i] = s[i]
  BY ConcatSplit
<1> HIDE DEF st, m, n
<1>2. \A i, j \in 1..m : i < j => s[i] < s[j] \/ \E k \in 1..i : s[k] = s[j]
  BY <1>1 DEF Kept
<1>3. \A i, j \in 1..n : i < j => t[i] < t[j]
  BY <1>1 DEF Increasing
<1>4. \A j \in 1..n : \/ \E k \in 1..m : s[k] = t[j]
                      \/ \A i \in 1..m : s[i] < t[j]
  BY <1>1 DEF ToSet, Fresh
<1>5. ASSUME NEW i \in 1..(m + n), NEW j \in 1..(m + n), i < j
      PROVE  st[i] < st[j] \/ \E k \in 1..i : st[k] = st[j]
  <2>1. CASE j \in 1..m /\ st[j] = s[j]
    <3>1. i \in 1..m /\ st[i] = s[i] /\ \A k \in 1..i : k \in 1..m
      BY <1>1, <1>5, <2>1
    <3> QED BY <1>1, <1>2, <1>5, <2>1, <3>1
  <2>2. CASE /\ i \in 1..m /\ st[i] = s[i]
             /\ j - m \in 1..n /\ st[j] = t[j - m]
    <3>1. CASE \A l \in 1..m : s[l] < t[j - m]
      BY <2>2, <3>1
    <3>2. ASSUME NEW k \in 1..m, s[k] = t[j - m]
          PROVE  st[i] < st[j] \/ \E l \in 1..i : st[l] = st[j]
      <4>1. CASE k <= i
        <5>1. k \in 1..i /\ st[k] = st[j]
          BY <1>1, <2>2, <3>2, <4>1
        <5> QED BY <5>1
      <4>2. CASE i < k
        <5>1. s[i] < s[k] \/ \E l \in 1..i : s[l] = s[k]
          BY <1>2, <2>2, <4>2
        <5>2. \A l \in 1..i : l \in 1..m
          BY <1>1, <2>2
        <5> QED BY <1>1, <2>2, <3>2, <5>1, <5>2
      <4> QED BY <1>1, <4>1, <4>2
    <3> QED BY <1>4, <2>2, <3>1, <3>2
  <2>3. CASE /\ i - m \in 1..n /\ st[i] = t[i - m]
             /\ j - m \in 1..n /\ st[j] = t[j - m]
    <3>1. i - m < j - m
      BY <1>1, <1>5
    <3> QED BY <1>3, <2>3, <3>1
  <2> QED BY <1>1, <2>1, <2>2, <2>3
<1> QED BY <1>1, <1>5 DEF Kept, st

(* What waits stays young enough when a batch older than it is stored.     *)
LEMMA FreshConcat ==
    ASSUME NEW s \in Seq(Event), NEW batch \in Seq(Event), NEW t \in Seq(Event),
           Fresh(t, s),
           \A e \in ToSet(batch), f \in ToSet(t) : f \in ToSet(batch) \/ e < f
    PROVE  Fresh(t, s \o batch) /\ Fresh(batch, s \o batch)
<1>1. ToSet(s \o batch) = ToSet(s) \cup ToSet(batch)
  BY SetOfConcat
<1> QED BY <1>1 DEF Fresh

(* A young event may wait behind the others.                               *)
LEMMA AppendOrder ==
    ASSUME TypeOK, RepeatInv, OrderInv, happened < MaxEvents, ~overlapped
    PROVE  LET events == Append(queue, happened + 1)
           IN  /\ events \in Seq(Event) /\ ToSet(events) = ToSet(queue) \cup {happened + 1}
               /\ Increasing(events) /\ Fresh(events, stored)
<1> DEFINE e == happened + 1
<1>1. queue \in Seq(Event) /\ e \in Event /\ happened \in Nat
  BY NextEvent DEF TypeOK
<1>2. \A f \in ToSet(queue) \cup ToSet(stored) : f < e
  <2>1. ToSet(queue) \cup ToSet(stored) \subseteq 1..happened
    BY DEF RepeatInv, Heard
  <2> QED BY <1>1, <2>1
<1> HIDE DEF e
<1>3. Append(queue, e) \in Seq(Event) /\ ToSet(Append(queue, e)) = ToSet(queue) \cup {e}
  BY <1>1, SetOfAppend
<1>4. <<e>> \in Seq(Event) /\ Append(queue, e) = queue \o <<e>>
  BY <1>1, AppendIsConcat
<1>5. ToSet(<<e>>) = {e} /\ Increasing(<<e>>)
  BY DEF ToSet, Increasing
<1>6. Increasing(queue) /\ Fresh(queue, stored)
  BY DEF OrderInv, InOrder
<1>7. Increasing(Append(queue, e))
  BY <1>1, <1>2, <1>4, <1>5, <1>6, IncreasingConcat
<1>8. Fresh(Append(queue, e), stored)
  BY <1>2, <1>3, <1>6 DEF Fresh
<1> QED BY <1>3, <1>7, <1>8 DEF e

(* A batch in order may be sent: when another one is outstanding the       *)
(* invariant says no more.                                                 *)
LEMMA SendOrder ==
    ASSUME TypeOK, OrderInv, NEW events \in Seq(Event), Send(events),
           ~overlapped => Increasing(events) /\ Fresh(events, stored)
    PROVE  OrderInv'
<1> SUFFICES ASSUME ~overlapped' PROVE OneBatch' /\ InOrder' /\ Kept(stored')
  BY DEF OrderInv
<1>1. ~overlapped /\ queue' = <<>> /\ UNCHANGED <<adrift, stored>>
  BY DEF Send
<1>2. OneBatch /\ InOrder /\ Kept(stored) /\ Increasing(events) /\ Fresh(events, stored)
  BY <1>1 DEF OrderInv
<1>3. ToSet(queue') = {} /\ Increasing(queue') /\ Fresh(queue', stored')
  BY <1>1, SetOfEmpty DEF Increasing, Fresh
<1>4. CASE token = "none"
  <2>1. requests' = requests
    BY <1>4 DEF Send
  <2> QED BY <1>1, <1>2, <1>3, <2>1 DEF OneBatch, InOrder
<1>5. CASE token # "none"
  <2>1. ~Outstanding /\ requests' = requests \cup {Sent(events)}
    BY <1>5 DEF Send, Sent
  <2>2. requests' = {Sent(events)} /\ \A n \in 1..MaxFailures : adrift'[n] = <<>>
    BY <1>1, <2>1 DEF Outstanding
  <2>3. Sent(events).events = events
    BY DEF Sent
  <2>4. OneBatch'
    BY <2>2 DEF OneBatch
  <2>5. InOrder'
    BY <1>1, <1>2, <1>3, <2>2, <2>3 DEF InOrder
  <2> QED BY <1>1, <1>2, <2>4, <2>5
<1> QED BY <1>4, <1>5

(* A batch that comes back waits in front of younger events, whether or    *)
(* not it is adrift as well.                                               *)
LEMMA RequeueOrder ==
    ASSUME TypeOK, OrderInv, NEW r \in requests, Requeue(r), stored' = stored,
           NEW m, \A n \in 1..MaxFailures :
                     adrift'[n] = adrift[n] \/ (n = m /\ adrift'[n] = r.events)
    PROVE  OrderInv'
<1> SUFFICES ASSUME ~overlapped' PROVE OneBatch' /\ InOrder' /\ Kept(stored')
  BY DEF OrderInv
<1>1. requests' = requests \ {r} /\ queue' \in {queue, r.events \o queue} /\ ~overlapped
  BY DEF Requeue
<1>2. OneBatch /\ InOrder /\ Kept(stored)
  BY <1>1 DEF OrderInv
<1>3. /\ requests' = {}
      /\ \A n \in 1..MaxFailures : adrift'[n] = <<>> \/ (n = m /\ adrift'[n] = r.events)
  BY <1>1, <1>2 DEF OneBatch
<1>4. r.events \in Seq(Event) /\ queue \in Seq(Event)
  BY DEF TypeOK, RequestType
<1>5. /\ Increasing(r.events) /\ Fresh(r.events, stored)
      /\ Increasing(queue) /\ Fresh(queue, stored)
      /\ \A e \in ToSet(r.events), f \in ToSet(queue) : e < f
  BY <1>2 DEF InOrder
<1>6. /\ Increasing(r.events \o queue)
      /\ ToSet(r.events \o queue) = ToSet(r.events) \cup ToSet(queue)
  BY <1>4, <1>5, IncreasingConcat, SetOfConcat
<1>7. Increasing(queue') /\ Fresh(queue', stored')
  BY <1>1, <1>5, <1>6 DEF Fresh
<1>8. \A e \in ToSet(r.events), f \in ToSet(queue') : f \in ToSet(r.events) \/ e < f
  BY <1>1, <1>5, <1>6
<1>9. Increasing(<<>>) /\ Fresh(<<>>, stored') /\ ToSet(<<>>) = {}
  BY SetOfEmpty DEF Increasing, Fresh
<1>10. OneBatch'
  BY <1>3 DEF OneBatch
<1>11. InOrder'
  BY <1>3, <1>5, <1>7, <1>8, <1>9 DEF InOrder
<1> QED BY <1>2, <1>10, <1>11

(* The commit of the batch under way.                                      *)
LEMMA CommitOrder ==
    ASSUME TypeOK, OrderInv, NEW r \in requests, Commit(r)
    PROVE  OrderInv'
<1> SUFFICES ASSUME ~overlapped' PROVE OneBatch' /\ InOrder' /\ Kept(stored')
  BY DEF OrderInv
<1> DEFINE t == [r EXCEPT !.at = "stored"]
<1>1. /\ r.events \in Seq(Event) /\ stored \in Seq(Event) /\ t.events = r.events
      /\ queue \in Seq(Event)
  BY CommitStores DEF TypeOK
<1>2. /\ stored' = stored \o r.events /\ requests' = (requests \ {r}) \cup {t}
      /\ UNCHANGED <<queue, adrift>> /\ ~overlapped
  BY DEF Commit, browser, history
<1> HIDE DEF t
<1>3. OneBatch /\ InOrder /\ Kept(stored)
  BY <1>2 DEF OrderInv
<1>4. requests' = {t} /\ \A n \in 1..MaxFailures : adrift'[n] = <<>>
  BY <1>2, <1>3 DEF OneBatch
<1>5. /\ Increasing(r.events) /\ Fresh(r.events, stored)
      /\ Increasing(queue) /\ Fresh(queue, stored)
      /\ \A e \in ToSet(r.events), f \in ToSet(queue) : e < f
  BY <1>3 DEF InOrder
<1>6. Fresh(queue, stored') /\ Fresh(r.events, stored')
  BY <1>1, <1>2, <1>5, FreshConcat
<1>7. Kept(stored')
  BY <1>1, <1>2, <1>3, <1>5, KeptConcat
<1>8. Increasing(<<>>) /\ Fresh(<<>>, stored') /\ ToSet(<<>>) = {}
  BY SetOfEmpty DEF Increasing, Fresh
<1>9. OneBatch'
  BY <1>4 DEF OneBatch
<1>10. InOrder'
  BY <1>1, <1>2, <1>4, <1>5, <1>6, <1>8 DEF InOrder
<1> QED BY <1>7, <1>9, <1>10

(* The arrival of the batch adrift.                                        *)
LEMMA ArriveOrder ==
    ASSUME TypeOK, OrderInv, NEW n \in 1..MaxFailures, Arrive(n)
    PROVE  OrderInv'
<1> SUFFICES ASSUME ~overlapped' PROVE OneBatch' /\ InOrder' /\ Kept(stored')
  BY DEF OrderInv
<1>1. /\ adrift[n] \in Seq(Event) /\ stored \in Seq(Event) /\ queue \in Seq(Event)
      /\ stored' = stored \o adrift[n]
  BY ArriveStores DEF TypeOK
<1>2. /\ adrift[n] # <<>> /\ UNCHANGED <<queue, requests>> /\ ~overlapped
      /\ \A m \in 1..MaxFailures : adrift'[m] = IF m = n THEN <<>> ELSE adrift[m]
  BY DEF Arrive, browser, history, TypeOK
<1>3. OneBatch /\ InOrder /\ Kept(stored)
  BY <1>2 DEF OrderInv
<1>4. requests' = {} /\ \A m \in 1..MaxFailures : adrift'[m] = <<>>
  BY <1>2, <1>3 DEF OneBatch
<1>5. /\ Increasing(adrift[n]) /\ Fresh(adrift[n], stored)
      /\ Increasing(queue) /\ Fresh(queue, stored)
      /\ \A e \in ToSet(adrift[n]), f \in ToSet(queue) : f \in ToSet(adrift[n]) \/ e < f
  BY <1>3 DEF InOrder
<1>6. Fresh(queue, stored')
  BY <1>1, <1>5, FreshConcat
<1>7. Kept(stored')
  BY <1>1, <1>3, <1>5, KeptConcat
<1>8. Increasing(<<>>) /\ Fresh(<<>>, stored') /\ ToSet(<<>>) = {}
  BY SetOfEmpty DEF Increasing, Fresh
<1>9. OneBatch'
  BY <1>4 DEF OneBatch
<1>10. InOrder'
  BY <1>2, <1>4, <1>5, <1>6, <1>8 DEF InOrder
<1> QED BY <1>7, <1>9, <1>10

(* No step disturbs the order.                                             *)
LEMMA NextOrder == TypeOK /\ RepeatInv /\ OrderInv /\ [Next]_vars => OrderInv'
<1> SUFFICES ASSUME TypeOK, RepeatInv, OrderInv, [Next]_vars PROVE OrderInv'
  OBVIOUS
<1>1. CASE QueueEvent
  <2> SUFFICES ASSUME ~overlapped' PROVE OneBatch' /\ InOrder' /\ Kept(stored')
    BY DEF OrderInv
  <2>1. /\ happened < MaxEvents /\ queue' = Append(queue, happened + 1) /\ ~overlapped
        /\ UNCHANGED <<requests, adrift, stored>>
    BY <1>1 DEF QueueEvent, history
  <2>2. /\ ToSet(queue') = ToSet(queue) \cup {happened + 1}
        /\ Increasing(queue') /\ Fresh(queue', stored)
    BY <2>1, AppendOrder
  <2>3. OneBatch /\ InOrder /\ Kept(stored)
    BY <2>1 DEF OrderInv
  <2>4. \A r \in requests : \A e \in ToSet(r.events) : e < happened + 1
    <3>1. \A r \in requests : ToSet(r.events) \subseteq 1..happened
      BY DEF RepeatInv, Heard, UnderWay
    <3>2. happened \in Nat
      BY DEF TypeOK
    <3> QED BY <3>1, <3>2
  <2>5. \A n \in 1..MaxFailures : \A e \in ToSet(adrift[n]) : e < happened + 1
    <3>1. \A n \in 1..MaxFailures : ToSet(adrift[n]) \subseteq 1..happened
      BY DEF RepeatInv, Heard
    <3>2. happened \in Nat
      BY DEF TypeOK
    <3> QED BY <3>1, <3>2
  <2>6. InOrder'
    BY <2>1, <2>2, <2>3, <2>4, <2>5 DEF InOrder
  <2> QED BY <2>1, <2>3, <2>6 DEF OneBatch
<1>2. CASE QueueUrgent \/ Leave
  <2>1. happened < MaxEvents /\ Send(Append(queue, happened + 1))
    BY <1>2 DEF QueueUrgent, Leave
  <2>2. Append(queue, happened + 1) \in Seq(Event)
    BY <2>1, NextEvent, SetOfAppend DEF TypeOK
  <2>3. ~overlapped => /\ Increasing(Append(queue, happened + 1))
                       /\ Fresh(Append(queue, happened + 1), stored)
    BY <2>1, AppendOrder
  <2> QED BY <2>1, <2>2, <2>3, SendOrder
<1>3. CASE Flush
  <2>1. Send(queue) /\ queue \in Seq(Event)
    BY <1>3 DEF Flush, TypeOK
  <2>2. ~overlapped => Increasing(queue) /\ Fresh(queue, stored)
    BY DEF OrderInv, InOrder
  <2> QED BY <2>1, <2>2, SendOrder
<1>4. CASE ChangeToken \/ UNCHANGED vars
  BY <1>4 DEF ChangeToken, vars, browser, history, OrderInv, OneBatch, InOrder
<1>5. ASSUME NEW r \in requests, Commit(r) PROVE OrderInv'
  BY <1>5, CommitOrder
<1>6. ASSUME NEW r \in requests, Answer(r) PROVE OrderInv'
  BY <1>6 DEF Answer, browser, history, OrderInv, OneBatch, InOrder
<1>7. ASSUME NEW r \in requests, Refuse(r) \/ Break(r) PROVE OrderInv'
  <2>1. /\ Requeue(r) /\ stored' = stored
        /\ \A n \in 1..MaxFailures : adrift'[n] = adrift[n]
    BY <1>7 DEF Refuse, Break
  <2> QED BY <2>1, RequeueOrder
<1>8. ASSUME NEW r \in requests, Drift(r) PROVE OrderInv'
  <2>1. \A n \in 1..MaxFailures :
           adrift'[n] = adrift[n] \/ (n = failures + 1 /\ adrift'[n] = r.events)
    BY <1>8 DEF Drift, TypeOK
  <2> QED BY <1>8, <2>1, RequeueOrder DEF Drift
<1>9. ASSUME NEW n \in 1..MaxFailures, Arrive(n) PROVE OrderInv'
  BY <1>9, ArriveOrder
<1> QED BY <1>1, <1>2, <1>3, <1>4, <1>5, <1>6, <1>7, <1>8, <1>9 DEF Next

(* As long as the page has one batch under way or adrift at a time, the    *)
(* table holds the events in the order in which they happened, repetitions *)
(* apart.                                                                  *)
THEOREM OrderIsKept == Spec => []OrderKept
<1>1. Init => OrderInv
  <2> SUFFICES ASSUME Init PROVE OneBatch /\ InOrder /\ Kept(stored)
    BY DEF OrderInv
  <2>1. Increasing(<<>>) /\ Fresh(<<>>, <<>>) /\ Kept(<<>>)
    BY SetOfEmpty DEF Increasing, Fresh, Kept
  <2> QED BY <2>1, SetOfEmpty DEF Init, OneBatch, InOrder
<1>2. OrderInv => OrderKept
  BY DEF OrderInv, OrderKept, Kept
<1> QED BY <1>1, <1>2, NextOrder, RepeatsInvariant, TrackerTypes, PTL DEF Spec
=============================================================================

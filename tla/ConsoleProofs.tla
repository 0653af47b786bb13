---------------------------- MODULE ConsoleProofs ----------------------------
(***************************************************************************)
(* Proofs about LLMGateway and Console for every number of runs, of        *)
(* attempts and of ticks.                                                  *)
(***************************************************************************)
EXTENDS Console, LeastElement, TLAPS

(* The place of the present request among those of its call, as its        *)
(* attempt and its mode tell.                                              *)
Place(c) ==
    IF IsChat(c) THEN 2 * attempt[c] - (IF plain[c] THEN 0 ELSE 1) ELSE attempt[c]

(* What n requests cost at most.                                           *)
Cost(n) == n * (1 + ClientRetries)

(* Each request before the present one was sent 1 + ClientRetries times at *)
(* most, the present one once and as often as it was sent again.           *)
WithinCost(c) ==
    /\ plain[c] => IsChat(c)
    /\ sent[c] <= Cost(Place(c) - 1) + 1 + resent[c]

SentOfAttempt == \A c \in Callers : WithinCost(c)

(* A recommendation is the last thing a run writes.                        *)
StoredLast ==
    \A c \in Callers : rec[c] # Never =>
        at[c] = "done" /\ \A r \in log : r.by = c => r.at <= rec[c]

GatewayInv == GatewayTypeOK /\ SentOfAttempt /\ StoredLast
IndInv == GatewayInv /\ calls \subseteq log

-----------------------------------------------------------------------------
(* Requests cost what they cost one by one.                                *)
LEMMA CostGrows ==
  /\ \A n \in Nat : Cost(n) \in Nat
  /\ Cost(0) = 0
  /\ \A n \in Nat : Cost(n + 1) = Cost(n) + 1 + ClientRetries
  /\ \A m, n \in Nat : m <= n => Cost(m) <= Cost(n)
  BY GatewayAssumption DEF Cost

(* The numbers of a run: it is at one of the requests its call may make.   *)
LEMMA Numbers ==
  ASSUME GatewayTypeOK, NEW c \in Callers
  PROVE  /\ attempt[c] \in 1..MaxAttempts /\ resent[c] \in 0..ClientRetries
         /\ plain[c] \in BOOLEAN /\ sent[c] \in Nat /\ call[c] \in 1..3
         /\ Place(c) \in Nat \ {0}
         /\ Place(c) - 1 \in Nat /\ Cost(Place(c) - 1) \in Nat
<1>1. /\ attempt[c] \in 1..MaxAttempts /\ resent[c] \in 0..ClientRetries
      /\ plain[c] \in BOOLEAN /\ sent[c] \in Nat /\ call[c] \in 1..3
  BY DEF GatewayTypeOK
<1>2. Place(c) \in Nat \ {0}
  BY <1>1, GatewayAssumption DEF Place
<1>3. Place(c) - 1 \in Nat
  BY <1>2
<1> QED BY <1>1, <1>2, <1>3, CostGrows

(* What a step that does not touch a run's call leaves true of it.         *)
SameCall(c) ==
    /\ call'[c] = call[c] /\ attempt'[c] = attempt[c] /\ plain'[c] = plain[c]
    /\ resent'[c] = resent[c] /\ sent'[c] = sent[c]

LEMMA CostKept ==
  ASSUME NEW c \in Callers, WithinCost(c), SameCall(c)
  PROVE  WithinCost(c)'
  BY DEF WithinCost, SameCall, Place, IsChat, Cost

(* A call begins with its first request, or there is none.                 *)
Afresh(c) ==
    /\ attempt'[c] = 1 /\ plain'[c] = FALSE /\ resent'[c] = 0
    /\ sent'[c] \in {0, 1}

LEMMA CostAfresh ==
  ASSUME NEW c \in Callers, Afresh(c)
  PROVE  WithinCost(c)'
<1>1. Place(c)' = 1 /\ Cost(0) = 0
  BY CostGrows DEF Afresh, Place
<1>2. (Cost(Place(c) - 1))' = 0
  BY <1>1 DEF Cost
<1> QED BY <1>2 DEF WithinCost, Afresh

LEMMA GatewayInitially == GatewayInit => GatewayInv
<1> SUFFICES ASSUME GatewayInit PROVE GatewayInv
  OBVIOUS
<1> USE GatewayAssumption
<1>1. GatewayTypeOK
  BY SMTT(30) DEF GatewayInit, GatewayTypeOK, Active, Time, Never, Row
<1>2. SentOfAttempt
  <2>1. \A c \in Callers : Place(c) = 1 /\ sent[c] = 0 /\ resent[c] = 0 /\ ~plain[c]
    BY DEF GatewayInit, Place
  <2>2. \A c \in Callers : Place(c) - 1 = 0
    BY <2>1
  <2> QED BY <2>1, <2>2, CostGrows DEF SentOfAttempt, WithinCost
<1>3. StoredLast
  BY DEF GatewayInit, StoredLast, Callers, Never
<1> QED BY <1>1, <1>2, <1>3 DEF GatewayInv

(* A logged row is of this tick, of a run that has stored nothing yet.     *)
LEMMA Logged ==
  ASSUME GatewayInv, NEW c \in Callers, at[c] = "request",
         LogCall(c), UNCHANGED <<now, rec>>
  PROVE  /\ log' \subseteq {r \in Row : r.at <= now'}
         /\ faults' \in 0..MaxFaults
         /\ log \subseteq log'
         /\ \A d \in Callers : rec[d] # Never =>
                d # c /\ \A r \in log' : r.by = d => r.at <= rec[d]
<1>1. [by |-> c, at |-> now] \in Row /\ now <= now
  BY DEF GatewayInv, GatewayTypeOK, Row, Time
<1>2. log' \subseteq log \cup {[by |-> c, at |-> now]} /\ log \subseteq log'
  BY DEF LogCall
<1>3. faults' \in 0..MaxFaults
  BY GatewayAssumption DEF LogCall, GatewayInv, GatewayTypeOK
<1>4. \A d \in Callers : rec[d] # Never =>
          d # c /\ \A r \in log' : r.by = d => r.at <= rec[d]
  BY <1>2 DEF GatewayInv, StoredLast
<1>5. log' \subseteq {r \in Row : r.at <= now'}
  BY <1>1, <1>2 DEF GatewayInv, GatewayTypeOK
<1> QED BY <1>2, <1>3, <1>4, <1>5

(* Leaving a call keeps the invariant.                                     *)
LEMMA Left ==
  ASSUME GatewayInv, NEW c \in Callers, at[c] = "request",
         NEW place \in {"request", "store", "done", "failed"},
         place = "request" => c \in Agents /\ call[c] < 3,
         Leave(c, place),
         log' \subseteq {r \in Row : r.at <= now'}, faults' \in 0..MaxFaults,
         \A d \in Callers : rec[d] # Never =>
             d # c /\ \A r \in log' : r.by = d => r.at <= rec[d],
         UNCHANGED <<now, rec>>
  PROVE  GatewayInv'
<1> USE GatewayAssumption
<1>1. GatewayTypeOK'
  <2>1. /\ at' \in [Callers -> Active \cup {"idle", "done", "failed"}]
        /\ call' \in [Callers -> 1..3]
    BY SMTT(30) DEF GatewayInv, GatewayTypeOK, Leave, Goto, Active
  <2>2. attempt' \in [Callers -> 1..MaxAttempts] /\ resent' \in [Callers -> 0..ClientRetries]
    BY SMTT(30) DEF GatewayInv, GatewayTypeOK, Leave
  <2>3. plain' \in [Callers -> BOOLEAN]
    BY DEF GatewayInv, GatewayTypeOK, Leave
  <2>4. sent' \in [Callers -> Nat]
    BY DEF GatewayInv, GatewayTypeOK, Leave
  <2> QED BY <2>1, <2>2, <2>3, <2>4 DEF GatewayInv, GatewayTypeOK
<1>2. SentOfAttempt'
  <2> SUFFICES ASSUME NEW d \in Callers PROVE WithinCost(d)'
    BY DEF SentOfAttempt
  <2>1. CASE d = c
    <3>1. Afresh(d)
      BY <2>1 DEF Afresh, Leave, GatewayInv, GatewayTypeOK
    <3> QED BY <3>1, CostAfresh
  <2>2. CASE d # c
    <3>1. SameCall(d)
      BY <2>2 DEF SameCall, Leave, GatewayInv, GatewayTypeOK
    <3> QED BY <3>1, CostKept DEF GatewayInv, SentOfAttempt
  <2> QED BY <2>1, <2>2
<1>3. StoredLast'
  BY SMTT(30) DEF GatewayInv, GatewayTypeOK, StoredLast, Leave, Goto, Never
<1> QED BY <1>1, <1>2, <1>3 DEF GatewayInv

(* Another request of the same call keeps it: the requests before it and   *)
(* what they cost are the bound for those sent so far.                     *)
LEMMA Resent ==
  ASSUME GatewayInv, NEW c \in Callers, at[c] = "request",
         FallBack(c) \/ Retry(c)
  PROVE  GatewayInv'
<1> USE GatewayAssumption
<1>0. LogCall(c) /\ UNCHANGED <<now, rec>>
  BY DEF FallBack, Retry
<1>1. GatewayTypeOK'
  <2>1. log' \subseteq {r \in Row : r.at <= now'} /\ faults' \in 0..MaxFaults
    BY <1>0, Logged
  <2>2. plain' \in [Callers -> BOOLEAN]
    BY DEF GatewayInv, GatewayTypeOK, FallBack, Retry
  <2>3. attempt' \in [Callers -> 1..MaxAttempts] /\ sent' \in [Callers -> Nat]
    BY SMTT(30) DEF GatewayInv, GatewayTypeOK, FallBack, Retry
  <2>4. resent' \in [Callers -> 0..ClientRetries]
    BY DEF GatewayInv, GatewayTypeOK, FallBack, Retry
  <2> QED BY <2>1, <2>2, <2>3, <2>4 DEF GatewayInv, GatewayTypeOK, FallBack, Retry
<1>2. SentOfAttempt'
  <2> SUFFICES ASSUME NEW d \in Callers PROVE WithinCost(d)'
    BY DEF SentOfAttempt
  <2>1. CASE d # c
    <3>1. SameCall(d)
      BY <2>1 DEF SameCall, FallBack, Retry, GatewayInv, GatewayTypeOK
    <3> QED BY <3>1, CostKept DEF GatewayInv, SentOfAttempt
  <2>2. CASE d = c
    <3>1. /\ Place(c) \in Nat \ {0} /\ Place(c) - 1 \in Nat
          /\ Cost(Place(c) - 1) \in Nat
          /\ resent[c] \in 0..ClientRetries /\ sent[c] \in Nat
      BY Numbers DEF GatewayInv
    <3>2. resent'[c] = 0 /\ sent'[c] = sent[c] + 1
      BY DEF FallBack, Retry, GatewayInv, GatewayTypeOK
    <3>3. /\ Place(c)' \in Nat /\ Place(c)' >= Place(c) + 1
          /\ plain'[c] => IsChat(c)'
      BY DEF FallBack, Retry, Place, IsChat, GatewayInv, GatewayTypeOK
    <3>4. Cost(Place(c)) = Cost(Place(c) - 1) + 1 + ClientRetries
      <4>1. \A n \in Nat : Cost(n + 1) = Cost(n) + 1 + ClientRetries
        BY CostGrows
      <4>2. (Place(c) - 1) + 1 = Place(c)
        BY <3>1
      <4> QED BY <3>1, <4>1, <4>2
    <3>5. PICK m \in Nat : m = Place(c)' - 1 /\ m >= Place(c)
      BY <3>1, <3>3
    <3>6. Cost(m) >= Cost(Place(c)) /\ Cost(m) \in Nat /\ Cost(Place(c)) \in Nat
      BY <3>1, <3>5, CostGrows
    <3>7. (Cost(Place(c) - 1))' = Cost(m)
      BY <3>5 DEF Cost
    <3>8. sent[c] <= Cost(Place(c) - 1) + 1 + resent[c]
      BY DEF GatewayInv, SentOfAttempt, WithinCost
    <3>9. sent'[c] <= Cost(m) + 1 + resent'[c]
      BY <3>1, <3>2, <3>4, <3>6, <3>8
    <3> QED BY <2>2, <3>3, <3>7, <3>9 DEF WithinCost
  <2> QED BY <2>1, <2>2
<1>3. StoredLast'
  BY <1>0, Logged, SMTT(30) DEF GatewayInv, GatewayTypeOK, StoredLast, FallBack, Retry, Goto, Never
<1> QED BY <1>1, <1>2, <1>3 DEF GatewayInv

(* The client sends a request again; nothing else happens.                 *)
LEMMA ClientResent ==
  ASSUME GatewayInv, NEW c \in Callers, ClientResends(c)
  PROVE  GatewayInv'
<1> USE GatewayAssumption
<1>1. GatewayTypeOK'
  <2>1. resent' \in [Callers -> 0..ClientRetries] /\ sent' \in [Callers -> Nat]
    BY DEF GatewayInv, GatewayTypeOK, ClientResends
  <2> QED BY <2>1 DEF GatewayInv, GatewayTypeOK, ClientResends
<1>2. SentOfAttempt'
  <2> SUFFICES ASSUME NEW d \in Callers PROVE WithinCost(d)'
    BY DEF SentOfAttempt
  <2>1. CASE d # c
    <3>1. SameCall(d)
      BY <2>1 DEF SameCall, ClientResends, GatewayInv, GatewayTypeOK
    <3> QED BY <3>1, CostKept DEF GatewayInv, SentOfAttempt
  <2>2. CASE d = c
    <3>1. Cost(Place(c) - 1) \in Nat /\ resent[c] \in Nat /\ sent[c] \in Nat
      BY Numbers DEF GatewayInv
    <3>2. resent'[c] = resent[c] + 1 /\ sent'[c] = sent[c] + 1
      BY DEF ClientResends, GatewayInv, GatewayTypeOK
    <3>3. (Cost(Place(c) - 1))' = Cost(Place(c) - 1) /\ plain'[c] = plain[c] /\ IsChat(c)' = IsChat(c)
      BY DEF Cost, Place, IsChat, ClientResends
    <3>4. (plain[c] => IsChat(c)) /\ sent[c] <= Cost(Place(c) - 1) + 1 + resent[c]
      BY DEF GatewayInv, SentOfAttempt, WithinCost
    <3>5. sent'[c] <= Cost(Place(c) - 1) + 1 + resent'[c]
      BY <3>1, <3>2, <3>4
    <3> QED BY <2>2, <3>3, <3>4, <3>5 DEF WithinCost
  <2> QED BY <2>1, <2>2
<1>3. StoredLast'
  BY DEF GatewayInv, StoredLast, ClientResends
<1> QED BY <1>1, <1>2, <1>3 DEF GatewayInv

LEMMA GatewayStep == GatewayInv /\ GatewayNext => GatewayInv'
<1> SUFFICES ASSUME GatewayInv, GatewayNext PROVE GatewayInv'
  OBVIOUS
<1> USE GatewayAssumption
<1>1. ASSUME NEW c \in Callers, Begin(c) PROVE GatewayInv'
  <2>1. GatewayTypeOK'
    BY <1>1, SMTT(30) DEF GatewayInv, GatewayTypeOK, Begin, Goto, Active
  <2>2. SentOfAttempt'
    <3> SUFFICES ASSUME NEW d \in Callers PROVE WithinCost(d)'
      BY DEF SentOfAttempt
    <3>1. CASE d # c
      <4>1. SameCall(d)
        BY <1>1, <3>1 DEF SameCall, Begin, GatewayInv, GatewayTypeOK
      <4> QED BY <4>1, CostKept DEF GatewayInv, SentOfAttempt
    <3>2. CASE d = c
      <4>1. Cost(Place(c) - 1) \in Nat /\ resent[c] \in Nat
        BY Numbers DEF GatewayInv
      <4>2. (Cost(Place(c) - 1))' = Cost(Place(c) - 1) /\ plain'[c] = plain[c] /\ IsChat(c)' = IsChat(c)
        BY <1>1 DEF Cost, Place, IsChat, Begin
      <4>3. sent'[c] = 1 /\ resent'[c] = resent[c]
        BY <1>1 DEF Begin, GatewayInv, GatewayTypeOK
      <4>4. plain[c] => IsChat(c)
        BY DEF GatewayInv, SentOfAttempt, WithinCost
      <4>5. sent'[c] <= Cost(Place(c) - 1) + 1 + resent'[c]
        BY <4>1, <4>3
      <4> QED BY <3>2, <4>2, <4>4, <4>5 DEF WithinCost
    <3> QED BY <3>1, <3>2
  <2>3. StoredLast'
    BY <1>1, SMTT(30) DEF GatewayInv, GatewayTypeOK, StoredLast, Begin, Goto
  <2> QED BY <2>1, <2>2, <2>3 DEF GatewayInv
<1>2. ASSUME NEW c \in Callers, ChatSucceeds(c) PROVE GatewayInv'
  <2>1. call[c] = 1 => c \in Agents /\ call[c] < 3
    BY <1>2 DEF ChatSucceeds, IsChat
  <2>2. at[c] = "request" /\ LogCall(c) /\ UNCHANGED <<now, rec>>
    BY <1>2 DEF ChatSucceeds
  <2> QED BY <1>2, <2>1, <2>2, Logged, Left DEF ChatSucceeds
<1>3. ASSUME NEW c \in Callers, EmbeddingSucceeds(c) PROVE GatewayInv'
  <2>1. PICK place \in IF c \in Agents THEN {"request", "store"} ELSE {"done"} :
            Leave(c, place)
    BY <1>3 DEF EmbeddingSucceeds
  <2>2. place = "request" => c \in Agents /\ call[c] < 3
    BY <1>3, <2>1 DEF EmbeddingSucceeds, IsChat
  <2>3. at[c] = "request" /\ LogCall(c) /\ UNCHANGED <<now, rec>>
    BY <1>3 DEF EmbeddingSucceeds
  <2> QED BY <2>1, <2>2, <2>3, Logged, Left
<1>4. ASSUME NEW c \in Callers, NodeFails(c) PROVE GatewayInv'
  <2>1. at[c] = "request" /\ Leave(c, "failed") /\ UNCHANGED <<now, rec>>
    BY <1>4 DEF NodeFails
  <2>2. [by |-> c, at |-> now] \in Row /\ now <= now'
    BY <1>4 DEF NodeFails, GatewayInv, GatewayTypeOK, Row, Time
  <2>3. log' \subseteq {r \in Row : r.at <= now'} /\ faults' \in 0..MaxFaults
    BY <1>4, <2>2 DEF NodeFails, GatewayInv, GatewayTypeOK
  <2>4. \A d \in Callers : rec[d] # Never =>
            d # c /\ \A r \in log' : r.by = d => r.at <= rec[d]
    BY <1>4 DEF NodeFails, GatewayInv, StoredLast
  <2> QED BY <2>1, <2>3, <2>4, Left
<1>5. ASSUME NEW c \in Callers, FallBack(c) \/ Retry(c) PROVE GatewayInv'
  BY <1>5, Resent DEF FallBack, Retry
<1>6. ASSUME NEW c \in Callers, GiveUp(c) PROVE GatewayInv'
  <2>1. at[c] = "request" /\ LogCall(c) /\ Leave(c, "failed") /\ UNCHANGED <<now, rec>>
    BY <1>6 DEF GiveUp
  <2> QED BY <2>1, Logged, Left
<1>7. ASSUME NEW c \in Callers, Store(c) PROVE GatewayInv'
  <2>1. GatewayTypeOK'
    BY <1>7, SMTT(30) DEF GatewayInv, GatewayTypeOK, Store, Goto, Active, Never, Time
  <2>2. SentOfAttempt'
    <3>1. \A d \in Callers : SameCall(d)
      BY <1>7 DEF SameCall, Store
    <3> QED BY <3>1, CostKept DEF GatewayInv, SentOfAttempt
  <2>3. StoredLast'
    BY <1>7, SMTT(30) DEF GatewayInv, GatewayTypeOK, StoredLast, Store, Goto, Never, Time, Row
  <2> QED BY <2>1, <2>2, <2>3 DEF GatewayInv
<1>8. ASSUME Crash PROVE GatewayInv'
  <2>1. GatewayTypeOK'
    <3>1. /\ at' \in [Callers -> Active \cup {"idle", "done", "failed"}]
          /\ call' \in [Callers -> 1..3] /\ attempt' \in [Callers -> 1..MaxAttempts]
      BY <1>8, SMTT(30) DEF GatewayInv, GatewayTypeOK, Crash
    <3>2. plain' \in [Callers -> BOOLEAN]
      <4>1. plain \in [Callers -> BOOLEAN]
        BY DEF GatewayInv, GatewayTypeOK
      <4>2. plain' = [c \in Callers |-> IF c \in {d \in Callers : at[d] \in Active} THEN FALSE ELSE plain[c]]
        BY <1>8 DEF Crash
      <4> QED BY <4>1, <4>2, Zenon
    <3>3. sent' \in [Callers -> Nat] /\ faults' \in 0..MaxFaults
      BY <1>8, SMTT(30) DEF GatewayInv, GatewayTypeOK, Crash
    <3>4. resent' \in [Callers -> 0..ClientRetries]
      BY <1>8, SMTT(30) DEF GatewayInv, GatewayTypeOK, Crash
    <3>5. UNCHANGED <<now, log, rec>>
      BY <1>8 DEF Crash
    <3> QED BY <3>1, <3>2, <3>3, <3>4, <3>5 DEF GatewayInv, GatewayTypeOK
  <2>2. SentOfAttempt'
    <3> SUFFICES ASSUME NEW d \in Callers PROVE WithinCost(d)'
      BY DEF SentOfAttempt
    <3>1. CASE at[d] \in Active
      <4>1. Afresh(d)
        BY <1>8, <3>1 DEF Afresh, Crash
      <4> QED BY <4>1, CostAfresh
    <3>2. CASE at[d] \notin Active
      <4>1. SameCall(d)
        BY <1>8, <3>2 DEF SameCall, Crash
      <4> QED BY <4>1, CostKept DEF GatewayInv, SentOfAttempt
    <3> QED BY <3>1, <3>2
  <2>3. StoredLast'
    BY <1>8, SMTT(30) DEF GatewayInv, GatewayTypeOK, StoredLast, Crash, Active
  <2> QED BY <2>1, <2>2, <2>3 DEF GatewayInv
<1>9. ASSUME Tick PROVE GatewayInv'
  <2>1. GatewayTypeOK'
    BY <1>9, SMTT(30) DEF GatewayInv, GatewayTypeOK, Tick, progress, Row, Time
  <2>2. SentOfAttempt'
    <3>1. \A d \in Callers : SameCall(d)
      BY <1>9 DEF SameCall, Tick, progress
    <3> QED BY <3>1, CostKept DEF GatewayInv, SentOfAttempt
  <2>3. StoredLast'
    BY <1>9 DEF GatewayInv, StoredLast, Tick, progress
  <2> QED BY <2>1, <2>2, <2>3 DEF GatewayInv
<1>10. ASSUME NEW c \in Callers, ClientResends(c) PROVE GatewayInv'
  BY <1>10, ClientResent
<1> QED BY <1>1, <1>2, <1>3, <1>4, <1>5, <1>6, <1>7, <1>8, <1>9, <1>10 DEF GatewayNext, Advance

LEMMA LogGrows == GatewayNext => log \subseteq log'
  BY DEF GatewayNext, Advance, Begin, ChatSucceeds, EmbeddingSucceeds, NodeFails,
         ClientResends, FallBack, Retry, GiveUp, Store, Crash, Tick, LogCall

LEMMA Invariance == Spec => []IndInv
<1>1. Init => IndInv
  BY GatewayInitially DEF Init, IndInv
<1>2. IndInv /\ [Next]_vars => IndInv'
  <2> SUFFICES ASSUME IndInv, [Next]_vars PROVE IndInv'
    OBVIOUS
  <2>1. CASE GatewayNext /\ UNCHANGED calls
    BY <2>1, GatewayStep, LogGrows DEF IndInv
  <2>2. ASSUME UNCHANGED gateway PROVE GatewayInv' /\ log' = log
    <3>1. \A d \in Callers : SameCall(d)
      BY <2>2 DEF SameCall, gateway, progress
    <3>2. SentOfAttempt'
      BY <3>1, CostKept DEF IndInv, GatewayInv, SentOfAttempt
    <3> QED BY <2>2, <3>2 DEF IndInv, gateway, progress, GatewayInv, GatewayTypeOK, StoredLast
  <2>3. CASE ReadCalls
    BY <2>2, <2>3 DEF ReadCalls, IndInv
  <2>4. CASE UNCHANGED vars
    BY <2>2, <2>4 DEF vars, IndInv
  <2> QED BY <2>1, <2>3, <2>4 DEF Next
<1> QED BY <1>1, <1>2, PTL DEF Spec

(* Every variable keeps its type; the console shows rows of the log only.  *)
THEOREM TypeCorrect == Spec => []TypeOK
<1>1. IndInv => TypeOK
  BY DEF IndInv, GatewayInv, TypeOK
<1> QED BY Invariance, <1>1, PTL

(* Whatever the gateway answers, a call goes over the wire no more often   *)
(* than its requests, two per attempt (chat) or one (embedding), times     *)
(* what the client makes of each (chat_completion, AsyncOpenAI).           *)
THEOREM BudgetKept == Spec => []AttemptBudget
<1>1. IndInv => AttemptBudget
  <2> SUFFICES ASSUME IndInv, NEW c \in Callers
               PROVE  sent[c] <= Requests(c) * (1 + ClientRetries)
    BY DEF AttemptBudget
  <2> USE GatewayAssumption
  <2>1. /\ attempt[c] \in 1..MaxAttempts /\ resent[c] \in 0..ClientRetries
        /\ sent[c] \in Nat /\ Place(c) \in Nat \ {0}
        /\ Place(c) - 1 \in Nat /\ Cost(Place(c) - 1) \in Nat
    BY Numbers DEF IndInv, GatewayInv
  <2>2. sent[c] <= Cost(Place(c) - 1) + 1 + resent[c]
    BY DEF IndInv, GatewayInv, SentOfAttempt, WithinCost
  <2>3. Cost(Place(c)) = Cost(Place(c) - 1) + 1 + ClientRetries
    <3>1. \A n \in Nat : Cost(n + 1) = Cost(n) + 1 + ClientRetries
      BY CostGrows
    <3>2. (Place(c) - 1) + 1 = Place(c)
      BY <2>1
    <3> QED BY <2>1, <3>1, <3>2
  <2>4. Requests(c) \in Nat /\ Place(c) <= Requests(c)
    BY <2>1 DEF Place, Requests
  <2>5. Cost(Place(c)) <= Cost(Requests(c)) /\ Cost(Place(c)) \in Nat /\ Cost(Requests(c)) \in Nat
    BY <2>1, <2>4, CostGrows
  <2>6. sent[c] <= Cost(Requests(c))
    BY <2>1, <2>2, <2>3, <2>5
  <2> QED BY <2>6 DEF Cost
<1> QED BY Invariance, <1>1, PTL

-----------------------------------------------------------------------------
(* Times of what the console compares.                                     *)
LEMMA Times ==
  ASSUME IndInv
  PROVE  /\ \A r \in calls : r \in log /\ r.by \in Callers /\ r.at \in Nat
         /\ \A t \in Starts : t \in Nat /\ \E r \in calls : r.at = t
         /\ \A c \in Agents : rec[c] # Never => rec[c] \in Nat
<1>1. \A r \in calls : r \in log /\ r.by \in Callers /\ r.at \in Nat
  BY DEF IndInv, GatewayInv, GatewayTypeOK, Row, Time
<1>2. \A t \in Starts : t \in Nat /\ \E r \in calls : r.at = t
  BY <1>1 DEF Starts, Stamps
<1>3. \A c \in Agents : rec[c] # Never => rec[c] \in Nat
  BY DEF IndInv, GatewayInv, GatewayTypeOK, Callers, Time
<1> QED BY <1>1, <1>2, <1>3

(* A row stays behind the next start by more than Gap.                     *)
LEMMA BeforeStart ==
  ASSUME IndInv, NEW t \in Starts, NEW r \in calls, r.at < t
  PROVE  t - r.at > Gap
  BY DEF Starts, Stamps

(* A recommendation that a cluster can show lies between the cluster's     *)
(* start and the moment Window after one of its rows.                      *)
LEMMA InWindow ==
  ASSUME IndInv, NEW s \in Starts, NEW c \in Attached(s)
  PROVE  /\ c \in Agents /\ rec[c] # Never /\ rec[c] \in Nat
         /\ \E q \in Cluster(s) :
                q \in calls /\ s <= q.at /\ q.at <= rec[c] /\ rec[c] <= q.at + Window
<1>1. c \in Agents /\ rec[c] # Never /\ \E q \in Cluster(s) : q.at <= rec[c] /\ rec[c] <= q.at + Window
  BY DEF Attached, Matchable
<1> QED BY <1>1, Times DEF Cluster

(* A recommendation is never attached to a cluster that lacks the rows its *)
(* run logged within Gap before storing it (_match_recommendations); it    *)
(* rests on Window <= Gap.                                                 *)
THEOREM OwnRowsAttached == Spec => []OwnRowsTogether
<1>1. IndInv => OwnRowsTogether
  <2> SUFFICES ASSUME IndInv, NEW s \in Starts, NEW c \in Attached(s),
                      NEW r \in RowsOf(c), rec[c] - r.at <= Gap
               PROVE  r \in Cluster(s)
    BY DEF OwnRowsTogether
  <2> USE ConsoleAssumption
  <2>1. PICK q \in Cluster(s) :
            q \in calls /\ s <= q.at /\ q.at <= rec[c] /\ rec[c] <= q.at + Window
    BY InWindow
  <2>2. rec[c] \in Nat /\ rec[c] # Never /\ c \in Callers
    BY InWindow DEF Callers
  <2>3. r \in calls /\ r.by = c /\ r.at \in Nat /\ q.at \in Nat /\ s \in Nat
    BY <2>1, Times DEF RowsOf
  <2>4. r.at <= rec[c]
    BY <2>2, <2>3 DEF IndInv, GatewayInv, StoredLast
  <2>5. r.at >= s
    <3> SUFFICES ASSUME r.at < s PROVE FALSE
      BY <2>3
    <3>1. s - r.at > Gap
      BY <2>3, BeforeStart
    <3> QED BY <3>1, <2>1, <2>2, <2>3
  <2>6. ASSUME NEW t \in Starts, t <= r.at PROVE t <= s
    <3> SUFFICES ASSUME ~(t <= s) PROVE FALSE
      OBVIOUS
    <3>1. t \in Nat
      BY Times
    <3>2. q.at < t
      BY <2>1, <2>3, <3>1 DEF Cluster
    <3>3. t - q.at > Gap
      BY <2>1, <3>2, BeforeStart
    <3> QED BY <3>1, <3>3, <2>1, <2>2, <2>3, <2>4, <2>6
  <2> QED BY <2>3, <2>5, <2>6 DEF Cluster
<1> QED BY Invariance, <1>1, PTL

(* Of several recommendations that could be meant none is attached: the    *)
(* run whose row ends the cluster has stored its recommendation, if at     *)
(* all, after that row (StoredLast), so it is one of the candidates and    *)
(* can only be the only one (_match_recommendations).                      *)
THEOREM NeverGuessed == Spec => []MatchNotGuessed
<1>1. IndInv => MatchNotGuessed
  <2> SUFFICES ASSUME IndInv, NEW s \in Starts, NEW c \in Attached(s),
                      NEW r \in LastRows(s),
                      r.by \in Agents, rec[r.by] # Never, rec[r.by] <= r.at + Window
               PROVE  r.by = c
    BY DEF MatchNotGuessed
  <2>1. r \in Cluster(s) /\ \A q \in Cluster(s) : q.at <= r.at
    BY DEF LastRows
  <2>2. r \in calls /\ r \in log /\ r.at \in Nat /\ rec[r.by] \in Nat
    BY <2>1, Times DEF Cluster
  <2>3. r.at <= rec[r.by]
    BY <2>2 DEF IndInv, GatewayInv, StoredLast, Callers
  <2>4. \A q \in Cluster(s) : q.at \in Nat
    BY Times DEF Cluster
  <2>5. \A q \in Cluster(s) : q.at <= rec[r.by]
    BY <2>1, <2>2, <2>3, <2>4
  <2>6. r.by \in Matchable(s)
    BY <2>1, <2>5 DEF Matchable
  <2> QED BY <2>6 DEF Attached
<1> QED BY Invariance, <1>1, PTL

(* No recommendation is shown under two clusters ("matched 1:1").          *)
THEOREM AttachedOnce == Spec => []MatchedOnce
<1>1. IndInv => MatchedOnce
  <2> USE ConsoleAssumption
  <2>1. ASSUME IndInv, NEW s \in Starts, NEW t \in Starts, s < t,
               NEW c \in Attached(s), c \in Attached(t)
        PROVE  FALSE
    <3>1. PICK q \in Cluster(s) :
              q \in calls /\ s <= q.at /\ q.at <= rec[c] /\ rec[c] <= q.at + Window
      BY <2>1, InWindow
    <3>2. t <= rec[c] /\ rec[c] \in Nat
      <4>1. PICK p \in Cluster(t) : p \in calls /\ t <= p.at /\ p.at <= rec[c]
        BY <2>1, InWindow
      <4>2. rec[c] \in Nat /\ t \in Nat /\ p.at \in Nat
        BY <2>1, <4>1, InWindow, Times
      <4> QED BY <4>1, <4>2
    <3>3. s \in Nat /\ t \in Nat /\ q.at \in Nat
      BY <2>1, <3>1, Times
    <3>4. q.at < t
      BY <2>1, <3>1, <3>3 DEF Cluster
    <3>5. t - q.at > Gap
      BY <2>1, <3>1, <3>4, BeforeStart
    <3> QED BY <3>1, <3>2, <3>3, <3>5
  <2>2. ASSUME IndInv PROVE MatchedOnce
    <3> SUFFICES ASSUME NEW s \in Starts, NEW t \in Starts, s # t,
                        NEW c \in Attached(s), c \in Attached(t)
                 PROVE  FALSE
      BY DEF MatchedOnce
    <3>1. s < t \/ t < s
      BY <2>2, Times
    <3> QED BY <2>1, <2>2, <3>1
  <2> QED BY <2>2
<1> QED BY Invariance, <1>1, PTL
-----------------------------------------------------------------------------
(* Runs and clusters.                                                      *)

(* A row is the first of its set: no other has an earlier stamp.           *)
LEMMA Earliest ==
  ASSUME IndInv, NEW R \in SUBSET calls, R # {}
  PROVE  \E q \in R : \A r \in R : q.at <= r.at
<1> DEFINE T == {r.at : r \in R}
<1>1. T \in SUBSET Nat /\ T # {}
  BY Times
<1>2. PICK m \in T : \A n \in T : m <= n
  BY <1>1, LeastNumber
<1> QED BY <1>2

(* Among the starts that are not after a row there is a last one.          *)
LEMMA LastStart ==
  ASSUME IndInv, NEW r \in calls
  PROVE  \E s \in Starts : s <= r.at /\ \A t \in Starts : t <= r.at => t <= s
<1> DEFINE T == {r.at - t : t \in {u \in Starts : u <= r.at}}
<1>1. T \in SUBSET Nat
  BY Times
<1>2. T # {}
  <2>1. PICK q \in calls : \A p \in calls : q.at <= p.at
    BY Earliest
  <2>2. q.at \in Starts /\ q.at <= r.at
    BY <2>1, Times DEF Starts, Stamps
  <2> QED BY <2>2
<1> HIDE DEF T
<1>3. PICK m \in T : \A n \in T : m <= n
  BY <1>1, <1>2, LeastNumber
<1>4. PICK s \in Starts : s <= r.at /\ m = r.at - s
  BY <1>3 DEF T
<1>5. ASSUME NEW t \in Starts, t <= r.at PROVE t <= s
  <2>1. m <= r.at - t
    BY <1>3, <1>5 DEF T
  <2> QED BY <1>4, <1>5, <2>1, Times
<1> QED BY <1>4, <1>5

(* The rows of a run that follow each other within Gap lie in one cluster, *)
(* whatever rows of other runs lie between them (cluster_calls): no start  *)
(* can fall between two of them.                                           *)
THEOREM RunsWhole == Spec => []RunNotSplit
<1>1. IndInv => RunNotSplit
  <2> SUFFICES ASSUME IndInv, NEW c \in Callers, Close(c), RowsOf(c) # {}
               PROVE  \E s \in Starts : RowsOf(c) \subseteq Cluster(s)
    BY DEF RunNotSplit
  <2>1. RowsOf(c) \in SUBSET calls
    BY DEF RowsOf
  <2>2. PICK first \in RowsOf(c) : \A r \in RowsOf(c) : first.at <= r.at
    BY <2>1, Earliest
  <2>3. PICK s \in Starts : s <= first.at /\ \A t \in Starts : t <= first.at => t <= s
    BY <2>1, <2>2, LastStart
  <2>4. \A r \in RowsOf(c) : r.at \in Nat
    BY <2>1, Times
  <2>5. ASSUME NEW r \in RowsOf(c), NEW t \in Starts, t <= r.at PROVE t <= s
    <3> SUFFICES ASSUME ~(t <= s) PROVE FALSE
      OBVIOUS
    <3> DEFINE Later == {q \in RowsOf(c) : t <= q.at}
    <3>1. t \in Nat /\ s \in Nat /\ first.at < t
      BY <2>2, <2>3, <2>4, Times
    <3>2. PICK q \in Later : \A p \in Later : q.at <= p.at
      <4>1. Later \in SUBSET calls /\ Later # {}
        BY <2>1, <2>5
      <4> QED BY <4>1, Earliest
    <3>3. PICK p \in RowsOf(c) : p.at < q.at /\ q.at - p.at <= Gap
      BY <2>2, <2>4, <3>1, <3>2 DEF Close
    <3>4. p.at < t
      BY <2>4, <3>1, <3>2, <3>3
    <3>5. t - p.at > Gap
      BY <2>1, <3>4, BeforeStart
    <3> QED BY <2>4, <3>1, <3>2, <3>3, <3>5, ConsoleAssumption
  <2>6. \A r \in RowsOf(c) : r.at >= s
    BY <2>2, <2>3, <2>4, Times
  <2>7. RowsOf(c) \subseteq Cluster(s)
    BY <2>1, <2>5, <2>6 DEF Cluster
  <2> QED BY <2>7
<1> QED BY Invariance, <1>1, PTL
=============================================================================

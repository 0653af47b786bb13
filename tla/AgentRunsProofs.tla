--------------------------- MODULE AgentRunsProofs ---------------------------
(***************************************************************************)
(* Proofs about AgentRuns, for every set of users, requests and event      *)
(* contents and every bound, in four parts: types; one run and one         *)
(* current recommendation per user; what the cursor of the trigger means;  *)
(* who waits for whom.                                                     *)
(***************************************************************************)
EXTENDS AgentRuns, FiniteSetTheorems, TLAPS

-----------------------------------------------------------------------------
(* Type correctness of AgentRuns, for every set of users, requests and     *)
(* event contents and every bound.  One lemma per group of actions; a step *)
(* is typed part by part: the database, the ages, the process, the locals. *)

-----------------------------------------------------------------------------
(* What most actions share: variables left alone, and a coroutine's end.   *)

(* A step that leaves the database alone leaves it typed.                  *)
LEMMA DatabaseKept ==
    ASSUME DatabaseTyped, UNCHANGED dbVars
    PROVE  DatabaseTyped'
BY DEF DatabaseTyped, dbVars

(* A step that leaves the timers alone leaves them typed.                  *)
LEMMA AgesKept ==
    ASSUME AgesTyped, UNCHANGED timeVars
    PROVE  AgesTyped'
BY DEF AgesTyped, timeVars

(* A coroutine that forgets its locals leaves them typed.                  *)
LEMMA ForgetTyped ==
    ASSUME LocalsTyped, NEW a \in Actor, Forget(a)
    PROVE  LocalsTyped'
BY FS_EmptySet DEF LocalsTyped, Forget

(* The newest rows of a user are rows of the user, and finitely many.      *)
LEMMA NewestRowsTyped ==
    ASSUME DatabaseTyped, NEW u \in User, NEW n
    PROVE  /\ NewestRows(events[u], n) \in SUBSET Row
           /\ IsFiniteSet(NewestRows(events[u], n))
<1>1. NewestRows(events[u], n) \subseteq events[u]
  BY DEF NewestRows
<1>2. events[u] \subseteq Row /\ IsFiniteSet(events[u])
  BY DEF DatabaseTyped
<1> QED BY <1>1, <1>2, FS_Subset

-----------------------------------------------------------------------------
(* Each group of actions keeps the types.                                  *)

(* The steps of a request leave the state typed.                           *)
LEMMA RequestStepTyped ==
    ASSUME TypeOK, NEW a \in Request, RequestStep(a)
    PROVE  TypeOK'
<1> a \in Actor /\ a # Digest
  BY ActorAssumption DEF Actor
<1>1. CASE IngestCommit(a)
  <2>0. user[a] \in User
    BY <1>1 DEF TypeOK, ProcessTyped, IngestCommit, Goto
  <2>1. DatabaseTyped'
    BY <1>1, <2>0, FS_Union DEF TypeOK, DatabaseTyped, IngestCommit, LocalsTyped
  <2>2. AgesTyped'
    BY <1>1, AgesKept DEF TypeOK, IngestCommit
  <2>3. ProcessTyped'
    BY <1>1, <2>0 DEF TypeOK, ProcessTyped, IngestCommit, Goto, digestVars, PC, IngestPC
  <2>4. LocalsTyped'
    BY <1>1, <2>0, FS_EmptySet DEF TypeOK, LocalsTyped, IngestCommit
  <2> QED BY <2>1, <2>2, <2>3, <2>4 DEF TypeOK
<1>2. CASE GateCount(a)
  <2>0. user[a] \in User
    BY <1>2 DEF TypeOK, ProcessTyped, GateCount, Goto
  <2>1. DatabaseTyped'
    BY <1>2, DatabaseKept DEF TypeOK, GateCount
  <2>2. AgesTyped'
    BY <1>2, AgesKept DEF TypeOK, GateCount
  <2>3. ProcessTyped'
    BY <1>2, <2>0 DEF TypeOK, ProcessTyped, GateCount, Goto, digestVars, PC, IngestPC
  <2>4. LocalsTyped'
    BY <1>2, <2>0, FS_CardinalityType DEF TypeOK, LocalsTyped, GateCount, DatabaseTyped
  <2> QED BY <2>1, <2>2, <2>3, <2>4 DEF TypeOK
<1>3. CASE GateModel(a)
  <2>0. user[a] \in User
    BY <1>3 DEF TypeOK, ProcessTyped, GateModel
  <2>1. DatabaseTyped'
    BY <1>3, DatabaseKept DEF TypeOK, GateModel
  <2>2. AgesTyped'
    BY <1>3, AgesKept DEF TypeOK, GateModel
  <2>3. ProcessTyped'
    BY <1>3, <2>0 DEF TypeOK, ProcessTyped, GateModel, digestVars, PC, IngestPC, End, Forget, Finished, localVars
  <2>4. LocalsTyped'
    <3>1. CASE End(a)
      BY <3>1, ForgetTyped DEF TypeOK, End
    <3>2. CASE ~End(a)
      <4>1. /\ count' = [count EXCEPT ![a] = @ - cursor[user[a]]]
            /\ ~(count[a] - cursor[user[a]] <= 0)
            /\ cool' = [cool EXCEPT ![a] = user[a] \in cooling]
            /\ UNCHANGED <<rows, olds>>
        BY <1>3, <3>2 DEF GateModel
      <4>2. count[a] - cursor[user[a]] \in Nat
        BY <2>0, <4>1 DEF TypeOK, LocalsTyped, DatabaseTyped
      <4>3. count' \in [Actor -> Nat]
        BY <4>1, <4>2 DEF TypeOK, LocalsTyped
      <4>4. (user[a] \in cooling) \in BOOLEAN
        OBVIOUS
      <4>5. cool' \in [Actor -> BOOLEAN]
        BY <4>1, <4>4 DEF TypeOK, LocalsTyped
      <4> QED BY <4>1, <4>3, <4>5 DEF TypeOK, LocalsTyped
    <3> QED BY <3>1, <3>2
  <2> QED BY <2>1, <2>2, <2>3, <2>4 DEF TypeOK
<1>4. CASE GateModelMissing(a)
  <2>0. user[a] \in User
    BY <1>4 DEF TypeOK, ProcessTyped, GateModelMissing, Goto
  <2>1. DatabaseTyped'
    BY <1>4, DatabaseKept DEF TypeOK, GateModelMissing
  <2>2. AgesTyped'
    BY <1>4, AgesKept DEF TypeOK, GateModelMissing
  <2>3. ProcessTyped'
    BY <1>4, <2>0 DEF TypeOK, ProcessTyped, GateModelMissing, Goto, digestVars, PC, IngestPC, localVars
  <2>4. LocalsTyped'
    BY <1>4, <2>0 DEF TypeOK, LocalsTyped, GateModelMissing, localVars
  <2> QED BY <2>1, <2>2, <2>3, <2>4 DEF TypeOK
<1>5. CASE GateCreate(a)
  <2>0. user[a] \in User
    BY <1>5 DEF TypeOK, ProcessTyped, GateCreate
  <2>1. DatabaseTyped'
    BY <1>5, DatabaseKept DEF TypeOK, GateCreate
  <2>2. AgesTyped'
    BY <1>5, AgesKept DEF TypeOK, GateCreate
  <2>3. ProcessTyped'
    BY <1>5, <2>0 DEF TypeOK, ProcessTyped, GateCreate, digestVars, PC, IngestPC, End, Forget, Finished, localVars
  <2>4. LocalsTyped'
    <3>1. CASE End(a)
      BY <3>1, ForgetTyped DEF TypeOK, End
    <3>2. CASE ~End(a)
      BY <1>5, <2>0, <3>2 DEF TypeOK, LocalsTyped, GateCreate, localVars
    <3> QED BY <3>1, <3>2
  <2> QED BY <2>1, <2>2, <2>3, <2>4 DEF TypeOK
<1>6. CASE GateFetch(a)
  <2>0. user[a] \in User
    BY <1>6 DEF TypeOK, ProcessTyped, GateFetch
  <2>1. DatabaseTyped'
    BY <1>6, <2>0 DEF TypeOK, DatabaseTyped, GateFetch, CommitModel
  <2>2. AgesTyped'
    BY <1>6, AgesKept DEF TypeOK, GateFetch
  <2>3. ProcessTyped'
    BY <1>6, <2>0 DEF TypeOK, ProcessTyped, GateFetch, digestVars, PC, IngestPC, CommitModel, End, Forget, Finished, localVars
  <2>4. LocalsTyped'
    <3>1. CASE End(a)
      BY <3>1, ForgetTyped DEF TypeOK, End
    <3>2. CASE ~End(a)
      BY <1>6, <2>0, <3>2, NewestRowsTyped DEF TypeOK, LocalsTyped, GateFetch
    <3> QED BY <3>1, <3>2
  <2> QED BY <2>1, <2>2, <2>3, <2>4 DEF TypeOK
<1>7. CASE GateDecide(a)
  <2>0. user[a] \in User
    BY <1>7 DEF TypeOK, ProcessTyped, GateDecide
  <2>1. DatabaseTyped'
    BY <1>7, <2>0 DEF TypeOK, DatabaseTyped, GateDecide, CommitModel
  <2>2. AgesTyped'
    BY <1>7, AgesKept DEF TypeOK, GateDecide
  <2>3. ProcessTyped'
    BY <1>7, <2>0 DEF TypeOK, ProcessTyped, GateDecide, digestVars, PC, IngestPC, CommitModel, End, Forget, Finished, localVars
  <2>4. LocalsTyped'
    <3>1. CASE End(a)
      BY <3>1, ForgetTyped DEF TypeOK, End
    <3>2. CASE ~End(a)
      <4>1. /\ rows' = [rows EXCEPT ![a] = {}]
            /\ count' = [count EXCEPT ![a] = 0]
            /\ cool' = [cool EXCEPT ![a] = FALSE]
            /\ UNCHANGED olds
        BY <1>7, <3>2 DEF GateDecide
      <4> QED BY <4>1, FS_EmptySet DEF TypeOK, LocalsTyped
    <3> QED BY <3>1, <3>2
  <2> QED BY <2>1, <2>2, <2>3, <2>4 DEF TypeOK
<1>8. CASE RequestFails(a)
  <2>1. DatabaseTyped'
    BY <1>8, DatabaseKept DEF TypeOK, RequestFails
  <2>2. AgesTyped'
    BY <1>8, AgesKept DEF TypeOK, RequestFails
  <2>3. ProcessTyped'
    BY <1>8 DEF TypeOK, ProcessTyped, RequestFails, digestVars, PC, IngestPC, End, Forget, Finished, localVars
  <2>4. LocalsTyped'
    BY <1>8, ForgetTyped DEF TypeOK, RequestFails, End
  <2> QED BY <2>1, <2>2, <2>3, <2>4 DEF TypeOK
<1> QED BY <1>1, <1>2, <1>3, <1>4, <1>5, <1>6, <1>7, <1>8 DEF RequestStep, RequestProgress

(* So does a new batch of events.                                          *)
LEMMA IngestInsertTyped ==
    ASSUME TypeOK, NEW a \in Request, IngestInsert(a)
    PROVE  TypeOK'
<1> a \in Actor /\ a # Digest
  BY ActorAssumption DEF Actor
<1>1. CASE IngestInsert(a)
  <2>1. DatabaseTyped'
    BY <1>1, DatabaseKept DEF TypeOK, IngestInsert
  <2>2. AgesTyped'
    BY <1>1, BoundAssumption DEF TypeOK, AgesTyped, IngestInsert
  <2>3. ProcessTyped'
    BY <1>1 DEF TypeOK, ProcessTyped, IngestInsert, Goto, digestVars, PC, IngestPC
  <2>4. LocalsTyped'
    <3>1. PICK u \in User, n \in 0..MaxBatch :
             \E batch \in [1..n -> Kind] :
                rows' = [rows EXCEPT ![a] =
                   {[at |-> clock + i - 1, what |-> batch[i]] : i \in 1..n}]
      BY <1>1 DEF IngestInsert
    <3>2. PICK batch \in [1..n -> Kind] :
             rows' = [rows EXCEPT ![a] =
                {[at |-> clock + i - 1, what |-> batch[i]] : i \in 1..n}]
      BY <3>1
    <3> DEFINE new == {[at |-> clock + i - 1, what |-> batch[i]] : i \in 1..n}
    <3>3. IsFiniteSet(new)
      <4>1. IsFiniteSet(1..n)
        BY FS_Interval, BoundAssumption
      <4> DEFINE f == [i \in 1..n |-> [at |-> clock + i - 1, what |-> batch[i]]]
      <4>2. f \in [1..n -> new]
        OBVIOUS
      <4>3. \A r \in new : \E i \in 1..n : f[i] = r
        OBVIOUS
      <4> HIDE DEF f, new
      <4>4. f \in Surjection(1..n, new)
        BY <4>2, <4>3 DEF Surjection
      <4> QED BY <4>1, <4>4, FS_Surjection
    <3>4. new \subseteq Row
      BY BoundAssumption DEF TypeOK, AgesTyped, Row
    <3>5. rows' = [rows EXCEPT ![a] = new]
      BY <3>2
    <3> HIDE DEF new
    <3> QED BY <1>1, <3>3, <3>4, <3>5 DEF TypeOK, LocalsTyped, IngestInsert
  <2> QED BY <2>1, <2>2, <2>3, <2>4 DEF TypeOK
<1> QED BY <1>1 DEF IngestInsert

(* And the steps of a run.                                                 *)
LEMMA RunStepTyped ==
    ASSUME TypeOK, NEW a \in Actor, RunStep(a)
    PROVE  TypeOK'
<1>1. CASE Claim(a)
  <2>0. user[a] \in User
    BY <1>1 DEF TypeOK, ProcessTyped, Claim
  <2>1. DatabaseTyped'
    BY <1>1, DatabaseKept DEF TypeOK, Claim
  <2>2. AgesTyped'
    BY <1>1, AgesKept DEF TypeOK, Claim
  <2>3. ProcessTyped'
    BY <1>1, <2>0 DEF TypeOK, ProcessTyped, Claim, digestVars, PC, RunPC, DigestPC, End, Forget, Finished, localVars
  <2>4. LocalsTyped'
    <3>1. CASE End(a)
      BY <3>1, ForgetTyped DEF TypeOK, End
    <3>2. CASE ~End(a)
      BY <1>1, <2>0, <3>2 DEF TypeOK, LocalsTyped, Claim, localVars
    <3> QED BY <3>1, <3>2
  <2> QED BY <2>1, <2>2, <2>3, <2>4 DEF TypeOK
<1>2. CASE ReadModel(a)
  <2>0. user[a] \in User
    BY <1>2 DEF TypeOK, ProcessTyped, ReadModel, Goto
  <2>1. DatabaseTyped'
    BY <1>2, DatabaseKept DEF TypeOK, ReadModel
  <2>2. AgesTyped'
    BY <1>2, AgesKept DEF TypeOK, ReadModel
  <2>3. ProcessTyped'
    BY <1>2, <2>0 DEF TypeOK, ProcessTyped, ReadModel, Goto, digestVars, PC, IngestPC, RunPC, localVars
  <2>4. LocalsTyped'
    BY <1>2, <2>0 DEF TypeOK, LocalsTyped, ReadModel, localVars
  <2> QED BY <2>1, <2>2, <2>3, <2>4 DEF TypeOK
<1>3. CASE ReadEvents(a)
  <2>0. user[a] \in User
    BY <1>3 DEF TypeOK, ProcessTyped, ReadEvents, Goto
  <2>1. DatabaseTyped'
    BY <1>3, DatabaseKept DEF TypeOK, ReadEvents
  <2>2. AgesTyped'
    BY <1>3, AgesKept DEF TypeOK, ReadEvents
  <2>3. ProcessTyped'
    BY <1>3, <2>0 DEF TypeOK, ProcessTyped, ReadEvents, Goto, digestVars, PC, IngestPC, RunPC
  <2>4. LocalsTyped'
    BY <1>3, <2>0, NewestRowsTyped DEF TypeOK, LocalsTyped, ReadEvents
  <2> QED BY <2>1, <2>2, <2>3, <2>4 DEF TypeOK
<1>4. CASE ReadCount(a)
  <2>0. user[a] \in User
    BY <1>4 DEF TypeOK, ProcessTyped, ReadCount, Goto
  <2>1. DatabaseTyped'
    BY <1>4, DatabaseKept DEF TypeOK, ReadCount
  <2>2. AgesTyped'
    BY <1>4, AgesKept DEF TypeOK, ReadCount
  <2>3. ProcessTyped'
    BY <1>4, <2>0 DEF TypeOK, ProcessTyped, ReadCount, Goto, digestVars, PC, IngestPC, RunPC
  <2>4. LocalsTyped'
    BY <1>4, <2>0, FS_CardinalityType DEF TypeOK, LocalsTyped, ReadCount, DatabaseTyped
  <2> QED BY <2>1, <2>2, <2>3, <2>4 DEF TypeOK
<1>5. CASE Infer(a)
  <2>0. user[a] \in User
    BY <1>5 DEF TypeOK, ProcessTyped, Infer, Goto
  <2>1. DatabaseTyped'
    <3>1. count[a] \in Nat
      BY DEF TypeOK, LocalsTyped
    <3>2. rows[a] \subseteq Row
      BY DEF TypeOK, LocalsTyped
    <3>3. cursor' \in [User -> Nat]
      BY <1>5, <3>1 DEF TypeOK, DatabaseTyped, Infer
    <3>4. seen' \in [User -> SUBSET Row]
      BY <1>5, <3>2 DEF TypeOK, DatabaseTyped, Infer
    <3>5. profile' \in SUBSET User
      BY <1>5, <2>0 DEF TypeOK, DatabaseTyped, Infer
    <3> QED BY <1>5, <3>3, <3>4, <3>5 DEF TypeOK, DatabaseTyped, Infer
  <2>2. AgesTyped'
    BY <1>5, <2>0 DEF TypeOK, AgesTyped, Infer
  <2>3. ProcessTyped'
    BY <1>5, <2>0 DEF TypeOK, ProcessTyped, Infer, Goto, digestVars, PC, IngestPC, RunPC
  <2>4. LocalsTyped'
    BY <1>5, <2>0, FS_EmptySet DEF TypeOK, LocalsTyped, Infer
  <2> QED BY <2>1, <2>2, <2>3, <2>4 DEF TypeOK
<1>6. CASE RecommendNothing(a)
  <2>0. user[a] \in User
    BY <1>6 DEF TypeOK, ProcessTyped, RecommendNothing, Goto
  <2>1. DatabaseTyped'
    BY <1>6, DatabaseKept DEF TypeOK, RecommendNothing
  <2>2. AgesTyped'
    BY <1>6, AgesKept DEF TypeOK, RecommendNothing
  <2>3. ProcessTyped'
    BY <1>6, <2>0 DEF TypeOK, ProcessTyped, RecommendNothing, Goto, digestVars, PC, IngestPC, RunPC, localVars
  <2>4. LocalsTyped'
    BY <1>6, <2>0 DEF TypeOK, LocalsTyped, RecommendNothing, localVars
  <2> QED BY <2>1, <2>2, <2>3, <2>4 DEF TypeOK
<1>7. CASE StoreRead(a)
  <2>0. user[a] \in User
    BY <1>7 DEF TypeOK, ProcessTyped, StoreRead, Goto
  <2>1. DatabaseTyped'
    BY <1>7, DatabaseKept DEF TypeOK, StoreRead
  <2>2. AgesTyped'
    BY <1>7, AgesKept DEF TypeOK, StoreRead
  <2>3. ProcessTyped'
    BY <1>7, <2>0 DEF TypeOK, ProcessTyped, StoreRead, Goto, digestVars, PC, IngestPC, RunPC
  <2>4. LocalsTyped'
    BY <1>7, <2>0 DEF TypeOK, LocalsTyped, StoreRead, DatabaseTyped, Active
  <2> QED BY <2>1, <2>2, <2>3, <2>4 DEF TypeOK
<1>8. CASE StoreCommit(a)
  <2>0. user[a] \in User
    BY <1>8 DEF TypeOK, ProcessTyped, StoreCommit, Goto
  <2>1. DatabaseTyped'
    <3>1. [at |-> clock, active |-> TRUE] \in Rec
      BY DEF TypeOK, AgesTyped, Rec
    <3>2. Deactivated(olds[a]) \subseteq Rec
      <4>1. olds[a] \subseteq Rec
        BY DEF TypeOK, LocalsTyped
      <4> QED BY <4>1 DEF Deactivated, Rec
    <3>3. recs' \in [User -> SUBSET Rec]
      <4>1. recs \in [User -> SUBSET Rec]
        BY DEF TypeOK, DatabaseTyped
      <4>2. (recs[user[a]] \ olds[a]) \cup Deactivated(olds[a])
                \cup {[at |-> clock, active |-> TRUE]} \in SUBSET Rec
        BY <2>0, <3>1, <3>2, <4>1
      <4> QED BY <1>8, <2>0, <4>1, <4>2 DEF StoreCommit
    <3> QED BY <1>8, <3>3 DEF TypeOK, DatabaseTyped, StoreCommit
  <2>2. AgesTyped'
    BY <1>8, <2>0 DEF TypeOK, AgesTyped, StoreCommit
  <2>3. ProcessTyped'
    BY <1>8, <2>0 DEF TypeOK, ProcessTyped, StoreCommit, Goto, digestVars, PC, IngestPC, RunPC
  <2>4. LocalsTyped'
    BY <1>8, <2>0 DEF TypeOK, LocalsTyped, StoreCommit
  <2> QED BY <2>1, <2>2, <2>3, <2>4 DEF TypeOK
<1>9. CASE RunFails(a)
  <2>1. DatabaseTyped'
    BY <1>9, DatabaseKept DEF TypeOK, RunFails
  <2>2. AgesTyped'
    BY <1>9, AgesKept DEF TypeOK, RunFails
  <2>3. ProcessTyped'
    BY <1>9 DEF TypeOK, ProcessTyped, RunFails, Goto, digestVars, PC, IngestPC, RunPC
  <2>4. LocalsTyped'
    BY <1>9, FS_EmptySet DEF TypeOK, LocalsTyped, RunFails
  <2> QED BY <2>1, <2>2, <2>3, <2>4 DEF TypeOK
<1>10. CASE Release(a)
  <2>0. user[a] \in User
    BY <1>10 DEF TypeOK, ProcessTyped, Release
  <2>1. DatabaseTyped'
    BY <1>10, DatabaseKept DEF TypeOK, Release
  <2>2. AgesTyped'
    BY <1>10, AgesKept DEF TypeOK, Release
  <2>3. ProcessTyped'
    BY <1>10, <2>0 DEF TypeOK, ProcessTyped, Release, digestVars, PC, DigestPC, End, Forget, Finished, localVars
  <2>4. LocalsTyped'
    BY <1>10, ForgetTyped DEF TypeOK, Release, End
  <2> QED BY <2>1, <2>2, <2>3, <2>4 DEF TypeOK
<1> QED BY <1>1, <1>2, <1>3, <1>4, <1>5, <1>6, <1>7, <1>8, <1>9, <1>10 DEF RunStep, RunProgress

(* And those of the digest.                                                *)
LEMMA DigestStepTyped ==
    ASSUME TypeOK, DigestStart \/ DigestStep
    PROVE  TypeOK'
<1> Digest \in Actor
  BY DEF Actor
<1>1. CASE DigestStart
  <2>1. DatabaseTyped'
    BY <1>1, DatabaseKept DEF TypeOK, DigestStart
  <2>2. AgesTyped'
    BY <1>1, AgesKept DEF TypeOK, DigestStart
  <2>3. ProcessTyped'
    BY <1>1 DEF TypeOK, ProcessTyped, DigestStart, Goto, digestVars, PC, IngestPC, DigestPC, RunPC, localVars
  <2>4. LocalsTyped'
    BY <1>1 DEF TypeOK, LocalsTyped, DigestStart, localVars
  <2> QED BY <2>1, <2>2, <2>3, <2>4 DEF TypeOK
<1>2. CASE DigestSelect
  <2>1. DatabaseTyped'
    BY <1>2, DatabaseKept DEF TypeOK, DigestSelect
  <2>2. AgesTyped'
    BY <1>2, AgesKept DEF TypeOK, DigestSelect
  <2>3. ProcessTyped'
    BY <1>2 DEF TypeOK, ProcessTyped, DigestSelect, Goto, digestVars, PC, IngestPC, DigestPC, RunPC
  <2>4. LocalsTyped'
    BY <1>2 DEF TypeOK, LocalsTyped, DigestSelect
  <2> QED BY <2>1, <2>2, <2>3, <2>4 DEF TypeOK
<1>3. CASE DigestEnd
  <2>1. DatabaseTyped'
    BY <1>3, DatabaseKept DEF TypeOK, DigestEnd
  <2>2. AgesTyped'
    BY <1>3, AgesKept DEF TypeOK, DigestEnd
  <2>3. ProcessTyped'
    BY <1>3 DEF TypeOK, ProcessTyped, DigestEnd, Goto, digestVars, PC, IngestPC, DigestPC, RunPC, localVars
  <2>4. LocalsTyped'
    BY <1>3 DEF TypeOK, LocalsTyped, DigestEnd, localVars
  <2> QED BY <2>1, <2>2, <2>3, <2>4 DEF TypeOK
<1>4. CASE DigestLastRec
  <2>0. user[Digest] \in User
    BY <1>4 DEF TypeOK, ProcessTyped, DigestLastRec
  <2>1. DatabaseTyped'
    BY <1>4, DatabaseKept DEF TypeOK, DigestLastRec
  <2>2. AgesTyped'
    BY <1>4, AgesKept DEF TypeOK, DigestLastRec
  <2>3. ProcessTyped'
    BY <1>4, <2>0 DEF TypeOK, ProcessTyped, DigestLastRec, digestVars, PC, DigestPC
  <2>4. LocalsTyped'
    BY <1>4, <2>0 DEF TypeOK, LocalsTyped, DigestLastRec, DatabaseTyped, Rec
  <2> QED BY <2>1, <2>2, <2>3, <2>4 DEF TypeOK
<1>5. CASE DigestNewEvents
  <2>0. user[Digest] \in User
    BY <1>5 DEF TypeOK, ProcessTyped, DigestNewEvents
  <2>1. DatabaseTyped'
    BY <1>5, DatabaseKept DEF TypeOK, DigestNewEvents
  <2>2. AgesTyped'
    BY <1>5, AgesKept DEF TypeOK, DigestNewEvents
  <2>3. ProcessTyped'
    BY <1>5, <2>0 DEF TypeOK, ProcessTyped, DigestNewEvents, digestVars, PC, DigestPC, End, Forget, Finished, localVars
  <2>4. LocalsTyped'
    <3>1. CASE End(Digest)
      BY <3>1, ForgetTyped DEF TypeOK, End
    <3>2. CASE ~End(Digest)
      BY <1>5, <2>0, <3>2, FS_Subset DEF TypeOK, LocalsTyped, DigestNewEvents, DatabaseTyped
    <3> QED BY <3>1, <3>2
  <2> QED BY <2>1, <2>2, <2>3, <2>4 DEF TypeOK
<1>6. CASE DigestFreshness
  <2>0. user[Digest] \in User
    BY <1>6 DEF TypeOK, ProcessTyped, DigestFreshness
  <2>1. DatabaseTyped'
    BY <1>6, DatabaseKept DEF TypeOK, DigestFreshness
  <2>2. AgesTyped'
    BY <1>6, AgesKept DEF TypeOK, DigestFreshness
  <2>3. ProcessTyped'
    BY <1>6, <2>0 DEF TypeOK, ProcessTyped, DigestFreshness, digestVars, PC, DigestPC, End, Forget, Finished, localVars
  <2>4. LocalsTyped'
    <3>1. CASE End(Digest)
      BY <3>1, ForgetTyped DEF TypeOK, End
    <3>2. CASE ~End(Digest)
      BY <1>6, <2>0, <3>2, FS_EmptySet DEF TypeOK, LocalsTyped, DigestFreshness
    <3> QED BY <3>1, <3>2
  <2> QED BY <2>1, <2>2, <2>3, <2>4 DEF TypeOK
<1>7. CASE DigestAborts
  <2>1. DatabaseTyped'
    BY <1>7, DatabaseKept DEF TypeOK, DigestAborts
  <2>2. AgesTyped'
    BY <1>7, AgesKept DEF TypeOK, DigestAborts
  <2>3. ProcessTyped'
    BY <1>7 DEF TypeOK, ProcessTyped, DigestAborts, digestVars, PC, Forget
  <2>4. LocalsTyped'
    BY <1>7, ForgetTyped DEF TypeOK, DigestAborts
  <2> QED BY <2>1, <2>2, <2>3, <2>4 DEF TypeOK
<1> QED BY <1>1, <1>2, <1>3, <1>4, <1>5, <1>6, <1>7 DEF DigestStep, DigestProgress

(* And the passing of time and the crash of the process.                   *)
LEMMA WorldStepTyped ==
    ASSUME TypeOK,
           NewDay \/ Crash \/ \E u \in User : CooldownEnds(u) \/ RecommendationAges(u)
    PROVE  TypeOK'
<1>1. CASE NewDay
  <2>1. DatabaseTyped'
    BY <1>1, DatabaseKept DEF TypeOK, NewDay
  <2>2. AgesTyped'
    BY <1>1, AgesKept DEF TypeOK, NewDay
  <2>3. ProcessTyped'
    BY <1>1 DEF TypeOK, ProcessTyped, NewDay, localVars
  <2>4. LocalsTyped'
    BY <1>1 DEF TypeOK, LocalsTyped, NewDay, localVars
  <2> QED BY <2>1, <2>2, <2>3, <2>4 DEF TypeOK
<1>2. CASE Crash
  <2>1. DatabaseTyped'
    BY <1>2, DatabaseKept DEF TypeOK, Crash
  <2>2. AgesTyped'
    BY <1>2, AgesKept DEF TypeOK, Crash
  <2>3. ProcessTyped'
    BY <1>2 DEF TypeOK, ProcessTyped, Crash, PC
  <2>4. LocalsTyped'
    BY <1>2, FS_EmptySet DEF TypeOK, LocalsTyped, Crash
  <2> QED BY <2>1, <2>2, <2>3, <2>4 DEF TypeOK
<1>3. CASE \E u \in User : CooldownEnds(u)
  <2>1. DatabaseTyped'
    BY <1>3, DatabaseKept DEF TypeOK, CooldownEnds
  <2>2. AgesTyped'
    BY <1>3 DEF TypeOK, AgesTyped, CooldownEnds
  <2>3. ProcessTyped'
    BY <1>3 DEF TypeOK, ProcessTyped, CooldownEnds, digestVars, localVars
  <2>4. LocalsTyped'
    BY <1>3 DEF TypeOK, LocalsTyped, CooldownEnds, localVars
  <2> QED BY <2>1, <2>2, <2>3, <2>4 DEF TypeOK
<1>4. CASE \E u \in User : RecommendationAges(u)
  <2>1. DatabaseTyped'
    BY <1>4, DatabaseKept DEF TypeOK, RecommendationAges
  <2>2. AgesTyped'
    BY <1>4 DEF TypeOK, AgesTyped, RecommendationAges
  <2>3. ProcessTyped'
    BY <1>4 DEF TypeOK, ProcessTyped, RecommendationAges, digestVars, localVars
  <2>4. LocalsTyped'
    BY <1>4 DEF TypeOK, LocalsTyped, RecommendationAges, localVars
  <2> QED BY <2>1, <2>2, <2>3, <2>4 DEF TypeOK
<1> QED BY <1>1, <1>2, <1>3, <1>4 DEF CooldownEnds
-----------------------------------------------------------------------------
(* The initial state is typed.                                             *)
LEMMA InitTyped == Init => TypeOK
BY FS_EmptySet DEF Init, TypeOK, DatabaseTyped, AgesTyped, ProcessTyped,
   LocalsTyped, PC

(* Every step leaves the state typed.                                      *)
LEMMA NextTyped == TypeOK /\ [Next]_vars => TypeOK'
<1> SUFFICES ASSUME TypeOK, [Next]_vars PROVE TypeOK'
  OBVIOUS
<1>1. CASE Next
  BY <1>1, RequestStepTyped, IngestInsertTyped, RunStepTyped, DigestStepTyped,
     WorldStepTyped DEF Next
<1>2. CASE UNCHANGED vars
  BY <1>2 DEF TypeOK, DatabaseTyped, AgesTyped, ProcessTyped, LocalsTyped,
     vars, dbVars, timeVars, localVars, digestVars
<1> QED BY <1>1, <1>2

(* In every reachable state each variable, and each local a coroutine      *)
(* holds, has its type: cursors and counts are numbers, what is held for a *)
(* user belongs to a user, and no table or local is infinite.              *)
THEOREM TypeCorrect == Spec => []TypeOK
BY InitTyped, NextTyped, PTL DEF Spec

-----------------------------------------------------------------------------
(* One run per user and one current recommendation per user, for every set *)
(* of users, requests and event contents: the guard of runner.py is exact, *)
(* therefore what store.py has read is still true when it writes,          *)
(* therefore AgentRuns implements RecommendationFeed.                      *)
(*                                                                         *)
(* AtMostOneActive is not inductive: StoreCommit deactivates the rows it   *)
(* has read, so the invariant says that those are still the active ones    *)
(* (StoreReads), which SlotsExact keeps true while the reader is between   *)
(* its two statements.                                                     *)

StoreReads ==
    \A a \in Actor : pc[a] = "storeCommit" => olds[a] = Active(user[a])

RecsInThePast ==
    \A u \in User : \A r \in recs[u] : r.at < clock

StoreInv == StoreReads /\ AtMostOneActive /\ RecsInThePast

SlotsInv == TypeOK /\ SlotsExact /\ StoreInv

-----------------------------------------------------------------------------
(* Most steps neither begin nor end a run, and do not write a              *)
(* recommendation.                                                         *)

RunsKept ==
    /\ UNCHANGED inFlight
    /\ \A b \in Actor :
         /\ pc'[b] \in RunPC <=> pc[b] \in RunPC
         /\ pc[b] \in RunPC => user'[b] = user[b]

NothingStored ==
    /\ UNCHANGED recs
    /\ clock' \in Nat /\ clock' >= clock
    /\ \A b \in Actor : pc'[b] = "storeCommit" =>
         pc[b] = "storeCommit" /\ olds'[b] = olds[b] /\ user'[b] = user[b]

(* The guard stays exact when no run begins or ends.                       *)
LEMMA SlotsKept ==
    ASSUME SlotsExact, RunsKept
    PROVE  SlotsExact'
<1>1. \A u \in User : Running(u)' = Running(u)
  BY DEF RunsKept, Running
<1> QED BY <1>1 DEF SlotsExact, RunsKept

(* What the storing runs have read stays true when nothing is written.     *)
LEMMA StoreKept ==
    ASSUME TypeOK, StoreInv, NothingStored
    PROVE  StoreInv'
<1>1. \A u \in User : Active(u)' = Active(u)
  BY DEF NothingStored, Active
<1>2. \A b \in Actor : pc[b] = "storeCommit" => user[b] \in User
  BY DEF TypeOK, ProcessTyped
<1>3. StoreReads'
  <2> SUFFICES ASSUME NEW b \in Actor, pc'[b] = "storeCommit"
               PROVE  olds'[b] = Active(user[b])'
    BY DEF StoreReads
  <2>1. /\ pc[b] = "storeCommit" /\ olds'[b] = olds[b]
        /\ user'[b] = user[b]
    BY DEF NothingStored
  <2>2. Active(user[b])' = Active(user[b])
    BY <2>1 DEF NothingStored, Active
  <2> QED BY <2>1, <2>2 DEF StoreInv, StoreReads
<1>4. AtMostOneActive'
  BY <1>1 DEF StoreInv, AtMostOneActive
<1>5. RecsInThePast'
  <2> SUFFICES ASSUME NEW u \in User, NEW r \in recs[u]
               PROVE  r.at < clock'
    BY DEF RecsInThePast, NothingStored
  <2>1. r.at < clock /\ clock' >= clock
    BY DEF StoreInv, RecsInThePast, NothingStored
  <2>2. r.at \in Nat /\ clock \in Nat /\ clock' \in Nat
    BY DEF TypeOK, DatabaseTyped, AgesTyped, Rec, NothingStored
  <2> QED BY <2>1, <2>2
<1> QED BY <1>3, <1>4, <1>5 DEF StoreInv

(* A request, until it becomes a background task, does neither.            *)
LEMMA RequestStepQuiet ==
    ASSUME TypeOK, NEW a \in Request, IngestInsert(a) \/ RequestStep(a)
    PROVE  RunsKept /\ NothingStored
<1> a \in Actor /\ a # Digest
  BY ActorAssumption DEF Actor
<1>1. CASE IngestInsert(a)
  BY <1>1 DEF TypeOK, AgesTyped, ProcessTyped, LocalsTyped, RunsKept, NothingStored,
     IngestInsert, RunPC, Goto, dbVars
<1>2. CASE IngestCommit(a)
  BY <1>2 DEF TypeOK, AgesTyped, ProcessTyped, LocalsTyped, RunsKept, NothingStored,
     IngestCommit, RunPC, Goto, dbVars, timeVars, localVars
<1>3. CASE GateCount(a)
  BY <1>3 DEF TypeOK, AgesTyped, ProcessTyped, LocalsTyped, RunsKept, NothingStored,
     GateCount, RunPC, Goto, dbVars, timeVars, localVars
<1>4. CASE GateModel(a)
  BY <1>4 DEF TypeOK, AgesTyped, ProcessTyped, LocalsTyped, RunsKept, NothingStored,
     GateModel, RunPC, End, Finished, Forget, dbVars, timeVars, localVars
<1>5. CASE GateModelMissing(a)
  BY <1>5 DEF TypeOK, AgesTyped, ProcessTyped, LocalsTyped, RunsKept, NothingStored,
     GateModelMissing, RunPC, Goto, dbVars, timeVars, localVars
<1>6. CASE GateCreate(a)
  BY <1>6 DEF TypeOK, AgesTyped, ProcessTyped, LocalsTyped, RunsKept, NothingStored,
     GateCreate, RunPC, End, Finished, Forget, dbVars, timeVars, localVars
<1>7. CASE GateFetch(a)
  BY <1>7 DEF TypeOK, AgesTyped, ProcessTyped, LocalsTyped, RunsKept, NothingStored,
     GateFetch, RunPC, End, Finished, Forget, dbVars, timeVars, localVars
<1>8. CASE GateDecide(a)
  BY <1>8 DEF TypeOK, AgesTyped, ProcessTyped, LocalsTyped, RunsKept, NothingStored,
     GateDecide, RunPC, End, Finished, Forget, dbVars, timeVars, localVars
<1>9. CASE RequestFails(a)
  BY <1>9 DEF TypeOK, AgesTyped, ProcessTyped, LocalsTyped, RunsKept, NothingStored,
     RequestFails, RunPC, End, Finished, Forget, dbVars, timeVars, localVars, IngestPC
<1> QED BY <1>1, <1>2, <1>3, <1>4, <1>5, <1>6, <1>7, <1>8, <1>9 DEF RequestStep, RequestProgress

(* Nor does the digest, until it claims a user's slot.                     *)
LEMMA DigestStepQuiet ==
    ASSUME TypeOK, DigestStart \/ DigestStep
    PROVE  RunsKept /\ NothingStored
<1> Digest \in Actor
  BY DEF Actor
<1>1. CASE DigestStart
  BY <1>1 DEF TypeOK, AgesTyped, ProcessTyped, LocalsTyped, RunsKept, NothingStored,
     DigestStart, RunPC, Goto, dbVars, timeVars, localVars
<1>2. CASE DigestSelect
  BY <1>2 DEF TypeOK, AgesTyped, ProcessTyped, LocalsTyped, RunsKept, NothingStored,
     DigestSelect, RunPC, Goto, dbVars, timeVars, localVars
<1>3. CASE DigestEnd
  BY <1>3 DEF TypeOK, AgesTyped, ProcessTyped, LocalsTyped, RunsKept, NothingStored,
     DigestEnd, RunPC, Goto, dbVars, timeVars, localVars
<1>4. CASE DigestLastRec
  BY <1>4 DEF TypeOK, AgesTyped, ProcessTyped, LocalsTyped, RunsKept, NothingStored,
     DigestLastRec, RunPC, Goto, dbVars, timeVars, localVars
<1>5. CASE DigestNewEvents
  BY <1>5 DEF TypeOK, AgesTyped, ProcessTyped, LocalsTyped, RunsKept, NothingStored,
     DigestNewEvents, RunPC, End, Finished, Forget, dbVars, timeVars, localVars
<1>6. CASE DigestFreshness
  BY <1>6 DEF TypeOK, AgesTyped, ProcessTyped, LocalsTyped, RunsKept, NothingStored,
     DigestFreshness, RunPC, End, Finished, Forget, dbVars, timeVars, localVars
<1>7. CASE DigestAborts
  BY <1>7 DEF TypeOK, AgesTyped, ProcessTyped, LocalsTyped, RunsKept, NothingStored,
     DigestAborts, RunPC, End, Finished, Forget, dbVars, timeVars, localVars
<1> QED BY <1>1, <1>2, <1>3, <1>4, <1>5, <1>6, <1>7 DEF DigestStep, DigestProgress

(* Nor does time.                                                          *)
LEMMA TimeQuiet ==
    ASSUME TypeOK, NewDay \/ \E u \in User : CooldownEnds(u) \/ RecommendationAges(u)
    PROVE  RunsKept /\ NothingStored
<1>1. CASE NewDay
  BY <1>1 DEF TypeOK, AgesTyped, ProcessTyped, LocalsTyped, RunsKept, NothingStored,
     NewDay, RunPC, Goto, dbVars, timeVars, localVars
<1>2. CASE \E u \in User : CooldownEnds(u)
  BY <1>2 DEF TypeOK, AgesTyped, ProcessTyped, LocalsTyped, RunsKept, NothingStored,
     CooldownEnds, RunPC, Goto, dbVars, timeVars, localVars
<1>3. CASE \E u \in User : RecommendationAges(u)
  BY <1>3 DEF TypeOK, AgesTyped, ProcessTyped, LocalsTyped, RunsKept, NothingStored,
     RecommendationAges, RunPC, Goto, dbVars, timeVars, localVars
<1> QED BY <1>1, <1>2, <1>3

(* Between its first and its last step a run keeps the slot, and only      *)
(* StoreCommit writes a recommendation.                                    *)
LEMMA RunStepQuiet ==
    ASSUME TypeOK, NEW a \in Actor,
           \/ ReadModel(a) \/ ReadEvents(a) \/ ReadCount(a) \/ Infer(a)
           \/ RecommendNothing(a) \/ RunFails(a)
    PROVE  RunsKept /\ NothingStored
<1>1. CASE ReadModel(a)
  BY <1>1 DEF TypeOK, AgesTyped, ProcessTyped, LocalsTyped, RunsKept, NothingStored,
     ReadModel, RunPC, Goto, dbVars, timeVars, localVars
<1>2. CASE ReadEvents(a)
  BY <1>2 DEF TypeOK, AgesTyped, ProcessTyped, LocalsTyped, RunsKept, NothingStored,
     ReadEvents, RunPC, Goto, dbVars, timeVars, localVars
<1>3. CASE ReadCount(a)
  BY <1>3 DEF TypeOK, AgesTyped, ProcessTyped, LocalsTyped, RunsKept, NothingStored,
     ReadCount, RunPC, Goto, dbVars, timeVars, localVars
<1>4. CASE Infer(a)
  BY <1>4 DEF TypeOK, AgesTyped, ProcessTyped, LocalsTyped, RunsKept, NothingStored,
     Infer, RunPC, Goto, dbVars, timeVars, localVars
<1>5. CASE RecommendNothing(a)
  BY <1>5 DEF TypeOK, AgesTyped, ProcessTyped, LocalsTyped, RunsKept, NothingStored,
     RecommendNothing, RunPC, Goto, dbVars, timeVars, localVars
<1>6. CASE RunFails(a)
  BY <1>6 DEF TypeOK, AgesTyped, ProcessTyped, LocalsTyped, RunsKept, NothingStored,
     RunFails, RunPC, Goto, dbVars, timeVars, localVars
<1> QED BY <1>1, <1>2, <1>3, <1>4, <1>5, <1>6

-----------------------------------------------------------------------------
(* The steps that begin or end a run, and those that store.                *)

(* A run begins when the slot is free: no other run of the user is there.  *)
LEMMA ClaimExact ==
    ASSUME SlotsInv, NEW a \in Actor, Claim(a)
    PROVE  SlotsExact' /\ NothingStored
<1>1. pc[a] = "claim" /\ user[a] \in User
  BY DEF SlotsInv, TypeOK, ProcessTyped, Claim
<1>2. NothingStored
  BY <1>1 DEF SlotsInv, TypeOK, AgesTyped, ProcessTyped, LocalsTyped, NothingStored, Claim,
     End, Finished, Forget, dbVars, timeVars, localVars
<1>3. CASE user[a] \in inFlight
  <2>1. RunsKept
    BY <1>1, <1>3 DEF SlotsInv, TypeOK, ProcessTyped, RunsKept, Claim, End, Finished,
       Forget, RunPC
  <2> QED BY <1>2, <2>1, SlotsKept DEF SlotsInv
<1>4. CASE user[a] \notin inFlight
  <2>1. /\ inFlight' = inFlight \cup {user[a]}
        /\ pc' = [pc EXCEPT ![a] = "readModel"]
        /\ user' = user
    BY <1>4 DEF Claim, localVars
  <2>2. Running(user[a]) = {}
    BY <1>1, <1>4 DEF SlotsInv, SlotsExact
  <2>3. Running(user[a])' = {a}
    BY <1>1, <2>1, <2>2 DEF SlotsInv, TypeOK, ProcessTyped, Running, RunPC
  <2>4. \A u \in User \ {user[a]} : Running(u)' = Running(u)
    BY <1>1, <2>1 DEF SlotsInv, TypeOK, ProcessTyped, Running, RunPC
  <2>5. SlotsExact'
    BY <2>1, <2>3, <2>4 DEF SlotsInv, SlotsExact
  <2> QED BY <1>2, <2>5
<1> QED BY <1>3, <1>4

(* The slot is given back with the only run of the user.                   *)
LEMMA ReleaseExact ==
    ASSUME SlotsInv, NEW a \in Actor, Release(a)
    PROVE  SlotsExact' /\ NothingStored
<1>1. pc[a] = "release" /\ user[a] \in User
  BY DEF SlotsInv, TypeOK, ProcessTyped, Release
<1>2. NothingStored
  BY <1>1 DEF SlotsInv, TypeOK, AgesTyped, ProcessTyped, LocalsTyped, NothingStored, Release,
     End, Finished, Forget, dbVars, timeVars
<1>3. /\ inFlight' = inFlight \ {user[a]}
      /\ pc' = [pc EXCEPT ![a] = Finished(a)]
      /\ user' = [user EXCEPT ![a] = NoUser]
  BY DEF Release, End, Forget
<1>4. Running(user[a]) = {a}
  BY <1>1 DEF SlotsInv, SlotsExact, Running, RunPC
<1>5. \A u \in User : u = user[a] => Running(u)' = {}
  BY <1>1, <1>3, <1>4, ActorAssumption DEF SlotsInv, TypeOK, ProcessTyped, Running, RunPC,
     Finished
<1>6. \A u \in User : u # user[a] => Running(u)' = Running(u)
  BY <1>1, <1>3 DEF SlotsInv, TypeOK, ProcessTyped, Running, RunPC, Finished
<1>7. SlotsExact'
  BY <1>1, <1>3, <1>5, <1>6 DEF SlotsInv, SlotsExact
<1> QED BY <1>2, <1>7

(* A crash empties the guard together with the runs.                       *)
LEMMA CrashExact ==
    ASSUME SlotsInv, Crash
    PROVE  SlotsExact' /\ NothingStored
BY DEF SlotsInv, SlotsExact, Running, RunPC, NothingStored, Crash, dbVars, timeVars,
   TypeOK, AgesTyped

(* What a run has just read is what is there.                              *)
LEMMA StoreReadExact ==
    ASSUME SlotsInv, NEW a \in Actor, StoreRead(a)
    PROVE  RunsKept /\ StoreInv'
<1>1. pc[a] = "pipeline" /\ user[a] \in User
  BY DEF SlotsInv, TypeOK, ProcessTyped, StoreRead, Goto
<1>2. RunsKept
  BY <1>1 DEF SlotsInv, TypeOK, ProcessTyped, RunsKept, StoreRead, Goto, RunPC
<1>3. /\ UNCHANGED <<recs, clock, user>>
      /\ pc' = [pc EXCEPT ![a] = "storeCommit"]
      /\ olds' = [olds EXCEPT ![a] = Active(user[a])]
  BY DEF StoreRead, Goto, dbVars, timeVars
<1>4. \A u : Active(u)' = Active(u)
  BY <1>3 DEF Active
<1>5. StoreReads'
  BY <1>3, <1>4 DEF SlotsInv, TypeOK, ProcessTyped, LocalsTyped, StoreInv, StoreReads
<1>6. AtMostOneActive' /\ RecsInThePast'
  BY <1>3, <1>4 DEF SlotsInv, StoreInv, AtMostOneActive, RecsInThePast
<1> QED BY <1>2, <1>5, <1>6 DEF StoreInv

(* The write of a run: the user's active rows all become inactive, and the *)
(* new one, younger than they are, is alone.                               *)
LEMMA StoreCommitWrites ==
    ASSUME SlotsInv, NEW a \in Actor, StoreCommit(a)
    PROVE  /\ user[a] \in User
           /\ Active(user[a])' = {[at |-> clock, active |-> TRUE]}
           /\ recs[user[a]]' \ Active(user[a])'
                = (recs[user[a]] \ Active(user[a])) \cup Deactivated(Active(user[a]))
           /\ \A u \in User \ {user[a]} : recs'[u] = recs[u]
<1> DEFINE v == user[a]
           new == [at |-> clock, active |-> TRUE]
<1>1. pc[a] = "storeCommit" /\ v \in User
  BY DEF SlotsInv, TypeOK, ProcessTyped, StoreCommit, Goto
<1>2. olds[a] = Active(v)
  BY <1>1 DEF SlotsInv, StoreInv, StoreReads
<1>3. /\ recs' = [recs EXCEPT ![v] =
                     (@ \ olds[a]) \cup Deactivated(olds[a]) \cup {new}]
      /\ UNCHANGED user
  BY DEF StoreCommit
<1>4. recs'[v] = (recs[v] \ Active(v)) \cup Deactivated(Active(v)) \cup {new}
  BY <1>1, <1>2, <1>3 DEF SlotsInv, TypeOK, DatabaseTyped
<1>5. \A r \in recs[v] : r \in Rec
  BY <1>1 DEF SlotsInv, TypeOK, DatabaseTyped
<1>6. \A r \in Deactivated(Active(v)) : r.active = FALSE
  BY <1>5 DEF Deactivated, Active, Rec
<1>7. \A r \in recs[v] \ Active(v) : ~r.active
  BY DEF Active
<1>8. Active(v)' = {new}
  <2>1. Active(v)' = {r \in recs'[v] : r.active}
    BY <1>3 DEF Active
  <2>2. \A r \in recs'[v] : r = new \/ ~r.active
    BY <1>4, <1>6, <1>7
  <2>3. new \in recs'[v] /\ new.active
    BY <1>4
  <2> HIDE DEF new
  <2> QED BY <2>1, <2>2, <2>3
<1>9. \A u \in User \ {v} : recs'[u] = recs[u]
  BY <1>1, <1>3 DEF SlotsInv, TypeOK, DatabaseTyped
<1>10. recs'[v] \ {new} = (recs[v] \ Active(v)) \cup Deactivated(Active(v))
  BY <1>4, <1>6, <1>7
<1> QED BY <1>1, <1>3, <1>8, <1>9, <1>10

(* So the write leaves one active row, and the guard keeps any other run   *)
(* of the same user from holding rows it has read before.                  *)
LEMMA StoreCommitExact ==
    ASSUME SlotsInv, NEW a \in Actor, StoreCommit(a)
    PROVE  RunsKept /\ StoreInv'
<1> DEFINE v == user[a]
           new == [at |-> clock, active |-> TRUE]
<1>1. pc[a] = "storeCommit" /\ v \in User
  BY DEF SlotsInv, TypeOK, ProcessTyped, StoreCommit, Goto
<1>2. RunsKept
  BY <1>1 DEF SlotsInv, TypeOK, ProcessTyped, RunsKept, StoreCommit, Goto, RunPC
<1>3. /\ UNCHANGED user
      /\ pc' = [pc EXCEPT ![a] = "release"]
      /\ clock' = clock + 1
      /\ olds' = [olds EXCEPT ![a] = {}]
  BY DEF StoreCommit, Goto
<1>4. \A u \in User \ {v} : recs'[u] = recs[u] /\ Active(u)' = Active(u)
  BY <1>3, StoreCommitWrites DEF Active
<1>5. StoreReads'
  <2> SUFFICES ASSUME NEW b \in Actor, pc'[b] = "storeCommit"
               PROVE  olds'[b] = Active(user[b])'
    BY DEF StoreReads
  <2>1. b # a /\ pc[b] = "storeCommit" /\ olds'[b] = olds[b]
    BY <1>1, <1>3 DEF SlotsInv, TypeOK, ProcessTyped, LocalsTyped
  <2>2. user[b] \in User
    BY <2>1 DEF SlotsInv, TypeOK, ProcessTyped
  <2>3. user[b] # v
    BY <1>1, <2>1, <2>2 DEF SlotsInv, SlotsExact, Running, RunPC
  <2>4. olds[b] = Active(user[b])
    BY <2>1 DEF SlotsInv, StoreInv, StoreReads
  <2>5. Active(user[b])' = Active(user[b])
    BY <1>3, <1>4, <2>2, <2>3 DEF Active
  <2> QED BY <2>1, <2>4, <2>5
<1>6. AtMostOneActive'
  <2>1. Active(v)' = {new}
    BY StoreCommitWrites
  <2>2. \A u \in User \ {v} : Active(u)' = Active(u)
    BY <1>4
  <2>3. \A r, s \in Active(v)' : r = s
    BY <2>1
  <2>4. \A u \in User : \A r, s \in Active(u)' : r = s
    <3> SUFFICES ASSUME NEW u \in User PROVE \A r, s \in Active(u)' : r = s
      OBVIOUS
    <3>1. CASE u = v
      BY <1>3, <3>1, <2>3 DEF Active
    <3>2. CASE u # v
      BY <2>2, <3>2 DEF SlotsInv, StoreInv, AtMostOneActive
    <3> QED BY <3>1, <3>2
  <2> QED BY <2>4 DEF AtMostOneActive
<1>7. RecsInThePast'
  <2> SUFFICES ASSUME NEW u \in User, NEW r \in recs'[u]
               PROVE  r.at < clock + 1
    BY <1>3 DEF RecsInThePast
  <2>1. \A s \in recs[u] : s \in Rec /\ s.at < clock
    BY DEF SlotsInv, StoreInv, RecsInThePast, TypeOK, DatabaseTyped
  <2>2. clock \in Nat
    BY DEF SlotsInv, TypeOK, AgesTyped
  <2>3. CASE u # v
    BY <1>4, <2>1, <2>2, <2>3 DEF Rec
  <2>4. CASE u = v
    <3>1. r = new \/ r \in recs[v] \/ r \in Deactivated(Active(v))
      BY <2>4, <1>3, StoreCommitWrites DEF Active
    <3>2. CASE r \in Deactivated(Active(v))
      <4>1. PICK s \in Active(v) : r = [s EXCEPT !.active = FALSE]
        BY <3>2 DEF Deactivated
      <4>2. s \in recs[u]
        BY <2>4 DEF Active
      <4>3. s \in Rec /\ s.at < clock
        BY <4>2, <2>1
      <4>4. r.at = s.at
        BY <4>1, <4>3 DEF Rec
      <4> QED BY <2>2, <4>3, <4>4 DEF Rec
    <3>3. CASE r \in recs[v]
      BY <2>1, <2>2, <2>4, <3>3 DEF Rec
    <3>4. CASE r = new
      BY <2>2, <3>4
    <3> QED BY <3>1, <3>2, <3>3, <3>4
  <2> QED BY <2>3, <2>4
<1> QED BY <1>2, <1>5, <1>6, <1>7 DEF StoreInv

-----------------------------------------------------------------------------
(* SlotsInv holds initially.                                               *)
LEMMA InitSlots == Init => SlotsInv
<1> SUFFICES ASSUME Init PROVE SlotsInv
  OBVIOUS
<1>1. TypeOK
  BY InitTyped
<1>2. SlotsExact
  BY DEF Init, SlotsExact, Running, RunPC
<1>3. StoreInv
  BY DEF Init, StoreInv, StoreReads, AtMostOneActive, Active, RecsInThePast
<1> QED BY <1>1, <1>2, <1>3 DEF SlotsInv

(* Every step keeps it.                                                    *)
LEMMA NextSlots == SlotsInv /\ [Next]_vars => SlotsInv'
<1> SUFFICES ASSUME SlotsInv, [Next]_vars PROVE SlotsExact' /\ StoreInv'
  BY NextTyped DEF SlotsInv
<1> USE DEF SlotsInv
<1>1. ASSUME RunsKept, NothingStored PROVE SlotsExact' /\ StoreInv'
  BY <1>1, SlotsKept, StoreKept
<1>2. ASSUME NEW a \in Actor, RunStep(a) PROVE SlotsExact' /\ StoreInv'
  <2>1. CASE Claim(a)
    BY <2>1, ClaimExact, StoreKept
  <2>2. CASE \/ ReadModel(a) \/ ReadEvents(a) \/ ReadCount(a) \/ Infer(a)
             \/ RecommendNothing(a) \/ RunFails(a)
    BY <2>2, <1>1, RunStepQuiet
  <2>3. CASE StoreRead(a)
    BY <2>3, StoreReadExact, SlotsKept
  <2>4. CASE StoreCommit(a)
    BY <2>4, StoreCommitExact, SlotsKept
  <2>5. CASE Release(a)
    BY <2>5, ReleaseExact, StoreKept
  <2> QED BY <1>2, <2>1, <2>2, <2>3, <2>4, <2>5 DEF RunStep, RunProgress
<1>3. CASE \E a \in Request : IngestInsert(a) \/ RequestStep(a)
  BY <1>1, <1>3, RequestStepQuiet
<1>4. CASE DigestStart \/ DigestStep
  BY <1>1, <1>4, DigestStepQuiet
<1>5. CASE NewDay \/ \E u \in User : CooldownEnds(u) \/ RecommendationAges(u)
  BY <1>1, <1>5, TimeQuiet
<1>6. CASE Crash
  BY <1>6, CrashExact, StoreKept
<1>7. CASE UNCHANGED vars
  <2>1. RunsKept /\ NothingStored
    BY <1>7 DEF RunsKept, NothingStored, vars, dbVars, timeVars, localVars,
       TypeOK, AgesTyped
  <2> QED BY <1>1, <2>1
<1> QED BY <1>2, <1>3, <1>4, <1>5, <1>6, <1>7 DEF Next

(* The inductive invariant of the guard and the store.                     *)
LEMMA SlotsInvariant == Spec => []SlotsInv
BY InitSlots, NextSlots, PTL DEF Spec

(* runner.py's _in_flight: a user is in it exactly while one run of the    *)
(* user is inside the graph, under every interleaving of requests, digest  *)
(* and crashes.                                                            *)
THEOREM OneRunPerUser == Spec => []SlotsExact
<1>1. SlotsInv => SlotsExact
  BY DEF SlotsInv
<1> QED BY <1>1, SlotsInvariant, PTL

(* store.py never leaves a user with two active recommendations.           *)
THEOREM OneActiveRecommendation == Spec => []AtMostOneActive
<1>1. SlotsInv => AtMostOneActive
  BY DEF SlotsInv, StoreInv
<1> QED BY <1>1, SlotsInvariant, PTL

-----------------------------------------------------------------------------
(* The refinement.                                                         *)

(* A step that stores nothing is a stutter of the feed.                    *)
LEMMA FeedKept ==
    ASSUME UNCHANGED recs
    PROVE  UNCHANGED <<shownRecs, pastRecs>>
BY DEF shownRecs, pastRecs, Active

(* The write of store.py publishes.                                        *)
LEMMA StoreCommitPublishes ==
    ASSUME SlotsInv, NEW a \in Actor, StoreCommit(a)
    PROVE  Feed!Publish(user[a])
<1> DEFINE v == user[a]
<1>1. v \in User /\ clock \in Nat /\ recs \in [User -> SUBSET Rec]
  BY StoreCommitWrites DEF SlotsInv, TypeOK, DatabaseTyped, AgesTyped
<1>2. user' = user
  BY DEF StoreCommit
<1>3. \A u \in User : u # v => recs'[u] = recs[u]
  BY StoreCommitWrites
<1>4. Active(v)' = {[at |-> clock, active |-> TRUE]}
  BY StoreCommitWrites
<1>5. {r.at : r \in Active(v)'} = {clock}
  BY <1>4
<1>6. shownRecs' = [shownRecs EXCEPT ![v] = {clock}]
  <2>1. \A u \in User : shownRecs'[u] = IF u = v THEN {clock} ELSE shownRecs[u]
    BY <1>1, <1>2, <1>3, <1>5 DEF shownRecs, Active
  <2> QED BY <2>1 DEF shownRecs
<1>7. pastRecs' = [pastRecs EXCEPT ![v] = @ \cup shownRecs[v]]
  <2>1. recs'[v] \ Active(v)' = (recs[v] \ Active(v)) \cup Deactivated(Active(v))
    BY <1>2, StoreCommitWrites
  <2>2. {r.at : r \in Deactivated(Active(v))} = {r.at : r \in Active(v)}
    <3>1. \A r \in Active(v) : r \in Rec
      BY <1>1 DEF Active
    <3>2. \A r \in Active(v) : [r EXCEPT !.active = FALSE].at = r.at
      BY <3>1 DEF Rec
    <3> QED BY <3>2 DEF Deactivated
  <2>3. {r.at : r \in recs'[v] \ Active(v)'}
           = {r.at : r \in recs[v] \ Active(v)} \cup {r.at : r \in Active(v)}
    BY <2>1, <2>2
  <2>4. \A u \in User : pastRecs'[u] = IF u = v THEN pastRecs[v] \cup shownRecs[v]
                                               ELSE pastRecs[u]
    BY <1>1, <1>2, <1>3, <2>3 DEF pastRecs, shownRecs, Active
  <2> QED BY <2>4 DEF pastRecs
<1>8. \A old \in shownRecs[v] \cup pastRecs[v] : clock > old
  <2>1. \A r \in recs[v] : r \in Rec /\ r.at < clock
    BY <1>1 DEF SlotsInv, StoreInv, RecsInThePast
  <2>2. \A old \in shownRecs[v] \cup pastRecs[v] : \E r \in recs[v] : old = r.at
    BY <1>1 DEF shownRecs, pastRecs, Active
  <2> QED BY <1>1, <2>1, <2>2 DEF Rec
<1>9. clock \in shownRecs'[v]
  BY <1>1, <1>6 DEF shownRecs
<1> QED BY <1>1, <1>6, <1>7, <1>8, <1>9 DEF Feed!Publish, shownRecs, pastRecs

(* The empty database is the empty feed.                                   *)
LEMMA InitFeed == Init => Feed!Init
BY DEF Init, Feed!Init, shownRecs, pastRecs, Active

(* Every step publishes or leaves the feed as it is.                       *)
LEMMA NextFeed == SlotsInv /\ [Next]_vars => [Feed!Next]_Feed!feedVars
<1> SUFFICES ASSUME SlotsInv, [Next]_vars
             PROVE  Feed!Next \/ UNCHANGED <<shownRecs, pastRecs>>
  BY DEF Feed!feedVars
<1>1. ASSUME NEW a \in Actor, StoreCommit(a) PROVE Feed!Next
  BY <1>1, StoreCommitPublishes, StoreCommitWrites DEF Feed!Next
<1>2. ASSUME NEW a \in Actor, RunStep(a), ~StoreCommit(a) PROVE UNCHANGED recs
  BY <1>2 DEF RunStep, RunProgress, Claim, ReadModel, ReadEvents, ReadCount, Infer, RecommendNothing,
     StoreRead, RunFails, Release, dbVars
<1>3. ASSUME NEW a \in Request, IngestInsert(a) \/ RequestStep(a) PROVE UNCHANGED recs
  BY <1>3, RequestStepQuiet DEF SlotsInv, NothingStored
<1>4. ASSUME DigestStart \/ DigestStep PROVE UNCHANGED recs
  BY <1>4, DigestStepQuiet DEF SlotsInv, NothingStored
<1>5. ASSUME NewDay \/ \E u \in User : CooldownEnds(u) \/ RecommendationAges(u)
      PROVE  UNCHANGED recs
  BY <1>5, TimeQuiet DEF SlotsInv, NothingStored
<1>6. ASSUME Crash \/ UNCHANGED vars PROVE UNCHANGED recs
  BY <1>6 DEF Crash, vars, dbVars
<1>7. Feed!Next \/ UNCHANGED recs
  BY <1>1, <1>2, <1>3, <1>4, <1>5, <1>6 DEF Next
<1> QED BY <1>7, FeedKept

(* The recommendations table, written by any interleaving of requests,     *)
(* digest runs, failures and crashes, is a RecommendationFeed: readers see *)
(* a newer recommendation take the place of the older in one step, and     *)
(* nothing they were shown is lost.                                        *)
THEOREM FeedImplemented == Spec => ImplementsFeed
BY InitFeed, NextFeed, SlotsInvariant, PTL DEF Spec, Feed!Spec, ImplementsFeed

-----------------------------------------------------------------------------
(* What last_event_count_at_update means, for every set of users, requests *)
(* and event contents and every MAX_EVENTS_CONSIDERED: it never exceeds    *)
(* the table, never goes back, and never makes the gate count an event it  *)
(* has already learnt from.                                                *)
(*                                                                         *)
(* model_user counts in one statement and writes in another, with a call   *)
(* of the language model between; the invariant carries what the count     *)
(* still means across that gap, which holds because SlotsExact keeps any   *)
(* other run from moving the cursor meanwhile.                             *)

SeenCounted ==
    \A u \in User : seen[u] \subseteq events[u] /\ Cardinality(seen[u]) <= cursor[u]

RowsRead ==
    \A a \in Actor : pc[a] = "readCount" => rows[a] \subseteq events[user[a]]

CountRead ==
    \A a \in Actor : pc[a] = "infer" =>
        /\ rows[a] \subseteq events[user[a]]
        /\ cursor[user[a]] <= count[a]
        /\ count[a] <= Cardinality(events[user[a]])
        /\ Cardinality(seen[user[a]] \cup rows[a]) <= count[a]

CursorInv == CursorWithinEvents /\ SeenCounted /\ RowsRead /\ CountRead

-----------------------------------------------------------------------------
(* Most steps leave the cursor and what was counted for it alone; the      *)
(* events table may grow.                                                  *)
NothingCounted ==
    /\ UNCHANGED <<cursor, seen>>
    /\ \A u \in User : events[u] \subseteq events'[u]
    /\ \A b \in Actor : pc'[b] \in {"readCount", "infer"} =>
          /\ pc[b] = pc'[b] /\ user'[b] = user[b]
          /\ rows'[b] = rows[b] /\ count'[b] = count[b]

(* A larger table has at least as many rows.                               *)
LEMMA TableGrows ==
    ASSUME TypeOK, TypeOK', NEW u \in User, events[u] \subseteq events'[u]
    PROVE  /\ Cardinality(events[u]) \in Nat /\ Cardinality(events'[u]) \in Nat
           /\ Cardinality(events[u]) <= Cardinality(events'[u])
<1>1. IsFiniteSet(events[u]) /\ IsFiniteSet(events'[u])
  BY DEF TypeOK, DatabaseTyped
<1> QED BY <1>1, FS_Subset, FS_CardinalityType

(* The invariant survives a step that counts nothing and writes no         *)
(* cursor: the table only grows.                                           *)
LEMMA CursorKept ==
    ASSUME TypeOK, TypeOK', CursorInv, NothingCounted
    PROVE  CursorInv'
<1>1. \A u \in User : /\ Cardinality(events[u]) \in Nat /\ Cardinality(events'[u]) \in Nat
                      /\ Cardinality(events[u]) <= Cardinality(events'[u])
  BY TableGrows DEF NothingCounted
<1>2. cursor \in [User -> Nat] /\ count \in [Actor -> Nat]
  BY DEF TypeOK, DatabaseTyped, LocalsTyped
<1>3. \A b \in Actor : pc[b] \in {"readCount", "infer"} => user[b] \in User
  BY DEF TypeOK, ProcessTyped
<1>4. CursorWithinEvents'
  BY <1>1, <1>2 DEF CursorInv, CursorWithinEvents, NothingCounted
<1>5. SeenCounted'
  BY DEF CursorInv, SeenCounted, NothingCounted
<1>6. RowsRead'
  BY <1>3 DEF CursorInv, RowsRead, NothingCounted
<1>7. CountRead'
  <2> SUFFICES ASSUME NEW b \in Actor, pc'[b] = "infer"
               PROVE  /\ rows'[b] \subseteq events'[user'[b]]
                      /\ cursor'[user'[b]] <= count'[b]
                      /\ count'[b] <= Cardinality(events'[user'[b]])
                      /\ Cardinality(seen'[user'[b]] \cup rows'[b]) <= count'[b]
    BY DEF CountRead
  <2>1. /\ pc[b] = "infer" /\ user'[b] = user[b] /\ user[b] \in User
        /\ rows'[b] = rows[b] /\ count'[b] = count[b]
    BY <1>3 DEF NothingCounted
  <2>2. /\ rows[b] \subseteq events[user[b]]
        /\ cursor[user[b]] <= count[b]
        /\ count[b] <= Cardinality(events[user[b]])
        /\ Cardinality(seen[user[b]] \cup rows[b]) <= count[b]
    BY <2>1 DEF CursorInv, CountRead
  <2>3. events[user[b]] \subseteq events'[user[b]]
    BY <2>1 DEF NothingCounted
  <2>4. count[b] <= Cardinality(events'[user[b]])
    BY <1>1, <1>2, <2>1, <2>2
  <2> QED BY <2>1, <2>2, <2>3, <2>4 DEF NothingCounted
<1> QED BY <1>4, <1>5, <1>6, <1>7 DEF CursorInv

(* A request does so until it becomes a background task.                   *)
LEMMA RequestStepUncounted ==
    ASSUME TypeOK, NEW a \in Request, IngestInsert(a) \/ RequestStep(a)
    PROVE  NothingCounted
<1> a \in Actor /\ a # Digest
  BY ActorAssumption DEF Actor
<1>1. CASE IngestInsert(a)
  BY <1>1 DEF TypeOK, DatabaseTyped, ProcessTyped, LocalsTyped, NothingCounted,
     IngestInsert, Goto, dbVars
<1>2. CASE IngestCommit(a)
  BY <1>2 DEF TypeOK, DatabaseTyped, ProcessTyped, LocalsTyped, NothingCounted,
     IngestCommit, Goto, dbVars, localVars
<1>3. CASE GateCount(a)
  BY <1>3 DEF TypeOK, DatabaseTyped, ProcessTyped, LocalsTyped, NothingCounted,
     GateCount, Goto, dbVars, localVars
<1>4. CASE GateModel(a)
  BY <1>4 DEF TypeOK, DatabaseTyped, ProcessTyped, LocalsTyped, NothingCounted,
     GateModel, End, Finished, Forget, dbVars, localVars
<1>5. CASE GateModelMissing(a)
  BY <1>5 DEF TypeOK, DatabaseTyped, ProcessTyped, LocalsTyped, NothingCounted,
     GateModelMissing, Goto, dbVars, localVars
<1>6. CASE GateCreate(a)
  BY <1>6 DEF TypeOK, DatabaseTyped, ProcessTyped, LocalsTyped, NothingCounted,
     GateCreate, End, Finished, Forget, dbVars, localVars
<1>7. CASE GateFetch(a)
  BY <1>7 DEF TypeOK, DatabaseTyped, ProcessTyped, LocalsTyped, NothingCounted,
     GateFetch, End, Finished, Forget, dbVars, localVars
<1>8. CASE GateDecide(a)
  BY <1>8 DEF TypeOK, DatabaseTyped, ProcessTyped, LocalsTyped, NothingCounted,
     GateDecide, End, Finished, Forget, dbVars, localVars
<1>9. CASE RequestFails(a)
  BY <1>9 DEF TypeOK, DatabaseTyped, ProcessTyped, LocalsTyped, NothingCounted,
     RequestFails, End, Finished, Forget, dbVars, localVars
<1> QED BY <1>1, <1>2, <1>3, <1>4, <1>5, <1>6, <1>7, <1>8, <1>9 DEF RequestStep, RequestProgress

(* So does the digest until it claims a slot.                              *)
LEMMA DigestStepUncounted ==
    ASSUME TypeOK, DigestStart \/ DigestStep
    PROVE  NothingCounted
<1> Digest \in Actor
  BY DEF Actor
<1>1. CASE DigestStart
  BY <1>1 DEF TypeOK, DatabaseTyped, ProcessTyped, LocalsTyped, NothingCounted,
     DigestStart, Goto, dbVars, localVars
<1>2. CASE DigestSelect
  BY <1>2 DEF TypeOK, DatabaseTyped, ProcessTyped, LocalsTyped, NothingCounted,
     DigestSelect, Goto, dbVars, localVars
<1>3. CASE DigestEnd
  BY <1>3 DEF TypeOK, DatabaseTyped, ProcessTyped, LocalsTyped, NothingCounted,
     DigestEnd, Goto, dbVars, localVars
<1>4. CASE DigestLastRec
  BY <1>4 DEF TypeOK, DatabaseTyped, ProcessTyped, LocalsTyped, NothingCounted,
     DigestLastRec, Goto, dbVars, localVars
<1>5. CASE DigestNewEvents
  BY <1>5 DEF TypeOK, DatabaseTyped, ProcessTyped, LocalsTyped, NothingCounted,
     DigestNewEvents, End, Finished, Forget, dbVars, localVars
<1>6. CASE DigestFreshness
  BY <1>6 DEF TypeOK, DatabaseTyped, ProcessTyped, LocalsTyped, NothingCounted,
     DigestFreshness, End, Finished, Forget, dbVars, localVars
<1>7. CASE DigestAborts
  BY <1>7 DEF TypeOK, DatabaseTyped, ProcessTyped, LocalsTyped, NothingCounted,
     DigestAborts, End, Finished, Forget, dbVars, localVars
<1> QED BY <1>1, <1>2, <1>3, <1>4, <1>5, <1>6, <1>7 DEF DigestStep, DigestProgress

(* So do time and a crash.                                                 *)
LEMMA WorldStepUncounted ==
    ASSUME TypeOK,
           NewDay \/ Crash \/ \E u \in User : CooldownEnds(u) \/ RecommendationAges(u)
    PROVE  NothingCounted
<1>1. CASE NewDay
  BY <1>1 DEF TypeOK, DatabaseTyped, ProcessTyped, LocalsTyped, NothingCounted,
     NewDay, Goto, dbVars, localVars
<1>2. CASE Crash
  BY <1>2 DEF TypeOK, DatabaseTyped, ProcessTyped, LocalsTyped, NothingCounted,
     Crash, Goto, dbVars, localVars
<1>3. CASE \E u \in User : CooldownEnds(u)
  BY <1>3 DEF TypeOK, DatabaseTyped, ProcessTyped, LocalsTyped, NothingCounted,
     CooldownEnds, Goto, dbVars, localVars
<1>4. CASE \E u \in User : RecommendationAges(u)
  BY <1>4 DEF TypeOK, DatabaseTyped, ProcessTyped, LocalsTyped, NothingCounted,
     RecommendationAges, Goto, dbVars, localVars
<1> QED BY <1>1, <1>2, <1>3, <1>4

(* And of a run, every step but those of model_user.                       *)
LEMMA RunStepUncounted ==
    ASSUME TypeOK, NEW a \in Actor,
           \/ Claim(a) \/ ReadModel(a) \/ RecommendNothing(a) \/ StoreRead(a)
           \/ StoreCommit(a) \/ RunFails(a) \/ Release(a)
    PROVE  NothingCounted
<1>1. CASE Claim(a)
  BY <1>1 DEF TypeOK, DatabaseTyped, ProcessTyped, LocalsTyped, NothingCounted,
     Claim, End, Finished, Forget, dbVars, localVars
<1>2. CASE ReadModel(a)
  BY <1>2 DEF TypeOK, DatabaseTyped, ProcessTyped, LocalsTyped, NothingCounted,
     ReadModel, Goto, dbVars, localVars
<1>3. CASE RecommendNothing(a)
  BY <1>3 DEF TypeOK, DatabaseTyped, ProcessTyped, LocalsTyped, NothingCounted,
     RecommendNothing, Goto, dbVars, localVars
<1>4. CASE StoreRead(a)
  BY <1>4 DEF TypeOK, DatabaseTyped, ProcessTyped, LocalsTyped, NothingCounted,
     StoreRead, Goto, dbVars, localVars
<1>5. CASE StoreCommit(a)
  BY <1>5 DEF TypeOK, DatabaseTyped, ProcessTyped, LocalsTyped, NothingCounted,
     StoreCommit, Goto, dbVars, localVars
<1>6. CASE RunFails(a)
  BY <1>6 DEF TypeOK, DatabaseTyped, ProcessTyped, LocalsTyped, NothingCounted,
     RunFails, Goto, dbVars, localVars
<1>7. CASE Release(a)
  BY <1>7 DEF TypeOK, DatabaseTyped, ProcessTyped, LocalsTyped, NothingCounted,
     Release, End, Finished, Forget, dbVars, localVars
<1> QED BY <1>1, <1>2, <1>3, <1>4, <1>5, <1>6, <1>7

-----------------------------------------------------------------------------
(* The three steps of model_user.                                          *)

(* The rows it reads are in the table.                                     *)
LEMMA ReadEventsCursor ==
    ASSUME TypeOK, NEW a \in Actor, CursorInv, ReadEvents(a)
    PROVE  CursorInv'
<1>1. /\ UNCHANGED <<events, cursor, seen, user, count>>
      /\ pc' = [pc EXCEPT ![a] = "readCount"]
      /\ rows' = [rows EXCEPT ![a] = NewestRows(events[user[a]], MAX_EVENTS_CONSIDERED)]
  BY DEF ReadEvents, Goto, dbVars
<1>2. NewestRows(events[user[a]], MAX_EVENTS_CONSIDERED) \subseteq events[user[a]]
  BY DEF NewestRows
<1>3. pc \in [Actor -> PC] /\ rows \in [Actor -> SUBSET Row]
  BY DEF TypeOK, ProcessTyped, LocalsTyped
<1>4. RowsRead'
  BY <1>1, <1>2, <1>3 DEF CursorInv, RowsRead
<1>5. CountRead'
  BY <1>1, <1>3 DEF CursorInv, CountRead
<1>6. CursorWithinEvents' /\ SeenCounted'
  BY <1>1 DEF CursorInv, CursorWithinEvents, SeenCounted
<1> QED BY <1>4, <1>5, <1>6 DEF CursorInv

(* Its count covers the rows it holds and everything seen before.          *)
LEMMA ReadCountCursor ==
    ASSUME TypeOK, NEW a \in Actor, CursorInv, ReadCount(a)
    PROVE  CursorInv'
<1> DEFINE v == user[a]
           n == Cardinality(events[v])
<1>1. /\ UNCHANGED <<events, cursor, seen, user, rows>>
      /\ pc' = [pc EXCEPT ![a] = "infer"]
      /\ count' = [count EXCEPT ![a] = n]
  BY DEF ReadCount, Goto, dbVars
<1>2. pc[a] = "readCount" /\ v \in User
  BY DEF ReadCount, Goto, TypeOK, ProcessTyped
<1>3. pc \in [Actor -> PC] /\ count \in [Actor -> Nat]
  BY DEF TypeOK, ProcessTyped, LocalsTyped
<1>4. rows[a] \subseteq events[v] /\ seen[v] \subseteq events[v] /\ cursor[v] <= n
  BY <1>2 DEF CursorInv, RowsRead, SeenCounted, CursorWithinEvents
<1>5. n \in Nat /\ Cardinality(seen[v] \cup rows[a]) <= n
  <2>1. IsFiniteSet(events[v])
    BY <1>2 DEF TypeOK, DatabaseTyped
  <2>2. seen[v] \cup rows[a] \in SUBSET events[v]
    BY <1>4
  <2> QED BY <2>1, <2>2, FS_Subset, FS_CardinalityType
<1>6. RowsRead'
  BY <1>1, <1>3 DEF CursorInv, RowsRead
<1>7. CountRead'
  <2> SUFFICES ASSUME NEW b \in Actor, pc'[b] = "infer"
               PROVE  /\ rows[b] \subseteq events[user[b]]
                      /\ cursor[user[b]] <= count'[b]
                      /\ count'[b] <= Cardinality(events[user[b]])
                      /\ Cardinality(seen[user[b]] \cup rows[b]) <= count'[b]
    BY <1>1 DEF CountRead
  <2>1. CASE b = a
    BY <2>1, <1>1, <1>3, <1>4, <1>5
  <2>2. CASE b # a
    BY <2>2, <1>1, <1>3 DEF CursorInv, CountRead
  <2> QED BY <2>1, <2>2
<1>8. CursorWithinEvents' /\ SeenCounted'
  BY <1>1 DEF CursorInv, CursorWithinEvents, SeenCounted
<1> QED BY <1>6, <1>7, <1>8 DEF CursorInv

(* When it writes, the count is still between the cursor and the table.    *)
LEMMA InferCursor ==
    ASSUME TypeOK, SlotsExact, NEW a \in Actor, CursorInv, Infer(a)
    PROVE  /\ CursorInv'
           /\ \A u \in User : cursor'[u] >= cursor[u]
<1> DEFINE v == user[a]
<1>1. /\ UNCHANGED <<events, user>>
      /\ pc' = [pc EXCEPT ![a] = "pipeline"]
      /\ cursor' = [cursor EXCEPT ![v] = count[a]]
      /\ seen' = [seen EXCEPT ![v] = @ \cup rows[a]]
      /\ count' = [count EXCEPT ![a] = 0]
      /\ rows' = [rows EXCEPT ![a] = {}]
  BY DEF Infer, Goto
<1>2. pc[a] = "infer" /\ v \in User
  BY DEF Infer, Goto, TypeOK, ProcessTyped
<1>3. /\ pc \in [Actor -> PC] /\ count \in [Actor -> Nat] /\ cursor \in [User -> Nat]
      /\ rows \in [Actor -> SUBSET Row] /\ seen \in [User -> SUBSET Row]
  BY DEF TypeOK, ProcessTyped, LocalsTyped, DatabaseTyped
<1>4. /\ rows[a] \subseteq events[v]
      /\ cursor[v] <= count[a]
      /\ count[a] <= Cardinality(events[v])
      /\ Cardinality(seen[v] \cup rows[a]) <= count[a]
  BY <1>2 DEF CursorInv, CountRead
<1>5. CursorWithinEvents'
  BY <1>1, <1>2, <1>3, <1>4 DEF CursorInv, CursorWithinEvents
<1>6. SeenCounted'
  <2> SUFFICES ASSUME NEW u \in User
               PROVE  seen'[u] \subseteq events[u] /\ Cardinality(seen'[u]) <= cursor'[u]
    BY <1>1 DEF SeenCounted
  <2>1. CASE u = v
    <3>1. seen'[v] = seen[v] \cup rows[a] /\ cursor'[v] = count[a]
      BY <1>1, <1>2, <1>3
    <3>2. seen[v] \subseteq events[v]
      BY <1>2 DEF CursorInv, SeenCounted
    <3> QED BY <2>1, <3>1, <3>2, <1>4
  <2>2. CASE u # v
    BY <2>2, <1>1, <1>3 DEF CursorInv, SeenCounted
  <2> QED BY <2>1, <2>2
<1>7. RowsRead'
  BY <1>1, <1>3 DEF CursorInv, RowsRead
<1>8. CountRead'
  <2> SUFFICES ASSUME NEW b \in Actor, pc'[b] = "infer"
               PROVE  /\ rows'[b] \subseteq events[user[b]]
                      /\ cursor'[user[b]] <= count'[b]
                      /\ count'[b] <= Cardinality(events[user[b]])
                      /\ Cardinality(seen'[user[b]] \cup rows'[b]) <= count'[b]
    BY <1>1 DEF CountRead
  <2>1. b # a /\ pc[b] = "infer"
    BY <1>1, <1>3
  <2>2. user[b] \in User /\ user[b] # v
    BY <1>2, <2>1 DEF TypeOK, ProcessTyped, SlotsExact, Running, RunPC
  <2>3. /\ rows'[b] = rows[b] /\ count'[b] = count[b]
        /\ cursor'[user[b]] = cursor[user[b]] /\ seen'[user[b]] = seen[user[b]]
    BY <1>1, <1>3, <2>1, <2>2
  <2> QED BY <2>1, <2>3 DEF CursorInv, CountRead
<1>9. \A u \in User : cursor'[u] >= cursor[u]
  BY <1>1, <1>3, <1>4
<1> QED BY <1>5, <1>6, <1>7, <1>8, <1>9 DEF CursorInv

-----------------------------------------------------------------------------
(* No event is stored, counted or processed at the beginning.              *)
LEMMA InitCursor == Init => CursorInv
<1> SUFFICES ASSUME Init PROVE CursorInv
  OBVIOUS
<1>1. Cardinality({}) = 0
  BY FS_EmptySet
<1>2. CursorWithinEvents /\ SeenCounted
  BY <1>1 DEF Init, CursorWithinEvents, SeenCounted
<1>3. RowsRead /\ CountRead
  BY DEF Init, RowsRead, CountRead
<1> QED BY <1>2, <1>3 DEF CursorInv

(* Every step keeps the invariant, and none moves a cursor back.           *)
LEMMA NextCursor ==
    ASSUME SlotsInv, SlotsInv', CursorInv, [Next]_vars
    PROVE  CursorInv' /\ \A u \in User : cursor'[u] >= cursor[u]
<1>1. TypeOK /\ TypeOK' /\ SlotsExact /\ cursor \in [User -> Nat]
  BY DEF SlotsInv, TypeOK, DatabaseTyped
<1>2. ASSUME NothingCounted
      PROVE  CursorInv' /\ \A u \in User : cursor'[u] >= cursor[u]
  BY <1>1, <1>2, CursorKept DEF NothingCounted
<1>3. ASSUME NEW a \in Actor, RunStep(a)
      PROVE  CursorInv' /\ \A u \in User : cursor'[u] >= cursor[u]
  <2>1. CASE ReadEvents(a)
    <3>1. cursor' = cursor
      BY <2>1 DEF ReadEvents, dbVars
    <3>2. CursorInv'
      BY <1>1, <2>1, ReadEventsCursor
    <3> QED BY <1>1, <3>1, <3>2
  <2>2. CASE ReadCount(a)
    <3>1. cursor' = cursor
      BY <2>2 DEF ReadCount, dbVars
    <3>2. CursorInv'
      BY <1>1, <2>2, ReadCountCursor
    <3> QED BY <1>1, <3>1, <3>2
  <2>3. CASE Infer(a)
    BY <1>1, <2>3, InferCursor
  <2>4. CASE \/ Claim(a) \/ ReadModel(a) \/ RecommendNothing(a) \/ StoreRead(a)
             \/ StoreCommit(a) \/ RunFails(a) \/ Release(a)
    BY <1>1, <1>2, <2>4, RunStepUncounted
  <2> QED BY <1>3, <2>1, <2>2, <2>3, <2>4 DEF RunStep, RunProgress
<1>4. CASE \E a \in Request : IngestInsert(a) \/ RequestStep(a)
  BY <1>1, <1>2, <1>4, RequestStepUncounted
<1>5. CASE DigestStart \/ DigestStep
  BY <1>1, <1>2, <1>5, DigestStepUncounted
<1>6. CASE NewDay \/ Crash \/ \E u \in User : CooldownEnds(u) \/ RecommendationAges(u)
  BY <1>1, <1>2, <1>6, WorldStepUncounted
<1>7. CASE UNCHANGED vars
  <2>1. NothingCounted
    BY <1>7 DEF NothingCounted, vars, dbVars, localVars
  <2> QED BY <1>2, <2>1
<1> QED BY <1>3, <1>4, <1>5, <1>6, <1>7 DEF Next

(* The two inductive invariants hold together in every reachable state.    *)
LEMMA CursorInvariant == Spec => [](SlotsInv /\ CursorInv)
<1>1. Init => SlotsInv /\ CursorInv
  BY InitSlots, InitCursor
<1>2. SlotsInv /\ CursorInv /\ [Next]_vars => SlotsInv' /\ CursorInv'
  BY NextSlots, NextCursor
<1> QED BY <1>1, <1>2, PTL DEF Spec

(* The cursor of should_trigger is never ahead of the events table.        *)
THEOREM CursorInTable == Spec => []CursorWithinEvents
<1>1. CursorInv => CursorWithinEvents
  BY DEF CursorInv
<1> QED BY <1>1, CursorInvariant, PTL

(* The total model_user counted before it called the language model never  *)
(* moves the cursor back.                                                  *)
THEOREM CursorNeverGoesBack == Spec => CursorMonotone
<1>1. SlotsInv /\ SlotsInv' /\ CursorInv /\ [Next]_vars
         => [\A u \in User : cursor'[u] >= cursor[u]]_vars
  BY NextCursor
<1> QED BY <1>1, CursorInvariant, PTL DEF Spec, CursorMonotone

(* The gate's number of new events is at most that of the events no stored *)
(* profile was inferred from.                                              *)
THEOREM NoEventCountedTwice == Spec => []SeenNotCountedAgain
<1>1. SlotsInv /\ CursorInv => SeenNotCountedAgain
  <2> SUFFICES ASSUME SlotsInv, CursorInv, NEW u \in User
               PROVE  Cardinality(events[u]) - cursor[u] <= Cardinality(events[u] \ seen[u])
    BY DEF SeenNotCountedAgain
  <2>1. IsFiniteSet(events[u]) /\ cursor[u] \in Nat
    BY DEF SlotsInv, TypeOK, DatabaseTyped
  <2>2. seen[u] \subseteq events[u] /\ Cardinality(seen[u]) <= cursor[u]
    BY DEF CursorInv, SeenCounted
  <2>3. IsFiniteSet(seen[u]) /\ Cardinality(seen[u]) \in Nat
    BY <2>1, <2>2, FS_Subset, FS_CardinalityType
  <2>4. events[u] \cap seen[u] = seen[u]
    BY <2>2
  <2>5. /\ Cardinality(events[u] \ seen[u])
             = Cardinality(events[u]) - Cardinality(events[u] \cap seen[u])
        /\ Cardinality(events[u]) \in Nat
    BY <2>1, FS_Difference, FS_CardinalityType
  <2> QED BY <2>1, <2>2, <2>3, <2>4, <2>5
<1> QED BY <1>1, CursorInvariant, PTL

-----------------------------------------------------------------------------
(* Whoever holds the uncommitted row of a model is at work, whether or not *)
(* another coroutine waits for it.                                         *)
HoldersAtWork == \A b \in pending : pc[b] \in AtWork

(* A step of one coroutine that keeps its row only if it stays at work     *)
(* leaves the others where they are.                                       *)
LEMMA OthersAtWork ==
    ASSUME TypeOK, HoldersAtWork, NEW a \in Actor,
           \A b \in Actor : b # a => pc'[b] = pc[b],
           pending' \subseteq pending \cup {a},
           a \in pending' => pc'[a] \in AtWork
    PROVE  HoldersAtWork'
BY DEF HoldersAtWork, TypeOK, ProcessTyped

(* A request creates the row at one commit's distance, and commits it with *)
(* its answer, before the background task begins.                          *)
LEMMA RequestAtWork ==
    ASSUME TypeOK, HoldersAtWork, NEW a \in Request,
           IngestInsert(a) \/ RequestStep(a)
    PROVE  HoldersAtWork'
<1> a \in Actor
  BY DEF Actor
<1>1. \A b \in Actor : b # a => pc'[b] = pc[b]
  BY DEF RequestStep, RequestProgress, IngestInsert, IngestCommit, GateCount, GateModel,
     GateModelMissing, GateCreate, GateFetch, GateDecide, RequestFails, Goto, End,
     TypeOK, ProcessTyped
<1>2. CASE IngestInsert(a) \/ IngestCommit(a) \/ GateCount(a) \/ GateModel(a)
              \/ GateModelMissing(a)
  <2>1. a \notin pending /\ pending' = pending
    BY <1>2 DEF IngestInsert, IngestCommit, GateCount, GateModel, GateModelMissing, Goto,
       HoldersAtWork, AtWork
  <2> QED BY <1>1, <2>1, OthersAtWork
<1>3. CASE GateCreate(a)
  <2>1. a \notin pending
    BY <1>3 DEF GateCreate, HoldersAtWork, AtWork
  <2>2. \/ pending' = pending
        \/ pending' = pending \cup {a} /\ pc' = [pc EXCEPT ![a] = "modelRead"]
    BY <1>3 DEF GateCreate
  <2>3. a \in pending' => pc'[a] \in AtWork
    BY <2>1, <2>2 DEF AtWork, TypeOK, ProcessTyped
  <2> QED BY <1>1, <2>2, <2>3, OthersAtWork
<1>4. CASE GateFetch(a)
  <2>1. \/ pending' = pending /\ pc' = [pc EXCEPT ![a] = "fetched"]
        \/ pending' = pending \ {a}
    BY <1>4 DEF GateFetch, CommitModel
  <2>2. a \in pending' => pc'[a] \in AtWork
    BY <2>1 DEF AtWork, TypeOK, ProcessTyped
  <2> QED BY <1>1, <2>1, <2>2, OthersAtWork
<1>5. CASE GateDecide(a) \/ RequestFails(a)
  <2>1. pending' = pending \ {a}
    BY <1>5 DEF GateDecide, RequestFails, CommitModel
  <2> QED BY <1>1, <2>1, OthersAtWork
<1> QED BY <1>2, <1>3, <1>4, <1>5 DEF RequestStep, RequestProgress

(* A run creates the row in its first statement and commits it with the    *)
(* profile.                                                                *)
LEMMA RunAtWork ==
    ASSUME TypeOK, HoldersAtWork, NEW a \in Actor, RunStep(a)
    PROVE  HoldersAtWork'
<1>1. \A b \in Actor : b # a => pc'[b] = pc[b]
  BY DEF RunStep, RunProgress, Claim, ReadModel, ReadEvents, ReadCount, Infer,
     RecommendNothing, StoreRead, StoreCommit, Release, RunFails, Goto, End,
     TypeOK, ProcessTyped
<1>2. CASE Claim(a) \/ RecommendNothing(a) \/ StoreRead(a) \/ StoreCommit(a) \/ Release(a)
  <2>1. a \notin pending /\ pending' = pending
    BY <1>2 DEF Claim, RecommendNothing, StoreRead, StoreCommit, Release, Goto,
       HoldersAtWork, AtWork
  <2> QED BY <1>1, <2>1, OthersAtWork
<1>3. CASE ReadModel(a)
  <2>1. pending' \subseteq pending \cup {a} /\ pc'[a] = "readEvents"
    BY <1>3 DEF ReadModel, Goto, TypeOK, ProcessTyped
  <2> QED BY <1>1, <2>1, OthersAtWork DEF AtWork
<1>4. CASE ReadEvents(a) \/ ReadCount(a)
  <2>1. pending' = pending /\ pc'[a] \in {"readCount", "infer"}
    BY <1>4 DEF ReadEvents, ReadCount, Goto, TypeOK, ProcessTyped
  <2> QED BY <1>1, <2>1, OthersAtWork DEF AtWork
<1>5. CASE Infer(a) \/ RunFails(a)
  <2>1. pending' = pending \ {a}
    BY <1>5 DEF Infer, RunFails
  <2> QED BY <1>1, <2>1, OthersAtWork
<1> QED BY <1>2, <1>3, <1>4, <1>5 DEF RunStep, RunProgress

(* The digest's own steps are taken outside any such transaction.          *)
LEMMA DigestAtWork ==
    ASSUME TypeOK, HoldersAtWork, DigestStart \/ DigestStep
    PROVE  HoldersAtWork'
<1> Digest \in Actor
  BY DEF Actor
<1>1. \A b \in Actor : b # Digest => pc'[b] = pc[b]
  BY DEF DigestStart, DigestStep, DigestProgress, DigestSelect, DigestEnd, DigestLastRec,
     DigestNewEvents, DigestFreshness, DigestAborts, Goto, End, TypeOK, ProcessTyped
<1>2. pending' = pending
  BY DEF DigestStart, DigestStep, DigestProgress, DigestSelect, DigestEnd, DigestLastRec,
     DigestNewEvents, DigestFreshness, DigestAborts
<1>3. Digest \notin pending
  BY DEF DigestStart, DigestStep, DigestProgress, DigestSelect, DigestEnd, DigestLastRec,
     DigestNewEvents, DigestFreshness, DigestAborts, Goto, HoldersAtWork, AtWork, DigestPC
<1> QED BY <1>1, <1>2, <1>3, OthersAtWork

(* Every step keeps the holders at work.                                   *)
LEMMA NextAtWork ==
    ASSUME TypeOK, HoldersAtWork, [Next]_vars
    PROVE  HoldersAtWork'
<1>1. CASE \E a \in Actor : RunStep(a)
  BY <1>1, RunAtWork
<1>2. CASE \E a \in Request : IngestInsert(a) \/ RequestStep(a)
  BY <1>2, RequestAtWork
<1>3. CASE DigestStart \/ DigestStep
  BY <1>3, DigestAtWork
<1>4. CASE NewDay \/ \E u \in User : CooldownEnds(u) \/ RecommendationAges(u)
  BY <1>4 DEF NewDay, CooldownEnds, RecommendationAges, HoldersAtWork
<1>5. CASE Crash
  BY <1>5 DEF Crash, HoldersAtWork
<1>6. CASE UNCHANGED vars
  BY <1>6 DEF vars, HoldersAtWork
<1> QED BY <1>1, <1>2, <1>3, <1>4, <1>5, <1>6 DEF Next

(* No INSERT of a cognitive model waits for a coroutine that waits itself, *)
(* or that is not in its transaction any more: the circular wait of        *)
(* several sessions is impossible, however requests, digest, failures and  *)
(* crashes interleave.                                                     *)
THEOREM WaitsEndWithTheHolder == Spec => []NoCircularWait
<1>1. Init => HoldersAtWork
  BY DEF Init, HoldersAtWork
<1>2. TypeOK /\ HoldersAtWork /\ [Next]_vars => HoldersAtWork'
  BY NextAtWork
<1>3. HoldersAtWork => NoCircularWait
  BY DEF HoldersAtWork, NoCircularWait
<1> QED BY <1>1, <1>2, <1>3, TypeCorrect, PTL DEF Spec
=============================================================================

---- MODULE CatalogProofs ----
(***************************************************************************)
(* The catalog's two stores, for any titles, texts, numbers of requests    *)
(* and starts: types, what the seeder leaves alone, whose entry lies       *)
(* where, and the agreement of the two stores.                             *)
(***************************************************************************)
EXTENDS Catalog, TLAPS

-----------------------------------------------------------------------------
(* Types.                                                                  *)

(* A row that exists, an entry that exists and a request that is active    *)
(* are records of their kinds.                                             *)
LEMMA Typed ==
    ASSUME TypeOK
    PROVE  /\ \A id \in Id : Exists(id) => rows[id] \in Row
           /\ \A id \in Id : staged[id] # NoRow => staged[id] \in Row
           /\ \A v \in VectorId : vectors[v] # NoEntry => vectors[v] \in Entry
           /\ \A r \in Request : Active(r) => req[r] \in Local
BY DEF TypeOK, SeederTyped, RequestsTyped, Exists, Active, Idle

(* A request that moves on stays well typed.                               *)
LEMMA GotoTypes ==
    ASSUME TypeOK, NEW r \in Request, Active(r), NEW pc \in PC, Goto(r, pc),
           UNCHANGED <<server, lastId>>
    PROVE  RequestsTyped'
<1>1. req[r] \in Local
  BY Typed
<1>2. [req[r] EXCEPT !.pc = pc] \in Local /\ [req[r] EXCEPT !.pc = pc].id = req[r].id
  BY <1>1 DEF Local
<1>3. req' = [req EXCEPT ![r] = [req[r] EXCEPT !.pc = pc]]
  BY DEF Goto
<1> QED BY <1>2, <1>3 DEF TypeOK, RequestsTyped, Active

(* A request that ends leaves its slot idle.                               *)
LEMMA EndTypes ==
    ASSUME TypeOK, NEW r \in Request, End(r), UNCHANGED <<server, lastId>>
    PROVE  RequestsTyped'
BY DEF End, TypeOK, RequestsTyped, Active, Idle

(* A request that begins is well typed when what it remembers is.          *)
LEMMA BeginTypes ==
    ASSUME TypeOK, NEW r \in Request, NEW local \in Local, Begin(r, local),
           server' = server, lastId' \in Nat, lastId' >= lastId, local.id <= lastId'
    PROVE  RequestsTyped' /\ started' \in Nat
<1>1. lastId \in Nat /\ started \in Nat
  BY CatalogBoundAssumption DEF TypeOK
<1>2. \A s \in Request : Active(s) => req[s].id \in Nat
  BY Typed, CatalogBoundAssumption DEF Local, Id
<1> QED BY <1>1, <1>2 DEF Begin, TypeOK, RequestsTyped, Active

(* The parts of TypeOK that neither requests nor the seeder's session      *)
(* touch.                                                                  *)
StoresTyped ==
    /\ rows \in [Id -> Row \cup {NoRow}]
    /\ vectors \in [VectorId -> Entry \cup {NoEntry}]
    /\ referenced \in SUBSET Id
    /\ lastId \in 0..MaxIds
    /\ server \in {"down", "booting", "up", "refused"}
    /\ started \in Nat /\ boots \in Nat
    /\ disturbed \in SUBSET VectorId
    /\ IdsHandedOut

(* A row with its id makes an entry.                                       *)
LEMMA EntryTypes ==
    ASSUME NEW id \in Id, NEW row \in Row
    PROVE  EntryFor(id, row) \in Entry /\ row.vid \in VectorId
BY DEF EntryFor, Row, Entry

(* The steps of a request keep the types.                                  *)
LEMMA RequestTypes ==
    ASSUME TypeOK, NEW r \in Request, RequestStep(r)
    PROVE  TypeOK'
<1>1. StoresTyped /\ SeederTyped /\ RequestsTyped
  BY DEF TypeOK, StoresTyped
<1>2. lastId \in Nat /\ MaxIds \in Nat
  BY CatalogBoundAssumption DEF TypeOK
<1>3. SeederTyped' /\ staged' = staged
  BY <1>1 DEF RequestStep, CreateCheck, CreateInsert, CreateCommit, UpdateRead,
     UpdateClash, UpdateCommit, DeleteRead, DeleteVector, DeleteUnavailable, DeleteRow,
     Sync, WriteFails, seedVars, SeederTyped
<1>4. Active(r) => /\ req[r] \in Local
                   /\ req[r].id \in Id /\ req[r].id <= lastId
                   /\ req[r].loaded \in Row /\ req[r].edited \in Row
                   /\ req[r].loaded.vid \in VectorId /\ req[r].edited.vid \in VectorId
  BY <1>1, Typed DEF RequestsTyped, Local, Row
<1>5. CASE CreateCheck(r)
  <2>1. PICK title \in Title, text \in Text :
           LET id == lastId + 1
               row == [title |-> title, text |-> text, vid |-> id, status |-> "pending"]
           IN  /\ id \in Id
               /\ Begin(r, [pc |-> "insert", op |-> "create", id |-> id,
                            loaded |-> row, edited |-> row])
               /\ lastId' = id
               /\ UNCHANGED <<storeVars, referenced, server, seedVars, disturbed>>
    BY <1>5 DEF CreateCheck
  <2> DEFINE id == lastId + 1
             row == [title |-> title, text |-> text, vid |-> id, status |-> "pending"]
             local == [pc |-> "insert", op |-> "create", id |-> id,
                       loaded |-> row, edited |-> row]
  <2>2. row \in Row
    BY <2>1 DEF Row, VectorId
  <2>3. local \in Local /\ local.id = lastId'
    BY <2>1, <2>2 DEF Local, PC
  <2>4. Begin(r, local) /\ server' = server /\ lastId' = lastId + 1
    BY <2>1 DEF seedVars
  <2> HIDE DEF local
  <2>5. RequestsTyped' /\ started' \in Nat
    BY <1>2, <2>3, <2>4, BeginTypes
  <2> QED BY <1>1, <1>2, <1>3, <2>1, <2>5
          DEF TypeOK, StoresTyped, storeVars, seedVars, Id, IdsHandedOut, Exists
<1>6. CASE CreateInsert(r)
  <2>1. RequestsTyped'
    BY <1>6, GotoTypes, EndTypes DEF CreateInsert, PC
  <2> QED BY <1>1, <1>3, <1>6, <2>1 DEF CreateInsert, TypeOK, StoresTyped, storeVars, seedVars, IdsHandedOut, Exists
<1>7. CASE Sync(r)
  <2>1. \A st \in {"synced", "failed"} :
           LET local == [req[r] EXCEPT !.pc = "commit", !.edited.status = st]
           IN  local \in Local /\ local.id = req[r].id
    BY <1>4, <1>7 DEF Sync, Local, Row, PC
  <2>2. PICK st \in {"synced", "failed"} :
           req' = [req EXCEPT ![r] = [req[r] EXCEPT !.pc = "commit", !.edited.status = st]]
    BY <1>7 DEF Sync
  <2>3. RequestsTyped'
    BY <1>1, <1>4, <1>7, <2>1, <2>2 DEF Sync, RequestsTyped, Active
  <2>4. vectors' \in [VectorId -> Entry \cup {NoEntry}] /\ disturbed' \in SUBSET VectorId
    BY <1>1, <1>4, <1>7, EntryTypes DEF Sync, StoresTyped
  <2> QED BY <1>1, <1>3, <1>7, <2>3, <2>4 DEF Sync, TypeOK, StoresTyped, seedVars, IdsHandedOut, Exists
<1>8. CASE CreateCommit(r)
  <2>1. RequestsTyped'
    BY <1>8, EndTypes DEF CreateCommit
  <2> QED BY <1>1, <1>3, <1>4, <1>8, <2>1 DEF CreateCommit, TypeOK, StoresTyped, seedVars, IdsHandedOut, Exists
<1>9. CASE UpdateRead(r)
  <2>1. PICK id \in Id, title \in Title, text \in Text :
           /\ Exists(id)
           /\ Begin(r, [pc |-> "clash", op |-> "update", id |-> id, loaded |-> rows[id],
                        edited |-> [rows[id] EXCEPT !.title = title, !.text = text]])
           /\ disturbed' = disturbed \cup Overlapped(id)
           /\ UNCHANGED <<storeVars, referenced, lastId, server, seedVars>>
    BY <1>9 DEF UpdateRead
  <2> DEFINE local ==
               [pc |-> "clash", op |-> "update", id |-> id, loaded |-> rows[id],
                edited |-> [rows[id] EXCEPT !.title = title, !.text = text]]
  <2>2. rows[id] \in Row /\ [rows[id] EXCEPT !.title = title, !.text = text] \in Row
    BY <2>1, Typed DEF Row
  <2>3. local \in Local /\ local.id = id
    BY <2>2 DEF Local, PC
  <2>4. Begin(r, local) /\ server' = server /\ lastId' = lastId
    BY <2>1
  <2>5. id <= lastId
    BY <1>1, <2>1 DEF StoresTyped, IdsHandedOut
  <2>6. Overlapped(id) \subseteq VectorId
    BY <2>2 DEF Overlapped, Row
  <2> HIDE DEF local
  <2>7. RequestsTyped' /\ started' \in Nat
    BY <1>2, <2>3, <2>4, <2>5, BeginTypes
  <2> QED BY <1>1, <1>3, <2>1, <2>6, <2>7
          DEF TypeOK, StoresTyped, storeVars, seedVars, IdsHandedOut, Exists
<1>10. CASE UpdateClash(r)
  <2>1. RequestsTyped'
    BY <1>10, GotoTypes, EndTypes DEF UpdateClash, PC
  <2> QED BY <1>1, <1>3, <1>10, <2>1
          DEF UpdateClash, TypeOK, StoresTyped, storeVars, seedVars, IdsHandedOut, Exists
<1>11. CASE UpdateCommit(r)
  <2>1. RequestsTyped'
    BY <1>11, EndTypes DEF UpdateCommit
  <2>2. rows[req[r].id] \in Row /\ req[r].id \in Id
    BY <1>4, <1>11, Typed DEF UpdateCommit
  <2>3. Merged(rows[req[r].id], req[r].loaded, req[r].edited) \in Row
    BY <1>4, <1>11, <2>2 DEF UpdateCommit, Merged, Row
  <2>4. rows' = [rows EXCEPT ![req[r].id] =
                    Merged(rows[req[r].id], req[r].loaded, req[r].edited)]
    BY <1>11 DEF UpdateCommit
  <2> QED BY <1>1, <1>3, <1>4, <1>11, <2>1, <2>3, <2>4
          DEF UpdateCommit, TypeOK, StoresTyped, seedVars, IdsHandedOut, Exists
<1>12. CASE DeleteRead(r)
  <2>1. PICK id \in Id :
           /\ Exists(id)
           /\ Begin(r, [pc |-> "deleteVector", op |-> "delete", id |-> id,
                        loaded |-> rows[id], edited |-> rows[id]])
           /\ disturbed' = disturbed \cup Overlapped(id)
           /\ UNCHANGED <<storeVars, referenced, lastId, server, seedVars>>
    BY <1>12 DEF DeleteRead
  <2> DEFINE local == [pc |-> "deleteVector", op |-> "delete", id |-> id,
                       loaded |-> rows[id], edited |-> rows[id]]
  <2>2. rows[id] \in Row
    BY <2>1, Typed
  <2>3. local \in Local /\ local.id = id
    BY <2>2 DEF Local, PC
  <2>4. Begin(r, local) /\ server' = server /\ lastId' = lastId
    BY <2>1
  <2>5. id <= lastId
    BY <1>1, <2>1 DEF StoresTyped, IdsHandedOut
  <2>6. Overlapped(id) \subseteq VectorId
    BY <2>2 DEF Overlapped, Row
  <2> HIDE DEF local
  <2>7. RequestsTyped' /\ started' \in Nat
    BY <1>2, <2>3, <2>4, <2>5, BeginTypes
  <2> QED BY <1>1, <1>3, <2>1, <2>6, <2>7
          DEF TypeOK, StoresTyped, storeVars, seedVars, IdsHandedOut, Exists
<1>13. CASE DeleteVector(r)
  <2>1. RequestsTyped'
    BY <1>13, GotoTypes DEF DeleteVector, PC
  <2> QED BY <1>1, <1>3, <1>13, <2>1
          DEF DeleteVector, TypeOK, StoresTyped, seedVars, IdsHandedOut, Exists
<1>14. CASE DeleteUnavailable(r)
  <2>1. RequestsTyped'
    BY <1>14, EndTypes DEF DeleteUnavailable
  <2>2. vectors' \in [VectorId -> Entry \cup {NoEntry}] /\ disturbed' \in SUBSET VectorId
    BY <1>1, <1>4, <1>14 DEF DeleteUnavailable, StoresTyped
  <2> QED BY <1>1, <1>3, <1>14, <2>1, <2>2
          DEF DeleteUnavailable, TypeOK, StoresTyped, seedVars, IdsHandedOut, Exists
<1>15. CASE DeleteRow(r)
  <2>1. RequestsTyped'
    BY <1>15, EndTypes DEF DeleteRow
  <2> QED BY <1>1, <1>3, <1>15, <2>1
          DEF DeleteRow, TypeOK, StoresTyped, seedVars, IdsHandedOut, Exists
<1>16. CASE WriteFails(r)
  <2>1. RequestsTyped'
    BY <1>16, EndTypes DEF WriteFails
  <2> QED BY <1>1, <1>3, <1>4, <1>16, <2>1
          DEF WriteFails, TypeOK, StoresTyped, storeVars, seedVars, IdsHandedOut, Exists
<1> QED BY <1>5, <1>6, <1>7, <1>8, <1>9, <1>10, <1>11, <1>12, <1>13, <1>14, <1>15, <1>16
        DEF RequestStep

(* What the seeder does to one course is well typed.                       *)
LEMMA EmbedTypes ==
    ASSUME TypeOK, NEW title, NEW id \in Id, NEW row \in Row, SeedEmbed(title, id, row)
    PROVE  /\ vectors' \in [VectorId -> Entry \cup {NoEntry}]
           /\ disturbed' \in SUBSET VectorId
           /\ todo' = todo \ {title} /\ todo' \in SUBSET Seeded
           /\ \E new \in Row :
                 new.vid = row.vid /\ EntryFor(id, new) = EntryFor(id, row)
                    /\ staged' = [staged EXCEPT ![id] = new]
           /\ UNCHANGED <<rows, referenced, server, boots, req, started>>
<1>1. \A st \in {"synced", "failed"} :
         LET new == [row EXCEPT !.status = st]
         IN  new \in Row /\ new.vid = row.vid /\ EntryFor(id, new) = EntryFor(id, row)
  BY DEF Row, EntryFor
<1>2. \E st \in {"synced", "failed"} :
         staged' = [staged EXCEPT ![id] = [row EXCEPT !.status = st]]
  BY DEF SeedEmbed
<1>3. /\ vectors' \in [VectorId -> Entry \cup {NoEntry}]
      /\ disturbed' \in SUBSET VectorId
  BY EntryTypes DEF SeedEmbed, TypeOK
<1> QED BY <1>1, <1>2, <1>3 DEF SeedEmbed, TypeOK, SeederTyped

(* The seeder, the users and a crash keep the types.                       *)
LEMMA SystemTypes ==
    ASSUME TypeOK, SeedStep \/ Crash \/ \E id \in Id : Refer(id)
    PROVE  TypeOK'
<1>1. StoresTyped /\ SeederTyped /\ RequestsTyped
  BY DEF TypeOK, StoresTyped
<1>2. lastId \in Nat /\ MaxIds \in Nat
  BY CatalogBoundAssumption DEF TypeOK
<1>3. \A r \in Request : Active(r) => server = "up"
  BY <1>1 DEF RequestsTyped
<1>4. CASE Boot
  BY <1>1, <1>3, <1>4 DEF Boot, TypeOK, StoresTyped, SeederTyped, RequestsTyped, storeVars,
     IdsHandedOut, Exists, Active
<1>5. ASSUME NEW title \in Seeded, SeedExisting(title) PROVE TypeOK'
  <2>1. PICK id \in Titled(title) : SeedEmbed(title, id, rows[id])
    BY <1>5 DEF SeedExisting
  <2>2. id \in Id /\ rows[id] \in Row /\ id <= lastId
    BY <1>1, Typed DEF Titled, StoresTyped, IdsHandedOut
  <2>3. /\ vectors' \in [VectorId -> Entry \cup {NoEntry}]
        /\ disturbed' \in SUBSET VectorId
        /\ todo' \in SUBSET Seeded
        /\ UNCHANGED <<rows, referenced, server, boots, req, started>>
    BY <2>1, <2>2, EmbedTypes
  <2>4. PICK new \in Row : staged' = [staged EXCEPT ![id] = new]
    BY <2>1, <2>2, EmbedTypes
  <2> QED BY <1>1, <1>3, <1>5, <2>2, <2>3, <2>4
          DEF SeedExisting, TypeOK, StoresTyped, SeederTyped, RequestsTyped,
              IdsHandedOut, Exists, Active
<1>6. ASSUME NEW title \in Seeded, SeedNew(title) PROVE TypeOK'
  <2> DEFINE id == lastId + 1
             row == [title |-> title, text |-> SeedText, vid |-> StableVectorId(title),
                     status |-> "pending"]
  <2>1. id \in Id /\ lastId' = id /\ SeedEmbed(title, id, row) /\ server = "booting"
    BY <1>6 DEF SeedNew
  <2>2. row \in Row
    BY SeedAssumption DEF Row, VectorId, StableVectorId
  <2> HIDE DEF row
  <2>3. /\ vectors' \in [VectorId -> Entry \cup {NoEntry}]
        /\ disturbed' \in SUBSET VectorId
        /\ todo' \in SUBSET Seeded
        /\ UNCHANGED <<rows, referenced, server, boots, req, started>>
    BY <2>1, <2>2, EmbedTypes
  <2>4. PICK new \in Row : staged' = [staged EXCEPT ![id] = new]
    BY <2>1, <2>2, EmbedTypes
  <2>5. lastId' \in 0..MaxIds
    BY <1>2, <2>1 DEF Id
  <2>6. IdsHandedOut'
    BY <1>1, <1>2, <2>1, <2>3, <2>4 DEF StoresTyped, IdsHandedOut, Exists, SeederTyped, Id
  <2>7. SeederTyped'
    BY <1>1, <2>1, <2>3, <2>4 DEF SeederTyped
  <2>8. RequestsTyped'
    BY <1>1, <1>3, <2>1, <2>3 DEF RequestsTyped, Active
  <2> QED BY <1>1, <2>3, <2>5, <2>6, <2>7, <2>8 DEF TypeOK, StoresTyped
<1>7. ASSUME NEW title \in Seeded, SeedRefused(title) PROVE TypeOK'
  <2>1. {staged[id].vid : id \in {i \in Id : staged[i] # NoRow}} \subseteq VectorId
    BY Typed DEF Row
  <2> QED BY <1>1, <1>3, <1>7, <2>1
          DEF SeedRefused, TypeOK, StoresTyped, SeederTyped, RequestsTyped, storeVars,
              NoRows, IdsHandedOut, Exists, Active
<1>8. CASE SeedCommit
  <2>1. rows' \in [Id -> Row \cup {NoRow}]
    BY <1>1, <1>8 DEF SeedCommit, StoresTyped, SeederTyped
  <2> QED BY <1>1, <1>3, <1>8, <2>1
          DEF SeedCommit, TypeOK, StoresTyped, SeederTyped, RequestsTyped,
              NoRows, IdsHandedOut, Exists, Active
<1>9. CASE Crash
  <2>1. {staged[id].vid : id \in {i \in Id : staged[i] # NoRow}} \subseteq VectorId
    BY Typed DEF Row
  <2>2. {req[r].loaded.vid : r \in {s \in Request : Active(s)}} \subseteq VectorId
    BY Typed DEF Local, Row
  <2>3. RequestsTyped'
    BY <1>9 DEF Crash, RequestsTyped, Active, Idle
  <2> QED BY <1>1, <1>9, <2>1, <2>2, <2>3
          DEF Crash, TypeOK, StoresTyped, SeederTyped, storeVars, NoRows,
              IdsHandedOut, Exists
<1>10. ASSUME NEW id \in Id, Refer(id) PROVE TypeOK'
  BY <1>1, <1>10 DEF Refer, TypeOK, StoresTyped, SeederTyped, RequestsTyped, storeVars,
     seedVars, IdsHandedOut, Exists, Active
<1> QED BY <1>4, <1>5, <1>6, <1>7, <1>8, <1>9, <1>10 DEF SeedStep

(* Every reachable state of the catalog is well typed: no request is       *)
(* served before the seeder is through, and no id is used before it is     *)
(* handed out.                                                             *)
THEOREM CatalogTypes == Spec => []TypeOK
<1>1. Init => TypeOK
  <2> SUFFICES ASSUME Init PROVE TypeOK
    OBVIOUS
  <2>1. 0 \in 0..MaxIds
    BY CatalogBoundAssumption
  <2> QED BY <2>1 DEF Init, TypeOK, SeederTyped, RequestsTyped, IdsHandedOut, Exists,
          Active, NoRows, Idle
<1>2. TypeOK /\ [Next]_vars => TypeOK'
  <2> SUFFICES ASSUME TypeOK, [Next]_vars PROVE TypeOK'
    OBVIOUS
  <2>1. CASE Next
    BY <2>1, RequestTypes, SystemTypes DEF Next
  <2>2. CASE UNCHANGED vars
    BY <2>2 DEF vars, storeVars, seedVars, TypeOK, SeederTyped, RequestsTyped,
       IdsHandedOut, Exists, Active
  <2> QED BY <2>1, <2>2
<1> QED BY <1>1, <1>2, PTL DEF Spec
-----------------------------------------------------------------------------
(* The seeder's session.                                                   *)

(* A request is served by a process that is up, and leaves the seeder's    *)
(* variables alone.                                                        *)
LEMMA RequestServed ==
    ASSUME TypeOK, NEW r \in Request, RequestStep(r)
    PROVE  server = "up" /\ UNCHANGED <<server, todo, staged>>
<1>1. Active(r) => server = "up"
  BY DEF TypeOK, RequestsTyped
<1> QED BY <1>1 DEF RequestStep, CreateCheck, CreateInsert, CreateCommit, UpdateRead,
       UpdateClash, UpdateCommit, DeleteRead, DeleteVector, DeleteUnavailable, DeleteRow,
       Sync, WriteFails, Begin, seedVars

(* While the process starts, the seeder has it for itself.                 *)
LEMMA BootSteps ==
    ASSUME TypeOK, Next, server = "booting"
    PROVE  \/ SeedCommit \/ Crash
           \/ \E title \in Seeded :
                 SeedExisting(title) \/ SeedNew(title) \/ SeedRefused(title)
<1>1. \A r \in Request : ~RequestStep(r)
  BY RequestServed
<1> QED BY <1>1 DEF Next, SeedStep, Boot, Refer

(* What the seeder has staged: an existing course with its title and text, *)
(* a new one under the vector id of its title; and whatever it has looked  *)
(* at is staged.                                                           *)
StagedRight ==
    /\ \A id \in Id : staged[id] # NoRow =>
          IF Exists(id) THEN EntryFor(id, staged[id]) = EntryFor(id, rows[id])
          ELSE /\ staged[id].vid = StableVectorId(staged[id].title)
               /\ staged[id].title \in Seeded \ todo
    /\ server = "booting" => \A title \in Seeded \ todo :
          \E id \in Id : staged[id] # NoRow /\ staged[id].title = title

(* A course that the seeder looks at is staged.                            *)
LEMMA CourseStaged ==
    ASSUME TypeOK, StagedRight, NEW title \in todo, server = "booting",
           NEW id \in Id, NEW row \in Row, row.title = title, SeedEmbed(title, id, row),
           IF Exists(id) THEN row = rows[id]
           ELSE staged[id] = NoRow /\ row.vid = StableVectorId(title)
    PROVE  StagedRight'
<1>1. /\ todo' = todo \ {title} /\ todo \in SUBSET Seeded
      /\ rows' = rows /\ server' = server
      /\ staged \in [Id -> Row \cup {NoRow}]
  BY EmbedTypes DEF TypeOK, SeederTyped
<1>2. PICK new \in Row : /\ new.vid = row.vid /\ EntryFor(id, new) = EntryFor(id, row)
                         /\ staged' = [staged EXCEPT ![id] = new]
  BY EmbedTypes
<1>3. new # NoRow /\ new.title = title
  BY <1>2 DEF Row, NoRow, EntryFor
<1>4. /\ staged'[id] = new
      /\ \A i \in Id : i # id => staged'[i] = staged[i]
  BY <1>1, <1>2
<1>5. ASSUME NEW i \in Id, staged'[i] # NoRow
      PROVE  IF Exists(i)' THEN EntryFor(i, staged'[i]) = EntryFor(i, rows'[i])
             ELSE /\ staged'[i].vid = StableVectorId(staged'[i].title)
                  /\ staged'[i].title \in Seeded \ todo'
  <2>1. CASE i = id
    BY <1>1, <1>2, <1>3, <1>4, <2>1 DEF Exists
  <2>2. CASE i # id
    BY <1>1, <1>4, <1>5, <2>2 DEF StagedRight, Exists
  <2> QED BY <2>1, <2>2
<1>6. ASSUME NEW t \in Seeded \ todo'
      PROVE  \E i \in Id : staged'[i] # NoRow /\ staged'[i].title = t
  <2>1. CASE t = title
    BY <1>3, <1>4, <2>1
  <2>2. CASE t # title
    <3>1. PICK i \in Id : staged[i] # NoRow /\ staged[i].title = t
      BY <1>1, <2>2 DEF StagedRight
    <3>2. i # id
      <4> SUFFICES ASSUME i = id PROVE FALSE
        OBVIOUS
      <4>1. EntryFor(id, staged[id]) = EntryFor(id, row)
        BY <3>1 DEF StagedRight
      <4> QED BY <2>2, <3>1, <4>1 DEF EntryFor
    <3> QED BY <1>4, <3>1, <3>2
  <2> QED BY <2>1, <2>2
<1> QED BY <1>5, <1>6 DEF StagedRight

(* No step spoils what is staged.                                          *)
LEMMA NextStaged == TypeOK /\ TypeOK' /\ StagedRight /\ [Next]_vars => StagedRight'
<1> SUFFICES ASSUME TypeOK, TypeOK', StagedRight, [Next]_vars PROVE StagedRight'
  OBVIOUS
<1>1. CASE server' # "booting"
  BY <1>1 DEF TypeOK, SeederTyped, StagedRight
<1>2. CASE server' = "booting" /\ server # "booting"
  <2>1. \A r \in Request : ~RequestStep(r)
    BY <1>2, RequestServed
  <2>2. Boot
    BY <1>2, <2>1 DEF Next, SeedStep, SeedExisting, SeedNew, SeedRefused, SeedCommit,
       Refer, Crash, vars
  <2> QED BY <1>2, <2>2 DEF Boot, TypeOK, SeederTyped, StagedRight
<1>3. ASSUME server = "booting", NEW title \in Seeded, SeedExisting(title) PROVE StagedRight'
  <2>1. PICK id \in Titled(title) : SeedEmbed(title, id, rows[id])
    BY <1>3 DEF SeedExisting
  <2>2. id \in Id /\ Exists(id) /\ rows[id] \in Row /\ rows[id].title = title
    BY Typed DEF Titled
  <2> QED BY <1>3, <2>1, <2>2, CourseStaged DEF SeedExisting
<1>4. ASSUME server = "booting", NEW title \in Seeded, SeedNew(title) PROVE StagedRight'
  <2> DEFINE id == lastId + 1
             row == [title |-> title, text |-> SeedText, vid |-> StableVectorId(title),
                     status |-> "pending"]
  <2>1. id \in Id /\ title \in todo /\ SeedEmbed(title, id, row)
    BY <1>4 DEF SeedNew
  <2>2. row \in Row /\ row.title = title /\ row.vid = StableVectorId(title)
    BY SeedAssumption DEF Row, VectorId, StableVectorId
  <2>3. ~Exists(id) /\ staged[id] = NoRow
    <3>1. ~(id <= lastId)
      BY CatalogBoundAssumption DEF TypeOK
    <3> QED BY <2>1, <3>1 DEF TypeOK, IdsHandedOut
  <2> HIDE DEF row, id
  <2> QED BY <1>4, <2>1, <2>2, <2>3, CourseStaged
<1>5. CASE UNCHANGED vars
  BY <1>5 DEF vars, storeVars, seedVars, StagedRight, Exists
<1> QED BY <1>1, <1>2, <1>3, <1>4, <1>5, BootSteps DEF SeedCommit, Crash, SeedRefused

(* In every reachable state.                                               *)
LEMMA StagedInvariant == Spec => []StagedRight
<1>1. Init => StagedRight
  BY DEF Init, StagedRight, NoRows
<1> QED BY <1>1, NextStaged, CatalogTypes, PTL DEF Spec

(* A start that succeeds leaves every course of the canonical list in the  *)
(* table and the titles and texts of what was there as they were.          *)
THEOREM SeedLeavesAll == Spec => SeedCompletes
<1>1. ASSUME TypeOK, StagedRight, [Next]_vars, server = "booting", server' = "up"
      PROVE  /\ \A title \in Seeded :
                   \E id \in Id : rows'[id] # NoRow /\ rows'[id].title = title
             /\ \A id \in Id : Exists(id) =>
                   EntryFor(id, rows'[id]) = EntryFor(id, rows[id])
  <2>1. SeedCommit
    <3>1. Next
      BY <1>1 DEF vars
    <3> QED BY <1>1, <3>1, BootSteps DEF Crash, SeedExisting, SeedNew, SeedEmbed, SeedRefused
  <2>2. /\ todo = {}
        /\ \A id \in Id : rows'[id] = IF staged[id] = NoRow THEN rows[id] ELSE staged[id]
    BY <2>1 DEF SeedCommit
  <2> QED BY <1>1, <2>2 DEF StagedRight
<1>2. TypeOK /\ StagedRight /\ [Next]_vars =>
         ((server = "booting" /\ server' = "up") =>
            /\ \A title \in Seeded :
                  \E id \in Id : rows'[id] # NoRow /\ rows'[id].title = title
            /\ \A id \in Id : Exists(id) =>
                  EntryFor(id, rows'[id]) = EntryFor(id, rows[id]))
  BY <1>1
<1> QED BY <1>2, CatalogTypes, StagedInvariant, PTL DEF Spec, SeedCompletes

(* While the process starts, no entry is changed: an existing embedding is *)
(* reused.                                                                 *)
THEOREM EmbeddingsReused == Spec => EmbeddingReused
<1>1. ASSUME TypeOK, [Next]_vars, server = "booting",
             NEW v \in VectorId, vectors[v] # NoEntry
      PROVE  vectors'[v] = vectors[v]
  <2>1. ASSUME NEW title, NEW id, NEW row, SeedEmbed(title, id, row)
        PROVE  vectors'[v] = vectors[v]
    BY <1>1, <2>1 DEF SeedEmbed, TypeOK
  <2>2. CASE Next
    BY <1>1, <2>1, <2>2, BootSteps DEF SeedExisting, SeedNew, SeedRefused, SeedCommit,
       Crash, storeVars
  <2>3. CASE UNCHANGED vars
    BY <2>3 DEF vars, storeVars
  <2> QED BY <1>1, <2>2, <2>3
<1>2. TypeOK /\ [Next]_vars =>
         (server = "booting" =>
             \A v \in VectorId : vectors[v] # NoEntry => vectors'[v] = vectors[v])
  BY <1>1
<1> QED BY <1>2, CatalogTypes, PTL DEF Spec, EmbeddingReused
-----------------------------------------------------------------------------
(* Which product a vector id belongs to.                                   *)

(* A row, a staged row or a request has product id under the vector id v.  *)
Holds(id, v) ==
    \/ Exists(id) /\ rows[id].vid = v
    \/ staged[id] # NoRow /\ staged[id].vid = v
    \/ \E r \in Request :
          /\ Active(r) /\ req[r].id = id
          /\ v \in {req[r].loaded.vid, req[r].edited.vid}

(* So has one of them or an entry.                                         *)
Claim(id, v) == Holds(id, v) \/ (vectors[v] # NoEntry /\ vectors[v].id = id)

(* Every product has one vector id, a number is the vector id of the       *)
(* product of that number, and no two products have the same one; none     *)
(* speaks of an id to come.                                                *)
OwnInv ==
    /\ \A id \in Id, v, w \in VectorId : Claim(id, v) /\ Claim(id, w) => v = w
    /\ \A id \in Id, v \in VectorId : Claim(id, v) => id <= lastId
    /\ \A id, v \in Id : Claim(id, v) => v = id
    /\ \A i, j \in Id, v \in VectorId : Holds(i, v) /\ Holds(j, v) => i = j

(* A step that makes no claim of its own keeps the invariant.              *)
LEMMA OldClaims ==
    ASSUME OwnInv, lastId' = lastId,
           \A id \in Id, v \in VectorId :
              (Claim(id, v)' => Claim(id, v)) /\ (Holds(id, v)' => Holds(id, v))
    PROVE  OwnInv'
<1>1. Id \subseteq VectorId
  BY DEF VectorId
<1> QED BY <1>1 DEF OwnInv

(* So does one whose only new claim is about the id it hands out and a     *)
(* vector id nobody holds.                                                 *)
LEMMA NewClaims ==
    ASSUME TypeOK, OwnInv, lastId' = lastId + 1, NEW x \in VectorId,
           x \in Id => x = lastId', \A id \in Id : ~Holds(id, x),
           \A id \in Id, v \in VectorId :
              /\ Claim(id, v)' => Claim(id, v) \/ (id = lastId' /\ v = x)
              /\ Holds(id, v)' => Holds(id, v) \/ (id = lastId' /\ v = x)
    PROVE  OwnInv'
<1>1. lastId \in Nat /\ \A id \in Id : id \in Nat
  BY CatalogBoundAssumption DEF TypeOK, Id
<1>2. Id \subseteq VectorId
  BY DEF VectorId
<1>3. \A id \in Id, v \in VectorId : Holds(id, v) => Claim(id, v)
  BY DEF Claim
<1>4. /\ \A id \in Id, v, w \in VectorId : Claim(id, v)' /\ Claim(id, w)' => v = w
      /\ \A id \in Id, v \in VectorId : Claim(id, v)' => id <= lastId'
  BY <1>1 DEF OwnInv
<1>5. \A id, v \in Id : Claim(id, v)' => v = id
  BY <1>2 DEF OwnInv
<1>6. \A i, j \in Id, v \in VectorId : Holds(i, v)' /\ Holds(j, v)' => i = j
  BY DEF OwnInv
<1> QED BY <1>4, <1>5, <1>6 DEF OwnInv

(* What the seeder does to a course claims at most the row's own vector id.*)
LEMMA EmbedClaims ==
    ASSUME TypeOK, NEW title, NEW id \in Id, NEW row \in Row, SeedEmbed(title, id, row)
    PROVE  \A i \in Id, v \in VectorId :
              /\ Claim(i, v)' => Claim(i, v) \/ (i = id /\ v = row.vid)
              /\ Holds(i, v)' => Holds(i, v) \/ (i = id /\ v = row.vid)
<1>1. PICK new \in Row : new.vid = row.vid /\ EntryFor(id, new) = EntryFor(id, row)
                           /\ staged' = [staged EXCEPT ![id] = new]
  BY EmbedTypes
<1>2. /\ UNCHANGED <<rows, req>>
      /\ staged \in [Id -> Row \cup {NoRow}]
      /\ vectors \in [VectorId -> Entry \cup {NoEntry}]
  BY DEF SeedEmbed, TypeOK, SeederTyped
<1>3. \A v \in VectorId :
         vectors'[v] = vectors[v] \/ (v = row.vid /\ vectors'[v].id = id)
  BY <1>2 DEF SeedEmbed, EntryFor
<1>4. \A i \in Id : staged'[i] = staged[i] \/ (i = id /\ staged'[i].vid = row.vid)
  BY <1>1, <1>2
<1>5. \A i \in Id, v \in VectorId :
         Holds(i, v)' => Holds(i, v) \/ (i = id /\ v = row.vid)
  BY <1>2, <1>4 DEF Holds, Exists, Active
<1> QED BY <1>3, <1>5 DEF Claim

(* The steps of a request keep every product's vector id.                  *)
LEMMA RequestOwn ==
    ASSUME TypeOK, OwnInv, NEW r \in Request, RequestStep(r)
    PROVE  OwnInv'
<1>1. /\ rows \in [Id -> Row \cup {NoRow}] /\ vectors \in [VectorId -> Entry \cup {NoEntry}]
      /\ req \in [Request -> Local \cup {Idle}]
  BY DEF TypeOK, RequestsTyped
<1>2. Active(r) => /\ req[r] \in Local /\ req[r].id \in Id
                   /\ req[r].loaded \in Row /\ req[r].edited \in Row
  BY Typed DEF Local
<1>3. CASE CreateCheck(r)
  <2>1. PICK title \in Title, text \in Text :
           LET row == [title |-> title, text |-> text, vid |-> lastId + 1,
                       status |-> "pending"]
           IN  req' = [req EXCEPT ![r] = [pc |-> "insert", op |-> "create",
                           id |-> lastId + 1, loaded |-> row, edited |-> row]]
    BY <1>3 DEF CreateCheck, Begin
  <2>2. /\ req'[r].id = lastId + 1 /\ req'[r].loaded.vid = lastId + 1
        /\ req'[r].edited.vid = lastId + 1
        /\ \A s \in Request : s # r => req'[s] = req[s]
    BY <1>1, <2>1
  <2>3. UNCHANGED <<rows, vectors, staged>> /\ lastId' = lastId + 1
    BY <1>3 DEF CreateCheck, storeVars, seedVars
  <2>4. \A id \in Id, v \in VectorId :
           Claim(id, v)' => Claim(id, v) \/ (id = lastId' /\ v = lastId + 1)
    BY <2>2, <2>3 DEF Claim, Holds, Exists, Active
  <2>5. \A id \in Id, v \in VectorId :
           Holds(id, v)' => Holds(id, v) \/ (id = lastId' /\ v = lastId + 1)
    BY <2>2, <2>3 DEF Holds, Exists, Active
  <2>6. lastId + 1 \in VectorId /\ \A id \in Id : ~Holds(id, lastId + 1)
    <3>1. lastId + 1 \in Id /\ lastId \in Nat
      BY <1>3, CatalogBoundAssumption DEF CreateCheck, TypeOK
    <3>2. \A id \in Id : Holds(id, lastId + 1) => lastId + 1 = id /\ id <= lastId
      BY <3>1 DEF OwnInv, Claim, VectorId
    <3> QED BY <3>1, <3>2 DEF VectorId
  <2> QED BY <2>3, <2>4, <2>5, <2>6, NewClaims
<1>4. CASE CreateInsert(r) \/ UpdateClash(r) \/ DeleteUnavailable(r) \/ WriteFails(r)
  <2>1. UNCHANGED <<rows, staged, lastId>>
    BY <1>4 DEF CreateInsert, UpdateClash, DeleteUnavailable, WriteFails, storeVars, seedVars
  <2>5. \A v \in VectorId : vectors'[v] \in {vectors[v], NoEntry}
    BY <1>1, <1>4 DEF CreateInsert, UpdateClash, DeleteUnavailable, WriteFails, storeVars
  <2>2. Active(r) /\ (End(r) \/ Goto(r, "sync"))
    BY <1>4 DEF CreateInsert, UpdateClash, DeleteUnavailable, WriteFails
  <2>3. \A s \in Request :
           Active(s)' => /\ Active(s) /\ req'[s].id = req[s].id
                         /\ req'[s].loaded = req[s].loaded /\ req'[s].edited = req[s].edited
    BY <1>1, <1>2, <2>2 DEF End, Goto, Active, Idle, Local
  <2>4. \A id \in Id, v \in VectorId :
           (Claim(id, v)' => Claim(id, v)) /\ (Holds(id, v)' => Holds(id, v))
    BY <2>1, <2>3, <2>5 DEF Claim, Holds, Exists
  <2> QED BY <2>1, <2>4, OldClaims
<1>5. CASE Sync(r)
  <2>1. UNCHANGED <<rows, staged, lastId>> /\ Active(r)
    BY <1>5 DEF Sync, seedVars
  <2>2. PICK st : req' = [req EXCEPT ![r].pc = "commit", ![r].edited.status = st]
    BY <1>5 DEF Sync
  <2>3. \A s \in Request :
           Active(s)' => /\ Active(s) /\ req'[s].id = req[s].id
                         /\ req'[s].loaded = req[s].loaded
                         /\ req'[s].edited.vid = req[s].edited.vid
    BY <1>1, <1>2, <2>1, <2>2 DEF Active, Local, Row
  <2>4. \A v \in VectorId :
           \/ vectors'[v] = vectors[v]
           \/ v = req[r].edited.vid /\ vectors'[v].id = req[r].id
    BY <1>1, <1>5 DEF Sync, EntryFor
  <2>5. \A id \in Id, v \in VectorId :
           (Claim(id, v)' => Claim(id, v)) /\ (Holds(id, v)' => Holds(id, v))
    BY <2>1, <2>3, <2>4 DEF Claim, Holds, Exists
  <2> QED BY <2>1, <2>5, OldClaims
<1>6. CASE CreateCommit(r) \/ UpdateCommit(r) \/ DeleteRow(r)
  <2>1. UNCHANGED <<vectors, staged, lastId>> /\ Active(r) /\ End(r)
    BY <1>6 DEF CreateCommit, UpdateCommit, DeleteRow, seedVars
  <2>2. \A s \in Request : Active(s)' => Active(s) /\ req'[s] = req[s]
    BY <1>1, <2>1 DEF End, Active, Idle
  <2>3. \A id \in Id :
           Exists(id)' => \/ Exists(id) /\ rows'[id].vid = rows[id].vid
                          \/ id = req[r].id /\ rows'[id].vid = req[r].edited.vid
    <3>1. CASE CreateCommit(r) \/ DeleteRow(r)
      BY <1>1, <3>1 DEF CreateCommit, DeleteRow, Exists
    <3>2. CASE UpdateCommit(r)
      <4> DEFINE id == req[r].id
                 new == Merged(rows[id], req[r].loaded, req[r].edited)
      <4>1. Exists(id) /\ id \in Id /\ rows' = [rows EXCEPT ![id] = new]
        BY <1>2, <3>2 DEF UpdateCommit
      <4>2. rows[id] \in Row
        BY <4>1, Typed
      <4>3. new.vid \in {rows[id].vid, req[r].edited.vid}
        BY <4>2 DEF Merged, Row
      <4> HIDE DEF new
      <4> QED BY <1>1, <4>1, <4>3 DEF Exists
    <3> QED BY <1>6, <3>1, <3>2
  <2>4. \A id \in Id, v \in VectorId :
           (Claim(id, v)' => Claim(id, v)) /\ (Holds(id, v)' => Holds(id, v))
    BY <2>1, <2>2, <2>3 DEF Claim, Holds
  <2> QED BY <2>1, <2>4, OldClaims
<1>7. CASE UpdateRead(r) \/ DeleteRead(r)
  <2>1. UNCHANGED <<rows, vectors, staged, lastId>>
    BY <1>7 DEF UpdateRead, DeleteRead, storeVars, seedVars
  <2>2. PICK id \in Id : /\ Exists(id)
                         /\ req'[r].id = id /\ req'[r].loaded = rows[id]
                         /\ req'[r].edited.vid = rows[id].vid
                         /\ \A s \in Request : s # r => req'[s] = req[s]
    <3>1. CASE UpdateRead(r)
      <4>1. PICK id \in Id, title \in Title, text \in Text :
               /\ Exists(id)
               /\ req' = [req EXCEPT ![r] =
                     [pc |-> "clash", op |-> "update", id |-> id, loaded |-> rows[id],
                      edited |-> [rows[id] EXCEPT !.title = title, !.text = text]]]
        BY <3>1 DEF UpdateRead, Begin
      <4>2. rows[id] \in Row
        BY <4>1, Typed
      <4> QED BY <1>1, <4>1, <4>2 DEF Row
    <3>2. CASE DeleteRead(r)
      BY <1>1, <3>2 DEF DeleteRead, Begin
    <3> QED BY <1>7, <3>1, <3>2
  <2>3. \A i \in Id, v \in VectorId :
           (Claim(i, v)' => Claim(i, v)) /\ (Holds(i, v)' => Holds(i, v))
    BY <2>1, <2>2 DEF Claim, Holds, Exists, Active
  <2> QED BY <2>1, <2>3, OldClaims
<1>8. CASE DeleteVector(r)
  <2>1. UNCHANGED <<rows, staged, lastId>> /\ Active(r)
    BY <1>8 DEF DeleteVector, seedVars
  <2>2. \A s \in Request :
           Active(s)' => /\ Active(s) /\ req'[s].id = req[s].id
                         /\ req'[s].loaded = req[s].loaded /\ req'[s].edited = req[s].edited
    BY <1>1, <1>2, <1>8 DEF DeleteVector, Goto, Active, Local
  <2>3. \A v \in VectorId : vectors'[v] # NoEntry => vectors'[v] = vectors[v]
    BY <1>1, <1>8 DEF DeleteVector
  <2>4. \A id \in Id, v \in VectorId :
           (Claim(id, v)' => Claim(id, v)) /\ (Holds(id, v)' => Holds(id, v))
    BY <2>1, <2>2, <2>3 DEF Claim, Holds, Exists
  <2> QED BY <2>1, <2>4, OldClaims
<1> QED BY <1>3, <1>4, <1>5, <1>6, <1>7, <1>8 DEF RequestStep

(* The vector id of a course that is missing is free.                      *)
LEMMA NewTitleFree ==
    ASSUME TypeOK, StagedRight, OwnInv, NEW title \in Seeded, SeedNew(title)
    PROVE  \A i \in Id : ~Holds(i, title)
<1> SUFFICES ASSUME NEW i \in Id, Holds(i, title) PROVE FALSE
  OBVIOUS
<1>1. title \in todo /\ ~(Exists(i) /\ rows[i].vid = title) /\ server = "booting"
  BY DEF SeedNew, Holding, StableVectorId
<1>2. \A r \in Request : ~Active(r)
  BY <1>1 DEF TypeOK, RequestsTyped
<1>3. staged[i] # NoRow /\ staged[i].vid = title /\ title \in VectorId
  BY <1>1, <1>2, SeedAssumption DEF Holds, VectorId
<1>4. ~Exists(i)
  <2> SUFFICES ASSUME Exists(i) PROVE FALSE
    OBVIOUS
  <2>1. Claim(i, rows[i].vid) /\ Claim(i, title) /\ rows[i].vid \in VectorId
    BY <1>3, Typed DEF Claim, Holds, Row
  <2> QED BY <1>1, <1>3, <2>1 DEF OwnInv
<1> QED BY <1>1, <1>3, <1>4 DEF StagedRight, StableVectorId

(* So do the seeder, the users and a crash.                                *)
LEMMA SystemOwn ==
    ASSUME TypeOK, StagedRight, OwnInv, SeedStep \/ Crash \/ \E id \in Id : Refer(id)
    PROVE  OwnInv'
<1>1. CASE Boot \/ \E id \in Id : Refer(id)
  <2>1. UNCHANGED <<rows, vectors, staged, lastId, req>>
    BY <1>1 DEF Boot, Refer, storeVars, seedVars
  <2> QED BY <2>1, OldClaims DEF Claim, Holds, Exists, Active
<1>2. ASSUME NEW title \in Seeded, SeedExisting(title) PROVE OwnInv'
  <2>1. PICK id \in Titled(title) : SeedEmbed(title, id, rows[id])
    BY <1>2 DEF SeedExisting
  <2>2. id \in Id /\ Exists(id) /\ rows[id] \in Row
    BY Typed DEF Titled
  <2>3. \A i \in Id, v \in VectorId :
           /\ Claim(i, v)' => Claim(i, v) \/ (i = id /\ v = rows[id].vid)
           /\ Holds(i, v)' => Holds(i, v) \/ (i = id /\ v = rows[id].vid)
    BY <2>1, <2>2, EmbedClaims
  <2>4. \A v \in VectorId : v = rows[id].vid => Claim(id, v) /\ Holds(id, v)
    BY <2>2 DEF Claim, Holds
  <2> QED BY <1>2, <2>3, <2>4, OldClaims DEF SeedExisting
<1>3. ASSUME NEW title \in Seeded, SeedNew(title) PROVE OwnInv'
  <2> DEFINE id == lastId + 1
             row == [title |-> title, text |-> SeedText, vid |-> StableVectorId(title),
                     status |-> "pending"]
  <2>1. id \in Id /\ lastId' = id /\ SeedEmbed(title, id, row)
    BY <1>3 DEF SeedNew
  <2>2. row \in Row /\ row.vid = title
    BY SeedAssumption DEF Row, VectorId, StableVectorId
  <2> HIDE DEF row
  <2>3. \A i \in Id, v \in VectorId :
           /\ Claim(i, v)' => Claim(i, v) \/ (i = lastId' /\ v = title)
           /\ Holds(i, v)' => Holds(i, v) \/ (i = lastId' /\ v = title)
    BY <2>1, <2>2, EmbedClaims
  <2>4. title \in VectorId /\ title \notin Id
    BY SeedAssumption, TitleAssumption DEF VectorId, Id
  <2>5. \A i \in Id : ~Holds(i, title)
    BY <1>3, NewTitleFree
  <2> QED BY <2>1, <2>3, <2>4, <2>5, NewClaims
<1>4. CASE Crash \/ \E title \in Seeded : SeedRefused(title)
  <2>1. UNCHANGED <<rows, vectors, lastId>>
    BY <1>4 DEF Crash, SeedRefused, storeVars
  <2>2. \A id \in Id : staged'[id] = NoRow
    BY <1>4 DEF Crash, SeedRefused, NoRows
  <2>3. \A r \in Request : Active(r)' => Active(r) /\ req'[r] = req[r]
    BY <1>4 DEF Crash, SeedRefused, Active, Idle
  <2> QED BY <2>1, <2>2, <2>3, OldClaims DEF Claim, Holds, Exists
<1>5. CASE SeedCommit
  <2>1. UNCHANGED <<vectors, req, lastId>>
    BY <1>5 DEF SeedCommit
  <2>2. \A id \in Id :
           /\ staged'[id] = NoRow
           /\ rows'[id] = rows[id] \/ (staged[id] # NoRow /\ rows'[id] = staged[id])
    BY <1>5 DEF SeedCommit, NoRows
  <2> QED BY <2>1, <2>2, OldClaims DEF Claim, Holds, Exists, Active
<1> QED BY <1>1, <1>2, <1>3, <1>4, <1>5 DEF SeedStep

(* In every reachable state.                                               *)
LEMMA OwnInvariant == Spec => []OwnInv
<1>1. Init => OwnInv
  <2>1. Init => \A id \in Id, v \in VectorId : ~Claim(id, v) /\ ~Holds(id, v)
    BY DEF Init, Claim, Holds, Exists, Active, NoRows, Idle
  <2>2. Id \subseteq VectorId
    BY DEF VectorId
  <2> QED BY <2>1, <2>2 DEF OwnInv
<1>2. TypeOK /\ StagedRight /\ OwnInv /\ [Next]_vars => OwnInv'
  <2> SUFFICES ASSUME TypeOK, StagedRight, OwnInv, [Next]_vars PROVE OwnInv'
    OBVIOUS
  <2>1. CASE Next
    BY <2>1, RequestOwn, SystemOwn DEF Next
  <2>2. CASE UNCHANGED vars
    BY <2>2 DEF vars, storeVars, seedVars, OwnInv, Claim, Holds, Exists, Active
  <2> QED BY <2>1, <2>2
<1> QED BY <1>1, <1>2, CatalogTypes, StagedInvariant, PTL DEF Spec

(* The entry of a product that exists lies under the product's own vector  *)
(* id, whatever requests overlap, fail or are interrupted.                 *)
THEOREM EntriesInPlace == Spec => []EntriesUnderOwnId
<1>1. TypeOK /\ OwnInv => EntriesUnderOwnId
  <2> SUFFICES ASSUME TypeOK, OwnInv, NEW v \in VectorId, vectors[v] # NoEntry,
                      Exists(vectors[v].id)
               PROVE  rows[vectors[v].id].vid = v
    BY DEF EntriesUnderOwnId
  <2>1. vectors[v].id \in Id
    BY Typed DEF Entry
  <2>2. rows[vectors[v].id].vid \in VectorId
    BY <2>1, Typed DEF Row
  <2> QED BY <2>1, <2>2 DEF OwnInv, Claim, Holds
<1> QED BY <1>1, OwnInvariant, CatalogTypes, PTL DEF Spec
-----------------------------------------------------------------------------
(* The two stores agree.                                                   *)

(* The steps of a request are those of its operation.                      *)
InStage(local) ==
    /\ local.pc = "insert" => local.op = "create"
    /\ local.pc = "clash" => local.op = "update"
    /\ local.pc \in {"deleteVector", "deleteRow"} <=> local.op = "delete"

Stages == \A r \in Request : Active(r) => InStage(req[r])

(* Row and entry tell the same, or there is neither.                       *)
Agree(v) ==
    \/ Holding(v) = {} /\ vectors[v] = NoEntry
    \/ \E id \in Holding(v) :
          rows[id].status = "synced" /\ vectors[v] = EntryFor(id, rows[id])

(* Two requests on one vector id disturb it.                               *)
Alone ==
    \A r, s \in Request :
        (r # s /\ Active(r) /\ Active(s) /\ req[r].loaded.vid = req[s].loaded.vid)
            => req[r].loaded.vid \in disturbed

(* How far an undisturbed request has come in the two stores.              *)
Halfway(r) ==
    /\ req[r].op = "create" =>
          /\ Holding(req[r].loaded.vid) = {}
          /\ req[r].pc # "commit" => vectors[req[r].loaded.vid] = NoEntry
    /\ req[r].op # "create" => Exists(req[r].id) /\ rows[req[r].id] = req[r].loaded
    /\ req[r].pc \in {"clash", "deleteVector"} => Agree(req[r].loaded.vid)
    /\ req[r].pc = "commit" =>
          /\ req[r].edited.status = "synced"
          /\ vectors[req[r].loaded.vid] = EntryFor(req[r].id, req[r].edited)
    /\ req[r].pc = "deleteRow" => vectors[req[r].loaded.vid] = NoEntry

StagedFor(v) == {id \in Id : staged[id] # NoRow /\ staged[id].vid = v}

(* Where nothing failed or overlapped the stores agree, unless a request   *)
(* is half way; what is staged agrees with its entry.                      *)
AgreeInv ==
    /\ Stages /\ Alone
    /\ \A r \in Request : Active(r) => req[r].loaded.vid \in disturbed \/ Halfway(r)
    /\ \A v \in VectorId \ disturbed :
          /\ ~Busy(v) /\ StagedFor(v) = {} => Agree(v)
          /\ \A id \in StagedFor(v) :
                staged[id].status = "synced" /\ vectors[v] = EntryFor(id, staged[id])

(* Rows that stay and an entry that stays agree as before.                 *)
LEMMA SameAgree ==
    ASSUME NEW v, vectors'[v] = vectors[v], Holding(v)' = Holding(v),
           \A id \in Holding(v) : rows'[id] = rows[id]
    PROVE  Agree(v)' <=> Agree(v)
BY DEF Agree, EntryFor

(* What a product that holds a vector id says of the others.               *)
LEMMA OneHolder ==
    ASSUME TypeOK, OwnInv, NEW v \in VectorId, NEW id \in Id, Holds(id, v)
    PROVE  /\ Holding(v) \subseteq {id} /\ StagedFor(v) \subseteq {id}
           /\ Exists(id) => rows[id].vid = v
           /\ staged[id] # NoRow => staged[id].vid = v
<1>1. \A i \in Id : Holds(i, v) => i = id
  BY DEF OwnInv
<1>2. Holding(v) \subseteq {id} /\ StagedFor(v) \subseteq {id}
  BY <1>1 DEF Holds, Holding, StagedFor
<1>3. \A w \in VectorId : Holds(id, w) => w = v
  BY DEF OwnInv, Claim
<1>4. Exists(id) => rows[id].vid \in VectorId /\ Holds(id, rows[id].vid)
  BY Typed DEF Holds, Row
<1>5. staged[id] # NoRow => staged[id].vid \in VectorId /\ Holds(id, staged[id].vid)
  BY Typed DEF Holds, Row
<1> QED BY <1>2, <1>3, <1>4, <1>5

(* An active request holds its vector id and leaves it to its product.     *)
LEMMA RequestHolds ==
    ASSUME TypeOK, OwnInv, NEW r \in Request, Active(r)
    PROVE  /\ req[r] \in Local /\ req[r].id \in Id
           /\ req[r].loaded \in Row /\ req[r].edited \in Row
           /\ req[r].loaded.vid \in VectorId /\ req[r].edited.vid = req[r].loaded.vid
           /\ Holds(req[r].id, req[r].loaded.vid)
<1>1. /\ req[r] \in Local /\ req[r].id \in Id
      /\ req[r].loaded \in Row /\ req[r].edited \in Row
  BY Typed DEF Local
<1>2. req[r].loaded.vid \in VectorId /\ req[r].edited.vid \in VectorId
  BY <1>1 DEF Row
<1>3. Holds(req[r].id, req[r].loaded.vid) /\ Holds(req[r].id, req[r].edited.vid)
  BY DEF Holds
<1>4. req[r].edited.vid = req[r].loaded.vid
  BY <1>1, <1>2, <1>3 DEF OwnInv, Claim
<1> QED BY <1>1, <1>2, <1>3, <1>4

(* A step of a request under way touches the stores at its own product and *)
(* vector id only.                                                         *)
LEMMA Elsewhere ==
    ASSUME TypeOK, OwnInv, NEW r \in Request, Active(r), RequestStep(r)
    PROVE  /\ \A s \in Request : s # r => req'[s] = req[s]
           /\ Active(r)' => /\ req'[r].id = req[r].id
                            /\ req'[r].loaded = req[r].loaded
                            /\ req'[r].op = req[r].op
           /\ disturbed \subseteq disturbed' /\ staged' = staged
           /\ \A v \in VectorId : v # req[r].loaded.vid =>
                 /\ vectors'[v] = vectors[v] /\ Holding(v)' = Holding(v)
                 /\ \A id \in Holding(v) : rows'[id] = rows[id]
<1>0. PICK w, x : w = req[r].loaded.vid /\ x = req[r].id
  OBVIOUS
<1> USE <1>0
<1>1. /\ req[r] \in Local /\ x \in Id /\ w \in VectorId /\ Holds(x, w)
      /\ req[r].edited.vid = w /\ req[r].edited \in Row
  BY RequestHolds
<1>2. /\ rows \in [Id -> Row \cup {NoRow}] /\ vectors \in [VectorId -> Entry \cup {NoEntry}]
      /\ req \in [Request -> Local \cup {Idle}]
  BY DEF TypeOK, RequestsTyped
<1>3. ~CreateCheck(r) /\ ~UpdateRead(r) /\ ~DeleteRead(r)
  BY DEF CreateCheck, UpdateRead, DeleteRead, Begin
<1>4. \/ End(r) \/ \E pc : Goto(r, pc)
      \/ \E st : req' = [req EXCEPT ![r].pc = "commit", ![r].edited.status = st]
  BY <1>3 DEF RequestStep, CreateInsert, CreateCommit, UpdateClash, UpdateCommit,
     DeleteVector, DeleteUnavailable, DeleteRow, Sync, WriteFails
<1>5. /\ \A s \in Request : s # r => req'[s] = req[s]
      /\ Active(r)' => /\ req'[r].id = x /\ req'[r].loaded = req[r].loaded
                       /\ req'[r].op = req[r].op
  BY <1>1, <1>2, <1>4 DEF End, Goto, Active, Idle, Local
<1>6. disturbed \subseteq disturbed' /\ staged' = staged
  BY <1>3 DEF RequestStep, CreateInsert, CreateCommit, UpdateClash, UpdateCommit,
     DeleteVector, DeleteUnavailable, DeleteRow, Sync, WriteFails, seedVars
<1>7. \A v \in VectorId : v # w => vectors'[v] = vectors[v]
  BY <1>1, <1>2, <1>3 DEF RequestStep, CreateInsert, CreateCommit, UpdateClash, UpdateCommit,
     DeleteVector, DeleteUnavailable, DeleteRow, Sync, WriteFails, storeVars
<1>8. /\ \A id \in Id : id # x => rows'[id] = rows[id]
      /\ Exists(x)' => rows'[x].vid = w
      /\ Exists(x) => rows[x].vid = w
  <2>1. Exists(x) => rows[x].vid = w
    BY <1>1, OneHolder
  <2>2. CASE CreateCommit(r) \/ DeleteRow(r)
    BY <1>1, <1>2, <2>1, <2>2 DEF CreateCommit, DeleteRow, Exists
  <2>3. CASE UpdateCommit(r)
    <3> DEFINE new == Merged(rows[x], req[r].loaded, req[r].edited)
    <3>1. Exists(x) /\ rows' = [rows EXCEPT ![x] = new]
      BY <2>3 DEF UpdateCommit
    <3>2. new.vid = w
      <4>1. rows[x] \in Row /\ rows[x].vid = w
        BY <1>1, <2>1, <3>1, Typed
      <4> QED BY <1>1, <4>1 DEF Merged, Row
    <3> HIDE DEF new
    <3> QED BY <1>1, <1>2, <2>1, <3>1, <3>2
  <2>4. CASE UNCHANGED rows
    BY <2>1, <2>4 DEF Exists
  <2> QED BY <1>3, <2>2, <2>3, <2>4 DEF RequestStep, CreateInsert, UpdateClash,
     DeleteVector, DeleteUnavailable, Sync, WriteFails, storeVars
<1>9. ASSUME NEW v \in VectorId, v # w
      PROVE  Holding(v)' = Holding(v) /\ \A id \in Holding(v) : rows'[id] = rows[id]
  BY <1>8, <1>9 DEF Holding, Exists
<1> QED BY <1>5, <1>6, <1>7, <1>9

(* A request under way keeps the stores in agreement when it leaves its    *)
(* own vector id as it should.                                             *)
LEMMA OwnStep ==
    ASSUME TypeOK, TypeOK', OwnInv, AgreeInv, NEW r \in Request, Active(r), RequestStep(r),
           NEW w, w = req[r].loaded.vid,
           Active(r)' => InStage(req'[r]),
           w \notin disturbed' => IF Active(r)' THEN Halfway(r)' ELSE Agree(w)'
    PROVE  AgreeInv'
<1>1. /\ \A s \in Request : s # r => req'[s] = req[s]
      /\ Active(r)' => req'[r].loaded = req[r].loaded
      /\ disturbed \subseteq disturbed' /\ staged' = staged
      /\ \A v \in VectorId : v # w =>
            /\ vectors'[v] = vectors[v] /\ Holding(v)' = Holding(v)
            /\ \A id \in Holding(v) : rows'[id] = rows[id]
  BY Elsewhere
<1>2. Stages'
  BY <1>1 DEF AgreeInv, Stages, Active
<1>3. Alone'
  BY <1>1 DEF AgreeInv, Alone, Active
<1>4. ASSUME NEW s \in Request, Active(s)', req'[s].loaded.vid \notin disturbed'
      PROVE  Halfway(s)'
  <2>1. CASE s = r
    BY <1>1, <1>4, <2>1
  <2>2. CASE s # r
    <3>1. Active(s) /\ req'[s] = req[s]
      BY <1>1, <1>4, <2>2 DEF Active
    <3>2. req[s].loaded.vid \notin disturbed /\ req[s].loaded.vid # w
      BY <1>1, <1>4, <2>2, <3>1 DEF AgreeInv, Alone
    <3>3. Halfway(s)
      BY <3>1, <3>2 DEF AgreeInv
    <3>4. req[s].id \in Id /\ req[s].loaded.vid \in VectorId
      BY <3>1, RequestHolds
    <3> PICK v : v = req[s].loaded.vid
      OBVIOUS
    <3>5. /\ vectors'[v] = vectors[v] /\ Holding(v)' = Holding(v)
          /\ \A id \in Holding(v) : rows'[id] = rows[id]
      BY <1>1, <3>2, <3>4
    <3>6. Agree(v)' <=> Agree(v)
      BY <3>5, SameAgree
    <3>7. req[s].op # "create" => rows'[req[s].id] = rows[req[s].id]
      BY <3>3, <3>4, <3>5 DEF Halfway, Holding
    <3> QED BY <3>1, <3>3, <3>5, <3>6, <3>7 DEF Halfway, Exists, EntryFor
  <2> QED BY <2>1, <2>2
<1>5. server = "up" /\ \A v : StagedFor(v) = {} /\ StagedFor(v)' = {}
  BY <1>1, RequestServed DEF StagedFor, TypeOK, SeederTyped
<1>6. ASSUME NEW v \in VectorId, v \notin disturbed', ~Busy(v)'
      PROVE  Agree(v)'
  <2>1. CASE v = w
    BY <1>1, <1>6, <2>1 DEF Busy
  <2>2. CASE v # w
    <3>1. ~Busy(v)
      BY <1>1, <1>6, <2>2 DEF Busy, Active
    <3>2. Agree(v)
      BY <1>1, <1>5, <1>6, <3>1 DEF AgreeInv
    <3> QED BY <1>1, <2>2, <3>2, SameAgree
  <2> QED BY <2>1, <2>2
<1> QED BY <1>2, <1>3, <1>4, <1>5, <1>6 DEF AgreeInv

(* Where a step does not touch the stores, agreement lasts.                *)
LEMMA StoresSame ==
    ASSUME UNCHANGED storeVars
    PROVE  \A v : Holding(v)' = Holding(v) /\ (Agree(v)' <=> Agree(v))
<1>1. rows' = rows /\ vectors' = vectors
  BY DEF storeVars
<1>2. \A v : Holding(v)' = Holding(v)
  BY <1>1 DEF Holding, Exists
<1> QED BY <1>1, <1>2, SameAgree

(* A request under way keeps the stores in agreement.                      *)
LEMMA RequestAgrees ==
    ASSUME TypeOK, TypeOK', OwnInv, AgreeInv, NEW r \in Request, Active(r), RequestStep(r)
    PROVE  AgreeInv'
<1>0. PICK w, x : w = req[r].loaded.vid /\ x = req[r].id
  OBVIOUS
<1> USE <1>0
<1>1. /\ req[r] \in Local /\ x \in Id /\ w \in VectorId /\ Holds(x, w)
      /\ req[r].edited.vid = w /\ req[r].edited \in Row /\ req[r].loaded \in Row
  BY RequestHolds
<1>2. /\ rows \in [Id -> Row \cup {NoRow}] /\ vectors \in [VectorId -> Entry \cup {NoEntry}]
      /\ req \in [Request -> Local \cup {Idle}]
  BY DEF TypeOK, RequestsTyped
<1>3. InStage(req[r]) /\ disturbed \subseteq disturbed'
  BY Elsewhere DEF AgreeInv, Stages
<1>4. w \notin disturbed' => Halfway(r)
  BY <1>3 DEF AgreeInv
<1>5. \A pc : Goto(r, pc) =>
         /\ Active(r)' => req'[r].pc = pc
         /\ req'[r].op = req[r].op /\ req'[r].id = x /\ req'[r].loaded = req[r].loaded
         /\ req'[r].edited = req[r].edited
  BY <1>1, <1>2 DEF Goto, Local
<1>6. End(r) => ~Active(r)'
  BY <1>2 DEF End, Active, Idle
<1>7. CASE CreateInsert(r)
  <2>1. UNCHANGED storeVars /\ req[r].pc = "insert" /\ (Goto(r, "sync") \/ End(r))
    BY <1>7 DEF CreateInsert
  <2>2. Active(r)' => InStage(req'[r])
    BY <1>3, <1>5, <1>6, <2>1 DEF InStage
  <2>3. w \notin disturbed' => IF Active(r)' THEN Halfway(r)' ELSE Agree(w)'
    BY <1>3, <1>4, <1>5, <1>6, <2>1, StoresSame DEF Halfway, InStage, storeVars, Agree
  <2> QED BY <2>2, <2>3, OwnStep
<1>8. CASE Sync(r)
  <2>1. req[r].pc = "sync" /\ rows' = rows
    BY <1>8 DEF Sync
  <2>2. CASE /\ vectors' = [vectors EXCEPT ![w] = EntryFor(x, req[r].edited)]
             /\ req' = [req EXCEPT ![r].pc = "commit", ![r].edited.status = "synced"]
    <3>1. /\ req'[r].pc = "commit" /\ req'[r].op = req[r].op /\ req'[r].id = x
          /\ req'[r].loaded = req[r].loaded
          /\ req'[r].edited = [req[r].edited EXCEPT !.status = "synced"]
      BY <1>1, <1>2, <2>2 DEF Local
    <3>2. /\ req'[r].edited.status = "synced"
          /\ EntryFor(x, req'[r].edited) = EntryFor(x, req[r].edited)
      BY <1>1, <3>1 DEF Row, EntryFor
    <3>3. vectors'[w] = EntryFor(x, req[r].edited)
      BY <1>1, <1>2, <2>2
    <3>4. InStage(req'[r])
      BY <1>3, <2>1, <3>1 DEF InStage
    <3>5. Holding(w)' = Holding(w)
      BY <2>1 DEF Holding, Exists
    <3>6. w \notin disturbed' => Halfway(r)'
      BY <1>4, <2>1, <3>1, <3>2, <3>3, <3>5 DEF Halfway, Exists, EntryFor
    <3>7. Active(r)'
      BY <3>1 DEF Active
    <3> QED BY <3>4, <3>6, <3>7, OwnStep
  <2>3. CASE /\ req' = [req EXCEPT ![r].pc = "commit", ![r].edited.status = "failed"]
             /\ disturbed' = disturbed \cup {w}
    <3>1. req'[r].pc = "commit" /\ req'[r].op = req[r].op
      BY <1>1, <1>2, <2>3 DEF Local
    <3>2. InStage(req'[r])
      BY <1>3, <2>1, <3>1 DEF InStage
    <3> QED BY <2>3, <3>2, OwnStep
  <2> QED BY <1>1, <1>8, <2>2, <2>3 DEF Sync
<1>9. CASE CreateCommit(r)
  <2>1. /\ req[r].pc = "commit" /\ ~Active(r)'
        /\ rows'[x] = req[r].edited /\ vectors' = vectors
    BY <1>1, <1>2, <1>6, <1>9 DEF CreateCommit
  <2>2. x \in Holding(w)'
    BY <1>1, <2>1 DEF Holding, Exists, Row, NoRow
  <2>3. w \notin disturbed' => Agree(w)'
    BY <1>4, <2>1, <2>2 DEF Halfway, Agree, EntryFor
  <2> QED BY <2>1, <2>3, OwnStep
<1>10. CASE UpdateClash(r)
  <2>1. UNCHANGED storeVars /\ req[r].pc = "clash" /\ (Goto(r, "sync") \/ End(r))
    BY <1>10 DEF UpdateClash
  <2>2. Active(r)' => InStage(req'[r])
    BY <1>3, <1>5, <1>6, <2>1 DEF InStage
  <2>3. w \notin disturbed' => IF Active(r)' THEN Halfway(r)' ELSE Agree(w)'
    BY <1>3, <1>4, <1>5, <1>6, <2>1, StoresSame DEF Halfway, InStage, storeVars, Exists
  <2> QED BY <2>2, <2>3, OwnStep
<1>11. CASE UpdateCommit(r)
  <2> DEFINE new == Merged(rows[x], req[r].loaded, req[r].edited)
  <2>1. /\ req[r].pc = "commit" /\ req[r].op = "update" /\ ~Active(r)'
        /\ rows'[x] = new /\ vectors' = vectors /\ Exists(x)
    BY <1>1, <1>2, <1>6, <1>11 DEF UpdateCommit
  <2>2. ASSUME w \notin disturbed' PROVE Agree(w)'
    <3>1. /\ rows[x] = req[r].loaded /\ req[r].edited.status = "synced"
          /\ vectors[w] = EntryFor(x, req[r].edited)
      BY <1>4, <2>1, <2>2 DEF Halfway
    <3>2. /\ new.title = req[r].edited.title /\ new.text = req[r].edited.text
          /\ new.vid = w /\ new.status = "synced"
      BY <1>1, <3>1 DEF Merged, Row
    <3>3. new # NoRow
      BY <3>1, <1>1 DEF Merged, Row, NoRow
    <3> HIDE DEF new
    <3>4. x \in Holding(w)'
      BY <1>1, <2>1, <3>2, <3>3 DEF Holding, Exists
    <3> QED BY <2>1, <3>1, <3>2, <3>4 DEF Agree, EntryFor
  <2> QED BY <2>1, <2>2, OwnStep
<1>12. CASE DeleteVector(r)
  <2>1. /\ req[r].pc = "deleteVector" /\ Goto(r, "deleteRow")
        /\ rows' = rows /\ vectors'[w] = NoEntry
    BY <1>1, <1>2, <1>12 DEF DeleteVector
  <2>2. req'[r].pc = "deleteRow" /\ Active(r)'
    BY <1>1, <1>2, <2>1 DEF Goto, Active, Local
  <2>3. InStage(req'[r])
    BY <1>3, <1>5, <2>1, <2>2 DEF InStage
  <2>4. w \notin disturbed' => Halfway(r)'
    BY <1>3, <1>4, <1>5, <2>1, <2>2 DEF Halfway, InStage, Exists
  <2> QED BY <2>2, <2>3, <2>4, OwnStep
<1>13. CASE DeleteUnavailable(r)
  <2>1. ~Active(r)' /\ w \in disturbed'
    BY <1>6, <1>13 DEF DeleteUnavailable
  <2> QED BY <2>1, OwnStep
<1>14. CASE DeleteRow(r)
  <2>1. /\ req[r].pc = "deleteRow" /\ ~Active(r)' /\ vectors' = vectors
        /\ rows' = [rows EXCEPT ![x] = NoRow]
    BY <1>6, <1>14 DEF DeleteRow
  <2>2. Holding(w)' = {}
    BY <1>1, <1>2, <2>1, OneHolder DEF Holding, Exists
  <2>3. w \notin disturbed' => Agree(w)'
    BY <1>4, <2>1, <2>2 DEF Halfway, Agree
  <2> QED BY <2>1, <2>3, OwnStep
<1>15. CASE WriteFails(r)
  BY <1>6, <1>15, OwnStep DEF WriteFails
<1>16. CASE CreateCheck(r) \/ UpdateRead(r) \/ DeleteRead(r)
  BY <1>16 DEF CreateCheck, UpdateRead, DeleteRead, Begin
<1> QED BY <1>7, <1>8, <1>9, <1>10, <1>11, <1>12, <1>13, <1>14, <1>15, <1>16 DEF RequestStep

(* A request that begins finds the stores in agreement, or another request *)
(* on the same product.                                                    *)
LEMMA BeginAgrees ==
    ASSUME TypeOK, TypeOK', OwnInv, AgreeInv, NEW r \in Request, ~Active(r), RequestStep(r)
    PROVE  AgreeInv'
<1>1. /\ rows \in [Id -> Row \cup {NoRow}] /\ vectors \in [VectorId -> Entry \cup {NoEntry}]
      /\ req \in [Request -> Local \cup {Idle}]
  BY DEF TypeOK, RequestsTyped
<1>2. CreateCheck(r) \/ UpdateRead(r) \/ DeleteRead(r)
  BY DEF RequestStep, CreateInsert, CreateCommit, UpdateClash, UpdateCommit,
     DeleteVector, DeleteUnavailable, DeleteRow, Sync, WriteFails
<1>3. /\ UNCHANGED <<storeVars, staged>> /\ server = "up" /\ disturbed \subseteq disturbed'
      /\ \A s \in Request : s # r => req'[s] = req[s]
  BY <1>1, <1>2 DEF CreateCheck, UpdateRead, DeleteRead, Begin, seedVars
<1>4. \A v : /\ StagedFor(v) = {} /\ StagedFor(v)' = {}
             /\ Holding(v)' = Holding(v) /\ (Agree(v)' <=> Agree(v))
  BY <1>3, StoresSame DEF StagedFor, TypeOK, SeederTyped
<1>5. ASSUME NEW v \in VectorId, v \notin disturbed', ~Busy(v)' PROVE Agree(v)'
  <2>1. ~Busy(v)
    BY <1>3, <1>5 DEF Busy, Active
  <2> QED BY <1>3, <1>4, <1>5, <2>1 DEF AgreeInv
<1>6. PICK x, w :
         /\ req'[r].id = x /\ req'[r].loaded.vid = w /\ w \in VectorId
         /\ InStage(req'[r])
         /\ \A s \in Request : Active(s) /\ req[s].loaded.vid = w => w \in disturbed'
         /\ w \notin disturbed' => Halfway(r)'
  <2>1. CASE CreateCheck(r)
    <3> DEFINE id == lastId + 1
    <3>1. PICK title \in Title, text \in Text :
             LET row == [title |-> title, text |-> text, vid |-> id, status |-> "pending"]
             IN  req' = [req EXCEPT ![r] = [pc |-> "insert", op |-> "create", id |-> id,
                                            loaded |-> row, edited |-> row]]
      BY <2>1 DEF CreateCheck, Begin
    <3>2. /\ req'[r].id = id /\ req'[r].loaded.vid = id
          /\ req'[r].pc = "insert" /\ req'[r].op = "create"
      BY <1>1, <3>1
    <3>3. id \in Id /\ id \in VectorId /\ lastId \in Nat
      BY <2>1, CatalogBoundAssumption DEF CreateCheck, VectorId, TypeOK
    <3>4. \A i \in Id : ~Claim(i, id)
      <4>1. \A i \in Id : Claim(i, id) => id = i /\ i <= lastId
        BY <3>3 DEF OwnInv
      <4> QED BY <3>3, <4>1
    <3>5. \A s \in Request : Active(s) => req[s].loaded.vid # id
      BY <3>4, RequestHolds DEF Claim
    <3>6. Holding(id) = {} /\ vectors[id] = NoEntry
      <4>1. vectors[id] # NoEntry => vectors[id].id \in Id
        BY <3>3, Typed DEF Entry
      <4> QED BY <3>4, <4>1 DEF Claim, Holds, Holding
    <3>7. InStage(req'[r])
      BY <3>2 DEF InStage
    <3>8. PICK w : w = id
      OBVIOUS
    <3>9. Holding(w)' = {} /\ vectors'[w] = NoEntry
      BY <1>3, <1>4, <3>6, <3>8 DEF storeVars
    <3>10. Halfway(r)'
      BY <3>2, <3>8, <3>9 DEF Halfway
    <3> QED BY <3>2, <3>3, <3>5, <3>7, <3>10
  <2>2. CASE UpdateRead(r) \/ DeleteRead(r)
    <3>1. PICK id \in Id :
             /\ Exists(id)
             /\ req'[r].id = id /\ req'[r].loaded = rows[id]
             /\ \/ req'[r].pc = "clash" /\ req'[r].op = "update"
                \/ req'[r].pc = "deleteVector" /\ req'[r].op = "delete"
             /\ disturbed' = disturbed \cup Overlapped(id)
      <4>1. CASE UpdateRead(r)
        BY <1>1, <4>1 DEF UpdateRead, Begin
      <4>2. CASE DeleteRead(r)
        BY <1>1, <4>2 DEF DeleteRead, Begin
      <4> QED BY <2>2, <4>1, <4>2
    <3>2. PICK w : w = rows[id].vid
      OBVIOUS
    <3>3. w \in VectorId /\ Holds(id, w)
      BY <3>1, <3>2, Typed DEF Row, Holds
    <3>4. InStage(req'[r])
      BY <3>1 DEF InStage
    <3>5. ASSUME NEW s \in Request, Active(s), req[s].loaded.vid = w
          PROVE  w \in disturbed'
      <4>1. req[s].id = id
        BY <3>3, <3>5, RequestHolds DEF OwnInv
      <4> QED BY <3>1, <3>2, <3>5, <4>1 DEF Overlapped
    <3>6. ASSUME w \notin disturbed' PROVE Halfway(r)'
      <4>1. ~Busy(w)
        BY <3>5, <3>6 DEF Busy
      <4>2. Agree(w)'
        BY <1>3, <1>4, <3>3, <3>6, <4>1 DEF AgreeInv
      <4>3. rows'[id] = rows[id]
        BY <1>3 DEF storeVars
      <4> QED BY <3>1, <3>2, <4>2, <4>3 DEF Halfway, Exists
    <3> QED BY <3>1, <3>2, <3>3, <3>4, <3>5, <3>6
  <2> QED BY <1>2, <2>1, <2>2
<1>7. Stages'
  BY <1>3, <1>6 DEF AgreeInv, Stages, Active
<1>8. Alone'
  BY <1>3, <1>6 DEF AgreeInv, Alone, Active
<1>9. ASSUME NEW s \in Request, Active(s)', req'[s].loaded.vid \notin disturbed'
      PROVE  Halfway(s)'
  <2>1. CASE s = r
    BY <1>6, <1>9, <2>1
  <2>2. CASE s # r
    <3>1. Active(s) /\ req'[s] = req[s] /\ Halfway(s)
      BY <1>3, <1>9, <2>2 DEF Active, AgreeInv
    <3>2. PICK v : v = req[s].loaded.vid
      OBVIOUS
    <3>3. /\ Holding(v)' = Holding(v) /\ (Agree(v)' <=> Agree(v))
          /\ rows' = rows /\ vectors' = vectors
      BY <1>3, <1>4 DEF storeVars
    <3> QED BY <3>1, <3>2, <3>3 DEF Halfway, Exists, EntryFor
  <2> QED BY <2>1, <2>2
<1> QED BY <1>4, <1>5, <1>7, <1>8, <1>9 DEF AgreeInv

(* What the seeder finds under a row's vector id, undisturbed, is that     *)
(* row's own entry.                                                        *)
FoundRight(id, row) ==
    /\ staged[id] # NoRow => staged[id].vid = row.vid
    /\ (vectors[row.vid] # NoEntry /\ row.vid \notin disturbed) =>
           vectors[row.vid] = EntryFor(id, row)

(* What the seeder stages agrees with its entry when the entry it found    *)
(* did.                                                                    *)
LEMMA CourseAgrees ==
    ASSUME TypeOK, OwnInv, OwnInv', TypeOK', AgreeInv, server = "booting",
           NEW title, NEW id \in Id, NEW row \in Row, SeedEmbed(title, id, row),
           FoundRight(id, row)
    PROVE  AgreeInv'
<1>1. PICK new \in Row : /\ new.vid = row.vid /\ EntryFor(id, new) = EntryFor(id, row)
                         /\ staged' = [staged EXCEPT ![id] = new]
  BY EmbedTypes
<1>2. /\ UNCHANGED <<rows, req>> /\ disturbed \subseteq disturbed'
      /\ staged \in [Id -> Row \cup {NoRow}]
      /\ vectors \in [VectorId -> Entry \cup {NoEntry}]
  BY DEF SeedEmbed, TypeOK, SeederTyped
<1>3. new # NoRow
  BY DEF Row, NoRow
<1>4. \A r \in Request : ~Active(r) /\ ~Active(r)'
  BY <1>2 DEF TypeOK, RequestsTyped, Active
<1>5. ASSUME NEW v \in VectorId, v \notin disturbed', v # row.vid
      PROVE  /\ StagedFor(v)' = {} => Agree(v)'
             /\ \A i \in StagedFor(v)' :
                   staged'[i].status = "synced" /\ vectors'[v] = EntryFor(i, staged'[i])
  <2>1. vectors'[v] = vectors[v]
    BY <1>2, <1>5 DEF SeedEmbed
  <2>2. /\ StagedFor(v)' = StagedFor(v)
        /\ \A i \in StagedFor(v) : staged'[i] = staged[i]
    <3>1. \A i \in Id : i # id => staged'[i] = staged[i]
      BY <1>1, <1>2
    <3>2. staged'[id] = new /\ new.vid # v
      BY <1>1, <1>2, <1>5
    <3>3. staged[id] = NoRow \/ staged[id].vid # v
      BY <1>5 DEF FoundRight
    <3> QED BY <3>1, <3>2, <3>3 DEF StagedFor
  <2>3. Holding(v)' = Holding(v)
    BY <1>2 DEF Holding, Exists
  <2>4. Agree(v)' <=> Agree(v)
    BY <1>2, <2>1, <2>3, SameAgree
  <2>5. ~Busy(v) /\ v \notin disturbed
    BY <1>2, <1>4, <1>5 DEF Busy
  <2> QED BY <2>1, <2>2, <2>4, <2>5 DEF AgreeInv, EntryFor
<1>6. ASSUME NEW v \in VectorId, v \notin disturbed', v = row.vid
      PROVE  /\ StagedFor(v)' # {}
             /\ \A i \in StagedFor(v)' :
                   staged'[i].status = "synced" /\ vectors'[v] = EntryFor(i, staged'[i])
  <2>1. staged'[id] = new /\ Holds(id, v)'
    BY <1>1, <1>2, <1>3, <1>6 DEF Holds
  <2>2. StagedFor(v)' = {id}
    BY <1>1, <1>2, <1>3, <1>6, <2>1 DEF OwnInv, Holds, StagedFor
  <2>3. staged'[id].status = "synced" /\ vectors'[v] = EntryFor(id, row)
    BY <1>2, <1>6, <2>1, EntryTypes DEF FoundRight, SeedEmbed, Row
  <2> QED BY <1>1, <2>1, <2>2, <2>3
<1>7. Stages' /\ Alone'
  BY <1>4 DEF Stages, Alone
<1> QED BY <1>4, <1>5, <1>6, <1>7 DEF AgreeInv

(* The seeder, the users and a crash keep the stores in agreement.         *)
LEMMA SystemAgrees ==
    ASSUME TypeOK, TypeOK', StagedRight, OwnInv, OwnInv', AgreeInv,
           SeedStep \/ Crash \/ \E id \in Id : Refer(id)
    PROVE  AgreeInv'
<1>1. CASE Boot \/ \E id \in Id : Refer(id)
  <2>1. UNCHANGED <<rows, vectors, staged, req, disturbed>>
    BY <1>1 DEF Boot, Refer, storeVars, seedVars
  <2>2. /\ \A v : Holding(v)' = Holding(v) /\ (Agree(v)' <=> Agree(v))
        /\ \A v : StagedFor(v)' = StagedFor(v) /\ (Busy(v)' <=> Busy(v))
        /\ \A r : Active(r)' <=> Active(r)
    BY <2>1, StoresSame DEF storeVars, StagedFor, Busy, Active
  <2>3. \A r \in Request : Halfway(r)' <=> Halfway(r)
    <3> SUFFICES ASSUME NEW r \in Request PROVE Halfway(r)' <=> Halfway(r)
      OBVIOUS
    <3>1. PICK v : v = req[r].loaded.vid
      OBVIOUS
    <3> QED BY <2>1, <2>2, <3>1 DEF Halfway, Exists, EntryFor
  <2>4. Stages' /\ Alone'
    BY <2>1, <2>2 DEF AgreeInv, Stages, Alone
  <2> QED BY <2>1, <2>2, <2>3, <2>4 DEF AgreeInv, EntryFor
<1>2. ASSUME NEW title \in Seeded, SeedExisting(title) PROVE AgreeInv'
  <2>1. PICK id \in Titled(title) : SeedEmbed(title, id, rows[id])
    BY <1>2 DEF SeedExisting
  <2>2. id \in Id /\ Exists(id) /\ rows[id] \in Row /\ server = "booting"
    BY <1>2, Typed DEF Titled, SeedExisting
  <2>3. PICK v \in VectorId : v = rows[id].vid
    BY <2>2 DEF Row
  <2>4. Holds(id, v)
    BY <2>2, <2>3 DEF Holds
  <2>5. /\ Holding(v) \subseteq {id} /\ StagedFor(v) \subseteq {id}
        /\ staged[id] # NoRow => staged[id].vid = v
    BY <2>2, <2>3, <2>4, OneHolder
  <2>6. ASSUME vectors[v] # NoEntry, v \notin disturbed
        PROVE  vectors[v] = EntryFor(id, rows[id])
    <3>1. CASE StagedFor(v) = {}
      <4>1. ~Busy(v)
        BY <2>2 DEF Busy, TypeOK, RequestsTyped
      <4> QED BY <2>5, <2>6, <3>1, <4>1 DEF AgreeInv, Agree
    <3>2. CASE id \in StagedFor(v)
      BY <2>2, <2>6, <3>2 DEF AgreeInv, StagedFor, StagedRight
    <3> QED BY <2>5, <3>1, <3>2
  <2> QED BY <2>1, <2>2, <2>3, <2>5, <2>6, CourseAgrees DEF FoundRight
<1>3. ASSUME NEW title \in Seeded, SeedNew(title) PROVE AgreeInv'
  <2> DEFINE id == lastId + 1
             row == [title |-> title, text |-> SeedText, vid |-> StableVectorId(title),
                     status |-> "pending"]
  <2>1. /\ id \in Id /\ lastId' = id /\ SeedEmbed(title, id, row)
        /\ server = "booting" /\ Holding(title) = {}
    BY <1>3 DEF SeedNew, StableVectorId
  <2>2. row \in Row /\ row.vid = title /\ title \in VectorId
    BY SeedAssumption DEF Row, VectorId, StableVectorId
  <2>3. staged[id] = NoRow
    <3>1. ~(id <= lastId)
      BY CatalogBoundAssumption DEF TypeOK
    <3> QED BY <2>1, <3>1 DEF TypeOK, IdsHandedOut
  <2>4. ~Busy(title)
    BY <2>1 DEF Busy, TypeOK, RequestsTyped
  <2>5. StagedFor(title) = {}
    BY <1>3, NewTitleFree DEF StagedFor, Holds
  <2>6. title \notin disturbed => vectors[title] = NoEntry
    BY <2>1, <2>2, <2>4, <2>5 DEF AgreeInv, Agree
  <2> HIDE DEF row, id
  <2> QED BY <2>1, <2>2, <2>3, <2>6, CourseAgrees DEF FoundRight
<1>4. CASE Crash \/ \E title \in Seeded : SeedRefused(title)
  <2>1. UNCHANGED storeVars /\ disturbed \subseteq disturbed'
    BY <1>4 DEF Crash, SeedRefused
  <2>2. \A v : /\ StagedFor(v)' = {}
               /\ StagedFor(v) # {} => v \in disturbed'
               /\ Agree(v)' <=> Agree(v)
    BY <1>4, <2>1, StoresSame DEF Crash, SeedRefused, NoRows, StagedFor
  <2>3. \A r \in Request : ~Active(r)' /\ (Active(r) => req[r].loaded.vid \in disturbed')
    <3>1. CASE Crash
      BY <3>1 DEF Crash, Active, Idle
    <3>2. ASSUME NEW title \in Seeded, SeedRefused(title)
          PROVE  \A r \in Request : ~Active(r)' /\ ~Active(r)
      <4>1. \A r \in Request : ~Active(r)
        BY <3>2 DEF SeedRefused, TypeOK, RequestsTyped
      <4> QED BY <3>2, <4>1 DEF SeedRefused, Active
    <3> QED BY <1>4, <3>1, <3>2
  <2>4. Stages' /\ Alone'
    BY <2>3 DEF Stages, Alone
  <2>5. ASSUME NEW v \in VectorId, v \notin disturbed' PROVE Agree(v)'
    BY <2>1, <2>2, <2>3, <2>5 DEF AgreeInv, Busy
  <2> QED BY <2>2, <2>3, <2>4, <2>5 DEF AgreeInv
<1>5. CASE SeedCommit
  <2>1. /\ UNCHANGED <<vectors, req, disturbed>> /\ server = "booting"
        /\ \A id \in Id : /\ staged'[id] = NoRow
                          /\ rows'[id] = IF staged[id] = NoRow THEN rows[id] ELSE staged[id]
    BY <1>5 DEF SeedCommit, NoRows
  <2>2. \A r \in Request : ~Active(r) /\ ~Active(r)'
    BY <2>1 DEF TypeOK, RequestsTyped, Active
  <2>3. \A v : StagedFor(v)' = {} /\ ~Busy(v)
    BY <2>1, <2>2 DEF StagedFor, Busy
  <2>4. ASSUME NEW v \in VectorId, v \notin disturbed PROVE Agree(v)'
    <3>1. ASSUME NEW id \in StagedFor(v) PROVE Agree(v)'
      <4>1. id \in Holding(v)' /\ rows'[id] = staged[id]
        BY <2>1, <3>1 DEF StagedFor, Holding, Exists
      <4>2. staged[id].status = "synced" /\ vectors[v] = EntryFor(id, staged[id])
        BY <2>4, <3>1 DEF AgreeInv
      <4> QED BY <2>1, <4>1, <4>2 DEF Agree, EntryFor
    <3>2. CASE StagedFor(v) = {}
      <4>1. \A id \in Holding(v) : staged[id] = NoRow
        <5>1. \A id \in Holding(v) : id \in Id /\ Holds(id, v)
          BY DEF Holding, Holds
        <5> QED BY <3>2, <5>1, OneHolder DEF StagedFor
      <4>2. Holding(v)' = Holding(v) /\ \A id \in Holding(v) : rows'[id] = rows[id]
        BY <2>1, <3>2, <4>1 DEF Holding, Exists, StagedFor
      <4>3. Agree(v)
        BY <2>3, <2>4, <3>2 DEF AgreeInv
      <4> QED BY <2>1, <4>2, <4>3, SameAgree
    <3> QED BY <3>1, <3>2
  <2>5. Stages' /\ Alone'
    BY <2>2 DEF Stages, Alone
  <2> QED BY <2>1, <2>2, <2>3, <2>4, <2>5 DEF AgreeInv
<1> QED BY <1>1, <1>2, <1>3, <1>4, <1>5 DEF SeedStep

(* As long as nothing fails, is interrupted or overlaps on a vector id,    *)
(* the two stores tell the same about it whenever no request is at work on *)
(* it: row and entry agree and the row says synced, or there is neither.   *)
THEOREM DualWriteAgrees == Spec => []UndisturbedAgree
<1>1. Init => AgreeInv
  <2> SUFFICES ASSUME Init PROVE AgreeInv
    OBVIOUS
  <2>1. /\ \A r \in Request : ~Active(r)
        /\ \A v \in VectorId : /\ Holding(v) = {} /\ StagedFor(v) = {}
                               /\ vectors[v] = NoEntry
    BY DEF Init, Active, Idle, Holding, Exists, NoRows, StagedFor
  <2> QED BY <2>1 DEF AgreeInv, Stages, Alone, Agree
<1>2. /\ TypeOK /\ TypeOK' /\ StagedRight /\ OwnInv /\ OwnInv' /\ AgreeInv /\ [Next]_vars
      => AgreeInv'
  <2> SUFFICES ASSUME TypeOK, TypeOK', StagedRight, OwnInv, OwnInv', AgreeInv, [Next]_vars
               PROVE  AgreeInv'
    OBVIOUS
  <2>1. CASE Next
    BY <2>1, RequestAgrees, BeginAgrees, SystemAgrees DEF Next
  <2>2. CASE UNCHANGED vars
    <3>1. UNCHANGED <<rows, vectors, staged, req, disturbed>>
      BY <2>2 DEF vars, storeVars, seedVars
    <3> QED BY <3>1 DEF AgreeInv, Stages, Alone, Halfway, Agree, Holding, Exists,
            EntryFor, StagedFor, Busy, Active
  <2> QED BY <2>1, <2>2
<1>3. TypeOK /\ AgreeInv => UndisturbedAgree
  <2> SUFFICES ASSUME TypeOK, AgreeInv, server = "up", NEW v \in VectorId,
                      v \notin disturbed, ~Busy(v)
               PROVE  Agree(v)
    BY DEF UndisturbedAgree, Agree
  <2>1. StagedFor(v) = {}
    BY DEF TypeOK, SeederTyped, StagedFor
  <2> QED BY <2>1 DEF AgreeInv
<1> QED BY <1>1, <1>2, <1>3, CatalogTypes, StagedInvariant, OwnInvariant, PTL DEF Spec
=============================================================================

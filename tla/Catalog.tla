------------------------------- MODULE Catalog -------------------------------
(***************************************************************************)
(* The product catalog in its two stores: the products table and the       *)
(* vector store.  The admin's create, update and delete requests           *)
(* (app/routers/products.py) write both, one after the other; at startup   *)
(* the seeder (app/services/seeder.py) makes sure that every course of the *)
(* canonical list is in both.                                              *)
(*                                                                         *)
(* Each query and each call to the vector store is a step.  The vector     *)
(* store commits at once; the products table sees a request's work when    *)
(* it commits, and transactions are those of PostgreSQL: a unique index    *)
(* makes an INSERT wait for an uncommitted one with the same key.  A crash *)
(* loses the requests and what they have not committed.                    *)
(***************************************************************************)
EXTENDS Integers, FiniteSets

CONSTANTS
    Title,
    Seeded,        \* the titles of the canonical list
    Text,          \* category, description and price of a product
    SeedText,      \* those of the canonical list
    Request,       \* slots for concurrent admin requests
    ForeignKeys,   \* whether events keep their product from being deleted
    MaxIds,        \* bound: products ever created
    MaxRequests,   \* bound: requests ever started
    MaxBoots       \* bound: starts of the process

ASSUME SeedAssumption == Seeded \subseteq Title /\ SeedText \in Text
ASSUME TitleAssumption == Title \cap Nat = {}
ASSUME CatalogBoundAssumption ==
    MaxIds \in Nat /\ MaxRequests \in Nat /\ MaxBoots \in Nat
ASSUME ForeignKeyAssumption == ForeignKeys \in BOOLEAN

VARIABLES
    rows,        \* the committed products table
    vectors,     \* the vector store
    referenced,  \* products that some event refers to
    lastId,      \* ids handed out so far
    server,      \* the process: down, booting, up, or refused to start
    todo,        \* courses the seeder has still to look at
    staged,      \* the rows in the seeder's session
    req,         \* the admin requests
    started,     \* requests started so far
    boots,       \* starts so far
    disturbed    \* history: vector ids with a failed, interrupted or
                 \* overlapping write

storeVars == <<rows, vectors>>
seedVars == <<todo, staged, boots>>
vars == <<storeVars, referenced, lastId, server, seedVars, req, started, disturbed>>

Id == 1..MaxIds

(* A seeded course has a vector id derived from its title, any other       *)
(* product one of its own.                                                 *)
VectorId == Title \cup Id
StableVectorId(title) == title

Row == [title : Title, text : Text, vid : VectorId,
        status : {"pending", "synced", "failed"}]
NoRow == [vid |-> 0]

(* The metadata's sql_id and the embedded text.                            *)
Entry == [id : Id, title : Title, text : Text]
NoEntry == [id |-> 0]

EntryFor(id, row) == [id |-> id, title |-> row.title, text |-> row.text]

(* loaded is the row a request has read, edited what it makes of it.       *)
PC == {"idle", "insert", "clash", "sync", "commit", "deleteVector", "deleteRow"}
Local == [pc : PC, op : {"create", "update", "delete"}, id : Id,
          loaded : Row, edited : Row]
Idle == [pc |-> "idle"]

Active(r) == req[r].pc # "idle"
Exists(id) == rows[id] # NoRow
Titled(title) == {id \in Id : Exists(id) /\ rows[id].title = title}
Holding(vid) == {id \in Id : Exists(id) /\ rows[id].vid = vid}

RequestsTyped ==
    /\ req \in [Request -> Local \cup {Idle}]
    /\ \A r \in Request : Active(r) => server = "up" /\ req[r].id <= lastId

SeederTyped ==
    /\ todo \in SUBSET Seeded
    /\ staged \in [Id -> Row \cup {NoRow}]
    /\ server # "booting" => todo = {} /\ \A id \in Id : staged[id] = NoRow

IdsHandedOut == \A id \in Id : Exists(id) \/ staged[id] # NoRow => id <= lastId

TypeOK ==
    /\ rows \in [Id -> Row \cup {NoRow}]
    /\ vectors \in [VectorId -> Entry \cup {NoEntry}]
    /\ referenced \in SUBSET Id
    /\ lastId \in 0..MaxIds
    /\ server \in {"down", "booting", "up", "refused"}
    /\ IdsHandedOut /\ SeederTyped /\ RequestsTyped
    /\ started \in Nat /\ boots \in Nat
    /\ disturbed \in SUBSET VectorId

NoRows == [id \in Id |-> NoRow]

Init ==
    /\ rows = NoRows
    /\ vectors = [v \in VectorId |-> NoEntry]
    /\ referenced = {} /\ lastId = 0
    /\ server = "down" /\ todo = {} /\ staged = NoRows
    /\ req = [r \in Request |-> Idle]
    /\ started = 0 /\ boots = 0
    /\ disturbed = {}

-----------------------------------------------------------------------------
(* Helpers of the requests.                                                *)

Goto(r, pc) == req' = [req EXCEPT ![r].pc = pc]
End(r) == req' = [req EXCEPT ![r] = Idle]

Begin(r, local) ==
    /\ server = "up" /\ ~Active(r)
    /\ started < MaxRequests
    /\ started' = started + 1
    /\ req' = [req EXCEPT ![r] = local]

(* Another request is working on the same product.                         *)
Overlapped(id) ==
    {rows[id].vid : r \in {s \in Request : Active(s) /\ req[s].id = id}}

(* An uncommitted INSERT of the same title.                                *)
TitlePending(r, title) ==
    \E s \in Request \ {r} :
        /\ req[s].pc \in {"sync", "commit"} /\ req[s].op = "create"
        /\ req[s].edited.title = title

-----------------------------------------------------------------------------
(* POST /api/products.                                                     *)

(* The clash query found nothing, and the new row has its ids.             *)
CreateCheck(r) ==
    \E title \in Title, text \in Text :
        LET id == lastId + 1
            row == [title |-> title, text |-> text, vid |-> id, status |-> "pending"]
        IN  /\ id \in Id
            /\ Titled(title) = {}
            /\ Begin(r, [pc |-> "insert", op |-> "create", id |-> id,
                         loaded |-> row, edited |-> row])
            /\ lastId' = id
            /\ UNCHANGED <<storeVars, referenced, server, seedVars, disturbed>>

(* The flush; a title that was taken meanwhile, or a value that a column   *)
(* does not take, ends the request.                                        *)
CreateInsert(r) ==
    /\ Active(r) /\ req[r].pc = "insert"
    /\ ~TitlePending(r, req[r].edited.title)
    /\ \/ Titled(req[r].edited.title) = {} /\ Goto(r, "sync")
       \/ End(r)
    /\ UNCHANGED <<storeVars, referenced, lastId, server, seedVars, started, disturbed>>

(* Mutants: the entry lies under the id derived from the title; the text   *)
(* is embedded as it was read.                                             *)
SyncedUnderTitle(r) ==
    LET local == req[r]
    IN  /\ Active(r) /\ local.pc = "sync"
        /\ vectors' = [vectors EXCEPT ![StableVectorId(local.edited.title)] =
                           EntryFor(local.id, local.edited)]
        /\ req' = [req EXCEPT ![r].pc = "commit", ![r].edited.status = "synced"]
        /\ UNCHANGED <<rows, referenced, lastId, server, seedVars, started, disturbed>>

SyncedAsRead(r) ==
    LET local == req[r]
    IN  /\ Active(r) /\ local.pc = "sync"
        /\ vectors' = [vectors EXCEPT ![local.edited.vid] = EntryFor(local.id, local.loaded)]
        /\ req' = [req EXCEPT ![r].pc = "commit", ![r].edited.status = "synced"]
        /\ UNCHANGED <<rows, referenced, lastId, server, seedVars, started, disturbed>>

(* sync_product_to_vector_store: embed and upsert.  Any failure of either, *)
(* be it after the upsert took effect, becomes the status of the row.      *)
Sync(r) ==
    LET local == req[r]
        vid == local.edited.vid
    IN  /\ Active(r) /\ local.pc = "sync"
        /\ \/ /\ vectors' = [vectors EXCEPT ![vid] = EntryFor(local.id, local.edited)]
              /\ req' = [req EXCEPT ![r].pc = "commit", ![r].edited.status = "synced"]
              /\ UNCHANGED disturbed
           \/ /\ vectors' \in {vectors, [vectors EXCEPT ![vid] = EntryFor(local.id, local.edited)]}
              /\ req' = [req EXCEPT ![r].pc = "commit", ![r].edited.status = "failed"]
              /\ disturbed' = disturbed \cup {vid}
        /\ UNCHANGED <<rows, referenced, lastId, server, seedVars, started>>

CreateCommit(r) ==
    /\ Active(r) /\ req[r].pc = "commit" /\ req[r].op = "create"
    /\ rows' = [rows EXCEPT ![req[r].id] = req[r].edited]
    /\ End(r)
    /\ UNCHANGED <<vectors, referenced, lastId, server, seedVars, started, disturbed>>

-----------------------------------------------------------------------------
(* PATCH /api/products/{id}.                                               *)

UpdateRead(r) ==
    \E id \in Id, title \in Title, text \in Text :
        LET edited == [rows[id] EXCEPT !.title = title, !.text = text]
        IN  /\ Exists(id)
            /\ Begin(r, [pc |-> "clash", op |-> "update", id |-> id,
                         loaded |-> rows[id], edited |-> edited])
            /\ disturbed' = disturbed \cup Overlapped(id)
            /\ UNCHANGED <<storeVars, referenced, lastId, server, seedVars>>

Renames(r) == req[r].edited.title # req[r].loaded.title
TitleFree(r) == Titled(req[r].edited.title) \subseteq {req[r].id}

(* A title that is given must not be that of another product; a request    *)
(* that gives none is not checked.                                         *)
UpdateClash(r) ==
    /\ Active(r) /\ req[r].pc = "clash"
    /\ \/ TitleFree(r) /\ Goto(r, "sync")
       \/ ~Renames(r) /\ Goto(r, "sync")
       \/ ~TitleFree(r) /\ End(r)
    /\ UNCHANGED <<storeVars, referenced, lastId, server, seedVars, started, disturbed>>

(* The session writes the columns that differ from what it has read.       *)
Merged(current, loaded, edited) ==
    [field \in DOMAIN current |->
        IF edited[field] # loaded[field] THEN edited[field] ELSE current[field]]

UpdateCommit(r) ==
    LET local == req[r]
    IN  /\ Active(r) /\ local.pc = "commit" /\ local.op = "update"
        /\ Exists(local.id)
        /\ Renames(r) => TitleFree(r) /\ ~TitlePending(r, local.edited.title)
        /\ rows' = [rows EXCEPT ![local.id] = Merged(@, local.loaded, local.edited)]
        /\ End(r)
        /\ UNCHANGED <<vectors, referenced, lastId, server, seedVars, started, disturbed>>

-----------------------------------------------------------------------------
(* DELETE /api/products/{id}.                                              *)

DeleteRead(r) ==
    \E id \in Id :
        /\ Exists(id)
        /\ Begin(r, [pc |-> "deleteVector", op |-> "delete", id |-> id,
                     loaded |-> rows[id], edited |-> rows[id]])
        /\ disturbed' = disturbed \cup Overlapped(id)
        /\ UNCHANGED <<storeVars, referenced, lastId, server, seedVars>>

DeleteVector(r) ==
    /\ Active(r) /\ req[r].pc = "deleteVector"
    /\ vectors' = [vectors EXCEPT ![req[r].loaded.vid] = NoEntry]
    /\ Goto(r, "deleteRow")
    /\ UNCHANGED <<rows, referenced, lastId, server, seedVars, started, disturbed>>

(* The call to the vector store raises, before or after it took effect:    *)
(* 503, and the row stays.                                                 *)
DeleteUnavailable(r) ==
    LET vid == req[r].loaded.vid
    IN  /\ Active(r) /\ req[r].pc = "deleteVector"
        /\ vectors' \in {vectors, [vectors EXCEPT ![vid] = NoEntry]}
        /\ disturbed' = disturbed \cup {vid}
        /\ End(r)
        /\ UNCHANGED <<rows, referenced, lastId, server, seedVars, started>>

(* A row that another request has deleted already is no error.             *)
DeleteRow(r) ==
    /\ Active(r) /\ req[r].pc = "deleteRow"
    /\ ~(ForeignKeys /\ req[r].id \in referenced)
    /\ rows' = [rows EXCEPT ![req[r].id] = NoRow]
    /\ End(r)
    /\ UNCHANGED <<vectors, referenced, lastId, server, seedVars, started, disturbed>>

-----------------------------------------------------------------------------
(* What a table refuses: an update of a row that is gone, to a title that  *)
(* was taken meanwhile or with a value that a column does not take (an     *)
(* explicit null, a title too long: any update may carry one); the         *)
(* deletion of a row that events refer to.                                 *)
Refused(r) ==
    \/ req[r].pc = "commit" /\ req[r].op = "update"
    \/ req[r].pc = "deleteRow" /\ ForeignKeys /\ req[r].id \in referenced

(* The transaction is rolled back and the request ends with a 500; what it *)
(* did to the vector store stays.                                          *)
WriteFails(r) ==
    /\ Active(r) /\ Refused(r)
    /\ End(r)
    /\ disturbed' = disturbed \cup {req[r].loaded.vid}
    /\ UNCHANGED <<storeVars, referenced, lastId, server, seedVars, started>>

(* A user's event refers to a product (POST /api/events).                  *)
Refer(id) ==
    /\ server = "up" /\ Exists(id)
    /\ referenced' = referenced \cup {id}
    /\ UNCHANGED <<storeVars, lastId, server, seedVars, req, started, disturbed>>

-----------------------------------------------------------------------------
(* The process starts: seed_catalog runs before the first request.         *)

Boot ==
    /\ server \in {"down", "refused"}
    /\ boots < MaxBoots
    /\ boots' = boots + 1
    /\ server' = "booting"
    /\ todo' = Seeded
    /\ UNCHANGED <<storeVars, referenced, lastId, staged, req, started, disturbed>>

(* Mutant: the status decides whether a course is embedded.                *)
SeedEmbedByStatus(title, id, row) ==
    /\ vectors' = IF row.status = "synced" THEN vectors
                  ELSE [vectors EXCEPT ![row.vid] = EntryFor(id, row)]
    /\ staged' = [staged EXCEPT ![id] = [row EXCEPT !.status = "synced"]]
    /\ todo' = todo \ {title}
    /\ UNCHANGED <<rows, referenced, server, boots, req, started, disturbed>>

(* One course whose row is there or has just been flushed: it is embedded  *)
(* unless an entry with its vector id exists.                              *)
SeedEmbed(title, id, row) ==
    /\ \/ /\ vectors[row.vid] # NoEntry
          /\ staged' = [staged EXCEPT ![id] = [row EXCEPT !.status = "synced"]]
          /\ UNCHANGED <<vectors, disturbed>>
       \/ /\ vectors[row.vid] = NoEntry
          /\ vectors' = [vectors EXCEPT ![row.vid] = EntryFor(id, row)]
          /\ staged' = [staged EXCEPT ![id] = [row EXCEPT !.status = "synced"]]
          /\ UNCHANGED disturbed
       \/ /\ vectors[row.vid] = NoEntry
          /\ vectors' \in {vectors, [vectors EXCEPT ![row.vid] = EntryFor(id, row)]}
          /\ staged' = [staged EXCEPT ![id] = [row EXCEPT !.status = "failed"]]
          /\ disturbed' = disturbed \cup {row.vid}
    /\ todo' = todo \ {title}
    /\ UNCHANGED <<rows, referenced, server, boots, req, started>>

(* Mutant: an existing course gets its canonical text back.                *)
SeedExistingReset(title) ==
    /\ server = "booting" /\ title \in todo
    /\ \E id \in Titled(title) :
          SeedEmbed(title, id, [rows[id] EXCEPT !.text = SeedText])
    /\ UNCHANGED lastId

SeedExisting(title) ==
    /\ server = "booting" /\ title \in todo
    /\ \E id \in Titled(title) : SeedEmbed(title, id, rows[id])
    /\ UNCHANGED lastId

SeedNew(title) ==
    LET id == lastId + 1
        vid == StableVectorId(title)
    IN  /\ server = "booting" /\ title \in todo
        /\ Titled(title) = {} /\ Holding(vid) = {}
        /\ id \in Id
        /\ lastId' = id
        /\ SeedEmbed(title, id, [title |-> title, text |-> SeedText, vid |-> vid,
                                 status |-> "pending"])

(* The course was renamed: its title is missing, but the vector id of the  *)
(* title is taken.  The INSERT is refused, the fallback query finds no     *)
(* row, and the startup ends with an exception.                            *)
SeedRefused(title) ==
    /\ server = "booting" /\ title \in todo
    /\ Titled(title) = {} /\ Holding(StableVectorId(title)) # {}
    /\ server' = "refused"
    /\ todo' = {}
    /\ staged' = NoRows
    /\ disturbed' = disturbed
         \cup {staged[id].vid : id \in {i \in Id : staged[i] # NoRow}}
    /\ UNCHANGED <<storeVars, referenced, lastId, boots, req, started>>

(* Mutant: the process serves before the seeder is through.                *)
SeedCommitEarly ==
    /\ server = "booting"
    /\ rows' = [id \in Id |-> IF staged[id] = NoRow THEN rows[id] ELSE staged[id]]
    /\ staged' = NoRows
    /\ server' = "up"
    /\ UNCHANGED <<vectors, referenced, lastId, todo, boots, req, started, disturbed>>

SeedCommit ==
    /\ server = "booting" /\ todo = {}
    /\ rows' = [id \in Id |-> IF staged[id] = NoRow THEN rows[id] ELSE staged[id]]
    /\ staged' = NoRows
    /\ server' = "up"
    /\ UNCHANGED <<vectors, referenced, lastId, todo, boots, req, started, disturbed>>

Crash ==
    /\ server \in {"booting", "up"}
    /\ server' = "down"
    /\ todo' = {} /\ staged' = NoRows
    /\ req' = [r \in Request |-> Idle]
    /\ disturbed' = disturbed
         \cup {staged[id].vid : id \in {i \in Id : staged[i] # NoRow}}
         \cup {req[r].loaded.vid : r \in {s \in Request : Active(s)}}
    /\ UNCHANGED <<storeVars, referenced, lastId, started, boots>>

-----------------------------------------------------------------------------
RequestStep(r) ==
    \/ CreateCheck(r) \/ CreateInsert(r) \/ CreateCommit(r)
    \/ UpdateRead(r) \/ UpdateClash(r) \/ UpdateCommit(r)
    \/ DeleteRead(r) \/ DeleteVector(r) \/ DeleteUnavailable(r) \/ DeleteRow(r)
    \/ Sync(r) \/ WriteFails(r)

SeedStep ==
    \/ Boot \/ SeedCommit
    \/ \E title \in Seeded : SeedExisting(title) \/ SeedNew(title) \/ SeedRefused(title)

Next ==
    \/ \E r \in Request : RequestStep(r)
    \/ SeedStep
    \/ \E id \in Id : Refer(id)
    \/ Crash

Spec == Init /\ [][Next]_vars

-----------------------------------------------------------------------------
(* Properties.                                                             *)

(* The entry of a product that exists lies under that product's own vector *)
(* id, so no product has two entries and none answers for another one,     *)
(* whatever overlaps, fails or is interrupted.                             *)
EntriesUnderOwnId ==
    \A v \in VectorId :
        (vectors[v] # NoEntry /\ Exists(vectors[v].id)) => rows[vectors[v].id].vid = v

Busy(v) == \E r \in Request : Active(r) /\ req[r].loaded.vid = v

(* The dual write is correct as long as nothing fails, is interrupted or   *)
(* overlaps: row and entry tell the same, and without a row there is no    *)
(* entry.                                                                  *)
UndisturbedAgree ==
    server = "up" =>
        \A v \in VectorId : v \in disturbed \/ Busy(v) \/
            \/ Holding(v) = {} /\ vectors[v] = NoEntry
            \/ \E id \in Holding(v) :
                  rows[id].status = "synced" /\ vectors[v] = EntryFor(id, rows[id])

(* An existing embedding is reused on every boot: the seeder overwrites no *)
(* entry.                                                                  *)
EmbeddingReused ==
    [][server = "booting" =>
          \A v \in VectorId : vectors[v] # NoEntry => vectors'[v] = vectors[v]]_vars

(* A boot that succeeds leaves every course of the canonical list in the   *)
(* table, and changes no title and no text that was there before.          *)
SeedCompletes ==
    [][(server = "booting" /\ server' = "up") =>
          /\ \A title \in Seeded :
                \E id \in Id : rows'[id] # NoRow /\ rows'[id].title = title
          /\ \A id \in Id : Exists(id) =>
                EntryFor(id, rows'[id]) = EntryFor(id, rows[id])]_vars

(* The stores never drift apart unseen: a row that says synced has an      *)
(* entry with its id and its text, unless a request is working on it.      *)
DriftVisible ==
    \A id \in Id :
        (server = "up" /\ Exists(id) /\ rows[id].status = "synced" /\ ~Busy(rows[id].vid))
            => vectors[rows[id].vid] = EntryFor(id, rows[id])

(* Startup is safe on every boot: no history of legal requests makes the   *)
(* seeder fail.                                                            *)
BootNeverRefused == server # "refused"
=============================================================================

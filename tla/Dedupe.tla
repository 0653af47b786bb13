-------------------------------- MODULE Dedupe --------------------------------
(***************************************************************************)
(* The migration that collapses duplicate courses                          *)
(* (scripts/dedupe_catalog.py), run beside the application on a SQLite     *)
(* database that has no unique index on titles and enforces no foreign key.*)
(*                                                                         *)
(* The script plans on a connection of its own, waits for a confirmation,  *)
(* snapshots the database and then the vector store, applies its plan in   *)
(* one transaction and removes the vectors of the deleted rows one by one. *)
(* Meanwhile the admin renames, deletes and creates products, browsers     *)
(* send events and runs store recommendations, both with ids they read     *)
(* earlier.  A row's number is its age and stands for its vector id too.   *)
(***************************************************************************)
EXTENDS Naturals, FiniteSets, Functions

CONSTANTS
    MaxRows,     \* bound: products ever
    Titles,
    LegacyRows,  \* rows the script finds
    Legacy,      \* their titles, a sequence
    Stable,      \* <<row, title>>: the row's vector id was made from the title
    Refs,        \* bound: events and recommendations (by the id they hold)
    MaxSteps     \* bound: steps of the application

Rows == 1..MaxRows

ASSUME DedupeAssumption ==
    /\ MaxRows \in Nat /\ MaxSteps \in Nat
    /\ Stable \subseteq Rows \X Titles /\ "none" \notin Titles
    /\ \A x, y \in Stable : x[2] = y[2] => x = y
    /\ LegacyRows \in 1..MaxRows /\ Legacy \in [1..LegacyRows -> Titles]

VARIABLES
    rows,      \* number of rows ever made
    title,     \* products: the title of a row, or none
    ref,       \* events.product_id, "product_id" in metadata and in the
               \* JSON columns of recommendations; 0 while unused
    vectors,   \* rows that have their vector
    index,     \* uq_products_title exists
    stage,     \* how far the script is
    plan,      \* dup -> canonical, for the rows to be removed
    cleaning,  \* vectors still to be removed
    saved,     \* the latest snapshots: of the database once taken, of both
               \* stores once whole
    steps,     \* steps of the application so far
    meant,     \* history: the course a reference was about when it was written
    stale      \* history: courses the admin touched while the script ran, or
               \* put back without their vectors

db == <<title, ref, meant, index>>
script == <<stage, plan, cleaning, saved>>
vars == <<rows, db, vectors, script, steps, stale>>

Course == Titles \cup {"none"}
Titled(t) == {p \in Rows : title[p] = t}
Exists(p) == title[p] # "none"

Snapshot == [title : [Rows -> Course], ref : [Refs -> Rows \cup {0}],
             meant : [Refs -> Course], index : BOOLEAN,
             vectors : SUBSET Rows, taken : BOOLEAN, whole : BOOLEAN]
DbNow == [title |-> title, ref |-> ref, meant |-> meant, index |-> index,
          vectors |-> {}, taken |-> TRUE, whole |-> FALSE]

TypeOK ==
    /\ rows \in 0..MaxRows
    /\ title \in [Rows -> Course] /\ ref \in [Refs -> Rows \cup {0}]
    /\ meant \in [Refs -> Course] /\ index \in BOOLEAN /\ vectors \subseteq Rows
    /\ stage \in {"off", "planned", "dbSaved", "saved", "cleaning"}
    /\ DOMAIN plan \subseteq Rows /\ Range(plan) \subseteq Rows
    /\ Range(plan) \cap DOMAIN plan = {}
    /\ cleaning \subseteq Rows /\ saved \in Snapshot
    /\ steps \in 0..MaxSteps /\ stale \subseteq Titles
    /\ cleaning # {} => stage = "cleaning"

NoPlan == [p \in {} |-> 1]

Init ==
    /\ rows = LegacyRows
    /\ title = [p \in Rows |-> IF p <= LegacyRows THEN Legacy[p] ELSE "none"]
    /\ vectors = 1..LegacyRows /\ index = FALSE
    /\ ref \in [Refs -> 0..LegacyRows]
    /\ meant = [r \in Refs |-> IF ref[r] = 0 THEN "none" ELSE title[ref[r]]]
    /\ stage = "off" /\ plan = NoPlan /\ cleaning = {}
    /\ saved = [DbNow EXCEPT !.taken = FALSE]
    /\ steps = 0 /\ stale = {}

-----------------------------------------------------------------------------
(* The application.                                                        *)
AppStep ==
    /\ steps < MaxSteps /\ steps' = steps + 1
    /\ UNCHANGED <<index, script>>

(* A course that the admin touches under way is promised nothing, nor is   *)
(* one that takes over its row.                                            *)
Touch(courses) ==
    stale' = IF stage # "off" \/ courses \cap stale # {}
             THEN stale \cup (courses \ {"none"}) ELSE stale

(* An event or a recommendation names a row its writer has read, which may *)
(* be gone by now.                                                         *)
Refer(r, p) ==
    /\ AppStep
    /\ ref[r] = 0 /\ p <= rows
    /\ ref' = [ref EXCEPT ![r] = p]
    /\ meant' = [meant EXCEPT ![r] = title[p]]
    /\ UNCHANGED <<rows, title, vectors, stale>>

(* update_product: the check for the title and the commit are two steps,   *)
(* so that only the index, if there is one, keeps titles apart.            *)
Rename(p, t) ==
    /\ AppStep
    /\ Exists(p) /\ title[p] # t /\ (index => Titled(t) = {})
    /\ Touch({t, title[p]})
    /\ title' = [title EXCEPT ![p] = t]
    /\ meant' = [r \in Refs |-> IF ref[r] = p THEN t ELSE meant[r]]
    /\ UNCHANGED <<rows, ref, vectors>>

(* create_product, for the same reason.                                    *)
Create(t) ==
    /\ AppStep
    /\ rows < MaxRows /\ (index => Titled(t) = {})
    /\ Touch({t})
    /\ rows' = rows + 1
    /\ title' = [title EXCEPT ![rows + 1] = t]
    /\ vectors' = vectors \cup {rows + 1}
    /\ UNCHANGED <<ref, meant>>

(* delete_product: SQLite leaves the references dangling.                  *)
Delete(p) ==
    /\ AppStep
    /\ Exists(p)
    /\ Touch({title[p]})
    /\ title' = [title EXCEPT ![p] = "none"]
    /\ meant' = [r \in Refs |-> IF ref[r] = p THEN "none" ELSE meant[r]]
    /\ vectors' = vectors \ {p}
    /\ UNCHANGED <<rows, ref>>

-----------------------------------------------------------------------------
(* The script.                                                             *)
Uses(p) == Cardinality({r \in Refs : ref[r] = p})

(* build_mapping: the row with the stable vector id, else the one that is  *)
(* referred to most, else the oldest.                                      *)
Canonical(p) ==
    LET group == Titled(title[p])
        stable == {q \in group : <<q, title[p]>> \in Stable}
    IN  IF stable # {}
        THEN p \in stable
        ELSE \A q \in group \ {p} :
                 Uses(p) > Uses(q) \/ (Uses(p) = Uses(q) /\ p < q)

(* Mutant: the row that stays is removed as well.                          *)
MappingWhole ==
    [p \in {q \in Rows : Exists(q) /\ Titled(title[q]) # {q}} |->
        CHOOSE c \in Titled(title[p]) : Canonical(c)]

(* Mutant: references go to the oldest row, whichever stays.               *)
MappingOldest ==
    [p \in {q \in Rows : Exists(q) /\ ~Canonical(q)} |->
        CHOOSE c \in Titled(title[p]) : \A q \in Titled(title[p]) : c <= q]

Mapping ==
    LET kept(p) == {c \in Titled(title[p]) \ {p} : Canonical(c)}
    IN  [p \in {q \in Rows : Exists(q) /\ ~Canonical(q) /\ kept(q) # {}} |->
            CHOOSE c \in kept(p) : TRUE]

Plan ==
    /\ stage = "off"
    /\ stage' = "planned" /\ plan' = Mapping
    /\ UNCHANGED <<rows, db, vectors, cleaning, saved, steps, stale>>

BackupDb ==
    /\ stage = "planned"
    /\ stage' = "dbSaved" /\ saved' = DbNow
    /\ UNCHANGED <<rows, db, vectors, plan, cleaning, steps, stale>>

(* Without a local directory to copy the script goes on without.           *)
BackupChroma ==
    /\ stage = "dbSaved" /\ stage' = "saved"
    /\ \/ saved' = [saved EXCEPT !.vectors = vectors, !.whole = TRUE]
       \/ UNCHANGED saved
    /\ UNCHANGED <<rows, db, vectors, plan, cleaning, steps, stale>>

Rewritten(p) == IF p \in DOMAIN plan THEN plan[p] ELSE p

(* apply_migration, the transaction: the index refuses to be made while a  *)
(* title is there twice.                                                   *)
Remaining == [p \in Rows |-> IF p \in DOMAIN plan THEN "none" ELSE title[p]]
Unique(f) == \A p, q \in Rows : f[p] = f[q] /\ f[p] # "none" => p = q

Apply ==
    /\ stage = "saved" /\ Unique(Remaining)
    /\ title' = Remaining /\ index' = TRUE
    /\ ref' = [r \in Refs |-> Rewritten(ref[r])]
    /\ stage' = "cleaning" /\ cleaning' = DOMAIN plan
    /\ UNCHANGED <<rows, meant, vectors, plan, saved, steps, stale>>

(* Mutant: what is left of the plan survives the process.                  *)
EndKeeping ==
    /\ stage' = "off" /\ plan' = NoPlan /\ UNCHANGED cleaning
    /\ UNCHANGED <<rows, db, saved, steps, stale>>

End ==
    /\ stage' = "off" /\ plan' = NoPlan /\ cleaning' = {}
    /\ UNCHANGED <<rows, db, saved, steps, stale>>

(* The transaction is rolled back and the script dies with its traceback.  *)
RollBack ==
    /\ stage = "saved" /\ ~Unique(Remaining)
    /\ End /\ UNCHANGED vectors

(* Mutant: vectors go before the commit.                                   *)
CleanEarly(p) ==
    /\ stage = "saved" /\ p \in DOMAIN plan
    /\ vectors' = vectors \ {p}
    /\ UNCHANGED <<rows, db, script, steps, stale>>

(* A vector that cannot be removed is left.                                *)
Clean(p) ==
    /\ stage = "cleaning" /\ p \in cleaning
    /\ cleaning' = cleaning \ {p}
    /\ vectors' \in {vectors, vectors \ {p}}
    /\ UNCHANGED <<rows, db, stage, plan, saved, steps, stale>>

Finish == stage = "cleaning" /\ cleaning = {} /\ End /\ UNCHANGED vectors

(* The answer is not APPLY, or the process dies.                           *)
Abort == stage # "off" /\ End /\ UNCHANGED vectors

(* By hand, with the application stopped: the snapshots there are are put  *)
(* back.  The database alone brings back rows whose vectors are gone.      *)
Bare == {saved.title[p] : p \in Rows \ vectors} \ {"none"}

Restore ==
    /\ stage = "off" /\ saved.taken
    /\ title' = saved.title /\ ref' = saved.ref /\ meant' = saved.meant
    /\ index' = saved.index
    /\ \/ saved.whole /\ vectors' = saved.vectors /\ UNCHANGED stale
       \/ ~saved.whole /\ stale' = stale \cup Bare /\ UNCHANGED vectors
    /\ UNCHANGED <<rows, script, steps>>

Next ==
    \/ \E r \in Refs, p \in Rows : Refer(r, p)
    \/ \E p \in Rows, t \in Titles : Rename(p, t)
    \/ \E t \in Titles : Create(t)
    \/ \E p \in Rows : Delete(p) \/ Clean(p)
    \/ Plan \/ BackupDb \/ BackupChroma \/ Apply \/ RollBack \/ Finish
    \/ Abort \/ Restore

Spec == Init /\ [][Next]_vars

-----------------------------------------------------------------------------
(* "Rewrites those references to a single canonical row per title": a      *)
(* reference that was about a course is about it still, unless the admin   *)
(* touched that course while the script ran (apply_migration).             *)
ReferencesFollow ==
    \A r \in Refs : meant[r] \notin stale \cup {"none"} =>
        ref[r] # 0 /\ title[ref[r]] = meant[r]

(* The transaction keeps exactly one row of each course that the admin     *)
(* has not touched since the script began (build_mapping, apply_migration).*)
CoursesKept ==
    [][stage = "saved" /\ stage' = "cleaning" =>
        \A t \in Titles \ stale : Titled(t) # {} =>
            \E p \in Rows : {q \in Rows : title'[q] = t} = {p}]_vars

(* A row that stays keeps its vector, through a failed or interrupted run  *)
(* and after both snapshots are put back, unless the admin touched its     *)
(* course meanwhile (apply_migration, backup_db, backup_chroma).  Where    *)
(* only the database could be put back, it keeps the vector it has.        *)
VectorsKept ==
    \A p \in Rows : Exists(p) /\ title[p] \notin stale => p \in vectors

(* Once the index exists no course is there twice: a second run finds      *)
(* nothing to remove ("idempotent").                                       *)
IndexMeansUnique == index => Unique(title)
=============================================================================

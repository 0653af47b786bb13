----------------------------- MODULE DedupeProofs -----------------------------
(***************************************************************************)
(* Proofs about Dedupe for every catalog, every set of references and any  *)
(* number of steps of the application.                                     *)
(***************************************************************************)
EXTENDS Dedupe, TLAPS

Ordinary(t) == t \notin stale \cup {"none"}

(* A row to be removed and the row that stays are about the same course.   *)
PlanSound ==
    stage \in {"planned", "dbSaved", "saved"} =>
        \A p \in DOMAIN plan : Ordinary(title[p]) => title[plan[p]] = title[p]

(* Rows have their numbers in order; those whose vectors go are gone.      *)
RowsSound ==
    /\ \A p \in Rows : p > rows => title[p] = "none"
    /\ DOMAIN plan \subseteq 1..rows
    /\ \A p \in cleaning : p <= rows /\ title[p] = "none"

(* What holds of the tables holds of the snapshots; the copy of the store  *)
(* is made when the admin has touched no course since that of the tables.  *)
SavedSound ==
    /\ saved.index => Unique(saved.title)
    /\ \A p \in Rows : p > rows => saved.title[p] = "none"
    /\ \A r \in Refs : Ordinary(saved.meant[r]) =>
           saved.ref[r] # 0 /\ saved.title[saved.ref[r]] = saved.meant[r]
    /\ stage = "dbSaved" =>
           \A p \in Rows : Ordinary(saved.title[p]) => title[p] = saved.title[p]
    /\ saved.whole =>
           \A p \in Rows : Ordinary(saved.title[p]) => p \in saved.vectors

(* What every step of the application leaves alone.                        *)
AppInv == TypeOK /\ PlanSound /\ RowsSound /\ SavedSound
Promises == ReferencesFollow /\ VectorsKept /\ IndexMeansUnique
IndInv == AppInv /\ Promises

-----------------------------------------------------------------------------
LEMMA NoneIsNoTitle == "none" \notin Titles
  BY DedupeAssumption

LEMMA Initially == Init => IndInv
<1> SUFFICES ASSUME Init PROVE IndInv
  OBVIOUS
<1> USE DedupeAssumption DEF Init
<1>1. TypeOK
  <2>1. title \in [Rows -> Course] /\ rows \in 0..MaxRows /\ vectors \subseteq Rows
    BY DEF Rows, Course
  <2>2. ref \in [Refs -> Rows \cup {0}]
    BY DEF Rows
  <2>3. meant \in [Refs -> Course]
    BY <2>1, <2>2 DEF Course
  <2>4. saved \in Snapshot
    BY <2>1, <2>2, <2>3 DEF Snapshot, DbNow
  <2>5. DOMAIN plan = {} /\ Range(plan) = {}
    BY DEF NoPlan, Range
  <2>6. index \in BOOLEAN /\ stage = "off" /\ cleaning = {} /\ steps = 0 /\ stale = {}
    OBVIOUS
  <2>7. steps \in 0..MaxSteps
    OBVIOUS
  <2> HIDE DEF Init
  <2> QED BY <2>1, <2>2, <2>3, <2>4, <2>5, <2>6, <2>7 DEF TypeOK
<1>2. PlanSound /\ RowsSound
  BY DEF PlanSound, RowsSound, NoPlan, Rows
<1>3. ReferencesFollow
  BY DEF ReferencesFollow
<1>4. VectorsKept /\ IndexMeansUnique
  BY DEF VectorsKept, IndexMeansUnique, Exists, Rows
<1>5. SavedSound
  <2>1. \A r \in Refs : meant[r] \notin stale \cup {"none"} => ref[r] # 0 /\ title[ref[r]] = meant[r]
    BY DEF Init
  <2> QED BY <2>1 DEF SavedSound, Ordinary, DbNow, Rows
<1> QED BY <1>1, <1>2, <1>3, <1>4, <1>5 DEF IndInv, AppInv, Promises

-----------------------------------------------------------------------------
(* Steps of the application.                                               *)

(* A touched course stops being ordinary, and none becomes so.             *)
LEMMA Touched ==
  ASSUME TypeOK, NEW courses \in SUBSET Course, Touch(courses)
  PROVE  /\ stale \subseteq stale' /\ stale' \subseteq Titles
         /\ stage # "off" => courses \subseteq stale' \cup {"none"}
         /\ courses \cap stale # {} => courses \subseteq stale' \cup {"none"}
  BY DEF Touch, TypeOK, Course

LEMMA ReferStep ==
  ASSUME IndInv, NEW r \in Refs, NEW p \in Rows, Refer(r, p) PROVE IndInv'
<1> USE DedupeAssumption
<1>1. TypeOK'
  BY DEF IndInv, AppInv, TypeOK, Refer, AppStep, script
<1>2. PlanSound' /\ RowsSound' /\ SavedSound'
  BY DEF IndInv, AppInv, PlanSound, RowsSound, SavedSound, Refer, AppStep, script, Ordinary, Unique
<1>3. ReferencesFollow'
  BY DEF IndInv, AppInv, Promises, TypeOK, ReferencesFollow, Refer, Rows
<1>4. VectorsKept' /\ IndexMeansUnique'
  BY DEF IndInv, Promises, VectorsKept, IndexMeansUnique, Refer, AppStep, Exists, Unique
<1> QED BY <1>1, <1>2, <1>3, <1>4 DEF IndInv, AppInv, Promises

LEMMA RenameStep ==
  ASSUME IndInv, NEW p \in Rows, NEW t \in Titles, Rename(p, t) PROVE IndInv'
<1> USE DedupeAssumption
<1>0. {t, title[p]} \in SUBSET Course /\ Touch({t, title[p]}) /\ TypeOK
  BY DEF IndInv, AppInv, TypeOK, Rename, Course
<1>a. /\ stale \subseteq stale' /\ stale' \subseteq Titles
      /\ stage # "off" => t \in stale' /\ title[p] \in stale'
      /\ title[p] \in stale => t \in stale'
  BY <1>0, Touched DEF Rename, Exists
<1>b. title' = [title EXCEPT ![p] = t] /\ title \in [Rows -> Course]
  BY DEF IndInv, AppInv, TypeOK, Rename
<1>1. TypeOK'
  <2>1. title' \in [Rows -> Course] /\ meant' \in [Refs -> Course]
    BY DEF IndInv, AppInv, TypeOK, Rename, Course
  <2>2. stale' \subseteq Titles /\ steps' \in 0..MaxSteps
    BY <1>a DEF IndInv, AppInv, TypeOK, Rename, AppStep
  <2> QED BY <2>1, <2>2 DEF IndInv, AppInv, TypeOK, Rename, AppStep, script
<1>2. PlanSound'
  <2> SUFFICES ASSUME stage \in {"planned", "dbSaved", "saved"}, NEW q \in DOMAIN plan,
                      title'[q] \notin stale' \cup {"none"}
               PROVE  title'[plan[q]] = title'[q]
    BY DEF PlanSound, Ordinary, Rename, AppStep, script
  <2>1. q \in Rows /\ plan[q] \in Rows
    BY DEF IndInv, AppInv, TypeOK, Range
  <2>2. title'[q] \notin stale' /\ title'[q] # "none" /\ t \in stale' /\ title[p] \in stale'
    BY <1>a DEF Ordinary
  <2>3. q # p /\ title'[q] = title[q]
    BY <2>1, <2>2, <1>b
  <2>4. title[plan[q]] = title[q]
    BY <2>2, <2>3, <1>a DEF IndInv, AppInv, PlanSound, Ordinary
  <2>5. plan[q] # p
    BY <2>2, <2>3, <2>4
  <2> QED BY <2>1, <2>3, <2>4, <2>5, <1>b
<1>3. RowsSound'
  BY <1>b DEF IndInv, AppInv, RowsSound, TypeOK, Rename, AppStep, script, Exists
<1>4. SavedSound'
  <2>1. saved' = saved /\ stage' = stage /\ rows' = rows
    BY DEF Rename, AppStep, script
  <2>2. ASSUME stage = "dbSaved", NEW q \in Rows, Ordinary(saved.title[q])'
        PROVE  title'[q] = saved.title[q]
    <3>1. title[q] = saved.title[q] /\ saved.title[q] \notin stale'
      BY <2>1, <2>2, <1>a DEF IndInv, AppInv, SavedSound, Ordinary
    <3>2. q # p
      BY <2>2, <3>1, <1>a
    <3> QED BY <3>1, <3>2, <1>b
  <2> QED BY <2>1, <2>2, <1>a DEF IndInv, AppInv, SavedSound, Ordinary, Unique
<1>5. ReferencesFollow'
  <2> SUFFICES ASSUME NEW r \in Refs, meant'[r] \notin stale' \cup {"none"}
               PROVE  ref'[r] # 0 /\ title'[ref'[r]] = meant'[r]
    BY DEF ReferencesFollow
  <2>1. ref' = ref /\ meant' = [s \in Refs |-> IF ref[s] = p THEN t ELSE meant[s]]
    BY DEF Rename
  <2>2. CASE ref[r] = p
    BY <2>1, <2>2, <1>b DEF Rows
  <2>3. CASE ref[r] # p
    <3>1. ref[r] # 0 /\ title[ref[r]] = meant[r] /\ meant'[r] = meant[r]
      BY <2>1, <2>3, <1>a DEF IndInv, Promises, ReferencesFollow
    <3> QED BY <2>1, <2>3, <3>1, <1>b DEF IndInv, AppInv, TypeOK
  <2> QED BY <2>2, <2>3
<1>6. VectorsKept'
  <2> SUFFICES ASSUME NEW q \in Rows, title'[q] # "none", title'[q] \notin stale'
               PROVE  q \in vectors
    BY DEF VectorsKept, Exists, Rename
  <2>1. CASE q = p
    BY <2>1, <1>a, <1>b DEF IndInv, Promises, VectorsKept, Rename, Exists
  <2>2. CASE q # p
    BY <2>2, <1>a, <1>b DEF IndInv, Promises, VectorsKept, Exists
  <2> QED BY <2>1, <2>2
<1>7. IndexMeansUnique'
  BY <1>b DEF IndInv, Promises, IndexMeansUnique, Unique, Rename, AppStep, Titled
<1> QED BY <1>1, <1>2, <1>3, <1>4, <1>5, <1>6, <1>7 DEF IndInv, AppInv, Promises

LEMMA CreateStep ==
  ASSUME IndInv, NEW t \in Titles, Create(t) PROVE IndInv'
<1> USE DedupeAssumption
<1> DEFINE n == rows + 1
<1>0. Touch({t}) /\ TypeOK /\ {t} \in SUBSET Course
  BY DEF IndInv, AppInv, Create, Course
<1>a. /\ stale \subseteq stale' /\ stale' \subseteq Titles
      /\ stage # "off" => t \in stale'
  BY <1>0, Touched, NoneIsNoTitle
<1>b. /\ rows \in Nat /\ n \in Rows /\ n > rows /\ rows' = n
      /\ title \in [Rows -> Course] /\ title' = [title EXCEPT ![n] = t] /\ title[n] = "none"
  BY DEF IndInv, AppInv, TypeOK, Create, Rows, RowsSound
<1>1. TypeOK'
  <2>0. vectors \subseteq Rows /\ vectors' = vectors \cup {n}
    BY DEF IndInv, AppInv, TypeOK, Create
  <2>1. title' \in [Rows -> Course] /\ rows' \in 0..MaxRows /\ vectors' \subseteq Rows
    <3>1. t \in Course
      BY DEF Course
    <3>2. rows' \in 0..MaxRows
      BY <1>b DEF Rows
    <3> QED BY <1>b, <2>0, <3>1, <3>2
  <2>2. stale' \subseteq Titles /\ steps' \in 0..MaxSteps
    BY <1>a DEF IndInv, AppInv, TypeOK, Create, AppStep
  <2> QED BY <2>1, <2>2 DEF IndInv, AppInv, TypeOK, Create, AppStep, script
<1>2. PlanSound'
  <2> SUFFICES ASSUME stage \in {"planned", "dbSaved", "saved"}, NEW q \in DOMAIN plan,
                      title'[q] \notin stale' \cup {"none"}
               PROVE  title'[plan[q]] = title'[q]
    BY DEF PlanSound, Ordinary, Create, AppStep, script
  <2>1. q \in Rows /\ plan[q] \in Rows /\ q # n
    BY <1>b DEF IndInv, AppInv, TypeOK, RowsSound, Range
  <2>2. title'[q] = title[q] /\ title[q] # "none" /\ title[q] \notin stale
    BY <2>1, <1>a, <1>b DEF Ordinary
  <2>3. title[plan[q]] = title[q]
    BY <2>2 DEF IndInv, AppInv, PlanSound, Ordinary
  <2> QED BY <2>1, <2>2, <2>3, <1>b
<1>3. RowsSound'
  <2>1. \A p \in Rows : p > rows' => title'[p] = "none"
    BY <1>b DEF IndInv, AppInv, RowsSound, Rows
  <2>2. DOMAIN plan \subseteq 1..n
    BY <1>b DEF IndInv, AppInv, RowsSound
  <2>3. \A p \in cleaning : p <= n /\ title'[p] = "none"
    BY <1>b DEF IndInv, AppInv, RowsSound, TypeOK, Rows
  <2> QED BY <2>1, <2>2, <2>3, <1>b DEF RowsSound, Create, AppStep, script
<1>4. SavedSound'
  <2>1. saved' = saved /\ stage' = stage
    BY DEF Create, AppStep, script
  <2>2. ASSUME stage = "dbSaved", NEW q \in Rows, Ordinary(saved.title[q])'
        PROVE  title'[q] = saved.title[q]
    <3>1. title[q] = saved.title[q] /\ saved.title[q] # "none"
      BY <2>1, <2>2, <1>a DEF IndInv, AppInv, SavedSound, Ordinary
    <3> QED BY <3>1, <1>b
  <2>3. \A q \in Rows : q > rows' => saved.title[q] = "none"
    BY <1>b DEF IndInv, AppInv, SavedSound, Rows
  <2> QED BY <2>1, <2>2, <2>3, <1>a DEF IndInv, AppInv, SavedSound, Ordinary, Unique
<1>5. ReferencesFollow'
  <2> SUFFICES ASSUME NEW r \in Refs, meant[r] \notin stale' \cup {"none"}
               PROVE  ref[r] # 0 /\ title'[ref[r]] = meant[r]
    BY DEF ReferencesFollow, Create
  <2>1. ref[r] # 0 /\ title[ref[r]] = meant[r]
    BY <1>a DEF IndInv, Promises, ReferencesFollow
  <2> QED BY <2>1, <1>b DEF IndInv, AppInv, TypeOK
<1>6. VectorsKept'
  <2>1. vectors' = vectors \cup {n}
    BY DEF Create
  <2> QED BY <2>1, <1>a, <1>b DEF IndInv, Promises, VectorsKept, Exists
<1>7. IndexMeansUnique'
  BY <1>b DEF IndInv, Promises, IndexMeansUnique, Unique, Create, AppStep, Titled
<1> QED BY <1>1, <1>2, <1>3, <1>4, <1>5, <1>6, <1>7 DEF IndInv, AppInv, Promises

LEMMA DeleteStep ==
  ASSUME IndInv, NEW p \in Rows, Delete(p) PROVE IndInv'
<1> USE DedupeAssumption
<1>0. {title[p]} \in SUBSET Course /\ Touch({title[p]}) /\ TypeOK
  BY DEF IndInv, AppInv, TypeOK, Delete
<1>a. /\ stale \subseteq stale' /\ stale' \subseteq Titles
      /\ stage # "off" => title[p] \in stale'
  BY <1>0, Touched DEF Delete, Exists
<1>b. title' = [title EXCEPT ![p] = "none"] /\ title \in [Rows -> Course]
  BY DEF IndInv, AppInv, TypeOK, Delete
<1>1. TypeOK'
  <2>1. title' \in [Rows -> Course] /\ meant' \in [Refs -> Course] /\ vectors' \subseteq Rows
    BY DEF IndInv, AppInv, TypeOK, Delete, Course
  <2>2. stale' \subseteq Titles /\ steps' \in 0..MaxSteps
    BY <1>a DEF IndInv, AppInv, TypeOK, Delete, AppStep
  <2> QED BY <2>1, <2>2 DEF IndInv, AppInv, TypeOK, Delete, AppStep, script
<1>2. PlanSound'
  <2> SUFFICES ASSUME stage \in {"planned", "dbSaved", "saved"}, NEW q \in DOMAIN plan,
                      title'[q] \notin stale' \cup {"none"}
               PROVE  title'[plan[q]] = title'[q]
    BY DEF PlanSound, Ordinary, Delete, AppStep, script
  <2>1. q \in Rows /\ plan[q] \in Rows
    BY DEF IndInv, AppInv, TypeOK, Range
  <2>2. title'[q] \notin stale' /\ title'[q] # "none" /\ title[p] \in stale'
    BY <1>a DEF Ordinary
  <2>3. q # p /\ title'[q] = title[q]
    BY <2>1, <2>2, <1>b
  <2>4. title[plan[q]] = title[q]
    BY <2>2, <2>3, <1>a DEF IndInv, AppInv, PlanSound, Ordinary
  <2> QED BY <2>1, <2>2, <2>3, <2>4, <1>b
<1>3. RowsSound'
  BY <1>b DEF IndInv, AppInv, RowsSound, TypeOK, Delete, AppStep, script
<1>4. SavedSound'
  <2>1. saved' = saved /\ stage' = stage /\ rows' = rows
    BY DEF Delete, AppStep, script
  <2>2. ASSUME stage = "dbSaved", NEW q \in Rows, Ordinary(saved.title[q])'
        PROVE  title'[q] = saved.title[q]
    <3>1. title[q] = saved.title[q] /\ saved.title[q] \notin stale'
      BY <2>1, <2>2, <1>a DEF IndInv, AppInv, SavedSound, Ordinary
    <3> QED BY <2>2, <3>1, <1>a, <1>b
  <2> QED BY <2>1, <2>2, <1>a DEF IndInv, AppInv, SavedSound, Ordinary, Unique
<1>5. ReferencesFollow'
  <2> SUFFICES ASSUME NEW r \in Refs, meant'[r] \notin stale' \cup {"none"}
               PROVE  ref[r] # 0 /\ title'[ref[r]] = meant'[r]
    BY DEF ReferencesFollow, Delete
  <2>1. ref[r] # p /\ meant'[r] = meant[r]
    BY DEF Delete
  <2>2. ref[r] # 0 /\ title[ref[r]] = meant[r]
    BY <2>1, <1>a DEF IndInv, Promises, ReferencesFollow
  <2> QED BY <2>1, <2>2, <1>b DEF IndInv, AppInv, TypeOK
<1>6. VectorsKept'
  BY <1>a, <1>b DEF IndInv, Promises, VectorsKept, Exists, Delete
<1>7. IndexMeansUnique'
  BY <1>b DEF IndInv, Promises, IndexMeansUnique, Unique, Delete, AppStep
<1> QED BY <1>1, <1>2, <1>3, <1>4, <1>5, <1>6, <1>7 DEF IndInv, AppInv, Promises

-----------------------------------------------------------------------------
(* Steps of the script.                                                    *)

(* What the mapping sends away and where.                                  *)
LEMMA MappingSound ==
  ASSUME TypeOK
  PROVE  /\ DOMAIN Mapping \subseteq Rows
         /\ \A p \in DOMAIN Mapping :
                /\ Exists(p) /\ Mapping[p] \in Rows \ DOMAIN Mapping
                /\ title[Mapping[p]] = title[p]
<1> DEFINE kept(p) == {c \in Titled(title[p]) \ {p} : Canonical(c)}
           removed == {q \in Rows : Exists(q) /\ ~Canonical(q) /\ kept(q) # {}}
<1>1. Mapping = [p \in removed |-> CHOOSE c \in kept(p) : TRUE]
  BY DEF Mapping
<1>2. ASSUME NEW p \in removed
      PROVE  /\ Mapping[p] \in Rows /\ Canonical(Mapping[p])
             /\ title[Mapping[p]] = title[p]
  <2>1. Mapping[p] \in kept(p)
    BY <1>1, <1>2
  <2> QED BY <2>1 DEF Titled
<1> QED BY <1>1, <1>2

LEMMA PlanStep == IndInv /\ Plan => IndInv'
<1> SUFFICES ASSUME IndInv, Plan PROVE IndInv'
  OBVIOUS
<1> USE DEF Plan, db
<1>0. plan' = Mapping /\ TypeOK
  BY DEF IndInv, AppInv
<1>a. /\ DOMAIN plan' \subseteq Rows
      /\ \A p \in DOMAIN plan' :
             Exists(p) /\ plan'[p] \in Rows \ DOMAIN plan' /\ title[plan'[p]] = title[p]
  BY <1>0, MappingSound
<1>1. TypeOK'
  <2>1. Range(plan)' \subseteq Rows /\ Range(plan)' \cap DOMAIN plan' = {}
    BY <1>a DEF Range
  <2>2. stage' = "planned" /\ cleaning' = cleaning /\ cleaning = {}
    BY DEF IndInv, AppInv, TypeOK
  <2> HIDE DEF Plan
  <2>3. UNCHANGED <<rows, title, ref, meant, index, vectors, saved, steps, stale>>
    BY DEF Plan
  <2> QED BY <1>0, <1>a, <2>1, <2>2, <2>3 DEF TypeOK
<1>2. PlanSound'
  BY <1>a DEF PlanSound
<1>3. RowsSound'
  <2>1. \A p \in DOMAIN plan' : p \in 1..rows
    BY <1>a DEF IndInv, AppInv, TypeOK, RowsSound, Exists, Rows
  <2> QED BY <2>1 DEF IndInv, AppInv, RowsSound
<1>4. SavedSound' /\ Promises'
  BY DEF IndInv, AppInv, SavedSound, Promises, Ordinary, Unique, ReferencesFollow,
         VectorsKept, IndexMeansUnique, Exists
<1> QED BY <1>1, <1>2, <1>3, <1>4 DEF IndInv, AppInv

LEMMA BackupStep == IndInv /\ (BackupDb \/ BackupChroma) => IndInv'
<1>1. ASSUME IndInv, BackupDb PROVE IndInv'
  <2> USE <1>1 DEF BackupDb, db
  <2>1. TypeOK'
    BY DEF IndInv, AppInv, TypeOK, Snapshot, DbNow
  <2>2. PlanSound' /\ RowsSound'
    BY DEF IndInv, AppInv, PlanSound, RowsSound, Ordinary
  <2>3. SavedSound'
    <3>1. /\ saved'.title = title /\ saved'.ref = ref /\ saved'.meant = meant
          /\ saved'.index = index /\ saved'.whole = FALSE
      BY DEF DbNow
    <3> QED BY <3>1 DEF IndInv, AppInv, RowsSound, SavedSound, Ordinary, Unique, Promises,
                        ReferencesFollow, IndexMeansUnique
  <2>4. Promises'
    BY DEF IndInv, Promises, ReferencesFollow, VectorsKept, IndexMeansUnique, Exists, Unique
  <2> QED BY <2>1, <2>2, <2>3, <2>4 DEF IndInv, AppInv
<1>2. ASSUME IndInv, BackupChroma PROVE IndInv'
  <2> USE <1>2 DEF BackupChroma, db
  <2>0. /\ saved'.title = saved.title /\ saved'.ref = saved.ref /\ saved'.meant = saved.meant
        /\ saved'.index = saved.index /\ saved' \in Snapshot
        /\ saved'.vectors = vectors \/ saved' = saved
    BY DEF IndInv, AppInv, TypeOK, Snapshot
  <2>1. TypeOK'
    BY <2>0 DEF IndInv, AppInv, TypeOK
  <2>2. PlanSound' /\ RowsSound'
    BY DEF IndInv, AppInv, PlanSound, RowsSound, Ordinary
  <2>3. SavedSound'
    <3>1. \A p \in Rows : Ordinary(saved.title[p]) => p \in vectors
      BY DEF IndInv, AppInv, SavedSound, Promises, VectorsKept, Ordinary, Exists
    <3> QED BY <2>0, <3>1 DEF IndInv, AppInv, SavedSound, Ordinary, Unique
  <2>4. Promises'
    BY DEF IndInv, Promises, ReferencesFollow, VectorsKept, IndexMeansUnique, Exists, Unique
  <2> QED BY <2>1, <2>2, <2>3, <2>4 DEF IndInv, AppInv
<1> QED BY <1>1, <1>2

LEMMA ApplyStep == IndInv /\ Apply => IndInv'
<1> SUFFICES ASSUME IndInv, Apply PROVE IndInv'
  OBVIOUS
<1>a. /\ title' = [p \in Rows |-> IF p \in DOMAIN plan THEN "none" ELSE title[p]]
      /\ ref' = [r \in Refs |-> IF ref[r] \in DOMAIN plan THEN plan[ref[r]] ELSE ref[r]]
      /\ UNCHANGED <<rows, meant, vectors, plan, saved, steps, stale>>
      /\ stage = "saved" /\ stage' = "cleaning" /\ cleaning' = DOMAIN plan /\ index' = TRUE
      /\ Unique(title')
  BY DEF Apply, Remaining, Rewritten
<1>b. /\ DOMAIN plan \subseteq Rows
      /\ \A p \in DOMAIN plan : plan[p] \in Rows /\ plan[p] \notin DOMAIN plan
  BY DEF IndInv, AppInv, TypeOK, Range
<1>1. TypeOK'
  <2>1. title' \in [Rows -> Course]
    BY <1>a DEF IndInv, AppInv, TypeOK, Course
  <2>2. ref' \in [Refs -> Rows \cup {0}]
    BY <1>a, <1>b DEF IndInv, AppInv, TypeOK
  <2> QED BY <1>a, <1>b, <2>1, <2>2 DEF IndInv, AppInv, TypeOK
<1>2. PlanSound'
  BY <1>a DEF PlanSound
<1>3. RowsSound'
  <2>1. \A p \in DOMAIN plan : p <= rows /\ title'[p] = "none"
    BY <1>a, <1>b DEF IndInv, AppInv, RowsSound
  <2>2. \A p \in Rows : p > rows => title'[p] = "none"
    BY <1>a DEF IndInv, AppInv, RowsSound
  <2> QED BY <1>a, <2>1, <2>2 DEF IndInv, AppInv, RowsSound
<1>4. SavedSound'
  BY <1>a DEF IndInv, AppInv, SavedSound, Ordinary, Unique
<1>5. ReferencesFollow'
  <2> SUFFICES ASSUME NEW r \in Refs, Ordinary(meant[r])
               PROVE  ref'[r] # 0 /\ title'[ref'[r]] = meant[r]
    BY <1>a DEF ReferencesFollow, Ordinary
  <2>1. ref[r] # 0 /\ title[ref[r]] = meant[r] /\ ref[r] \in Rows
    BY DEF IndInv, AppInv, TypeOK, Promises, ReferencesFollow, Ordinary
  <2>2. CASE ref[r] \in DOMAIN plan
    <3>1. title[plan[ref[r]]] = meant[r]
      BY <1>a, <2>1, <2>2 DEF IndInv, AppInv, PlanSound
    <3> QED BY <1>a, <1>b, <2>2, <3>1 DEF Rows
  <2>3. CASE ref[r] \notin DOMAIN plan
    BY <1>a, <2>1, <2>3
  <2> QED BY <2>2, <2>3
<1>6. VectorsKept' /\ IndexMeansUnique'
  BY <1>a DEF IndInv, Promises, VectorsKept, IndexMeansUnique, Exists, Unique
<1> QED BY <1>1, <1>2, <1>3, <1>4, <1>5, <1>6 DEF IndInv, AppInv, Promises

LEMMA CleanStep ==
  ASSUME IndInv, NEW p \in Rows, Clean(p) PROVE IndInv'
<1> USE DEF Clean, db
<1>1. TypeOK'
  BY DEF IndInv, AppInv, TypeOK
<1>2. PlanSound' /\ RowsSound' /\ SavedSound'
  BY DEF IndInv, AppInv, PlanSound, RowsSound, SavedSound, Ordinary, Unique
<1>3. VectorsKept'
  BY DEF IndInv, AppInv, RowsSound, Promises, VectorsKept, Exists
<1>4. ReferencesFollow' /\ IndexMeansUnique'
  BY DEF IndInv, Promises, ReferencesFollow, IndexMeansUnique, Unique
<1> QED BY <1>1, <1>2, <1>3, <1>4 DEF IndInv, AppInv, Promises

(* However the script ends: it is off, and the tables are as they were.    *)
LEMMA EndStep == IndInv /\ End /\ UNCHANGED vectors => IndInv'
<1> SUFFICES ASSUME IndInv, End, UNCHANGED vectors PROVE IndInv'
  OBVIOUS
<1>0. /\ DOMAIN plan' = {} /\ cleaning' = {} /\ stage' = "off"
      /\ UNCHANGED <<rows, title, ref, meant, index, vectors, saved, steps, stale>>
  BY DEF End, NoPlan, db
<1>1. TypeOK'
  <2>1. Range(plan)' = {}
    BY <1>0 DEF Range
  <2> QED BY <1>0, <2>1 DEF IndInv, AppInv, TypeOK
<1>2. PlanSound' /\ RowsSound' /\ SavedSound'
  BY <1>0 DEF IndInv, AppInv, PlanSound, RowsSound, SavedSound, Ordinary, Unique
<1>3. Promises'
  BY <1>0 DEF IndInv, Promises, ReferencesFollow, VectorsKept, IndexMeansUnique, Exists, Unique
<1> QED BY <1>1, <1>2, <1>3 DEF IndInv, AppInv

LEMMA RestoreStep == IndInv /\ Restore => IndInv'
<1> SUFFICES ASSUME IndInv, Restore PROVE IndInv'
  OBVIOUS
<1> USE DEF Restore, script
<1>a. stale \subseteq stale'
  OBVIOUS
<1>1. TypeOK'
  <2>1. Bare \subseteq Titles
    BY DEF IndInv, AppInv, TypeOK, Snapshot, Course, Bare
  <2>2. stale' \subseteq Titles /\ vectors' \subseteq Rows
    BY <2>1 DEF IndInv, AppInv, TypeOK, Snapshot
  <2> QED BY <2>2 DEF IndInv, AppInv, TypeOK, Snapshot
<1>2. PlanSound' /\ RowsSound'
  BY DEF IndInv, AppInv, TypeOK, PlanSound, RowsSound, SavedSound
<1>3. SavedSound'
  BY <1>a DEF IndInv, AppInv, SavedSound, Ordinary, Unique
<1>4. ReferencesFollow' /\ IndexMeansUnique'
  BY <1>a DEF IndInv, AppInv, SavedSound, Ordinary, ReferencesFollow, IndexMeansUnique, Unique
<1>5. VectorsKept'
  <2>1. CASE saved.whole
    BY <2>1, <1>a DEF IndInv, AppInv, SavedSound, Ordinary, VectorsKept, Exists
  <2>2. CASE ~saved.whole
    BY <2>2 DEF VectorsKept, Exists, Bare
  <2> QED BY <2>1, <2>2
<1> QED BY <1>1, <1>2, <1>3, <1>4, <1>5 DEF IndInv, AppInv, Promises

LEMMA Invariance == Spec => []IndInv
<1>1. IndInv /\ [Next]_vars => IndInv'
  <2> SUFFICES ASSUME IndInv, [Next]_vars PROVE IndInv'
    OBVIOUS
  <2>1. CASE Next
    BY <2>1, ReferStep, RenameStep, CreateStep, DeleteStep, CleanStep, PlanStep,
       BackupStep, ApplyStep, EndStep, RestoreStep
       DEF Next, RollBack, Finish, Abort
  <2>2. CASE UNCHANGED vars
    <3> USE <2>2 DEF vars, db, script
    <3>1. TypeOK' /\ PlanSound' /\ RowsSound' /\ SavedSound'
      BY DEF IndInv, AppInv, TypeOK, PlanSound, RowsSound, SavedSound, Ordinary, Unique
    <3>2. Promises'
      BY DEF IndInv, Promises, ReferencesFollow, VectorsKept, IndexMeansUnique, Exists, Unique
    <3> QED BY <3>1, <3>2 DEF IndInv, AppInv
  <2> QED BY <2>1, <2>2
<1> QED BY Initially, <1>1, PTL DEF Spec

-----------------------------------------------------------------------------
(* Every variable keeps its type.                                          *)
THEOREM DedupeTypes == Spec => []TypeOK
<1>1. IndInv => TypeOK
  BY DEF IndInv, AppInv
<1> QED BY Invariance, <1>1, PTL

(* References follow their course through the migration, an abandoned one, *)
(* a repeated one and a restored snapshot (apply_migration).               *)
THEOREM ReferencesPreserved == Spec => []ReferencesFollow
<1>1. IndInv => ReferencesFollow
  BY DEF IndInv, Promises
<1> QED BY Invariance, <1>1, PTL

(* The rows that stay keep their vectors, wherever the script stops        *)
(* (apply_migration, backup_chroma).                                       *)
THEOREM VectorsPreserved == Spec => []VectorsKept
<1>1. IndInv => VectorsKept
  BY DEF IndInv, Promises
<1> QED BY Invariance, <1>1, PTL

(* Where the index exists there is nothing left to remove.                 *)
THEOREM UniqueOnceIndexed == Spec => []IndexMeansUnique
<1>1. IndInv => IndexMeansUnique
  BY DEF IndInv, Promises
<1> QED BY Invariance, <1>1, PTL

(* The transaction keeps one row of each course, by the plan for the row   *)
(* and by the index for there being only one (build_mapping).              *)
THEOREM OneRowKept == Spec => CoursesKept
<1>1. IndInv /\ [Next]_vars =>
        [stage = "saved" /\ stage' = "cleaning" =>
            \A t \in Titles \ stale : Titled(t) # {} =>
                \E p \in Rows : {q \in Rows : title'[q] = t} = {p}]_vars
  <2> SUFFICES ASSUME IndInv, Next, stage = "saved", stage' = "cleaning",
                      NEW t \in Titles \ stale, Titled(t) # {}
               PROVE  \E p \in Rows : {q \in Rows : title'[q] = t} = {p}
    BY DEF vars, script
  <2>1. Apply
    BY DEF Next, Refer, Rename, Create, Delete, AppStep, script, Clean, Plan, BackupDb,
           BackupChroma, RollBack, End, Finish, Abort, Restore
  <2>2. /\ title' = [p \in Rows |-> IF p \in DOMAIN plan THEN "none" ELSE title[p]]
        /\ Unique(title')
    BY <2>1 DEF Apply, Remaining
  <2>3. t # "none"
    BY NoneIsNoTitle
  <2>4. PICK p \in Rows : title[p] = t
    BY DEF Titled
  <2>5. PICK c \in Rows : title'[c] = t
    <3>1. CASE p \in DOMAIN plan
      <4>1. plan[p] \in Rows /\ plan[p] \notin DOMAIN plan
        BY <3>1 DEF IndInv, AppInv, TypeOK, Range
      <4>2. title[plan[p]] = t
        BY <3>1, <2>3, <2>4 DEF IndInv, AppInv, PlanSound, Ordinary
      <4> QED BY <2>2, <4>1, <4>2
    <3>2. CASE p \notin DOMAIN plan
      BY <2>2, <2>4, <3>2
    <3> QED BY <3>1, <3>2
  <2>6. \A q \in Rows : title'[q] = t => q = c
    BY <2>2, <2>3, <2>5 DEF Unique
  <2> QED BY <2>5, <2>6
<1> QED BY Invariance, <1>1, PTL DEF Spec, CoursesKept
=============================================================================

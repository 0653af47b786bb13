--------------------------- MODULE RetrievalProofs ---------------------------
(***************************************************************************)
(* The safety of the pipeline, for every catalog, every search result and  *)
(* every answer of the language model.  What the properties say of the     *)
(* stored recommendation is carried from the exclusion, where it becomes   *)
(* true, over the four steps to the write (Excluding), because in between  *)
(* candidates only shrink (Narrowing).                                     *)
(***************************************************************************)
EXTENDS Retrieval, FiniteSetTheorems, SequenceTheorems, LeastElement, TLAPS

Narrowing ==
    /\ vectors \subseteq Product /\ candidates \subseteq Product
    /\ shortlist \subseteq candidates
    /\ recommended \subseteq shortlist
    /\ pc \in {"idle", "query", "extract", "exclude", "assess", "rank"} => shortlist = {}
    /\ pc # "store" => recommended = {}

History ==
    /\ recs \in Seq(SUBSET Product)
    /\ before \subseteq engaged \cup Recommended

Excluding ==
    pc \in {"assess", "rank", "generate", "store"} =>
        candidates \cap (before \cup Recommended) = {}

ExclusionInv ==
    /\ pc \in PC
    /\ History /\ Narrowing /\ Excluding /\ NeverRecommendedTwice

(* Only the write of a run changes what was recommended.                   *)
LEMMA RecommendedKept ==
    ASSUME UNCHANGED recs
    PROVE  Recommended' = Recommended /\ (NeverRecommendedTwice => NeverRecommendedTwice')
BY DEF Recommended, NeverRecommendedTwice

(* The steps of the user and the admin disturb none of it: engagements     *)
(* only grow.                                                              *)
LEMMA WorldStepExclusion ==
    ASSUME ExclusionInv, WorldStep
    PROVE  ExclusionInv'
<1>1. /\ UNCHANGED <<recs, pc, runVars>> /\ engaged \subseteq engaged'
      /\ vectors' \subseteq vectors
  BY DEF WorldStep, View, ViewAges, Engage, DeleteVector, DeleteRow
<1>2. UNCHANGED <<candidates, shortlist, recommended, before>>
  BY <1>1 DEF runVars
<1>3. Recommended' = Recommended /\ NeverRecommendedTwice'
  BY <1>1, RecommendedKept DEF ExclusionInv
<1>4. Excluding'
  BY <1>1, <1>2, <1>3 DEF ExclusionInv, Excluding
<1> QED BY <1>1, <1>2, <1>3, <1>4 DEF ExclusionInv, History, Narrowing

(* A shortlist is taken from the candidates, whatever their scores.        *)
LEMMA ShortlistNarrows ==
    \A cands, sim, liked, hits : Shortlist(cands, sim, liked, hits) \subseteq cands
BY DEF Shortlist, Best

(* What is made of the language model's answer is taken from the shortlist,*)
(* whatever the answer is.                                                 *)
LEMMA EnrichedGrounded ==
    \A answer, short, key : Enriched(answer, short, key) \subseteq short
BY DEF Enriched, Best

(* Every step of a run but the write: candidates are excluded, then only   *)
(* cut down.                                                               *)
LEMMA RunStepExclusion ==
    ASSUME ExclusionInv, Query \/ Extract \/ Exclude \/ Assess \/ Rank \/ Generate \/ Fail
    PROVE  ExclusionInv'
<1> USE DEF ExclusionInv
<1>1. UNCHANGED worldVars
  BY DEF Query, Extract, Exclude, Assess, Rank, Generate, Fail
<1>2. Recommended' = Recommended /\ NeverRecommendedTwice'
  BY <1>1, RecommendedKept DEF worldVars
<1>3. UNCHANGED <<recs, engaged, vectors>>
  BY <1>1 DEF worldVars
<1>4. CASE Query
  BY <1>2, <1>3, <1>4 DEF Query, Best, Matching, PC, History, Narrowing, Excluding
<1>5. CASE Extract
  BY <1>2, <1>3, <1>5 DEF Extract, Best, PC, History, Narrowing, Excluding
<1>6. CASE Exclude
  BY <1>2, <1>3, <1>6 DEF Exclude, PC, History, Narrowing, Excluding, Excluded
<1>7. CASE Assess
  BY <1>2, <1>3, <1>7 DEF Assess, PC, History, Narrowing, Excluding
<1>8. CASE Rank
  BY <1>2, <1>3, <1>8, ShortlistNarrows DEF Rank, PC, History, Narrowing, Excluding
<1>9. CASE Generate
  <2>1. recommended' \subseteq shortlist
    BY <1>9, EnrichedGrounded DEF Generate
  <2> QED BY <1>2, <1>3, <1>9, <2>1 DEF Generate, PC, History, Narrowing, Excluding
<1>10. CASE Fail
  BY <1>2, <1>3, <1>10 DEF Fail, Clear, PC, History, Narrowing, Excluding
<1> QED BY <1>4, <1>5, <1>6, <1>7, <1>8, <1>9, <1>10

(* The write appends products none of which was recommended before.        *)
LEMMA StoreExclusion ==
    ASSUME ExclusionInv, Store
    PROVE  ExclusionInv'
<1> USE DEF ExclusionInv
<1>1. /\ pc = "store" /\ pc' = "idle" /\ engaged' = engaged
      /\ vectors' = vectors
      /\ candidates' = {} /\ shortlist' = {} /\ recommended' = {} /\ before' = {}
  BY DEF Store, Clear
<1>2. recommended \cap Recommended = {}
  BY <1>1 DEF Excluding, Narrowing
<1>3. Narrowing' /\ Excluding' /\ pc' \in PC
  BY <1>1 DEF Narrowing, Excluding, PC
<1>4. CASE recommended = {}
  <2>1. UNCHANGED recs
    BY <1>4 DEF Store
  <2> QED BY <1>1, <1>3, <2>1, RecommendedKept DEF History
<1>5. CASE recommended # {}
  <2>1. recs' = Append(recs, recommended)
    BY <1>5 DEF Store
  <2>2. recs \in Seq(SUBSET Product)
    BY DEF History
  <2>3. /\ Len(recs') = Len(recs) + 1 /\ Len(recs) \in Nat
        /\ DOMAIN recs' = 1..(Len(recs) + 1) /\ DOMAIN recs = 1..Len(recs)
        /\ \A i \in 1..Len(recs) : recs'[i] = recs[i]
        /\ recs'[Len(recs) + 1] = recommended
    BY <2>1, <2>2
  <2>4. \A i \in 1..Len(recs) : recs[i] \cap recommended = {}
    BY <1>2, <2>3 DEF Recommended
  <2>5. NeverRecommendedTwice'
    <3> SUFFICES ASSUME NEW i \in DOMAIN recs', NEW j \in DOMAIN recs', i # j
                 PROVE  recs'[i] \cap recs'[j] = {}
      BY DEF NeverRecommendedTwice
    <3>1. CASE i \in 1..Len(recs) /\ j \in 1..Len(recs)
      BY <2>3, <3>1 DEF NeverRecommendedTwice
    <3>2. CASE i = Len(recs) + 1
      BY <2>3, <2>4, <3>2
    <3>3. CASE j = Len(recs) + 1
      BY <2>3, <2>4, <3>3
    <3> QED BY <2>3, <3>1, <3>2, <3>3
  <2>6. recs' \in Seq(SUBSET Product)
    <3>1. recommended \subseteq Product
      BY DEF Narrowing
    <3> QED BY <2>1, <2>2, <3>1
  <2> QED BY <1>1, <1>3, <2>5, <2>6 DEF History
<1> QED BY <1>4, <1>5

(* A run begins with nothing in hand.                                      *)
LEMMA StartExclusion ==
    ASSUME ExclusionInv, Start
    PROVE  ExclusionInv'
<1> USE DEF ExclusionInv
<1>1. /\ pc = "idle" /\ pc' = "query" /\ before' = engaged \cup Recommended
      /\ UNCHANGED <<recs, engaged, vectors, candidates, shortlist, recommended>>
  BY DEF Start, worldVars
<1>2. Recommended' = Recommended /\ NeverRecommendedTwice'
  BY <1>1, RecommendedKept
<1> QED BY <1>1, <1>2 DEF PC, History, Narrowing, Excluding

(* Exclusions, history and candidates fit together in every state.         *)
LEMMA ExclusionInvariant == Spec => []ExclusionInv
<1>1. Init => ExclusionInv
  <2> SUFFICES ASSUME Init PROVE ExclusionInv
    OBVIOUS
  <2>1. recs = <<>> /\ DOMAIN recs = {} /\ recs \in Seq(SUBSET Product)
    BY DEF Init
  <2> QED BY <2>1 DEF Init, ExclusionInv, PC, History, Narrowing, Excluding,
             NeverRecommendedTwice
<1>2. ExclusionInv /\ [Next]_vars => ExclusionInv'
  <2> SUFFICES ASSUME ExclusionInv, [Next]_vars PROVE ExclusionInv'
    OBVIOUS
  <2>1. CASE Start
    BY <2>1, StartExclusion
  <2>2. CASE RunStep
    BY <2>2, RunStepExclusion, StoreExclusion DEF RunStep
  <2>3. CASE WorldStep
    BY <2>3, WorldStepExclusion
  <2>4. CASE UNCHANGED vars
    BY <2>4 DEF vars, worldVars, runVars, ExclusionInv, History, Narrowing, Excluding,
       NeverRecommendedTwice, Recommended
  <2> QED BY <2>1, <2>2, <2>3, <2>4 DEF Next
<1> QED BY <1>1, <1>2, PTL DEF Spec

(* No sequence of runs, failures, retries and answers of the language      *)
(* model recommends a product a second time.                               *)
THEOREM RecommendedOnce == Spec => []NeverRecommendedTwice
<1>1. ExclusionInv => NeverRecommendedTwice
  BY DEF ExclusionInv
<1> QED BY <1>1, ExclusionInvariant, PTL

(* What was in the cart, bought or recommended when the run began is not   *)
(* recommended by it, on whichever attempt its candidates were found.      *)
THEOREM EngagementRespected == Spec => []EarlierEngagementStaysOut
<1>1. ExclusionInv => EarlierEngagementStaysOut
  BY DEF ExclusionInv, Narrowing, Excluding, PC, EarlierEngagementStaysOut
<1> QED BY <1>1, ExclusionInvariant, PTL

-----------------------------------------------------------------------------
(* The ladder of filters.  The filter in force is the one of the current   *)
(* attempt, or, just before a retry searches again, that of the attempt    *)
(* before, which was a narrowing one.                                      *)
FilterInv ==
    /\ pc \in PC /\ attempt \in 1..MAX_RETRIEVAL_ATTEMPTS
    /\ pc \in {"extract", "exclude", "assess", "rank"} =>
          filter = MetadataFilter(profile.views, profile.affinity, attempt)
    /\ pc = "rank" => ~Retrying
    /\ (pc = "query" /\ attempt > 1) =>
          /\ filter = MetadataFilter(profile.views, profile.affinity, attempt - 1)
          /\ filter # NoFilter
    /\ pc = "idle" => attempt = 1

(* The newest category is one of the recent ones.                          *)
LEMMA NewestIsRecent ==
    \A seq : NewestCategory(seq) \subseteq RecentCategories(seq)
BY FS_EmptySet DEF NewestCategory, RecentCategories, RECENT_CATEGORIES

(* Each rung of the ladder matches what the rung below matches.            *)
LEMMA LadderBroadens ==
    ASSUME NEW seq, NEW affinity, NEW n \in 2..MAX_RETRIEVAL_ATTEMPTS,
           MetadataFilter(seq, affinity, n - 1) # NoFilter
    PROVE  Matching(Product, MetadataFilter(seq, affinity, n - 1))
               \subseteq Matching(Product, MetadataFilter(seq, affinity, n))
<1>1. CASE n = 3
  BY <1>1 DEF MetadataFilter, MAX_RETRIEVAL_ATTEMPTS, Matching, NoFilter
<1>2. CASE n = 2
  BY <1>2, NewestIsRecent DEF MetadataFilter, MAX_RETRIEVAL_ATTEMPTS, Matching, NoFilter
<1> QED BY <1>1, <1>2 DEF MAX_RETRIEVAL_ATTEMPTS

(* No step separates the filter from the attempt it belongs to.            *)
LEMMA NextFilter == FilterInv /\ [Next]_vars => FilterInv'
<1> SUFFICES ASSUME FilterInv, [Next]_vars PROVE FilterInv'
  OBVIOUS
<1> USE DEF FilterInv, MAX_RETRIEVAL_ATTEMPTS, PC
<1>1. CASE Start
  BY <1>1 DEF Start
<1>2. CASE Query
  BY <1>2 DEF Query
<1>3. CASE Extract \/ Exclude
  BY <1>3 DEF Extract, Exclude
<1>4. CASE Assess
  BY <1>4 DEF Assess, Retrying
<1>5. CASE Rank \/ Generate
  BY <1>5 DEF Rank, Generate
<1>6. CASE Store \/ Fail
  BY <1>6 DEF Store, Fail, Clear
<1>7. CASE WorldStep
  <2>1. UNCHANGED <<pc, runVars>>
    BY <1>7 DEF WorldStep, View, ViewAges, Engage, DeleteVector, DeleteRow
  <2> QED BY <2>1 DEF runVars, Retrying
<1>8. CASE UNCHANGED vars
  BY <1>8 DEF vars, runVars, Retrying
<1> QED BY <1>1, <1>2, <1>3, <1>4, <1>5, <1>6, <1>7, <1>8 DEF Next, RunStep

(* The ladder's filter is that of the attempt, in every state.             *)
LEMMA FilterInvariant == Spec => []FilterInv
<1>1. Init => FilterInv
  BY DEF Init, FilterInv, PC, MAX_RETRIEVAL_ATTEMPTS
<1> QED BY <1>1, NextFilter, PTL DEF Spec

(* A search that is given up as poor was the unfiltered one.               *)
THEOREM GivesUpUnfiltered == Spec => []LastResortUnfiltered
<1>1. FilterInv => LastResortUnfiltered
  BY DEF FilterInv, LastResortUnfiltered, Retrying, MetadataFilter, MAX_RETRIEVAL_ATTEMPTS
<1> QED BY <1>1, FilterInvariant, PTL

(* Each retry searches at least where the attempt before it searched.      *)
THEOREM RetriesBroaden == Spec => RetryBroadens
<1>1. FilterInv /\ [Next]_vars =>
        [(pc = "query" /\ pc' = "extract" /\ attempt > 1)
            => Matching(Product, filter) \subseteq Matching(Product, filter')]_vars
  <2> SUFFICES ASSUME FilterInv, Next, pc = "query", pc' = "extract", attempt > 1
               PROVE  Matching(Product, filter) \subseteq Matching(Product, filter')
    OBVIOUS
  <2>1. Query
    BY DEF Next, RunStep, Start, Extract, Exclude, Assess, Rank, Generate, Store, Fail,
       WorldStep, View, ViewAges, Engage, DeleteVector, DeleteRow
  <2>2. filter' = MetadataFilter(profile.views, profile.affinity, attempt)
    BY <2>1 DEF Query
  <2>3. /\ filter = MetadataFilter(profile.views, profile.affinity, attempt - 1)
        /\ filter # NoFilter /\ attempt \in 2..MAX_RETRIEVAL_ATTEMPTS
    BY DEF FilterInv, MAX_RETRIEVAL_ATTEMPTS
  <2> QED BY <2>2, <2>3, LadderBroadens
<1> QED BY <1>1, FilterInvariant, PTL DEF Spec, RetryBroadens

-----------------------------------------------------------------------------
(* The relevance floor.                                                    *)
FloorInv ==
    /\ pc \in PC /\ Narrowing
    /\ similarity \in [Product -> 0..100] /\ profile.hits \in [Product -> Nat]
    /\ pc \in {"generate", "store"} => \A p \in shortlist :
          RelevanceScore(p, similarity, Liked, profile.hits) >= RELEVANCE_FLOOR

(* The bonus of a category is below the floor.                             *)
LEMMA CategoryBelowFloor ==
    ASSUME NEW p \in Product, NEW sim \in [Product -> 0..100], NEW hits \in [Product -> Nat],
           NEW liked, RelevanceScore(p, sim, liked, hits) >= RELEVANCE_FLOOR
    PROVE  sim[p] >= 5 \/ hits[p] > 0
<1>1. sim[p] \in 0..100 /\ hits[p] \in Nat
  OBVIOUS
<1>2. CASE hits[p] = 0
  <2>1. Capped(10 * hits[p], 30) = 0
    BY <1>2 DEF Capped
  <2> QED BY <1>1, <2>1 DEF RelevanceScore, RELEVANCE_FLOOR, Capped
<1> QED BY <1>1, <1>2

(* What is shortlisted after a step has passed the relevance floor.        *)
LEMMA NextFloor ==
    FloorInv /\ ExclusionInv' /\ [Next]_vars => FloorInv'
<1> SUFFICES ASSUME FloorInv, ExclusionInv', [Next]_vars PROVE FloorInv'
  OBVIOUS
<1> USE DEF FloorInv, PC
<1>1. Narrowing' /\ pc' \in PC
  BY DEF ExclusionInv
<1>2. CASE Start
  <2>1. similarity' \in Similarity /\ profile'.hits \in Hits /\ pc' = "query"
    BY <1>2 DEF Start
  <2> QED BY <1>1, <2>1, SimilarityAssumption, HitsAssumption
<1>3. CASE Query \/ Extract \/ Exclude \/ Assess
  BY <1>1, <1>3 DEF Query, Extract, Exclude, Assess
<1>4. CASE Rank
  <2>1. \A p \in shortlist' :
           RelevanceScore(p, similarity, Liked, profile.hits) >= RELEVANCE_FLOOR
    BY <1>4 DEF Rank, Shortlist, Best
  <2>2. UNCHANGED <<similarity, profile>> /\ Liked' = Liked
    BY <1>4 DEF Rank, Liked
  <2> QED BY <1>1, <2>1, <2>2
<1>5. CASE Generate
  <2>1. UNCHANGED <<similarity, profile, shortlist>> /\ Liked' = Liked /\ pc = "generate"
    BY <1>5 DEF Generate, Liked
  <2> QED BY <1>1, <2>1
<1>6. CASE Store \/ Fail
  <2>1. pc' = "idle" /\ similarity' = NoSimilarity /\ profile' = NoProfile
    BY <1>6 DEF Store, Fail, Clear
  <2>2. NoSimilarity \in [Product -> 0..100] /\ NoProfile.hits \in [Product -> Nat]
    BY SomeAssumption, SimilarityAssumption, HitsAssumption DEF NoSimilarity, NoProfile
  <2> QED BY <1>1, <2>1, <2>2
<1>7. CASE WorldStep
  <2>1. UNCHANGED <<pc, runVars>>
    BY <1>7 DEF WorldStep, View, ViewAges, Engage, DeleteVector, DeleteRow
  <2> QED BY <1>1, <2>1 DEF runVars, Liked
<1>8. CASE UNCHANGED vars
  BY <1>1, <1>8 DEF vars, runVars, Liked
<1> QED BY <1>2, <1>3, <1>4, <1>5, <1>6, <1>7, <1>8 DEF Next, RunStep

(* Nothing is recommended for its category alone.                          *)
THEOREM CategoryNeverAlone == Spec => []CategoryAloneNotEnough
<1>1. Init => FloorInv
  <2>1. NoSimilarity \in [Product -> 0..100] /\ NoProfile.hits \in [Product -> Nat]
    BY SomeAssumption, SimilarityAssumption, HitsAssumption DEF NoSimilarity, NoProfile
  <2> QED BY <2>1 DEF Init, FloorInv, Narrowing, PC
<1>2. FloorInv => CategoryAloneNotEnough
  BY CategoryBelowFloor DEF FloorInv, Narrowing, CategoryAloneNotEnough, PC
<1> QED BY <1>1, <1>2, NextFloor, ExclusionInvariant, PTL DEF Spec

-----------------------------------------------------------------------------
(* Types.                                                                  *)

(* What the recursive function of KnownViews is, up to the n-th view.      *)
Keeps(g, n) ==
    g = [i \in 0..n |->
            IF i = 0 THEN <<>>
            ELSE IF views[i] \in catalog THEN Append(g[i - 1], views[i])
            ELSE g[i - 1]]

(* Its value at a view follows from the one before.                        *)
LEMMA KeepsRule ==
    ASSUME NEW n \in Nat, NEW g, Keeps(g, n)
    PROVE  /\ g[0] = <<>>
           /\ \A i \in 1..n : g[i] = IF views[i] \in catalog THEN Append(g[i - 1], views[i])
                                     ELSE g[i - 1]
<1>1. PICK h : h = [i \in 0..n |->
                       IF i = 0 THEN <<>>
                       ELSE IF views[i] \in catalog THEN Append(g[i - 1], views[i])
                       ELSE g[i - 1]]
  OBVIOUS
<1>2. g = h
  BY <1>1 DEF Keeps
<1>3. /\ h[0] = <<>>
      /\ \A i \in 1..n : h[i] = IF views[i] \in catalog THEN Append(g[i - 1], views[i])
                                ELSE g[i - 1]
  BY <1>1
<1> QED BY <1>2, <1>3

(* There is such a function: the least number for which there is none      *)
(* would have one.                                                         *)
LEMMA KeepsExists ==
    ASSUME views \in Seq(Product)
    PROVE  \E g : Keeps(g, Len(views))
<1> DEFINE T == {n \in Nat : ~\E g : Keeps(g, n)}
<1>1. ASSUME T # {} PROVE FALSE
  <2>1. PICK n \in T : \A m \in T : n <= m
    BY <1>1, LeastNumber
  <2>2. n # 0
    <3>1. Keeps([i \in 0..0 |-> <<>>], 0)
      BY DEF Keeps
    <3> QED BY <2>1, <3>1
  <2>3. n \in Nat /\ n - 1 \in Nat /\ n - 1 \notin T
    BY <2>1, <2>2
  <2>4. PICK g : Keeps(g, n - 1)
    BY <2>3
  <2> DEFINE h == [i \in 0..n |-> IF i < n THEN g[i]
                     ELSE IF views[n] \in catalog THEN Append(g[n - 1], views[n])
                     ELSE g[n - 1]]
  <2>5. /\ h[0] = <<>>
        /\ \A i \in 1..n : h[i] = IF views[i] \in catalog THEN Append(h[i - 1], views[i])
                                  ELSE h[i - 1]
    BY <2>2, <2>3, <2>4, KeepsRule
  <2>6. Keeps(h, n)
    <3> DEFINE k == [i \in 0..n |->
                        IF i = 0 THEN <<>>
                        ELSE IF views[i] \in catalog THEN Append(h[i - 1], views[i])
                        ELSE h[i - 1]]
    <3>1. \A i \in 0..n : h[i] = k[i]
      <4> HIDE DEF h
      <4> QED BY <2>3, <2>5
    <3>2. h = k
      BY <3>1
    <3> HIDE DEF h
    <3> QED BY <3>2 DEF Keeps
  <2> QED BY <2>1, <2>6
<1>2. T = {}
  BY <1>1
<1>3. Len(views) \in Nat
  OBVIOUS
<1> QED BY <1>2, <1>3

(* KnownViews is a sequence of products in the catalog: the first of its   *)
(* prefixes that was not would be one.                                     *)
LEMMA KnownTyped ==
    ASSUME views \in Seq(Product)
    PROVE  KnownViews \in Seq(Product \cap catalog)
<1>1. PICK known : Keeps(known, Len(views)) /\ KnownViews = known[Len(views)]
  <2>1. KnownViews = (CHOOSE known : Keeps(known, Len(views)))[Len(views)]
    BY DEF KnownViews, Keeps
  <2> QED BY <2>1, KeepsExists
<1> DEFINE T == {n \in 0..Len(views) : known[n] \notin Seq(Product \cap catalog)}
<1>2. T \in SUBSET Nat /\ Len(views) \in Nat
  OBVIOUS
<1>3. ASSUME T # {} PROVE FALSE
  <2>1. PICK n \in T : \A m \in T : n <= m
    BY <1>2, <1>3, LeastNumber
  <2>2. n # 0
    <3>1. known[0] = <<>> /\ <<>> \in Seq(Product \cap catalog)
      BY <1>1, <1>2, KeepsRule
    <3> QED BY <2>1, <3>1
  <2>3. n \in 1..Len(views) /\ n - 1 \in 0..Len(views) /\ n - 1 \notin T
    BY <1>2, <2>1, <2>2
  <2>4. known[n - 1] \in Seq(Product \cap catalog) /\ views[n] \in Product
    BY <2>3
  <2>5. known[n] = IF views[n] \in catalog THEN Append(known[n - 1], views[n])
                   ELSE known[n - 1]
    BY <1>1, <1>2, <2>3, KeepsRule
  <2>6. known[n] \in Seq(Product \cap catalog)
    <3>1. CASE views[n] \in catalog
      BY <2>4, <2>5, <3>1
    <3>2. CASE views[n] \notin catalog
      BY <2>4, <2>5, <3>2
    <3> QED BY <3>1, <3>2
  <2> QED BY <2>1, <2>6
<1> QED BY <1>1, <1>2, <1>3

(* Whatever is viewed, a filter names categories.                          *)
LEMMA FilterTyped ==
    ASSUME NEW seq \in Seq(Product), NEW affinity \in SUBSET Category, NEW n
    PROVE  MetadataFilter(seq, affinity, n) \in SUBSET Category
<1>1. ViewedCategories(seq) \subseteq Category
  BY CategoryAssumption DEF ViewedCategories
<1>2. NewestCategory(seq) \subseteq Category /\ RecentCategories(seq) \subseteq Category
  BY <1>1 DEF NewestCategory, RecentCategories
<1> QED BY <1>2 DEF MetadataFilter, NoFilter

(* What a run starts with and is left with is well typed.                  *)
LEMMA EmptyTyped == NoProfile \in Profile /\ NoSimilarity \in Similarity
<1>1. (CHOOSE hits \in Hits : TRUE) \in Hits /\ NoSimilarity \in Similarity
  BY SomeAssumption DEF NoSimilarity
<1>2. <<>> \in Seq(Product)
  OBVIOUS
<1> QED BY <1>1, <1>2 DEF NoProfile, Profile

(* Steps keep the types; that candidates, shortlist and recommendation lie *)
(* within one another is Narrowing.                                        *)
LEMMA NextTypes ==
    TypeOK /\ ExclusionInv' /\ [Next]_vars => TypeOK'
<1> SUFFICES ASSUME TypeOK, ExclusionInv', [Next]_vars PROVE TypeOK'
  OBVIOUS
<1>1. /\ pc' \in PC /\ recs' \in Seq(SUBSET Product) /\ vectors' \in SUBSET Product
      /\ candidates' \in SUBSET Product /\ shortlist' \in SUBSET candidates'
      /\ recommended' \in SUBSET shortlist'
  BY DEF ExclusionInv, History, Narrowing
<1>2. CASE Start
  <2>1. KnownViews \in Seq(Product)
    BY KnownTyped DEF TypeOK
  <2>2. profile' \in Profile /\ similarity' \in Similarity
    BY <1>2, <2>1 DEF Start, Profile
  <2>3. before' \in SUBSET Product
    BY <1>2 DEF Start, TypeOK, Recommended
  <2> QED BY <1>1, <1>2, <2>2, <2>3 DEF Start, worldVars, TypeOK
<1>3. CASE Query
  <2>1. filter' \in SUBSET Category
    BY <1>3, FilterTyped DEF Query, TypeOK, Profile
  <2> QED BY <1>1, <1>3, <2>1 DEF Query, worldVars, TypeOK
<1>4. CASE Extract \/ Exclude \/ Rank \/ Generate
  BY <1>1, <1>4 DEF Extract, Exclude, Rank, Generate, worldVars, TypeOK
<1>5. CASE Assess
  BY <1>1, <1>5 DEF Assess, Retrying, MAX_RETRIEVAL_ATTEMPTS, worldVars, TypeOK
<1>6. CASE Store \/ Fail
  BY <1>1, <1>6, EmptyTyped DEF Store, Fail, Clear, NoFilter, MAX_RETRIEVAL_ATTEMPTS, worldVars, TypeOK
<1>7. CASE WorldStep
  <2>1. changes' \in Nat /\ UNCHANGED runVars
    BY <1>7 DEF WorldStep, View, ViewAges, Engage, DeleteVector, DeleteRow, TypeOK
  <2>2. PICK p \in Product :
            View(p) \/ ViewAges(p) \/ Engage(p) \/ DeleteVector(p) \/ DeleteRow(p)
    BY <1>7 DEF WorldStep
  <2>3. views' \in Seq(Product)
    BY <2>2 DEF View, ViewAges, Engage, DeleteVector, DeleteRow, TypeOK
  <2>4. /\ catalog' \in SUBSET Product /\ stale' \in SUBSET Product
        /\ engaged' \in SUBSET Product
    BY <2>2 DEF View, ViewAges, Engage, DeleteVector, DeleteRow, TypeOK
  <2> QED BY <1>1, <2>1, <2>3, <2>4 DEF runVars, TypeOK
<1>8. CASE UNCHANGED vars
  BY <1>1, <1>8 DEF vars, worldVars, runVars, TypeOK
<1> QED BY <1>2, <1>3, <1>4, <1>5, <1>6, <1>7, <1>8 DEF Next, RunStep

(* Every variable keeps its type: only products are searched, ranked and   *)
(* stored, and only categories filtered by.                                *)
THEOREM RetrievalTypes == Spec => []TypeOK
<1>1. Init => TypeOK
  BY EmptyTyped DEF Init, TypeOK, PC, NoFilter, MAX_RETRIEVAL_ATTEMPTS
<1> QED BY <1>1, NextTypes, ExclusionInvariant, PTL DEF Spec
=============================================================================

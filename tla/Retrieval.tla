------------------------------ MODULE Retrieval ------------------------------
(***************************************************************************)
(* The agent's pipeline for one user, from the stored profile to the       *)
(* stored recommendation: retrieve, assess, retry, evaluate, filter,       *)
(* generate, reflect and store (app/agent/graph.py and agent/nodes), while *)
(* the user goes on acting and the admin deletes products.                 *)
(*                                                                         *)
(* One run at a time: that is what AgentRuns shows of the guard.  Each     *)
(* query is a step: the vector store, the products table and the events    *)
(* and recommendations tables are read one after the other, and the        *)
(* answer of the language model lies between the last read and the write.  *)
(***************************************************************************)
EXTENDS Ranking

CONSTANTS
    Similarity,   \* possible similarities of the products to a query
    Hits,         \* possible numbers of intents found in the products
    Invented,     \* an id the language model makes up
    MaxChanges,   \* bound: steps of the user and the admin
    MaxRecs       \* bound: no run starts after so many recommendations

ASSUME SimilarityAssumption ==
    \A similarity \in Similarity : similarity \in [Product -> 0..100]
ASSUME HitsAssumption == \A hits \in Hits : hits \in [Product -> Nat]
ASSUME SomeAssumption == Similarity # {} /\ Hits # {}
ASSUME InventedAssumption == Invented \notin Product

VARIABLES
    catalog,      \* products with a row in SQL
    vectors,      \* products with an entry in the vector store
    views,        \* product_view events, oldest first
    stale,        \* viewed products whose views are all older than 24 hours
    engaged,      \* products added to the cart or checked out
    recs,         \* the recommendations stored so far, as sets of products
    changes,      \* steps of the user and the admin so far
    \* the run
    pc,
    profile,      \* what model_user returned
    similarity,   \* of each product to the query embedding
    attempt,      \* retrieval_attempt
    filter,       \* the metadata filter of the last query
    candidates,   \* raw results, then retrieved_candidates
    shortlist,    \* filtered_candidates
    recommended,  \* recommended_products
    before        \* history: bought, in the cart or recommended when the run began

worldVars == <<catalog, vectors, views, stale, engaged, recs, changes>>
runVars == <<profile, similarity, attempt, filter, candidates, shortlist, recommended, before>>
vars == <<worldVars, pc, runVars>>

PC == {"idle", "query", "extract", "exclude", "assess", "rank", "generate", "store"}

Profile ==
    [views : Seq(Product), affinity : SUBSET Category, hits : Hits]

NoProfile == [views |-> <<>>, affinity |-> {}, hits |-> CHOOSE hits \in Hits : TRUE]
NoSimilarity == CHOOSE s \in Similarity : TRUE

Recommended == UNION {recs[i] : i \in DOMAIN recs}
Viewed == {views[i] : i \in DOMAIN views}

(* Mutant: earlier recommendations are not looked up.                      *)
ExcludedByEvents == engaged \cup (Viewed \ stale)

(* get_excluded_product_ids.                                               *)
Excluded == engaged \cup (Viewed \ stale) \cup Recommended

TypeOK ==
    /\ catalog \in SUBSET Product /\ vectors \in SUBSET Product
    /\ views \in Seq(Product) /\ stale \in SUBSET Product
    /\ engaged \in SUBSET Product
    /\ recs \in Seq(SUBSET Product) /\ changes \in Nat
    /\ pc \in PC
    /\ profile \in Profile /\ similarity \in Similarity
    /\ attempt \in 1..MAX_RETRIEVAL_ATTEMPTS
    /\ filter \in SUBSET Category
    /\ candidates \in SUBSET Product /\ shortlist \in SUBSET candidates
    /\ recommended \in SUBSET shortlist
    /\ before \in SUBSET Product

Clear ==
    /\ profile' = NoProfile /\ similarity' = NoSimilarity
    /\ attempt' = 1 /\ filter' = NoFilter
    /\ candidates' = {} /\ shortlist' = {} /\ recommended' = {}
    /\ before' = {}

(* Courses exist in both stores, except those of an interrupted dual write.*)
Init ==
    /\ vectors = Product /\ catalog \in SUBSET Product
    /\ views = <<>> /\ stale = {} /\ engaged = {} /\ recs = <<>> /\ changes = 0
    /\ pc = "idle"
    /\ profile = NoProfile /\ similarity = NoSimilarity
    /\ attempt = 1 /\ filter = NoFilter
    /\ candidates = {} /\ shortlist = {} /\ recommended = {}
    /\ before = {}

-----------------------------------------------------------------------------
(* The run.                                                                *)

(* The views of products still in the catalog (products_by_id).            *)
KnownViews ==
    LET known[i \in 0..Len(views)] ==
            IF i = 0 THEN <<>>
            ELSE IF views[i] \in catalog THEN Append(known[i - 1], views[i])
            ELSE known[i - 1]
    IN  known[Len(views)]

(* model_user has returned: the views of products still in the catalog,    *)
(* and what the language model made of the activity.  The query text built *)
(* from it decides the similarities.                                       *)
Start ==
    /\ pc = "idle"
    /\ Len(recs) < MaxRecs
    /\ \E affinity \in SUBSET Category, hits \in Hits :
          profile' = [views |-> KnownViews, affinity |-> affinity, hits |-> hits]
    /\ similarity' \in Similarity
    /\ before' = engaged \cup Recommended
    /\ pc' = "query"
    /\ UNCHANGED <<worldVars, attempt, filter, candidates, shortlist, recommended>>

(* vector_store.query of retrieve_node and retry_retrieve_node.            *)
Query ==
    LET where == MetadataFilter(profile.views, profile.affinity, attempt)
    IN  /\ pc = "query"
        /\ filter' = where
        /\ candidates' = Best(Matching(vectors, where),
                              TOP_K * RETRIEVAL_POOL_MARGIN, similarity)
        /\ pc' = "extract"
        /\ UNCHANGED <<worldVars, profile, similarity, attempt, shortlist,
                       recommended, before>>

(* _extract_candidates: only hits with a row in SQL, at most TOP_K of them.*)
Extract ==
    /\ pc = "extract"
    /\ candidates' = Best(candidates \cap catalog, TOP_K, similarity)
    /\ pc' = "exclude"
    /\ UNCHANGED <<worldVars, profile, similarity, attempt, filter, shortlist,
                   recommended, before>>

(* Mutant: the retry node does not apply the exclusions again.             *)
ExcludeOnce ==
    /\ pc = "exclude"
    /\ candidates' = IF attempt = 1 THEN candidates \ Excluded ELSE candidates
    /\ pc' = "assess"
    /\ UNCHANGED <<worldVars, profile, similarity, attempt, filter, shortlist,
                   recommended, before>>

(* _apply_exclusions.                                                      *)
Exclude ==
    /\ pc = "exclude"
    /\ candidates' = candidates \ Excluded
    /\ pc' = "assess"
    /\ UNCHANGED <<worldVars, profile, similarity, attempt, filter, shortlist,
                   recommended, before>>

(* Mutant: the attempts are counted from zero.                             *)
RetryingOnce ==
    /\ ~GoodQuality(candidates, similarity)
    /\ filter # NoFilter
    /\ attempt < MAX_RETRIEVAL_ATTEMPTS - 1

(* assess_retrieval_node and _route_after_assess.                          *)
Retrying ==
    /\ ~GoodQuality(candidates, similarity)
    /\ filter # NoFilter
    /\ attempt < MAX_RETRIEVAL_ATTEMPTS

(* Mutant: the retry node does not count the attempt.                      *)
AssessUncounted ==
    /\ pc = "assess"
    /\ pc' = IF Retrying THEN "query" ELSE "rank"
    /\ UNCHANGED <<worldVars, runVars>>

Assess ==
    /\ pc = "assess"
    /\ IF Retrying THEN pc' = "query" /\ attempt' = attempt + 1
                   ELSE pc' = "rank" /\ UNCHANGED attempt
    /\ UNCHANGED <<worldVars, profile, similarity, filter, candidates, shortlist,
                   recommended, before>>

(* evaluate_node and filter_node.                                          *)
Liked == RecentCategories(profile.views) \cup profile.affinity

Rank ==
    /\ pc = "rank"
    /\ shortlist' = Shortlist(candidates, similarity, Liked, profile.hits)
    /\ pc' = "generate"
    /\ UNCHANGED <<worldVars, profile, similarity, attempt, filter, candidates,
                   recommended, before>>

(* generate_node; reflect_node always accepts, so store comes next.        *)
Generate ==
    /\ pc = "generate"
    /\ \E answer \in SUBSET (shortlist \cup {Invented}) :
          recommended' =
              Enriched(answer, shortlist, RankKey(similarity, Liked, profile.hits))
    /\ pc' = "store"
    /\ UNCHANGED <<worldVars, profile, similarity, attempt, filter, candidates,
                   shortlist, before>>

(* store_node: an empty result leaves the table alone.                     *)
Store ==
    /\ pc = "store"
    /\ recs' = IF recommended = {} THEN recs ELSE Append(recs, recommended)
    /\ pc' = "idle"
    /\ Clear
    /\ UNCHANGED <<catalog, vectors, views, stale, engaged, changes>>

(* The embedding, a query or the language model fails, or the process      *)
(* dies: nothing of the run is left.                                       *)
Fail ==
    /\ pc # "idle"
    /\ pc' = "idle"
    /\ Clear
    /\ UNCHANGED worldVars

-----------------------------------------------------------------------------
(* The user and the admin meanwhile.                                       *)

View(p) ==
    /\ p \in catalog
    /\ views' = Append(views, p)
    /\ stale' = stale \ {p}
    /\ UNCHANGED <<catalog, vectors, engaged, recs, pc, runVars>>

(* 24 hours after its last view.                                           *)
ViewAges(p) ==
    /\ p \in Viewed \ stale
    /\ stale' = stale \cup {p}
    /\ UNCHANGED <<catalog, vectors, views, engaged, recs, pc, runVars>>

(* add_to_cart or checkout_start.                                          *)
Engage(p) ==
    /\ p \in catalog \ engaged
    /\ engaged' = engaged \cup {p}
    /\ UNCHANGED <<catalog, vectors, views, stale, recs, pc, runVars>>

(* delete_product: the vector first, then the row.                         *)
DeleteVector(p) ==
    /\ p \in vectors \cap catalog
    /\ vectors' = vectors \ {p}
    /\ UNCHANGED <<catalog, views, stale, engaged, recs, pc, runVars>>

DeleteRow(p) ==
    /\ p \in catalog \ vectors
    /\ catalog' = catalog \ {p}
    /\ UNCHANGED <<vectors, views, stale, engaged, recs, pc, runVars>>

-----------------------------------------------------------------------------
RunStep ==
    Query \/ Extract \/ Exclude \/ Assess \/ Rank \/ Generate \/ Store \/ Fail

WorldStep ==
    /\ changes < MaxChanges
    /\ changes' = changes + 1
    /\ \E p \in Product :
          View(p) \/ ViewAges(p) \/ Engage(p) \/ DeleteVector(p) \/ DeleteRow(p)

Next == Start \/ RunStep \/ WorldStep

Spec == Init /\ [][Next]_vars

(* A run is scheduled until it ends; each of its calls returns or fails.   *)
FairSpec == Spec /\ WF_vars(RunStep)

-----------------------------------------------------------------------------
(* Properties.                                                             *)

(* No product is ever recommended twice: exclusions are applied to every   *)
(* attempt, also the unfiltered one, and whatever the language model       *)
(* answers, only what passed them is stored.                               *)
NeverRecommendedTwice ==
    \A i, j \in DOMAIN recs : i # j => recs[i] \cap recs[j] = {}

(* What the user had put into the cart, bought or been recommended before  *)
(* the run began is not recommended by it.                                 *)
EarlierEngagementStaysOut == before \cap recommended = {}

(* A search is only given up as poor when nothing narrowed it: the routing *)
(* and the ladder of filters agree on which attempt is the last.           *)
LastResortUnfiltered ==
    (pc = "rank" /\ ~GoodQuality(candidates, similarity)) => filter = NoFilter

(* A matching category alone does not carry a product over the relevance   *)
(* floor: some similarity or a matching intent must come with it.          *)
CategoryAloneNotEnough ==
    \A p \in recommended : similarity[p] >= 5 \/ profile.hits[p] > 0

(* A retry never searches fewer products than the attempt before it.       *)
RetryBroadens ==
    [][(pc = "query" /\ pc' = "extract" /\ attempt > 1)
          => Matching(Product, filter) \subseteq Matching(Product, filter')]_vars

(* Every run ends, whatever the quality of what it finds.                  *)
RunEnds == (pc # "idle") ~> (pc = "idle")

(* The README: a recommendation can never reference a product that is not  *)
(* in the catalog.                                                         *)
RecommendedInCatalog ==
    [][recs' # recs => recs'[Len(recs')] \subseteq catalog]_vars

=============================================================================

------------------------------- MODULE Ranking -------------------------------
(***************************************************************************)
(* The deterministic parts of the agent's pipeline, as operators over sets *)
(* of products: which categories a user's views name (agent/nodes/         *)
(* model_user.py), how they narrow the search (retrieve.py), how the       *)
(* candidates are scored (evaluate.py) and cut (filter.py), and what is    *)
(* made of the language model's answer (generate.py).                      *)
(*                                                                         *)
(* Similarities and scores are hundredths, from 0 to 100.                  *)
(***************************************************************************)
EXTENDS Integers, Sequences, FiniteSets

CONSTANTS
    Product,
    Category,
    CategoryOf,            \* the category of each product
    TOP_K,
    RETRIEVAL_POOL_MARGIN,
    MAX_RESULTS

ASSUME CategoryAssumption == CategoryOf \in [Product -> Category]
ASSUME SizeAssumption ==
    TOP_K \in Nat /\ RETRIEVAL_POOL_MARGIN \in Nat /\ MAX_RESULTS \in Nat

MAX_RETRIEVAL_ATTEMPTS == 3
MIN_RETRIEVAL_RESULTS == 2
MIN_RETRIEVAL_SIMILARITY == 20
RELEVANCE_FLOOR == 20
RECENT_CATEGORIES == 3
MIN_RECOMMENDED == 2

-----------------------------------------------------------------------------
(* model_user.py: recent categories.  views is the sequence of viewed      *)
(* products, oldest first.  Each category takes its place in the list at   *)
(* its first view and keeps it; the list is cut to its last three.         *)

ViewedCategories(views) == {CategoryOf[views[i]] : i \in DOMAIN views}

FirstView(views, c) ==
    CHOOSE i \in DOMAIN views :
        /\ CategoryOf[views[i]] = c
        /\ \A j \in DOMAIN views : CategoryOf[views[j]] = c => i <= j

Later(views, c) ==
    {d \in ViewedCategories(views) : FirstView(views, d) > FirstView(views, c)}

RecentCategories(views) ==
    {c \in ViewedCategories(views) :
        Cardinality(Later(views, c)) < RECENT_CATEGORIES}

(* recent_categories[-1], as a set: empty when nothing was viewed.         *)
NewestCategory(views) ==
    {c \in ViewedCategories(views) : Later(views, c) = {}}

-----------------------------------------------------------------------------
(* retrieve.py.                                                            *)

(* The categories the search is narrowed to; none means no filter.  The    *)
(* last attempt is never filtered; without recent categories the           *)
(* accumulated affinity of the profile stands in for them.                 *)
NoFilter == {}

(* Mutant: the two filtered attempts are swapped.                          *)
FilterNarrowing(views, affinity, attempt) ==
    IF attempt >= MAX_RETRIEVAL_ATTEMPTS THEN NoFilter
    ELSE IF attempt = 2 /\ views # <<>> THEN NewestCategory(views)
    ELSE IF attempt = 1 /\ views # <<>> THEN RecentCategories(views)
    ELSE affinity

MetadataFilter(views, affinity, attempt) ==
    IF attempt >= MAX_RETRIEVAL_ATTEMPTS THEN NoFilter
    ELSE IF attempt = 1 /\ views # <<>> THEN NewestCategory(views)
    ELSE IF attempt = 2 /\ views # <<>> THEN RecentCategories(views)
    ELSE affinity

Matching(products, filter) ==
    {p \in products : filter = NoFilter \/ CategoryOf[p] \in filter}

(* The k products of the set with the largest keys (no two are equal).     *)
Best(products, k, key) ==
    {p \in products : Cardinality({q \in products : key[q] > key[p]}) < k}

GoodQuality(candidates, similarity) ==
    /\ Cardinality(candidates) >= MIN_RETRIEVAL_RESULTS
    /\ \E p \in candidates : similarity[p] >= MIN_RETRIEVAL_SIMILARITY

-----------------------------------------------------------------------------
(* evaluate.py and filter.py.  liked is the set of categories the profile  *)
(* names, hits[p] the number of inferred intents found in p's text.        *)

Capped(n, cap) == IF n < cap THEN n ELSE cap

(* Mutant: a liked category is worth the whole floor.                      *)
RelevanceByCategory(p, similarity, liked, hits) ==
    Capped(100, similarity[p] + (IF CategoryOf[p] \in liked THEN 20 ELSE 0)
                + Capped(10 * hits[p], 30))

RelevanceScore(p, similarity, liked, hits) ==
    Capped(100, similarity[p] + (IF CategoryOf[p] \in liked THEN 15 ELSE 0)
                + Capped(10 * hits[p], 30))

(* Descending scores; the sort is stable, so equal scores keep the order   *)
(* of the search.                                                          *)
RankKey(similarity, liked, hits) ==
    [p \in Product |-> 101 * RelevanceScore(p, similarity, liked, hits) + similarity[p]]

Shortlist(candidates, similarity, liked, hits) ==
    Best({p \in candidates :
             RelevanceScore(p, similarity, liked, hits) >= RELEVANCE_FLOOR},
         MAX_RESULTS, RankKey(similarity, liked, hits))

-----------------------------------------------------------------------------
(* Mutant: ids are taken from the answer without looking them up.          *)
EnrichedUngrounded(answer, shortlist, key) ==
    LET named == IF answer = {} THEN shortlist ELSE answer
        missing == MIN_RECOMMENDED - Cardinality(named)
    IN  named \cup Best(shortlist \ named, missing, key)

(* generate.py.  answer is the set of ids the language model gave reasons  *)
(* for, empty when its reply could not be used: then every shortlisted     *)
(* product is taken.  Ids outside the shortlist are dropped, and fewer     *)
(* than two products are topped up from the best of the shortlist.         *)
Enriched(answer, shortlist, key) ==
    LET named == IF answer = {} THEN shortlist ELSE answer \cap shortlist
        missing == MIN_RECOMMENDED - Cardinality(named)
    IN  named \cup Best(shortlist \ named, missing, key)
=============================================================================

SPECIFICATION FairSpec
CONSTANTS
    p1 = p1
    p2 = p2
    p3 = p3
    Product <- MCProduct
    Category <- MCCategory
    CategoryOf <- MCCategoryOf
    TOP_K = 2
    RETRIEVAL_POOL_MARGIN = 1
    MAX_RESULTS = 2
    Similarity <- MCSimilarity
    Hits <- MCHits
    Invented = invented
    MaxChanges = 2
    MaxRecs = 2
PROPERTY RecommendedInCatalog
CHECK_DEADLOCK FALSE

\* Three rows, three times, limits below, at and above the default and the maximum.
SPECIFICATION Spec
CONSTANTS
    Kinds = {"emails", "search", "threads", "documents"}
    Times = {1, 2, 3}
    Asked = {0, 1, 3}
    DefaultLimit = 1
    MaxLimit = 2
    MaxRows = 3
INVARIANTS
    TypeOK
    OrderlyListingComplete
    DocumentsListedOnce
PROPERTIES
    ListingEnds

\* Two calls and one listing over three ids; the default limit and one too large.
SPECIFICATION FairSpec
CONSTANTS
    None = None
    Grantees = {g1, g2}
    Writers = {w1, w2}
    Listings = {l1}
    Limits = {0, 3}
    defaultLimit = 1
    maxLimit = 2
    MaxNotes = 3
INVARIANTS
    TypeOK
    StandingNotesListedOnce
    NewestNoteStands
PROPERTY
    ListingEnds

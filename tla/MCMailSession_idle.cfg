\* Four messages; the channel holds two notices (8 in the code), so that it fills.
SPECIFICATION Spec
CONSTANTS
    Capacity = 2
    MaxMail = 4
    MaxEnds = 2
INVARIANTS
    TypeOK
    NothingSleptOn
PROPERTIES
    MailIsFetched
    ReconnectCatchesUp
    WakeFetchesBacklog

\* Two operators and two concurrent approve requests, failures of every kind; two rows, or one of any kind.
SPECIFICATION Spec
CONSTANTS
    None = None
    i1 = i1  i2 = i2  c1 = c1  c2 = c2
    e1 = e1  e2 = e2  k1 = k1  k2 = k2
    g1 = g1  d1 = d1  a1 = a1
    Ids = {i1, i2}
    Sessions = {c1, c2}
    Operators = {e1, e2}
    Keys = {k1, k2}
    Grantees = {g1}
    Drives = {d1}
    Senders = {a1}
    Holds <- MCHolds
    MimeOf <- MCMimeOf
    Registered = {"add_grantee", "add_approval_user", "authorize_grantee_email"}
    Requested <- AllJobs
    BootEmail = e1
    BootKey = k1
    MaxFaults = 1
    MaxCrashes = 1
CONSTRAINT Instances
SYMMETRY RowsAndSessions
INVARIANTS
    TypeOK
    DispatchWasConfirmed
    OutcomeIsApproversOwn
    ReceiptIsExclusive
    DispatchSettles
PROPERTY
    ImplementsQueue

\* One folder, rebuilt once, one failing call: a message, an answer that cannot be parsed, other mail.
SPECIFICATION Spec
CONSTRAINT InOrder
CONSTANTS
    None = None  Absent = Absent
    m1 = m1  m2 = m2  m3 = m3  m4 = m4  a1 = a1  a2 = a2  g1 = g1  g2 = g2
    f1 = f1  f2 = f2
    Folders = {f1}
    Messages = {m1, m2, m3}
    Senders = {a1, a2}
    Grantees = {g1, g2}
    From <- OneFrom
    Refs <- OneRefs
    NoHeaderId = {m3}
    Unparsable = {m2}
    Arriving <- OneArriving
    Grants <- FirstOnly
    MaxRebuilds = 1
    MaxFailed = 1
INVARIANTS
    TypeOK
    NothingSteppedOver
    PromotionFollowsInsert

\* Two workers on a message and its answer, or one on a conversation in two threads and other mail.
SPECIFICATION Spec
CONSTRAINT Instances
CONSTANTS
    None = None  Absent = Absent
    m1 = m1  m2 = m2  m3 = m3  m4 = m4  a1 = a1  a2 = a2  g1 = g1  g2 = g2
    f1 = f1  f2 = f2
    Folders = {f1, f2}
    Messages = {m1, m2, m3, m4}
    Senders = {a1, a2}
    Grantees = {g1, g2}
    From <- MailFrom
    Refs <- MailRefs
    NoHeaderId = {}
    Unparsable = {}
    Arriving <- CopyArriving
    Grants <- EachItsOwn
    MaxRebuilds = 0
    MaxFailed = 0
INVARIANTS
    ThreadTagReachesMail
    AuthorizedMailTagged
    TagsStayInConversation
    PromotionFollowsInsert

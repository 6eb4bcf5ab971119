\* One document; one pod with two grantees, or two pods that overlap (OneOrTwoPods).
SPECIFICATION Spec
CONSTANTS
    None = None
    p1 = p1  p2 = p2  g1 = g1  g2 = g2  s1 = s1  s2 = s2
    Pods = {p1, p2}
    Docs = {d1}
    Grantees = {g1, g2}
    Sources = {s1, s2}
    Grants <- EachItsOwn
    TicksPerSecond = 2
    MaxTime = 3
    MaxCycles = 3
SYMMETRY PodSymmetry
CONSTRAINT OneOrTwoPods
INVARIANTS
    TypeOK
    RowsComeFromGrants
    UnchangedMeansCurrent
    CalmCycleServesDrive
    OnePodMarksUnseenStale

\* One pod, one document that was last edited half a second past a second.
SPECIFICATION Spec
CONSTANTS
    None = None
    p1 = p1  p2 = p2  g1 = g1  g2 = g2  s1 = s1  s2 = s2
    Pods = {p1}
    Docs = {d1}
    Grantees = {g1}
    Sources = {s1}
    Grants <- FirstOnly
    TicksPerSecond = 2
    MaxTime = 1
    MaxCycles = 2
INVARIANTS
    SameTimeIsNoOp

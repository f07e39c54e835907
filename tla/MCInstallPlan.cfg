CONSTANTS
    a = a
    b = b
    c = c
    d = d
    e = e
    Vertex = {a, b, c}
    Feat = {d, e}
    Core = Core
    Default = Default
    Star = Star
    History <- MCHistory
    Requests <- MCRequests
    MaxCommands = 3
SPECIFICATION FairPlans
INVARIANT DbInv
INVARIANT PlanBuilds
INVARIANT PlanIsLeast
PROPERTY PlanEnds
CHECK_DEADLOCK FALSE

CONSTANTS
    a = a
    b = b
    c = c
    t = t
    h = h
    One = One
    Target = t
    Host = h
    NoProvider = NoProvider
    Nothing = Nothing
    ABI <- Specs
    Dir <- Specs
    Providers <- MCProviders
    NoPrecheck = {}
    Writable = {One}
    Cached <- MCCached
    Needs <- MCNeeds
    Orders <- MCOrders
    Behaviours <- MCBehaviours
    Inputs <- MCInputs
    MaxRuns = 2
SPECIFICATION CiRuns
INVARIANT CiInv
INVARIANT CatchesBreakage
INVARIANT NoFalseAlarm
CHECK_DEADLOCK FALSE

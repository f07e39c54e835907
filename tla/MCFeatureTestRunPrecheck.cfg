CONSTANTS
    p0 = p0
    pA = pA
    pB = pB
    d0 = d0
    dX = dX
    e0 = e0
    q0 = q0
    One = One
    Two = Two
    NoProvider = NoProvider
    Nothing = Nothing
    ABI = {p0, pA, pB, d0, dX, e0, q0}
    Dir <- Dirs
    Providers <- TwoProviders
    NoPrecheck = {}
    Cached <- MCCached
    Writable = {One}
    Tests <- MCTests
    Needs <- MCNeeds
    Behaviours <- MCBehaviours
    Leftovers <- MCLeftovers
    Expectations <- MCExpectations
SPECIFICATION FairRun
CHECK_DEADLOCK FALSE
INVARIANT PrecheckTells

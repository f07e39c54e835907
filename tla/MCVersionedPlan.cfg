CONSTANTS
    a = a
    b = b
    c = c
    x = x
    y = y
    target = target
    host = host
    Port <- MCPort
    Triplet <- All
    HostTriplet = host
    Core = Core
    FeatureNames <- MCFeatures
    None = None
    Overlay = Overlay
    Manifests <- MCManifests
SPECIFICATION FairVersioned
INVARIANT VersionedInv
INVARIANT PlanInOrder
INVARIANT PlanHasFeatures
INVARIANT ErrorsAreReal
INVARIANT Phase1AsDeclared
PROPERTY ResolutionEnds
CHECK_DEADLOCK FALSE

CONSTANTS
    a = a
    b = b
    c = c
    x = x
    y = y
    target = target
    host = host
    Port <- MCPort
    Triplet <- All
    HostTriplet = host
    Core = Core
    FeatureNames <- MCFeatures
    None = None
    Overlay = Overlay
    Manifests <- MCDropping
SPECIFICATION Versioned
INVARIANT ErrorsAreReal
CHECK_DEADLOCK FALSE

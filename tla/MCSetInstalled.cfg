CONSTANTS
    a = a
    b = b
    f = f
    x = x
    Pkg = {a, b}
    Feat = {f}
    File = {x}
    Core = Core
    Absent = Absent
    NoPkg = NoPkg
    Contents <- MCContents
    Needs <- MCNeeds
    Requests <- MCRequests
    KeepGoing = {TRUE, FALSE}
SPECIFICATION MCSpec
INVARIANT SetInv
INVARIANT DependenciesStay
INVARIANT ExactUnlessKilled
PROPERTY KeepsWhatMatches
PROPERTY Ends

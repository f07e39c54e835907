CONSTANTS
    p1 = p1
    p2 = p2
    Proc = {p1, p2}
    Spec = {core, feature}
    State = {half, installed}
    core = core
    feature = feature
    half = half
    installed = installed
    Absent = Absent
    NoProc = NoProc
    NoFile = NoFile
    Torn = Torn
    Incomplete = Incomplete
    MaxUpdates = 2
    q = q
    Others = {q}
    InstalledLock = InstalledLock
    theirs = theirs
    buildtrees = buildtrees
    LockFile = {InstalledLock, theirs, buildtrees}
    LockFiles <- MCLockFiles
    WaitForLock = {p1, q}
    Inode = Inode
    Spare = Spare
    Children = Children
    NotOpen = NotOpen
SPECIFICATION FairDatabase
INVARIANT LockedInv
INVARIANT ReplayIsInsertInOrder
PROPERTY DurableMap
PROPERTY CommandsProceed

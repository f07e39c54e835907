-------------------------- MODULE MCInstalledDatabase --------------------------
(***************************************************************************)
(* InstalledDatabase with its lock files for TLC: two processes, two       *)
(* paragraphs, two states; a third process shares only the build locks.    *)
(***************************************************************************)
EXTENDS RunningLocks

CONSTANTS p1, p2, q, theirs, buildtrees

MCLockFiles ==
    [p \in {p1, p2, q} |-> <<IF p = q THEN theirs ELSE InstalledLock, buildtrees>>]
================================================================================

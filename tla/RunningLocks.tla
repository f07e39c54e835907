------------------------------ MODULE RunningLocks ------------------------------
(***************************************************************************)
(* The lock files of InstalledDatabase (InstalledDatabaseLockImpl and, on  *)
(* POSIX, ExclusiveFileLock of base/files.cpp).  A command opens and locks *)
(* the vcpkg-running.lock of the installed tree, then those of buildtrees  *)
(* and packages.  flock locks the file that was opened, whatever has       *)
(* become of its name, and the lock is passed on to child processes, which *)
(* inherit the descriptor: it is free when vcpkg and all of them are gone. *)
(*                                                                         *)
(* Others are vcpkg processes with another installed tree and the same     *)
(* buildtrees and packages.  The lock files of a process are distinct.     *)
(***************************************************************************)
EXTENDS InstalledDatabase, Sequences

CONSTANTS Others,
          LockFile, InstalledLock,
          LockFiles,      \* the lock files of each process, in the order it takes them
          WaitForLock,    \* the processes with --x-wait-for-lock
          Inode, Spare,   \* a lock file as it is created, and a new one under the same name
          Children,       \* child processes that outlive vcpkg
          NotOpen

Command == Proc \cup Others
Holder == Command \cup {NoProc, Children}

ASSUME LocksAssumption ==
    /\ LockFiles \in [Command -> Seq(LockFile)]
    /\ \A p \in Proc : LockFiles[p] # <<>> /\ LockFiles[p][1] = InstalledLock
    /\ \A p \in Command : \A i, j \in DOMAIN LockFiles[p] : LockFiles[p][i] = LockFiles[p][j] => i = j
    /\ NoProc \notin Command /\ Children \notin Command /\ Children # NoProc
    /\ Inode # Spare /\ NotOpen \notin {Inode, Spare}

VARIABLES
    inode,     \* the file that each lock file's name stands for
    flocked,   \* who holds the lock of each file
    opened,    \* fd of the lock that each process is trying to take
    taken      \* m_locks: how many locks each process has

lockVars == <<inode, flocked, opened, taken>>

InitLocks ==
    /\ Init
    /\ inode = [f \in LockFile |-> Inode]
    /\ flocked = [f \in LockFile |-> [i \in {Inode, Spare} |-> NoProc]]
    /\ opened = [p \in Command |-> NotOpen]
    /\ taken = [p \in Command |-> 0]

Taking(p) == taken[p] < Len(LockFiles[p])

\* Fault: the loop over the extra lock files starts with the first one again.
FaultyTarget(p) == LockFiles[p][IF taken[p] = 0 THEN 1 ELSE taken[p]]

Target(p) == LockFiles[p][taken[p] + 1]
Free(p) == flocked[Target(p)][opened[p]] = NoProc

\* The next lock file is opened or created; the lock is not taken yet.
Open(p) ==
    /\ Taking(p) /\ opened[p] = NotOpen
    /\ opened' = [opened EXCEPT ![p] = inode[Target(p)]]
    /\ UNCHANGED <<inode, flocked, taken, vars>>

\* lock_attempt succeeds.  With its last lock a process goes on to the database; what the others do
\* does not matter here.
Flock(p) ==
    /\ Taking(p) /\ opened[p] # NotOpen /\ Free(p)
    /\ flocked' = [flocked EXCEPT ![Target(p)][opened[p]] = p]
    /\ opened' = [opened EXCEPT ![p] = NotOpen]
    /\ taken' = [taken EXCEPT ![p] = @ + 1]
    /\ IF p \in Proc /\ taken[p] + 1 = Len(LockFiles[p])
       THEN /\ lock' = p
            /\ Goto(p, "locked")
            /\ UNCHANGED <<disk, nextId, merged, db, toRemove, pending>>
       ELSE UNCHANGED vars
    /\ UNCHANGED inode

PassTo(p, heir) ==
    flocked' = [f \in LockFile |-> [i \in {Inode, Spare} |->
                   IF flocked[f][i] = p THEN heir ELSE flocked[f][i]]]

\* Fault: an unlock removes the lock file, which another process may have opened.
FaultyLeave(p, heir) ==
    /\ PassTo(p, heir)
    /\ inode' = [f \in LockFile |-> IF flocked[f][inode[f]] = p THEN Spare ELSE inode[f]]
    /\ opened' = [opened EXCEPT ![p] = NotOpen]
    /\ taken' = [taken EXCEPT ![p] = 0]

\* A process is gone, and its locks with it or in the hands of its children.
Leave(p, heir) ==
    /\ PassTo(p, heir)
    /\ opened' = [opened EXCEPT ![p] = NotOpen]
    /\ taken' = [taken EXCEPT ![p] = 0]
    /\ UNCHANGED inode

\* try_take_exclusive_file_lock gives up after a second and a half, and vcpkg exits.
GiveUp(p) ==
    /\ Taking(p) /\ opened[p] # NotOpen /\ ~ Free(p)
    /\ p \notin WaitForLock
    /\ Leave(p, NoProc)
    /\ UNCHANGED vars

\* It is killed before it has its locks.
KilledEarly(p) ==
    /\ Taking(p) /\ (opened[p] # NotOpen \/ taken[p] > 0)
    /\ Leave(p, NoProc)
    /\ UNCHANGED vars

\* It ends or is killed later, when children may be running.
Ends(p) ==
    /\ ~ Taking(p)
    /\ \E heir \in {NoProc, Children} : Leave(p, heir)
    /\ IF p \in Proc THEN Stop(p) ELSE UNCHANGED vars

ChildrenEnd ==
    /\ \E f \in LockFile, i \in {Inode, Spare} : flocked[f][i] = Children
    /\ PassTo(Children, NoProc)
    /\ UNCHANGED <<inode, opened, taken, vars>>

NextLocks ==
    \/ \E p \in Command : Open(p) \/ Flock(p) \/ GiveUp(p) \/ KilledEarly(p) \/ Ends(p)
    \/ ChildrenEnd
    \/ \E p \in Proc : Work(p) /\ UNCHANGED lockVars

LockedDatabase == InitLocks /\ [][NextLocks]_<<vars, lockVars>>

\* A process goes on with what it has begun, but none need be started: it polls once a second
\* (take_exclusive_file_lock), or with growing pauses until it gives up, and comes to the end of a sync.
FairDatabase ==
    /\ LockedDatabase
    /\ \A p \in Command : WF_<<vars, lockVars>>((Open(p) /\ taken[p] > 0) \/ Flock(p) \/ GiveUp(p))
    /\ \A p \in Proc : WF_<<vars, lockVars>>(SyncStep(p) /\ UNCHANGED lockVars)

--------------------------------------------------------------------------------
LocksTypeOK ==
    /\ inode = [f \in LockFile |-> Inode]
    /\ flocked \in [LockFile -> [{Inode, Spare} -> Holder]]
    /\ opened \in [Command -> {Inode, NotOpen}]
    /\ taken \in [Command -> Nat]
    /\ \A p \in Command : taken[p] <= Len(LockFiles[p])

\* Who has taken a lock holds the lock of the file that has the name; who works on the database has
\* taken all its locks.
HoldInv ==
    /\ \A p \in Command : \A i \in 1 .. taken[p] : flocked[LockFiles[p][i]][inode[LockFiles[p][i]]] = p
    /\ \A p \in Proc : pc[p] # "off" <=> ~ Taking(p)

\* Nobody holds a lock but those it counts.
OwnInv ==
    \A p \in Command, f \in LockFile :
        flocked[f][inode[f]] = p => \E i \in 1 .. taken[p] : LockFiles[p][i] = f

LocksInv == LocksTypeOK /\ HoldInv /\ OwnInv

\* There is one order in which every process takes its locks: the directories of two processes do not
\* cross, as they would if what is "buildtrees" to one were "packages" to the other.
LocksInOneOrder ==
    \E last \in Nat : \E rank \in [LockFile -> 0 .. last] :
        \A p \in Command : \A i, j \in DOMAIN LockFiles[p] :
            i < j => rank[LockFiles[p][i]] < rank[LockFiles[p][j]]

WaitsFor(p, q) == Taking(p) /\ opened[p] # NotOpen /\ flocked[Target(p)][opened[p]] = q

\* Among any processes there is one that does not wait for another of them: no cycle of processes that
\* poll for ever, each for a lock that the next one has (--x-wait-for-lock, files.cpp:4285-4315).
NoCircularWait ==
    \A some \in SUBSET Command : some # {} => \E p \in some : \A q \in some : ~ WaitsFor(p, q)

\* One process at a time is at work on the database, whoever polls, gives up, is killed or leaves
\* children with its locks; and those that wait do not wait for one another
\* (InstalledDatabaseLockImpl, installeddatabase.cpp:68-142).
LockedInv == Inv /\ LocksInv /\ NoCircularWait

\* Polling does not end in a deadlock: the processes take their locks in one order, so whenever some are
\* waiting, one gets all it needs or gives up, unless children that outlive vcpkg have a lock or processes
\* are killed for ever (InstallAndBuildDatabaseLock: "to force locks to be taken in the correct order").
SomeoneProceeds ==
    \/ []<>(\/ \A p \in Command : opened[p] = NotOpen
           \/ \E p \in Command : ~ Taking(p)
           \/ \E f \in LockFile : flocked[f][inode[f]] = Children)
    \/ []<><<\E p \in Command : KilledEarly(p) /\ ~ GiveUp(p)>>_<<vars, lockVars>>

\* ... and who has its locks comes to the end of every sync.
SyncsEnd == []<>(\A p \in Proc : pc[p] \notin {"syncUpdates", "syncCreate", "syncWrite", "syncRename", "syncRemove"})

CommandsProceed == SyncsEnd /\ SomeoneProceeds
================================================================================

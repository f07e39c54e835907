--------------------------- MODULE InstalledDatabase ---------------------------
(***************************************************************************)
(* The database of an installed tree (installeddatabase.cpp): the status   *)
(* file, the directory of numbered update files, and the processes that    *)
(* load it, merge it ("sync") and append to it, any of which may be killed *)
(* between two file system operations.                                     *)
(*                                                                         *)
(* A missing status file is read as an empty database, so it is not told   *)
(* apart from an empty one.  A file being written is Torn until the write  *)
(* is over; a rename is atomic.                                            *)
(***************************************************************************)
EXTENDS Naturals

CONSTANTS Proc,         \* vcpkg processes that share one installed tree
          Spec,         \* keys of status paragraphs: a package or one feature of it
          State,        \* install states a paragraph can record
          Absent,       \* "this spec has no paragraph"
          NoProc,       \* nobody holds the lock
          NoFile,       \* the file does not exist
          Torn,         \* the file was created and not completely written
          Incomplete,   \* the name of updates/incomplete among the names of update files
          MaxUpdates    \* bound: updates one process writes

ASSUME ConstantsAssumption ==
    /\ MaxUpdates \in Nat
    /\ NoProc \notin Proc
    /\ Absent \notin State

Ids == 0 .. (MaxUpdates - 1)
Paragraphs == [spec : Spec, state : State]
Maps == [Spec -> State \cup {Absent}]

ASSUME FileAssumption ==
    /\ NoFile \notin Paragraphs /\ Torn \notin Paragraphs
    /\ NoFile \notin Maps /\ Torn \notin Maps
    /\ NoFile # Torn
    /\ Incomplete \notin Ids

VARIABLES
    \* On disk, under <installed>/vcpkg
    status,      \* the paragraphs of the status file
    statusNew,   \* status-new, the file that replaces status
    updates,     \* updates/0000000000, updates/0000000001, ...
    incomplete,  \* updates/incomplete, where an update is written before its rename
    lock,        \* the process that holds vcpkg-running.lock
    \* In each process
    pc,          \* what the process is doing
    nextId,      \* update_id, the static counter of database_write_update
    merged,      \* current_status_db while it is being built
    db,          \* what the last database_load or database_sync returned
    toRemove,    \* update_files: the names listed by apply_database_updates
    pending      \* the paragraph database_write_update was called with

disk == <<status, statusNew, updates, incomplete>>
local == <<pc, nextId, merged, db, toRemove, pending>>
vars == <<disk, lock, local>>

NoMap == [s \in Spec |-> Absent]
Names == Ids \cup {Incomplete}

IdsOf(ups, s) == {i \in Ids : ups[i] # NoFile /\ ups[i].spec = s}
\* Fault: the first update of a spec wins.
FaultyLatest(ids) == CHOOSE i \in ids : \A j \in ids : i <= j

Latest(ids) == CHOOSE i \in ids : \A j \in ids : j <= i

\* The database after the update files are inserted in the order of their names: an insert
\* replaces the paragraph of the same spec, so the latest update of a spec is the one left.
Replay(st, ups) ==
    [s \in Spec |-> IF IdsOf(ups, s) = {} THEN st[s] ELSE ups[Latest(IdsOf(ups, s))].state]

\* The loop of apply_database_updates: one insert after the other in the order of the names, of
\* which the first n have been looked at.
Inserted(st, ups) ==
    LET after[n \in 0 .. MaxUpdates] ==
            IF n = 0 THEN st
            ELSE IF ups[n - 1] = NoFile THEN after[n - 1]
            ELSE [after[n - 1] EXCEPT ![ups[n - 1].spec] = ups[n - 1].state]
    IN  after[MaxUpdates]

\* The names in updates/, the incomplete file included.
Listing == {i \in Ids : updates[i] # NoFile} \cup (IF incomplete = NoFile THEN {} ELSE {Incomplete})

Init ==
    /\ status = NoMap
    /\ statusNew = NoFile
    /\ updates = [i \in Ids |-> NoFile]
    /\ incomplete = NoFile
    /\ lock = NoProc
    /\ pc = [p \in Proc |-> "off"]
    /\ nextId = [p \in Proc |-> 0]
    /\ merged = [p \in Proc |-> NoMap]
    /\ db = [p \in Proc |-> NoMap]
    /\ toRemove = [p \in Proc |-> {}]
    /\ pending = [p \in Proc |-> NoFile]

Goto(p, label) == pc' = [pc EXCEPT ![p] = label]

(***************************************************************************)
(* A new process takes the lock, in one step: RunningLocks has the lock    *)
(* files, and is shown to allow no more.                                   *)
(***************************************************************************)
TakeLock(p) ==
    /\ pc[p] = "off"
    /\ lock = NoProc
    /\ lock' = p
    /\ Goto(p, "locked")
    /\ UNCHANGED <<disk, nextId, merged, db, toRemove, pending>>

\* database_load, of a command that only reads.
LoadStatus(p) ==
    /\ pc[p] = "locked"
    /\ merged' = [merged EXCEPT ![p] = status]
    /\ Goto(p, "loadUpdates")
    /\ UNCHANGED <<disk, lock, nextId, db, toRemove, pending>>

LoadUpdates(p) ==
    /\ pc[p] = "loadUpdates"
    /\ db' = [db EXCEPT ![p] = Replay(merged[p], updates)]
    /\ merged' = [merged EXCEPT ![p] = NoMap]
    /\ Goto(p, "loaded")
    /\ UNCHANGED <<disk, lock, nextId, toRemove, pending>>

\* database_sync, of a command that is about to write, and again when it has written.
SyncStatus(p) ==
    /\ pc[p] \in {"locked", "synced"}
    /\ merged' = [merged EXCEPT ![p] = status]
    /\ Goto(p, "syncUpdates")
    /\ UNCHANGED <<disk, lock, nextId, db, toRemove, pending>>

\* Without any update file the status file is left alone.
SyncNothing(p) ==
    /\ pc[p] = "syncUpdates"
    /\ Listing = {}
    /\ db' = [db EXCEPT ![p] = merged[p]]
    /\ merged' = [merged EXCEPT ![p] = NoMap]
    /\ Goto(p, "synced")
    /\ UNCHANGED <<disk, lock, nextId, toRemove, pending>>

SyncUpdates(p) ==
    /\ pc[p] = "syncUpdates"
    /\ Listing # {}
    /\ merged' = [merged EXCEPT ![p] = Replay(merged[p], updates)]
    /\ toRemove' = [toRemove EXCEPT ![p] = Listing]
    /\ Goto(p, "syncCreate")
    /\ UNCHANGED <<disk, lock, nextId, db, pending>>

SyncCreate(p) ==
    /\ pc[p] = "syncCreate"
    /\ statusNew' = Torn
    /\ Goto(p, "syncWrite")
    /\ UNCHANGED <<status, updates, incomplete, lock, nextId, merged, db, toRemove, pending>>

SyncWrite(p) ==
    /\ pc[p] = "syncWrite"
    /\ statusNew' = merged[p]
    /\ Goto(p, "syncRename")
    /\ UNCHANGED <<status, updates, incomplete, lock, nextId, merged, db, toRemove, pending>>

SyncRename(p) ==
    /\ pc[p] = "syncRename"
    /\ status' = statusNew
    /\ statusNew' = NoFile
    /\ Goto(p, "syncRemove")
    /\ UNCHANGED <<updates, incomplete, lock, nextId, merged, db, toRemove, pending>>

\* Fault: the update files are removed in the reverse order.
FaultyNextToRemove(names) ==
    IF names = {Incomplete}
    THEN Incomplete
    ELSE CHOOSE i \in names \ {Incomplete} : \A j \in names \ {Incomplete} : j <= i

\* The next name to remove: update_files is sorted, and "incomplete" sorts after the digits.
NextToRemove(names) ==
    IF names = {Incomplete}
    THEN Incomplete
    ELSE CHOOSE i \in names \ {Incomplete} : \A j \in names \ {Incomplete} : i <= j

SyncRemove(p) ==
    /\ pc[p] = "syncRemove"
    /\ toRemove[p] # {}
    /\ LET name == NextToRemove(toRemove[p])
       IN  /\ toRemove' = [toRemove EXCEPT ![p] = @ \ {name}]
           /\ updates' = [i \in Ids |-> IF i = name THEN NoFile ELSE updates[i]]
           /\ incomplete' = IF name = Incomplete THEN NoFile ELSE incomplete
    /\ UNCHANGED <<status, statusNew, lock, pc, nextId, merged, db, pending>>

SyncReturn(p) ==
    /\ pc[p] = "syncRemove"
    /\ toRemove[p] = {}
    /\ db' = [db EXCEPT ![p] = merged[p]]
    /\ merged' = [merged EXCEPT ![p] = NoMap]
    /\ Goto(p, "synced")
    /\ UNCHANGED <<disk, lock, nextId, toRemove, pending>>

\* database_write_update.
WriteCreate(p, s, v) ==
    /\ pc[p] = "synced"
    /\ nextId[p] < MaxUpdates
    /\ incomplete' = Torn
    /\ pending' = [pending EXCEPT ![p] = [spec |-> s, state |-> v]]
    /\ Goto(p, "write")
    /\ UNCHANGED <<status, statusNew, updates, lock, nextId, merged, db, toRemove>>

WriteContents(p) ==
    /\ pc[p] = "write"
    /\ incomplete' = pending[p]
    /\ Goto(p, "writeRename")
    /\ UNCHANGED <<status, statusNew, updates, lock, nextId, merged, db, toRemove, pending>>

WriteRename(p) ==
    /\ pc[p] = "writeRename"
    /\ updates' = [updates EXCEPT ![nextId[p]] = incomplete]
    /\ incomplete' = NoFile
    /\ nextId' = [nextId EXCEPT ![p] = @ + 1]
    /\ pending' = [pending EXCEPT ![p] = NoFile]
    /\ Goto(p, "synced")
    /\ UNCHANGED <<status, statusNew, lock, merged, db, toRemove>>

\* The command ends, is killed, or a file system call fails, which ends the process the same
\* way.  Its memory is gone and the operating system releases the lock; the files stay.
Stop(p) ==
    /\ pc[p] # "off"
    /\ lock' = NoProc
    /\ Goto(p, "off")
    /\ nextId' = [nextId EXCEPT ![p] = 0]
    /\ merged' = [merged EXCEPT ![p] = NoMap]
    /\ db' = [db EXCEPT ![p] = NoMap]
    /\ toRemove' = [toRemove EXCEPT ![p] = {}]
    /\ pending' = [pending EXCEPT ![p] = NoFile]
    /\ UNCHANGED disk

SyncStep(p) ==
    \/ SyncNothing(p)
    \/ SyncUpdates(p)
    \/ SyncCreate(p)
    \/ SyncWrite(p)
    \/ SyncRename(p)
    \/ SyncRemove(p)
    \/ SyncReturn(p)

\* What a process does under the lock.
Work(p) ==
    \/ LoadStatus(p)
    \/ LoadUpdates(p)
    \/ SyncStatus(p)
    \/ SyncStep(p)
    \/ \E s \in Spec, v \in State : WriteCreate(p, s, v)
    \/ WriteContents(p)
    \/ WriteRename(p)

Next == \E p \in Proc : TakeLock(p) \/ Work(p) \/ Stop(p)

Database == Init /\ [][Next]_vars

--------------------------------------------------------------------------------
Labels == {"off", "locked", "loadUpdates", "loaded", "synced", "syncUpdates", "syncCreate",
           "syncWrite", "syncRename", "syncRemove", "write", "writeRename"}

TypeOK ==
    /\ status \in Maps
    /\ statusNew \in Maps \cup {NoFile, Torn}
    /\ updates \in [Ids -> Paragraphs \cup {NoFile}]
    /\ incomplete \in Paragraphs \cup {NoFile, Torn}
    /\ lock \in Proc \cup {NoProc}
    /\ pc \in [Proc -> Labels]
    /\ nextId \in [Proc -> 0 .. MaxUpdates]
    /\ merged \in [Proc -> Maps]
    /\ db \in [Proc -> Maps]
    /\ toRemove \in [Proc -> SUBSET Names]
    /\ pending \in [Proc -> Paragraphs \cup {NoFile}]

(***************************************************************************)
(* The inductive invariant.                                                *)
(***************************************************************************)
\* Only the holder of the lock is past the lock.
LockInv == \A p \in Proc : pc[p] # "off" <=> lock = p

\* What a load or a sync has read so far is still what the disk holds.
MergeInv ==
    \A p \in Proc :
        /\ pc[p] \in {"loadUpdates", "syncUpdates"} => merged[p] = status
        /\ pc[p] \in {"syncCreate", "syncWrite", "syncRename"} => merged[p] = Replay(status, updates)
        /\ pc[p] = "syncRename" => statusNew = merged[p]
        /\ pc[p] \in {"syncCreate", "syncWrite", "syncRename", "syncRemove"} => toRemove[p] = Listing

\* While the update files are removed the status file already holds what they say, whichever
\* of them are left.
RemoveInv ==
    \A p \in Proc :
        pc[p] = "syncRemove" => /\ merged[p] = status
                                /\ Replay(status, updates) = status

\* A process that may write numbers its updates above all that exist.
FreshIdInv ==
    \A p \in Proc :
        /\ pc[p] \in {"synced", "write", "writeRename"} =>
               \A i \in Ids : updates[i] # NoFile => i < nextId[p]
        /\ IF pc[p] \in {"write", "writeRename"}
           THEN pending[p] \in Paragraphs /\ nextId[p] < MaxUpdates
           ELSE pending[p] = NoFile
        /\ pc[p] = "writeRename" => incomplete = pending[p]

Inv ==
    /\ TypeOK
    /\ LockInv
    /\ MergeInv
    /\ RemoveInv
    /\ FreshIdInv

(***************************************************************************)
(* Properties.                                                             *)
(***************************************************************************)
\* The status file with its updates is one durable map: a paragraph is recorded at the rename
\* of its update file and at no other step, and no kill, merge or removal of update files loses
\* or revives one (the promise of installedpaths.h, lines 55-58).
Abstract == INSTANCE StatusStore WITH
    store <- Replay(status, updates),
    holder <- lock,
    view <- db,
    request <- pending

DurableMap == Abstract!Store

\* Replay, which takes the last update of each spec, is what the loop over the sorted update
\* files computes, whatever a crash or a half-done merge has left in the directory.
ReplayIsInsertInOrder == Replay(status, updates) = Inserted(status, updates)

\* The rename of database_write_update never replaces an update file that is already there,
\* although the ids of every process start at 0 again.
NoUpdateReplaced ==
    [][\A i \in Ids : updates[i] # NoFile => updates'[i] \in {updates[i], NoFile}]_vars

\* A database_sync that returns leaves no update file, complete or not, and the status file
\* alone is what it returns.
SyncEmptiesUpdates ==
    [][\A p \in Proc :
          (pc[p] \in {"syncUpdates", "syncRemove"} /\ pc'[p] = "synced") =>
              Listing' = {} /\ db'[p] = status']_vars
================================================================================

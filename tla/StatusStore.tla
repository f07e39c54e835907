------------------------------ MODULE StatusStore ------------------------------
(***************************************************************************)
(* What the installed database promises to the commands of vcpkg: a map    *)
(* from package and feature specs to their install state, guarded by one   *)
(* exclusive lock.  A write takes effect at one instant and is never lost; *)
(* a load or a sync returns the map as it is.  Killing a process only      *)
(* releases its lock.  InstalledDatabase implements this map with a status *)
(* file and a directory of numbered update files.                          *)
(***************************************************************************)
CONSTANTS Proc,     \* vcpkg processes that share one installed tree
          Spec,     \* keys of status paragraphs: a package or one feature of it
          State,    \* install states a paragraph can record
          Absent,   \* "this spec has no paragraph"
          NoProc,   \* nobody holds the lock
          NoFile    \* no write is asked for

VARIABLES store,    \* the durable map
          holder,   \* the process that holds vcpkg-running.lock
          view,     \* what the last load or sync of each process returned
          request   \* the paragraph each process has asked to write and not yet recorded

vars == <<store, holder, view, request>>

Init ==
    /\ store = [s \in Spec |-> Absent]
    /\ holder = NoProc
    /\ view = [p \in Proc |-> [s \in Spec |-> Absent]]
    /\ request = [p \in Proc |-> NoFile]

Acquire(p) ==
    /\ holder = NoProc
    /\ holder' = p
    /\ UNCHANGED <<store, view, request>>

Load(p) ==
    /\ holder = p
    /\ view' = [view EXCEPT ![p] = store]
    /\ UNCHANGED <<store, holder, request>>

Ask(p, s, v) ==
    /\ holder = p
    /\ request[p] = NoFile
    /\ request' = [request EXCEPT ![p] = [spec |-> s, state |-> v]]
    /\ UNCHANGED <<store, holder, view>>

\* The one step at which the map changes.
Record(p) ==
    /\ holder = p
    /\ request[p] # NoFile
    /\ store' = [store EXCEPT ![request[p].spec] = request[p].state]
    /\ request' = [request EXCEPT ![p] = NoFile]
    /\ UNCHANGED <<holder, view>>

\* The process exits or is killed: it forgets what it loaded, the map stays.
Release(p) ==
    /\ holder = p
    /\ holder' = NoProc
    /\ view' = [view EXCEPT ![p] = [s \in Spec |-> Absent]]
    /\ request' = [request EXCEPT ![p] = NoFile]
    /\ UNCHANGED store

Next ==
    \E p \in Proc :
        \/ Acquire(p)
        \/ Load(p)
        \/ \E s \in Spec, v \in State : Ask(p, s, v)
        \/ Record(p)
        \/ Release(p)

Store == Init /\ [][Next]_vars
================================================================================

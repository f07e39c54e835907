-------------------------- MODULE BackgroundWorkQueue --------------------------
(***************************************************************************)
(* BackgroundWorkQueue (background-work-queue.h): a producer pushes work,  *)
(* consumers take all of it at once, and wait on a condition variable when *)
(* there is none.  Each step is one critical section of m_mtx; a consumer  *)
(* in the condition variable's wait set runs again when it is notified,    *)
(* or spuriously.                                                          *)
(***************************************************************************)
EXTENDS Naturals, Sequences

CONSTANTS Item,       \* pieces of work
          Consumer,   \* threads that call get_work
          MaxQueued   \* bound: the pieces of work in the queue at once

ASSUME QueueAssumption == Consumer # {} /\ MaxQueued \in Nat

VARIABLES
    m_tasks,    \* the work pushed and not yet taken
    m_running,  \* stop has not been called
    waiting,    \* the consumers in m_cv's wait set
    at,         \* what each consumer is doing
    out         \* the work each consumer has taken and not yet done

queueVars == <<m_tasks, m_running, waiting, at, out>>

InitQueue ==
    /\ m_tasks = <<>>
    /\ m_running = TRUE
    /\ waiting = {}
    /\ at = [c \in Consumer |-> "calling"]
    /\ out = [c \in Consumer |-> <<>>]

\* m_cv.notify_one: one of the waiting consumers, if there is any.
NotifyOne == waiting' \in IF waiting = {} THEN {{}} ELSE {waiting \ {c} : c \in waiting}

Push(item) ==
    /\ m_tasks' = Append(m_tasks, item)
    /\ NotifyOne
    /\ UNCHANGED <<m_running, at, out>>

\* get_work takes everything.
TakeAll(c) ==
    /\ at[c] = "calling" /\ c \notin waiting
    /\ m_tasks # <<>>
    /\ out' = [out EXCEPT ![c] = m_tasks]
    /\ m_tasks' = <<>>
    /\ at' = [at EXCEPT ![c] = "working"]
    /\ UNCHANGED <<m_running, waiting>>

ReturnFalse(c) ==
    /\ at[c] = "calling" /\ c \notin waiting
    /\ m_tasks = <<>>
    /\ ~ m_running
    /\ at' = [at EXCEPT ![c] = "ended"]
    /\ UNCHANGED <<m_tasks, m_running, waiting, out>>

Wait(c) ==
    /\ at[c] = "calling" /\ c \notin waiting
    /\ m_tasks = <<>>
    /\ m_running
    /\ waiting' = waiting \cup {c}
    /\ UNCHANGED <<m_tasks, m_running, at, out>>

Wake(c) ==
    /\ c \in waiting
    /\ waiting' = waiting \ {c}
    /\ UNCHANGED <<m_tasks, m_running, at, out>>

\* The consumer's loop over what it has taken.
DoItem(c) ==
    /\ at[c] = "working"
    /\ out' = [out EXCEPT ![c] = Tail(@)]
    /\ at' = [at EXCEPT ![c] = IF Len(out[c]) = 1 THEN "calling" ELSE "working"]
    /\ UNCHANGED <<m_tasks, m_running, waiting>>

\* Fault: nobody is notified.
FaultyStopQueue ==
    /\ m_running' = FALSE
    /\ UNCHANGED <<m_tasks, waiting, at, out>>

\* stop.
StopQueue ==
    /\ m_running' = FALSE
    /\ waiting' = {}
    /\ UNCHANGED <<m_tasks, at, out>>

GetWork(c) == TakeAll(c) \/ ReturnFalse(c) \/ Wait(c)

NextQueue ==
    \/ \E item \in Item : m_running /\ Len(m_tasks) < MaxQueued /\ Push(item)
    \/ StopQueue
    \/ \E c \in Consumer : GetWork(c) \/ Wake(c) \/ DoItem(c)

Queue == InitQueue /\ [][NextQueue]_queueVars

--------------------------------------------------------------------------------
QueueTypeOK ==
    /\ m_tasks \in Seq(Item)
    /\ m_running \in BOOLEAN
    /\ waiting \in SUBSET Consumer
    /\ at \in [Consumer -> {"calling", "working", "ended"}]
    /\ out \in [Consumer -> Seq(Item)]

\* No wake-up is lost: while there is work some consumer is awake to take it, and once stop was
\* called nobody waits.
NoLostWakeup ==
    /\ m_tasks # <<>> => \E c \in Consumer : c \notin waiting /\ at[c] # "ended"
    /\ ~ m_running => waiting = {}

\* A waiting consumer is inside get_work, and none ends before stop.
QueueInv ==
    /\ QueueTypeOK
    /\ NoLostWakeup
    /\ \A c \in Consumer : at[c] = "working" <=> out[c] # <<>>
    /\ \A c \in waiting : at[c] = "calling"
    /\ m_running => \A c \in Consumer : at[c] # "ended"

\* Work is only left undone while somebody is there to do it: get_work returns false when there is
\* none left, not when stop was called.
DrainedAtEnd == (\A c \in Consumer : at[c] = "ended") => m_tasks = <<>>
================================================================================

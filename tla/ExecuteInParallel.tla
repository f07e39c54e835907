--------------------------- MODULE ExecuteInParallel ---------------------------
(***************************************************************************)
(* execute_in_parallel (parallel-algorithms.h): a number of threads share  *)
(* one counter, next_offset, and each takes the next piece of work by a    *)
(* fetch_add until there is none left.  The installer copies the files of  *)
(* a package this way, and the binary cache unpacks its archives.          *)
(*                                                                         *)
(* Thread 0 is the caller.  The others may begin at any time until the     *)
(* caller joins them, or not at all: on POSIX a thread that cannot be      *)
(* created ends the creation, on Windows the callbacks that have not begun *)
(* are cancelled.                                                          *)
(***************************************************************************)
EXTENDS Integers, FiniteSets

CONSTANTS SizeMax,          \* SIZE_MAX
          work_count,
          max_concurrency,
          Concurrency       \* get_concurrency()

ASSUME CountsAssumption ==
    /\ SizeMax \in Nat
    /\ work_count \in 2 .. SizeMax    \* less is done without threads
    /\ max_concurrency \in Nat \ {0}
    /\ Concurrency \in Nat \ {0}

Offsets == 0 .. (work_count - 1)

\* max_threads, the least of four numbers, the last "to avoid overflow in fetch_add".
IsMaxThreads(n) ==
    /\ n \in {work_count, max_concurrency, Concurrency, SizeMax - work_count + 1}
    /\ \A m \in {work_count, max_concurrency, Concurrency, SizeMax - work_count + 1} : n <= m

VARIABLES
    next_offset,
    threads,    \* max_threads
    doing,      \* what each thread is doing
    offset,     \* the piece of work each thread has taken
    runs        \* how often each piece of work was begun

parallelVars == <<next_offset, threads, doing, offset, runs>>

Worker == 0 .. (SizeMax - 1)

ParallelInit ==
    /\ threads \in {n \in 1 .. SizeMax : IsMaxThreads(n)}
    /\ next_offset = 0
    /\ doing = [t \in Worker |-> IF t = 0 THEN "take" ELSE IF t < threads THEN "new" ELSE "ended"]
    /\ offset = [t \in Worker |-> 0]
    /\ runs = [i \in Offsets |-> 0]

Begin(t) ==
    /\ doing[t] = "new"
    /\ doing' = [doing EXCEPT ![t] = "take"]
    /\ UNCHANGED <<next_offset, threads, offset, runs>>

\* The thread was never created, or is cancelled while the caller joins.
NeverBegin(t) ==
    /\ doing[t] = "new"
    /\ doing' = [doing EXCEPT ![t] = "ended"]
    /\ UNCHANGED <<next_offset, threads, offset, runs>>

\* fetch_add wraps around.
Take(t) ==
    /\ doing[t] = "take"
    /\ offset' = [offset EXCEPT ![t] = next_offset]
    /\ next_offset' = (next_offset + 1) % (SizeMax + 1)
    /\ doing' = [doing EXCEPT ![t] = IF next_offset >= work_count THEN "left" ELSE "work"]
    /\ UNCHANGED <<threads, runs>>

Work(t) ==
    /\ doing[t] = "work"
    /\ runs' = [runs EXCEPT ![offset[t]] = @ + 1]
    /\ doing' = [doing EXCEPT ![t] = "busy"]
    /\ UNCHANGED <<next_offset, threads, offset>>

\* work(offset) returns; until then the thread is busy with it.
WorkEnds(t) ==
    /\ doing[t] = "busy"
    /\ doing' = [doing EXCEPT ![t] = "take"]
    /\ UNCHANGED <<next_offset, threads, offset, runs>>

\* run() of a thread that is not the caller has returned.
End(t) ==
    /\ t # 0
    /\ doing[t] = "left"
    /\ doing' = [doing EXCEPT ![t] = "ended"]
    /\ UNCHANGED <<next_offset, threads, offset, runs>>

\* Fault: the threads are not joined.
FaultyReturn ==
    /\ doing[0] = "left"
    /\ doing' = [doing EXCEPT ![0] = "ended"]
    /\ UNCHANGED <<next_offset, threads, offset, runs>>

\* Fault: the caller waits for itself too.
FaultySelfJoin ==
    /\ \A t \in Worker : doing[t] = "ended"
    /\ UNCHANGED parallelVars

\* The caller's own run() has returned, and every other thread is joined or cancelled.
Return ==
    /\ doing[0] = "left"
    /\ \A t \in Worker \ {0} : doing[t] = "ended"
    /\ doing' = [doing EXCEPT ![0] = "ended"]
    /\ UNCHANGED <<next_offset, threads, offset, runs>>

ParallelNext ==
    \/ \E t \in Worker : Begin(t) \/ NeverBegin(t) \/ Take(t) \/ Work(t) \/ WorkEnds(t) \/ End(t)
    \/ Return

Parallel == ParallelInit /\ [][ParallelNext]_parallelVars

--------------------------------------------------------------------------------
\* The threads that may still read the counter.
Active == {t \in Worker : doing[t] \notin {"left", "ended"}}

\* The pieces of work that were given out.  Once no thread is active the counter may have wrapped.
Taken == {i \in Offsets : i < next_offset \/ Active = {}}

AtWorkOn(t, i) == doing[t] = "work" /\ offset[t] = i

ParallelTypeOK ==
    /\ next_offset \in 0 .. SizeMax
    /\ threads \in 1 .. SizeMax
    /\ doing \in [Worker -> {"new", "take", "work", "busy", "left", "ended"}]
    /\ offset \in [Worker -> 0 .. SizeMax]
    /\ runs \in [Offsets -> {0, 1}]

\* Every active thread can still add one to the counter before it comes back to zero.
RoomInv ==
    \/ Active = {}
    \/ /\ work_count + Cardinality(Active) <= SizeMax + 1
       /\ next_offset + Cardinality(Active) <= SizeMax + 1

\* The caller begins at once, and stops only when all the work is given out.
CallerInv ==
    /\ doing[0] # "new"
    /\ doing[0] \in {"left", "ended"} => Taken = Offsets
    /\ doing[0] = "ended" => \A t \in Worker : doing[t] = "ended"

\* What was given out is done, or one thread is about to begin it.
WorkInv ==
    /\ \A t \in Worker : doing[t] = "work" => offset[t] \in Taken /\ runs[offset[t]] = 0
    /\ \A t, u \in Worker : doing[t] = "work" /\ doing[u] = "work" /\ offset[t] = offset[u] => t = u
    /\ \A i \in Taken : runs[i] = 0 => \E t \in Worker : AtWorkOn(t, i)
    /\ \A i \in Offsets \ Taken : runs[i] = 0

\* The inductive invariant.
ParallelInv == ParallelTypeOK /\ RoomInv /\ CallerInv /\ WorkInv

\* No piece of work is done twice, and whoever is about to begin one has it to himself: the
\* counter never comes back to a number below work_count while a thread may read it.
OnceEach ==
    [][\A t \in Worker : Take(t) /\ next_offset \in Offsets =>
            runs[next_offset] = 0 /\ \A u \in Worker : ~AtWorkOn(u, next_offset)]_parallelVars

\* When execute_in_parallel returns, every piece of work is done and no thread uses its context.
AllDone ==
    doing[0] = "ended" =>
        /\ \A i \in Offsets : runs[i] = 1
        /\ \A t \in Worker : doing[t] = "ended"
================================================================================

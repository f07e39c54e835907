--------------------------------- MODULE CtrlC ---------------------------------
(***************************************************************************)
(* Ctrl-C on Windows while vcpkg runs other programs (CtrlCStateMachine    *)
(* and SpawnProcessGuard in system.process.cpp, final_cleanup_and_exit in  *)
(* checks.cpp).  Every thread that runs a program counts itself in         *)
(* m_number_of_external_processes; the handler, on a thread of its own,    *)
(* adds INT_MIN, so that no further program is started and the last one to *)
(* end takes vcpkg with it.                                                *)
(*                                                                         *)
(* Closing the last handle of the job object kills all processes in it,    *)
(* vcpkg included (JOB_OBJECT_LIMIT_KILL_ON_JOB_CLOSE).  Without a job     *)
(* object a program lives on when vcpkg exits.                             *)
(***************************************************************************)
EXTENDS Integers, FiniteSets

CONSTANTS Thread,     \* the threads of vcpkg that run programs
          Main,       \* the thread of the command: it may end the process, or run a shell (vcpkg env)
          IntMin,     \* INT_MIN
          MaxCtrlC    \* bound: how often Ctrl-C is hit

ASSUME ThreadAssumption ==
    /\ Main \in Thread
    /\ IsFiniteSet(Thread)
    /\ IntMin \in Int /\ IntMin + Cardinality(Thread) < 0
    /\ MaxCtrlC \in Nat

VARIABLES
    m_number_of_external_processes,
    m_in_interactive,
    m_global_job,   \* "open", or "none" when it was closed or could not be made
    have_entered,   \* somebody is in final_cleanup_and_exit
    stage,          \* what each thread is doing
    cur,            \* its copy of the counter in the loop around the exchange
    child,          \* the threads whose program is running
    handler,        \* what the Ctrl-C handler is doing
    old,            \* old_value, its copy of the counter
    hits,           \* how often Ctrl-C was hit
    alive           \* vcpkg runs

threadVars == <<stage, cur, child>>
handlerVars == <<handler, old, hits>>
vars == <<m_number_of_external_processes, m_in_interactive, m_global_job, have_entered, threadVars,
          handlerVars, alive>>

Init ==
    /\ m_number_of_external_processes = 0
    /\ m_in_interactive = 0
    /\ m_global_job \in {"open", "none"}
    /\ have_entered = FALSE
    /\ stage = [t \in Thread |-> "free"]
    /\ cur = [t \in Thread |-> 0]
    /\ child = {}
    /\ handler = "idle" /\ old = 0 /\ hits = 0
    /\ alive = TRUE

\* The process ends; its last handle of the job object goes with it.
Terminate ==
    /\ alive' = FALSE
    /\ child' = IF m_global_job = "open" THEN {} ELSE child

\* final_cleanup_and_exit: whoever comes second ends the process at once.
EnterCleanup ==
    /\ have_entered' = TRUE
    /\ IF have_entered THEN Terminate ELSE UNCHANGED <<alive, child>>

(***************************************************************************)
(* The threads.                                                            *)
(***************************************************************************)
SetStage(t, label) == stage' = [stage EXCEPT ![t] = label]

\* A program is to be run; the command's thread may declare it interactive before.
BeginSpawn(t) ==
    /\ stage[t] = "free"
    /\ m_in_interactive' \in {m_in_interactive, IF t = Main THEN 1 ELSE m_in_interactive}
    /\ cur' = [cur EXCEPT ![t] = 0]
    /\ SetStage(t, "spawn")
    /\ UNCHANGED <<m_number_of_external_processes, m_global_job, have_entered, child, handlerVars, alive>>

\* transition_to_spawn_process: compare_exchange_strong succeeds, or loads the counter again.
CountIn(t) ==
    /\ stage[t] = "spawn"
    /\ m_number_of_external_processes = cur[t]
    /\ m_number_of_external_processes' = cur[t] + 1
    /\ cur' = [cur EXCEPT ![t] = 0]   \* cur is out of scope
    /\ SetStage(t, "create")
    /\ UNCHANGED <<m_in_interactive, m_global_job, have_entered, child, handlerVars, alive>>

CountInFails(t) ==
    /\ stage[t] = "spawn"
    /\ m_number_of_external_processes # cur[t]
    /\ cur' = [cur EXCEPT ![t] = m_number_of_external_processes]
    /\ SetStage(t, IF cur'[t] < 0 THEN "asleep" ELSE "spawn")
    /\ UNCHANGED <<m_number_of_external_processes, m_in_interactive, m_global_job, have_entered, child,
                   handlerVars, alive>>

\* The program starts, or cannot be started.
CreateProcess(t) ==
    /\ stage[t] = "create"
    /\ child' \in {child, child \cup {t}}
    /\ SetStage(t, "wait")
    /\ UNCHANGED <<m_number_of_external_processes, m_in_interactive, m_global_job, have_entered, cur,
                   handlerVars, alive>>

ChildEnds(t) ==
    /\ t \in child
    /\ child' = child \ {t}
    /\ UNCHANGED <<m_number_of_external_processes, m_in_interactive, m_global_job, have_entered, stage, cur,
                   handlerVars, alive>>

\* Fault: the last program but one is taken for the last.
FaultyCountOut(t) ==
    /\ stage[t] = "wait" /\ t \notin child
    /\ LET previous == m_number_of_external_processes IN
           /\ m_number_of_external_processes' = previous - 1
           /\ \/ /\ previous < 0 /\ previous <= IntMin + 2
                 /\ EnterCleanup
                 /\ SetStage(t, "cleanup")
              \/ /\ previous < 0 /\ previous > IntMin + 2
                 /\ SetStage(t, "asleep")
                 /\ UNCHANGED <<have_entered, child, alive>>
              \/ /\ previous >= 0
                 /\ SetStage(t, IF t = Main /\ m_in_interactive = 1 THEN "left" ELSE "free")
                 /\ UNCHANGED <<have_entered, child, alive>>
    /\ UNCHANGED <<m_in_interactive, m_global_job, cur, handlerVars>>

\* transition_from_spawn_process.
CountOut(t) ==
    /\ stage[t] = "wait" /\ t \notin child
    /\ LET previous == m_number_of_external_processes IN
           /\ m_number_of_external_processes' = previous - 1
           /\ \/ /\ previous = IntMin + 1
                 /\ EnterCleanup
                 /\ SetStage(t, "cleanup")
              \/ /\ previous < 0 /\ previous # IntMin + 1
                 /\ SetStage(t, "asleep")
                 /\ UNCHANGED <<have_entered, child, alive>>
              \/ /\ previous >= 0
                 /\ SetStage(t, IF t = Main /\ m_in_interactive = 1 THEN "left" ELSE "free")
                 /\ UNCHANGED <<have_entered, child, alive>>
    /\ UNCHANGED <<m_in_interactive, m_global_job, cur, handlerVars>>

\* exit_interactive_subprocess.
ExitInteractive ==
    /\ stage[Main] = "left"
    /\ m_in_interactive' = 0
    /\ SetStage(Main, "free")
    /\ UNCHANGED <<m_number_of_external_processes, m_global_job, have_entered, cur, child, handlerVars, alive>>

\* The command is over, or gives up while other threads run programs: Checks::exit_with_code.
Exit ==
    /\ stage[Main] = "free"
    /\ EnterCleanup
    /\ SetStage(Main, "exit")
    /\ UNCHANGED <<m_number_of_external_processes, m_in_interactive, m_global_job, cur, handlerVars>>

\* on_final_cleanup_and_exit is done.
CleanupEnds(t) ==
    /\ stage[t] \in {"cleanup", "exit"}
    /\ Terminate
    /\ UNCHANGED <<m_number_of_external_processes, m_in_interactive, m_global_job, have_entered, stage, cur,
                   handlerVars>>

(***************************************************************************)
(* transition_handle_ctrl_c.                                               *)
(***************************************************************************)
HitCtrlC ==
    /\ handler = "idle" /\ hits < MaxCtrlC
    /\ hits' = hits + 1
    /\ old' = 0
    /\ handler' = "exchange"
    /\ UNCHANGED <<m_number_of_external_processes, m_in_interactive, m_global_job, have_entered,
                   threadVars, alive>>

\* Fault: the programs that were running are forgotten.
FaultyForbid ==
    /\ handler = "exchange"
    /\ m_number_of_external_processes = old
    /\ m_number_of_external_processes' = IntMin
    /\ handler' = IF old = 0 THEN "cleanup" ELSE "interactive"
    /\ IF old = 0 THEN EnterCleanup ELSE UNCHANGED <<have_entered, child, alive>>
    /\ UNCHANGED <<m_in_interactive, m_global_job, stage, cur, old, hits>>

Forbid ==
    /\ handler = "exchange"
    /\ m_number_of_external_processes = old
    /\ m_number_of_external_processes' = old + IntMin
    /\ handler' = IF old = 0 THEN "cleanup" ELSE "interactive"
    /\ IF old = 0 THEN EnterCleanup ELSE UNCHANGED <<have_entered, child, alive>>
    /\ UNCHANGED <<m_in_interactive, m_global_job, stage, cur, old, hits>>

\* A previous Ctrl-C has been here, or a thread has counted itself.
ForbidFails ==
    /\ handler = "exchange"
    /\ m_number_of_external_processes # old
    /\ old' = m_number_of_external_processes
    /\ handler' = IF old' < 0 THEN "idle" ELSE "exchange"
    /\ UNCHANGED <<m_number_of_external_processes, m_in_interactive, m_global_job, have_entered,
                   threadVars, hits, alive>>

\* Fault: the shell is not spared.
FaultyLookForInteractive ==
    /\ handler = "interactive"
    /\ handler' = "close"
    /\ UNCHANGED <<m_number_of_external_processes, m_in_interactive, m_global_job, have_entered,
                   threadVars, old, hits, alive>>

LookForInteractive ==
    /\ handler = "interactive"
    /\ handler' = IF m_in_interactive = 0 THEN "close" ELSE "idle"
    /\ UNCHANGED <<m_number_of_external_processes, m_in_interactive, m_global_job, have_entered,
                   threadVars, old, hits, alive>>

CloseJob ==
    /\ handler = "close"
    /\ IF m_global_job = "open" THEN Terminate ELSE UNCHANGED <<alive, child>>
    /\ m_global_job' = "none"
    /\ handler' = "idle"
    /\ UNCHANGED <<m_number_of_external_processes, m_in_interactive, have_entered, stage, cur, old, hits>>

HandlerCleanupEnds ==
    /\ handler = "cleanup"
    /\ Terminate
    /\ UNCHANGED <<m_number_of_external_processes, m_in_interactive, m_global_job, have_entered, stage, cur,
                   handlerVars>>

ThreadStep(t) ==
    \/ CountIn(t) \/ CountInFails(t) \/ CreateProcess(t) \/ ChildEnds(t) \/ CountOut(t) \/ CleanupEnds(t)

HandlerStep == Forbid \/ ForbidFails \/ LookForInteractive \/ CloseJob \/ HandlerCleanupEnds

Next ==
    /\ alive
    /\ \/ \E t \in Thread : BeginSpawn(t) \/ ThreadStep(t)
       \/ ExitInteractive
       \/ Exit
       \/ HitCtrlC
       \/ HandlerStep

Machine == Init /\ [][Next]_vars

--------------------------------------------------------------------------------
TypeOK ==
    /\ m_number_of_external_processes \in Int
    /\ m_in_interactive \in {0, 1}
    /\ m_global_job \in {"open", "none"}
    /\ have_entered \in BOOLEAN
    /\ stage \in [Thread -> {"free", "spawn", "create", "wait", "asleep", "left", "cleanup", "exit"}]
    /\ cur \in [Thread -> Int]
    /\ child \in SUBSET Thread
    /\ handler \in {"idle", "exchange", "interactive", "close", "cleanup"}
    /\ old \in Int
    /\ hits \in Nat
    /\ alive \in BOOLEAN

Counted == {t \in Thread : stage[t] \in {"create", "wait"}}
Forbidden == m_number_of_external_processes < 0

\* The counter is the number of threads that start, run or leave a program, and INT_MIN more after
\* the first Ctrl-C.
CounterInv ==
    /\ TypeOK
    /\ m_number_of_external_processes = Cardinality(Counted) + (IF Forbidden THEN IntMin ELSE 0)
    /\ child \subseteq {t \in Thread : stage[t] = "wait"}
    /\ \A t \in Thread : stage[t] = "spawn" => cur[t] >= 0
    /\ \A t \in Thread : stage[t] \in {"asleep", "cleanup"} => Forbidden
    /\ \A t \in Thread : stage[t] = "exit" => t = Main
    /\ handler = "exchange" => old >= 0
    /\ handler \in {"interactive", "close", "cleanup"} => Forbidden

\* The process is ended for Ctrl-C when no program is left, or by closing the job object, and then
\* only if none of them is interactive.
EndInv ==
    /\ handler = "cleanup" \/ (\E t \in Thread : stage[t] = "cleanup") => Counted = {}
    /\ handler = "close" /\ Main \in Counted => m_in_interactive = 0

\* Ctrl-C never leaves a program running after vcpkg: only the command's own exit may.
NoOrphan == ~ alive /\ stage[Main] # "exit" => child = {}

Inv == CounterInv /\ EndInv /\ NoOrphan

\* "If none of the child processes are interactive, use the Job Object to terminate the tree": the
\* shell of vcpkg env is never killed by Ctrl-C, though m_in_interactive is read after the exchange.
ShellSurvives ==
    [][alive /\ ~ alive' /\ Main \in child => m_in_interactive = 0]_vars

\* After Ctrl-C has been handled no thread comes to start a program.
NothingStarted ==
    [][Forbidden => Counted' \subseteq Counted]_vars

\* Ctrl-C ends vcpkg: the threads that sleep for ever are never all there is.
CtrlCEnds == hits > 0 ~> ~ alive
================================================================================

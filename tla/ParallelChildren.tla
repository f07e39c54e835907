---------------------------- MODULE ParallelChildren ----------------------------
(***************************************************************************)
(* Ctrl-C while execute_in_parallel runs a program for each piece of work: *)
(* how a binary cache provider unpacks the packages it has found           *)
(* (ZipReadBinaryProvider::fetch in binarycaching.cpp).  The threads of    *)
(* ExecuteInParallel are threads of CtrlC; other threads, such as the one  *)
(* that uploads packages, run programs on their own, and the caller goes   *)
(* on to run others when execute_in_parallel has returned.                 *)
(*                                                                         *)
(* A thread that Ctrl-C stops sleeps for ever, so the caller may wait for  *)
(* it for ever: only the end of the process ends that.                     *)
(***************************************************************************)
EXTENDS CtrlC, ExecuteInParallel

ASSUME ChildrenAssumption ==
    /\ Main = 0
    /\ Worker \subseteq Thread

allVars == <<vars, parallelVars>>

InitAll == Init /\ ParallelInit

\* The callback cannot prepare the directory, or runs a program to fill it.
WorkStarts(t) ==
    /\ Work(t)
    /\ UNCHANGED vars \/ (BeginSpawn(t) /\ UNCHANGED m_in_interactive)

\* Fault: the callback does not wait for its program.
FaultyWorkReturns(t) ==
    /\ WorkEnds(t)
    /\ UNCHANGED vars

\* The callback returns when its program has ended and is counted out.
WorkReturns(t) ==
    /\ WorkEnds(t)
    /\ stage[t] = "free"
    /\ UNCHANGED vars

WorkerStep(t) ==
    \/ (Begin(t) \/ NeverBegin(t) \/ Take(t) \/ End(t)) /\ UNCHANGED vars
    \/ WorkStarts(t)
    \/ WorkReturns(t)

\* The caller has work of its own before it joins the others, or is done with all of it.
OnItsOwn == doing[Main] \in {"busy", "ended"}

\* Whoever is no worker, or is done being one, runs programs as it likes.
OtherSpawn(t) ==
    /\ t \in Worker => t = Main /\ doing[Main] = "ended"
    /\ BeginSpawn(t)

NextAll ==
    /\ alive
    /\ \/ \E t \in Worker : WorkerStep(t)
       \/ Return /\ UNCHANGED vars
       \/ /\ UNCHANGED parallelVars
          /\ \/ \E t \in Thread : OtherSpawn(t) \/ ThreadStep(t)
             \/ ExitInteractive
             \/ OnItsOwn /\ Exit
             \/ HitCtrlC
             \/ HandlerStep

All == InitAll /\ [][NextAll]_allVars

\* Threads and the handler run, and programs end.  No exchange is overtaken for ever: each failure
\* takes another thread a program, and the others do not start and end programs without end in the
\* instant between a load and an exchange.
FairAll ==
    /\ All
    /\ \A t \in Worker : WF_allVars(alive /\ WorkerStep(t))
    /\ WF_allVars(alive /\ Return /\ UNCHANGED vars)
    /\ \A t \in Thread : WF_allVars(alive /\ ThreadStep(t) /\ UNCHANGED parallelVars)
    /\ WF_allVars(/\ alive
                  /\ ForbidFails \/ LookForInteractive \/ CloseJob \/ HandlerCleanupEnds
                  /\ UNCHANGED parallelVars)
    /\ SF_allVars(alive /\ Forbid /\ UNCHANGED parallelVars)
    /\ \A t \in Worker : SF_allVars(alive /\ CountIn(t) /\ UNCHANGED parallelVars)

--------------------------------------------------------------------------------
\* A worker is busy with a piece of work as long as its program is not counted out.
BusyInv == \A t \in Worker : stage[t] # "free" => doing[t] = "busy" \/ (t = Main /\ doing[t] = "ended")

\* When execute_in_parallel returns all the work is done, and no program that was run for it is
\* left: whatever it wrote is there, whoever hit Ctrl-C in the meantime.
NoneLeftBehind ==
    doing[Main] = "ended" =>
        /\ AllDone
        /\ child \cap Worker \subseteq {Main}

\* execute_in_parallel returns, or Ctrl-C ends the process: the caller never waits for threads that
\* are asleep in a process that goes on.
ReturnsOrEnds == <>(doing[Main] = "ended" \/ ~ alive)
================================================================================

--------------------------- MODULE SubmissionCounts ---------------------------
(***************************************************************************)
(* What BinaryCacheSynchronizer promises, in the words of its header       *)
(* ("This is morally: struct State"): two counters and a flag that several *)
(* threads change, each change being one step.                             *)
(***************************************************************************)
EXTENDS Naturals

CONSTANT MaxJobs

VARIABLES jobs_submitted, jobs_completed, submission_complete, full, exceeded

countVars == <<jobs_submitted, jobs_completed, submission_complete, full, exceeded>>

InitCounts ==
    /\ jobs_submitted = 0
    /\ jobs_completed = 0
    /\ submission_complete = FALSE
    /\ full = FALSE
    /\ exceeded = FALSE

AddSubmitted ==
    /\ jobs_submitted < MaxJobs
    /\ jobs_submitted' = jobs_submitted + 1
    /\ UNCHANGED <<jobs_completed, submission_complete, full, exceeded>>

AddCompleted ==
    /\ jobs_completed < MaxJobs
    /\ jobs_completed' = jobs_completed + 1
    /\ UNCHANGED <<jobs_submitted, submission_complete, full, exceeded>>

\* What is completed is taken off both counters.
MarkComplete ==
    /\ jobs_submitted' = IF jobs_completed >= jobs_submitted THEN 0 ELSE jobs_submitted - jobs_completed
    /\ jobs_completed' = 0
    /\ submission_complete' = TRUE
    /\ UNCHANGED <<full, exceeded>>

\* A thread about to count a completed job reads the counter, and may find it at its maximum.
LookAtCompleted ==
    /\ full' = (jobs_completed = MaxJobs)
    /\ UNCHANGED <<jobs_submitted, jobs_completed, submission_complete, exceeded>>

\* "Maximum job count exceeded": the process stops.
Exceed ==
    /\ jobs_submitted = MaxJobs \/ full
    /\ exceeded' = TRUE
    /\ UNCHANGED <<jobs_submitted, jobs_completed, submission_complete, full>>

NextCounts ==
    /\ ~ exceeded
    /\ AddSubmitted \/ AddCompleted \/ MarkComplete \/ LookAtCompleted \/ Exceed

Counts == InitCounts /\ [][NextCounts]_countVars
================================================================================

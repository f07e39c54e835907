------------------------ MODULE BinaryCacheSynchronizer ------------------------
(***************************************************************************)
(* BinaryCacheSynchronizer (binarycaching.h and .cpp): the two counters    *)
(* and the flag of SubmissionCounts in one atomic word, changed by a       *)
(* fetch_add, by loops around a weak compare-exchange, and by a fetch_or.  *)
(* The foreground thread submits and marks the submission complete, the    *)
(* background thread counts what is completed.                             *)
(***************************************************************************)
EXTENDS Naturals

CONSTANT MaxCount   \* the greatest count, SubmittedMask: 2 ^ 31 - 1 or 2 ^ 15 - 1

ASSUME CounterAssumption == MaxCount \in Nat \ {0}

VARIABLES
    m_state,     \* the word
    fgAt,        \* where the foreground thread is: "idle", "cas", "or" or "abort"
    fgOld,       \* its copy of the word
    incomplete,  \* what fetch_incomplete_mark_submission_complete returned last
    bgAt,        \* where the background thread is: "idle", "cas" or "abort"
    bgOld,       \* its copy of the word
    progress     \* what fetch_add_completed returned last

syncVars == <<m_state, fgAt, fgOld, incomplete, bgAt, bgOld, progress>>

\* From the lowest bit: a counter, an unused bit, a counter, the flag.
OneCompleted == 2 * (MaxCount + 1)
SubmissionCompleteBit == OneCompleted * (MaxCount + 1)
Word == 0 .. 2 * SubmissionCompleteBit - 1

\* word & SubmittedMask, (word & CompletedMask) >> UpperShift, word & SubmissionCompleteBit.
Submitted(word) == word % (MaxCount + 1)
Completed(word) == (word \div OneCompleted) % (MaxCount + 1)
IsComplete(word) == word >= SubmissionCompleteBit

SyncState(word) ==
    [jobs_submitted |-> Submitted(word), jobs_completed |-> Completed(word),
     submission_complete |-> IsComplete(word)]

InitSync ==
    /\ m_state = 0
    /\ fgAt = "idle" /\ fgOld = 0 /\ incomplete = 0
    /\ bgAt = "idle" /\ bgOld = 0 /\ progress = SyncState(0)

Alive == fgAt # "abort" /\ bgAt # "abort"

\* Fault: the counter is compared with a maximum that is one too high.
FaultyAddSubmitted ==
    /\ Alive /\ fgAt = "idle"
    /\ m_state' = (m_state + 1) % (2 * SubmissionCompleteBit)
    /\ fgAt' = IF Submitted(m_state) = MaxCount + 1 THEN "abort" ELSE "idle"
    /\ UNCHANGED <<fgOld, incomplete, bgAt, bgOld, progress>>

\* add_submitted.
AddSubmitted ==
    /\ Alive /\ fgAt = "idle"
    /\ m_state' = (m_state + 1) % (2 * SubmissionCompleteBit)
    /\ fgAt' = IF Submitted(m_state) = MaxCount THEN "abort" ELSE "idle"
    /\ UNCHANGED <<fgOld, incomplete, bgAt, bgOld, progress>>

\* fetch_add_completed.
LoadForCompleted ==
    /\ Alive /\ bgAt = "idle"
    /\ bgOld' = m_state
    /\ bgAt' = "cas"
    /\ UNCHANGED <<m_state, fgAt, fgOld, incomplete, progress>>

CompletedExceeded ==
    /\ Alive /\ bgAt = "cas"
    /\ Completed(bgOld) = MaxCount
    /\ bgAt' = "abort"
    /\ UNCHANGED <<m_state, fgAt, fgOld, incomplete, bgOld, progress>>

\* Fault: the word is stored without comparing it first.
FaultyCasCompleted ==
    /\ Alive /\ bgAt = "cas"
    /\ Completed(bgOld) # MaxCount
    /\ m_state' = bgOld + OneCompleted
    /\ progress' = SyncState(m_state')
    /\ bgAt' = "idle"
    /\ UNCHANGED <<fgAt, fgOld, incomplete, bgOld>>

CasCompleted ==
    /\ Alive /\ bgAt = "cas"
    /\ Completed(bgOld) # MaxCount
    /\ m_state = bgOld
    /\ m_state' = bgOld + OneCompleted
    /\ progress' = SyncState(m_state')
    /\ bgAt' = "idle"
    /\ UNCHANGED <<fgAt, fgOld, incomplete, bgOld>>

\* compare_exchange_weak fails because the word has changed, or spuriously, and loads it again.
CasCompletedFails ==
    /\ Alive /\ bgAt = "cas"
    /\ Completed(bgOld) # MaxCount
    /\ bgOld' = m_state
    /\ UNCHANGED <<m_state, fgAt, fgOld, incomplete, bgAt, progress>>

\* fetch_incomplete_mark_submission_complete.
LoadForMark ==
    /\ Alive /\ fgAt = "idle"
    /\ fgOld' = m_state
    /\ fgAt' = "cas"
    /\ UNCHANGED <<m_state, incomplete, bgAt, bgOld, progress>>

\* Completed jobs are taken off both counters.
Marked(word) ==
    SubmissionCompleteBit
        + IF Completed(word) >= Submitted(word) THEN 0 ELSE Submitted(word) - Completed(word)

CasMark ==
    /\ Alive /\ fgAt = "cas"
    /\ m_state = fgOld
    /\ m_state' = Marked(fgOld)
    /\ fgAt' = "or"
    /\ UNCHANGED <<fgOld, incomplete, bgAt, bgOld, progress>>

CasMarkFails ==
    /\ Alive /\ fgAt = "cas"
    /\ fgOld' = m_state
    /\ UNCHANGED <<m_state, fgAt, incomplete, bgAt, bgOld, progress>>

\* The second read-modify-write; the difference is a counter_uint_t.
OrMark ==
    /\ Alive /\ fgAt = "or"
    /\ m_state' = IF IsComplete(m_state) THEN m_state ELSE m_state + SubmissionCompleteBit
    /\ incomplete' = (Submitted(m_state) + OneCompleted - Completed(m_state)) % OneCompleted
    /\ fgAt' = "idle"
    /\ UNCHANGED <<fgOld, bgAt, bgOld, progress>>

NextSync ==
    \/ AddSubmitted
    \/ LoadForCompleted \/ CompletedExceeded \/ CasCompleted \/ CasCompletedFails
    \/ LoadForMark \/ CasMark \/ CasMarkFails \/ OrMark

Synchronizer == InitSync /\ [][NextSync]_syncVars

--------------------------------------------------------------------------------
SyncTypeOK ==
    /\ m_state \in Word
    /\ fgAt \in {"idle", "cas", "or", "abort"}
    /\ bgAt \in {"idle", "cas", "abort"}
    /\ fgOld \in Word /\ bgOld \in Word
    /\ incomplete \in 0 .. OneCompleted - 1

\* The unused bit between the counters is only ever set by the add_submitted that stops the
\* process ("This can set the unused bit but if that happens we are terminating anyway").
SyncInv ==
    /\ SyncTypeOK
    /\ fgAt # "abort" => (m_state \div (MaxCount + 1)) % 2 = 0

\* The packed word behaves as the struct of its header comment: no carry crosses from one counter
\* into another, and no loop around the compare-exchange loses the other thread's change.
Moral ==
    INSTANCE SubmissionCounts
        WITH MaxJobs <- MaxCount,
             jobs_submitted <- IF fgAt = "abort" THEN MaxCount ELSE Submitted(m_state),
             jobs_completed <- Completed(m_state),
             submission_complete <- IsComplete(m_state),
             full <- bgAt # "idle" /\ Completed(bgOld) = MaxCount,
             exceeded <- ~ Alive

BehavesAsStruct == Moral!Counts
================================================================================

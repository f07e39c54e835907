----------------------------- MODULE Threads_proofs -----------------------------
(***************************************************************************)
(* What the threads of one process share.                                  *)
(*                                                                         *)
(* UploadPipeline and the modules it extends: the queue loses no wake-up   *)
(* (for any number of consumers), the packed word behaves as the struct it *)
(* stands for (for any width), and whoever waits finds everything done     *)
(* (for any sequence of install actions).                                  *)
(*                                                                         *)
(* ParallelChildren: CtrlC and ExecuteInParallel keep their invariants for *)
(* every number of threads, of Ctrl-C and of pieces of work and every      *)
(* width of the counters, and ParallelChildren implements both.            *)
(***************************************************************************)
EXTENDS UploadPipeline, ParallelChildren, SequenceTheorems, FiniteSetTheorems, TLAPS

(***************************************************************************)
(* The queue.                                                              *)
(***************************************************************************)
LEMMA QueueInit == ASSUME InitQueue PROVE QueueInv
  BY QueueAssumption DEF InitQueue, QueueInv, QueueTypeOK, NoLostWakeup

LEMMA PushInv == ASSUME QueueInv, NEW item \in Item, m_running, Push(item) PROVE QueueInv'
  <1>1. waiting' \in SUBSET Consumer /\ \E c \in Consumer : c \notin waiting'
    BY QueueAssumption DEF QueueInv, QueueTypeOK, Push, NotifyOne
  <1>2. waiting' \subseteq waiting
    BY DEF Push, NotifyOne
  <1>3. QueueTypeOK'
    BY <1>1 DEF QueueInv, QueueTypeOK, Push
  <1> QED
    BY <1>1, <1>2, <1>3 DEF QueueInv, NoLostWakeup, Push

LEMMA StopQueueInv == ASSUME QueueInv, StopQueue PROVE QueueInv'
  BY DEF QueueInv, QueueTypeOK, NoLostWakeup, StopQueue

LEMMA TakeAllInv == ASSUME QueueInv, NEW c \in Consumer, TakeAll(c) PROVE QueueInv'
  BY DEF QueueInv, QueueTypeOK, NoLostWakeup, TakeAll

LEMMA ReturnFalseInv == ASSUME QueueInv, NEW c \in Consumer, ReturnFalse(c) PROVE QueueInv'
  BY DEF QueueInv, QueueTypeOK, NoLostWakeup, ReturnFalse

LEMMA WaitInv == ASSUME QueueInv, NEW c \in Consumer, Wait(c) PROVE QueueInv'
  BY DEF QueueInv, QueueTypeOK, NoLostWakeup, Wait

LEMMA WakeInv == ASSUME QueueInv, NEW c \in Consumer, Wake(c) PROVE QueueInv'
  BY DEF QueueInv, QueueTypeOK, NoLostWakeup, Wake

LEMMA DoItemInv == ASSUME QueueInv, NEW c \in Consumer, DoItem(c) PROVE QueueInv'
  <1>1. out[c] \in Seq(Item) /\ out[c] # <<>>
    BY DEF QueueInv, QueueTypeOK, DoItem
  <1>2. Tail(out[c]) \in Seq(Item) /\ (Tail(out[c]) = <<>> <=> Len(out[c]) = 1)
    <2>1. Tail(out[c]) \in Seq(Item) /\ Len(Tail(out[c])) = Len(out[c]) - 1
      BY <1>1, HeadTailProperties
    <2>2. Tail(out[c]) = <<>> <=> Len(Tail(out[c])) = 0
      BY <2>1, EmptySeq
    <2> QED
      BY <1>1, <2>1, <2>2, LenProperties
  <1>3. QueueTypeOK'
    BY <1>2 DEF QueueInv, QueueTypeOK, DoItem
  <1> QED
    BY <1>2, <1>3 DEF QueueInv, QueueTypeOK, NoLostWakeup, DoItem

LEMMA QueueNext == QueueInv /\ [NextQueue]_queueVars => QueueInv'
  <1> SUFFICES ASSUME QueueInv, [NextQueue]_queueVars PROVE QueueInv'
    OBVIOUS
  <1>1. CASE \E item \in Item : m_running /\ Len(m_tasks) < MaxQueued /\ Push(item)
    BY <1>1, PushInv
  <1>2. CASE StopQueue
    BY <1>2, StopQueueInv
  <1>3. CASE \E c \in Consumer : GetWork(c)
    BY <1>3, TakeAllInv, ReturnFalseInv, WaitInv DEF GetWork
  <1>4. CASE \E c \in Consumer : Wake(c) \/ DoItem(c)
    BY <1>4, WakeInv, DoItemInv
  <1>5. CASE UNCHANGED queueVars
    BY <1>5 DEF queueVars, QueueInv, QueueTypeOK, NoLostWakeup
  <1> QED
    BY <1>1, <1>2, <1>3, <1>4, <1>5 DEF NextQueue

\* No wake-up is lost (push notifies one consumer, stop all of them, each under the mutex that
\* get_work holds from its look at the queue to its wait).
THEOREM QueueInvHolds == Queue => []QueueInv
  <1> QED
    BY QueueInit, QueueNext, PTL DEF Queue

\* get_work never returns false over work that is left.
THEOREM QueueDrained == Queue => []DrainedAtEnd
  <1>1. QueueInv => DrainedAtEnd
    BY DEF QueueInv, NoLostWakeup, DrainedAtEnd
  <1> QED
    BY QueueInvHolds, <1>1, PTL

(***************************************************************************)
(* The synchronizer.                                                       *)
(***************************************************************************)
\* The word with these parts: the counters, the unused bit and the flag.
Packed(submittedCount, unused, completedCount, flag) ==
    submittedCount + unused * (MaxCount + 1) + completedCount * OneCompleted
        + flag * SubmissionCompleteBit

\* A word whose unused bit is not set.
Clean(word) ==
    \E s \in 0 .. MaxCount, c \in 0 .. MaxCount, f \in {0, 1} : word = Packed(s, 0, c, f)

SyncIInv ==
    /\ fgAt \in {"idle", "cas", "or", "abort"}
    /\ bgAt \in {"idle", "cas", "abort"}
    /\ m_state \in Word
    /\ fgAt # "abort" => Clean(m_state)
    /\ Clean(fgOld) /\ Clean(bgOld)
    /\ incomplete \in 0 .. OneCompleted - 1
    /\ fgAt = "or" => IsComplete(m_state)

LEMMA DivMod ==
    ASSUME NEW n \in Nat \ {0}, NEW q \in Nat, NEW r \in 0 .. n - 1
    PROVE  (n * q + r) \div n = q /\ (n * q + r) % n = r
  BY Z3

\* Each part is where its mask looks for it.
LEMMA PackedParts ==
    ASSUME NEW s \in 0 .. MaxCount, NEW u \in {0, 1}, NEW c \in 0 .. MaxCount, NEW f \in {0, 1}
    PROVE  LET word == Packed(s, u, c, f)
           IN  /\ word \in Word
               /\ Submitted(word) = s
               /\ Completed(word) = c
               /\ IsComplete(word) <=> f = 1
               /\ (word \div (MaxCount + 1)) % 2 = u
  <1> DEFINE M == MaxCount + 1
             word == Packed(s, u, c, f)
             upper == M * f + c
             rest == 2 * upper + u
  <1>1. M \in Nat \ {0} /\ s \in 0 .. M - 1 /\ c \in 0 .. M - 1 /\ u \in 0 .. 1 /\ f \in 0 .. 1
    BY CounterAssumption
  <1> HIDE DEF M
  <1>2. M * f \in Nat /\ upper \in Nat /\ rest \in Nat
    BY <1>1
  <1>3. word = M * rest + s
    <2>1. OneCompleted = 2 * M /\ SubmissionCompleteBit = 2 * M * M
      BY <1>1 DEF OneCompleted, SubmissionCompleteBit, M
    <2>2. word = s + u * M + c * (2 * M) + f * (2 * M * M)
      BY <2>1 DEF Packed, M
    <2> QED
      BY <1>1, <2>2, Z3
  <1>4. word = (2 * M) * upper + (M * u + s) /\ M * u + s \in 0 .. 2 * M - 1 /\ 2 * M \in Nat \ {0}
    BY <1>1, <1>2, <1>3, Z3
  <1> HIDE DEF word, rest
  <1>5. word \div M = rest /\ word % M = s
    BY <1>1, <1>2, <1>3, DivMod
  <1>6. word \div (2 * M) = upper
    <2> DEFINE n == 2 * M
               r == M * u + s
    <2>1. n \in Nat \ {0} /\ r \in 0 .. n - 1 /\ word = n * upper + r
      BY <1>4
    <2> HIDE DEF n, r, upper
    <2>2. word \div n = upper
      BY <1>2, <2>1, DivMod
    <2> QED
      BY <2>2 DEF n
  <1>7. upper % M = c
    BY <1>1, DivMod
  <1>8. rest % 2 = u
    <2>1. u \in 0 .. 2 - 1 /\ 2 \in Nat \ {0}
      BY <1>1
    <2> QED
      BY <2>1, <1>2, DivMod DEF rest
  <1>9. word \in 0 .. 4 * (M * M) - 1 /\ (word >= 2 * (M * M) <=> f = 1)
    <2>1. c * M \in 0 .. M * M - M
      BY <1>1, Z3
    <2>2. word = 2 * (M * M) * f + 2 * (c * M) + M * u + s
      BY <1>1, <1>3, Z3 DEF rest
    <2>3. M * M \in Nat /\ M * u \in 0 .. M
      BY <1>1, Z3
    <2>4. CASE f = 0
      BY <1>1, <2>1, <2>2, <2>3, <2>4
    <2>5. CASE f = 1
      BY <1>1, <2>1, <2>2, <2>3, <2>5
    <2> QED
      BY <2>4, <2>5
  <1>10. SubmissionCompleteBit = 2 * (M * M) /\ OneCompleted = 2 * M
    BY <1>1 DEF OneCompleted, SubmissionCompleteBit, M
  <1>11. word \in Word /\ (IsComplete(word) <=> f = 1)
    BY <1>1, <1>9, <1>10 DEF Word, IsComplete
  <1>12. Submitted(word) = s /\ Completed(word) = c
    BY <1>5, <1>6, <1>7, <1>10 DEF Submitted, Completed, M
  <1> QED
    BY <1>5, <1>8, <1>11, <1>12 DEF word, M

LEMMA CleanParts ==
    ASSUME NEW word, Clean(word)
    PROVE  /\ word \in Word
           /\ Submitted(word) \in 0 .. MaxCount
           /\ Completed(word) \in 0 .. MaxCount
           /\ word = Packed(Submitted(word), 0, Completed(word), IF IsComplete(word) THEN 1 ELSE 0)
           /\ (word \div (MaxCount + 1)) % 2 = 0
  <1>1. PICK s \in 0 .. MaxCount, c \in 0 .. MaxCount, f \in {0, 1} : word = Packed(s, 0, c, f)
    BY DEF Clean
  <1>2. /\ word \in Word /\ Submitted(word) = s /\ Completed(word) = c
        /\ IsComplete(word) <=> f = 1
        /\ (word \div (MaxCount + 1)) % 2 = 0
    BY <1>1, PackedParts
  <1> QED
    BY <1>1, <1>2

LEMMA PackedIsClean ==
    ASSUME NEW s \in 0 .. MaxCount, NEW c \in 0 .. MaxCount, NEW f \in {0, 1}
    PROVE  LET word == Packed(s, 0, c, f)
           IN  /\ Clean(word) /\ Submitted(word) = s /\ Completed(word) = c
               /\ IsComplete(word) <=> f = 1
  BY PackedParts DEF Clean

LEMMA WidthsAreNumbers ==
    /\ MaxCount \in Nat \ {0}
    /\ OneCompleted \in Nat \ {0} /\ OneCompleted = 2 * MaxCount + 2
    /\ SubmissionCompleteBit \in Nat \ {0}
    /\ Word = 0 .. 2 * SubmissionCompleteBit - 1
  BY CounterAssumption, Z3 DEF OneCompleted, SubmissionCompleteBit, Word

\* The word at the start.
LEMMA ZeroIsClean == Clean(0) /\ Submitted(0) = 0 /\ Completed(0) = 0 /\ ~ IsComplete(0)
  <1>1. Packed(0, 0, 0, 0) = 0
    BY WidthsAreNumbers DEF Packed
  <1> QED
    BY <1>1, PackedIsClean, WidthsAreNumbers

\* add_submitted changes one counter, or sets the unused bit if that counter is at its maximum.
LEMMA AddOneToWord ==
    ASSUME NEW word, Clean(word)
    PROVE  LET next == (word + 1) % (2 * SubmissionCompleteBit)
           IN  /\ next \in Word
               /\ Completed(next) = Completed(word)
               /\ IsComplete(next) <=> IsComplete(word)
               /\ Submitted(word) # MaxCount =>
                    Clean(next) /\ Submitted(next) = Submitted(word) + 1
  <1> DEFINE s == Submitted(word)
             c == Completed(word)
             f == IF IsComplete(word) THEN 1 ELSE 0
             next == (word + 1) % (2 * SubmissionCompleteBit)
             packed == IF s = MaxCount THEN Packed(0, 1, c, f) ELSE Packed(s + 1, 0, c, f)
  <1>1. word \in Word /\ s \in 0 .. MaxCount /\ c \in 0 .. MaxCount /\ word = Packed(s, 0, c, f)
    BY CleanParts
  <1>2. /\ packed \in Word /\ Completed(packed) = c /\ (IsComplete(packed) <=> f = 1)
        /\ s # MaxCount => Clean(packed) /\ Submitted(packed) = s + 1
    <2>1. CASE s = MaxCount
      <3>1. packed = Packed(0, 1, c, f) /\ 0 \in 0 .. MaxCount /\ 1 \in {0, 1} /\ f \in {0, 1}
        BY <2>1, WidthsAreNumbers
      <3>2. packed \in Word /\ Completed(packed) = c /\ (IsComplete(packed) <=> f = 1)
        BY <1>1, <3>1, PackedParts
      <3> QED
        BY <2>1, <3>2
    <2>2. CASE s # MaxCount
      <3>1. s + 1 \in 0 .. MaxCount
        BY <1>1, <2>2, WidthsAreNumbers
      <3> QED
        <4>1. packed = Packed(s + 1, 0, c, f) /\ f \in {0, 1}
          BY <2>2
        <4>2. packed \in Word /\ Completed(packed) = c /\ (IsComplete(packed) <=> f = 1)
          BY <1>1, <3>1, <4>1, PackedParts
        <4>3. Clean(packed) /\ Submitted(packed) = s + 1
          BY <1>1, <3>1, <4>1, PackedIsClean
        <4> QED
          BY <4>2, <4>3
    <2> QED
      BY <2>1, <2>2
  <1>3. packed = word + 1
    <2> DEFINE a == c * OneCompleted
               b == f * SubmissionCompleteBit
    <2>1. a \in Int /\ b \in Int /\ word = s + a + b
      BY <1>1, WidthsAreNumbers DEF Packed
    <2>2. packed = IF s = MaxCount THEN MaxCount + 1 + a + b ELSE s + 1 + a + b
      BY <1>1, WidthsAreNumbers DEF Packed
    <2> HIDE DEF a, b, s, packed
    <2> QED
      BY <1>1, <2>1, <2>2, WidthsAreNumbers
  <1>4. next = packed
    <2>1. word + 1 \in 0 .. 2 * SubmissionCompleteBit - 1
      BY <1>2, <1>3, WidthsAreNumbers
    <2> QED
      BY <1>3, <2>1, WidthsAreNumbers, Z3
  <1> QED
    BY <1>2, <1>4

\* fetch_add_completed changes the other one.
LEMMA AddCompletedToWord ==
    ASSUME NEW word, Clean(word), Completed(word) # MaxCount
    PROVE  LET next == word + OneCompleted
           IN  /\ Clean(next)
               /\ Submitted(next) = Submitted(word)
               /\ Completed(next) = Completed(word) + 1
               /\ IsComplete(next) <=> IsComplete(word)
  <1> DEFINE s == Submitted(word)
             c == Completed(word)
             f == IF IsComplete(word) THEN 1 ELSE 0
             next == word + OneCompleted
  <1>1. word \in Word /\ s \in 0 .. MaxCount /\ c \in 0 .. MaxCount /\ word = Packed(s, 0, c, f)
    BY CleanParts
  <1>2. c + 1 \in 0 .. MaxCount
    BY <1>1, WidthsAreNumbers
  <1>3. next = Packed(s, 0, c + 1, f)
    <2> DEFINE a == c * OneCompleted
               b == f * SubmissionCompleteBit
    <2>1. a \in Int /\ b \in Int /\ word = s + a + b
      BY <1>1, WidthsAreNumbers DEF Packed
    <2>2. (c + 1) * OneCompleted = a + OneCompleted
      BY <1>1, WidthsAreNumbers, Z3
    <2>3. Packed(s, 0, c + 1, f) = s + (a + OneCompleted) + b
      BY <1>1, <2>1, <2>2, WidthsAreNumbers DEF Packed
    <2> HIDE DEF a, b, s
    <2> QED
      BY <1>1, <2>1, <2>3, WidthsAreNumbers
  <1> QED
    BY <1>1, <1>2, <1>3, PackedIsClean

\* What is completed is taken off both counters, and the flag is set.
LEMMA MarkedWord ==
    ASSUME NEW word, Clean(word)
    PROVE  LET next == Marked(word)
           IN  /\ Clean(next)
               /\ Submitted(next) = IF Completed(word) >= Submitted(word) THEN 0
                                    ELSE Submitted(word) - Completed(word)
               /\ Completed(next) = 0
               /\ IsComplete(next)
  <1> DEFINE s == IF Completed(word) >= Submitted(word) THEN 0 ELSE Submitted(word) - Completed(word)
  <1>1. Submitted(word) \in 0 .. MaxCount /\ Completed(word) \in 0 .. MaxCount
    BY CleanParts
  <1>2. s \in 0 .. MaxCount /\ 0 \in 0 .. MaxCount
    BY <1>1, WidthsAreNumbers
  <1>3. Marked(word) = Packed(s, 0, 0, 1)
    BY <1>1, <1>2, WidthsAreNumbers DEF Marked, Packed
  <1> QED
    BY <1>2, <1>3, PackedIsClean

\* What a step of the synchronizer does: its invariant holds afterwards, and the struct of the
\* header's comment has taken a step or stayed.
MoralStep == [Moral!NextCounts]_(Moral!countVars)

LEMMA AddSubmittedStep == ASSUME SyncIInv, AddSubmitted PROVE SyncIInv' /\ MoralStep
  <1>1. Clean(m_state) /\ Submitted(m_state) \in 0 .. MaxCount
    BY CleanParts DEF SyncIInv, AddSubmitted, Alive
  <1>2. /\ m_state' \in Word
        /\ Completed(m_state') = Completed(m_state)
        /\ IsComplete(m_state') <=> IsComplete(m_state)
        /\ Submitted(m_state) # MaxCount =>
             Clean(m_state') /\ Submitted(m_state') = Submitted(m_state) + 1
    BY <1>1, AddOneToWord DEF AddSubmitted
  <1>3. SyncIInv'
    BY <1>2 DEF SyncIInv, AddSubmitted, Clean
  <1>4. /\ Alive /\ fgAt = "idle"
        /\ fgAt' = IF Submitted(m_state) = MaxCount THEN "abort" ELSE "idle"
        /\ UNCHANGED <<bgAt, bgOld>>
        /\ Alive' <=> fgAt' # "abort"
    BY DEF AddSubmitted, Alive
  <1>5. CASE Submitted(m_state) = MaxCount
    <2>1. Moral!Exceed
      BY <1>2, <1>4, <1>5 DEF Moral!Exceed, IsComplete
    <2> QED
      BY <1>3, <1>4, <2>1 DEF MoralStep, Moral!NextCounts
  <1>6. CASE Submitted(m_state) # MaxCount
    <2>1. Submitted(m_state) < MaxCount
      BY <1>1, <1>6, WidthsAreNumbers
    <2>2. Moral!AddSubmitted
      BY <1>2, <1>4, <1>6, <2>1 DEF Moral!AddSubmitted, IsComplete
    <2> QED
      BY <1>3, <1>4, <2>2 DEF MoralStep, Moral!NextCounts
  <1> QED
    BY <1>5, <1>6

LEMMA LoadForCompletedStep == ASSUME SyncIInv, LoadForCompleted PROVE SyncIInv' /\ MoralStep
  <1>1. SyncIInv'
    BY DEF SyncIInv, LoadForCompleted, Alive, Clean
  <1>2. MoralStep
    BY DEF MoralStep, Moral!NextCounts, Moral!LookAtCompleted, Moral!countVars, LoadForCompleted, Alive
  <1> QED
    BY <1>1, <1>2

LEMMA CasCompletedFailsStep == ASSUME SyncIInv, CasCompletedFails PROVE SyncIInv' /\ MoralStep
  <1>1. SyncIInv'
    BY DEF SyncIInv, CasCompletedFails, Alive, Clean
  <1>2. MoralStep
    BY DEF MoralStep, Moral!NextCounts, Moral!LookAtCompleted, Moral!countVars, CasCompletedFails, Alive
  <1> QED
    BY <1>1, <1>2

LEMMA CompletedExceededStep == ASSUME SyncIInv, CompletedExceeded PROVE SyncIInv' /\ MoralStep
  <1>1. SyncIInv'
    BY DEF SyncIInv, CompletedExceeded, Clean
  <1>2. MoralStep
    BY DEF MoralStep, Moral!NextCounts, Moral!Exceed, Moral!countVars, CompletedExceeded, Alive
  <1> QED
    BY <1>1, <1>2

LEMMA CasCompletedStep == ASSUME SyncIInv, CasCompleted PROVE SyncIInv' /\ MoralStep
  <1>1. /\ m_state' = m_state + OneCompleted
        /\ Clean(m_state) /\ Completed(m_state) # MaxCount /\ Completed(m_state) \in 0 .. MaxCount
    BY CleanParts DEF SyncIInv, CasCompleted, Alive
  <1>2. /\ Clean(m_state')
        /\ Submitted(m_state') = Submitted(m_state)
        /\ Completed(m_state') = Completed(m_state) + 1
        /\ IsComplete(m_state') <=> IsComplete(m_state)
    BY <1>1, AddCompletedToWord
  <1>3. SyncIInv'
    BY <1>2, CleanParts DEF SyncIInv, CasCompleted, Clean
  <1>4. Completed(m_state) < MaxCount
    BY <1>1, WidthsAreNumbers
  <1>5. /\ Alive /\ Alive' /\ bgAt = "cas" /\ bgAt' = "idle"
        /\ Completed(bgOld) # MaxCount
        /\ UNCHANGED <<fgAt, bgOld>>
    BY DEF CasCompleted, Alive
  <1>6. Moral!AddCompleted
    BY <1>2, <1>4, <1>5 DEF Moral!AddCompleted, IsComplete
  <1>7. MoralStep
    BY <1>5, <1>6 DEF MoralStep, Moral!NextCounts
  <1> QED
    BY <1>3, <1>7

LEMMA LoadForMarkStep == ASSUME SyncIInv, LoadForMark PROVE SyncIInv' /\ MoralStep
  <1>1. SyncIInv'
    BY DEF SyncIInv, LoadForMark, Alive, Clean
  <1>2. MoralStep
    BY DEF MoralStep, Moral!countVars, LoadForMark, Alive
  <1> QED
    BY <1>1, <1>2

LEMMA CasMarkFailsStep == ASSUME SyncIInv, CasMarkFails PROVE SyncIInv' /\ MoralStep
  <1>1. SyncIInv'
    BY DEF SyncIInv, CasMarkFails, Alive, Clean
  <1>2. MoralStep
    BY DEF MoralStep, Moral!countVars, CasMarkFails, Alive
  <1> QED
    BY <1>1, <1>2

LEMMA CasMarkStep == ASSUME SyncIInv, CasMark PROVE SyncIInv' /\ MoralStep
  <1>1. m_state' = Marked(m_state) /\ Clean(m_state)
    BY DEF SyncIInv, CasMark, Alive
  <1>2. /\ Clean(m_state')
        /\ Submitted(m_state') = IF Completed(m_state) >= Submitted(m_state) THEN 0
                                 ELSE Submitted(m_state) - Completed(m_state)
        /\ Completed(m_state') = 0
        /\ IsComplete(m_state')
    BY <1>1, MarkedWord
  <1>3. SyncIInv'
    BY <1>2, CleanParts DEF SyncIInv, CasMark, Clean
  <1>4. MoralStep
    BY <1>2
    DEF MoralStep, Moral!NextCounts, Moral!MarkComplete, Moral!countVars, CasMark, Alive
  <1> QED
    BY <1>3, <1>4

LEMMA OrMarkStep == ASSUME SyncIInv, OrMark PROVE SyncIInv' /\ MoralStep
  <1>1. m_state' = m_state /\ Clean(m_state)
    BY DEF SyncIInv, OrMark, Alive
  <1>2. incomplete' \in 0 .. OneCompleted - 1
    <2>1. Submitted(m_state) \in 0 .. MaxCount /\ Completed(m_state) \in 0 .. MaxCount
      BY <1>1, CleanParts
    <2>2. Submitted(m_state) + OneCompleted - Completed(m_state) \in Nat
      BY <2>1, WidthsAreNumbers
    <2> QED
      BY <2>2, WidthsAreNumbers DEF OrMark
  <1>3. SyncIInv'
    BY <1>1, <1>2 DEF SyncIInv, OrMark, Clean
  <1>4. MoralStep
    BY <1>1 DEF MoralStep, Moral!countVars, OrMark, Alive
  <1> QED
    BY <1>3, <1>4

LEMMA SyncInit == ASSUME InitSync PROVE SyncIInv /\ Moral!InitCounts
  BY ZeroIsClean, CleanParts, WidthsAreNumbers
  DEF InitSync, SyncIInv, Moral!InitCounts, Alive

LEMMA SyncStep == ASSUME SyncIInv, [NextSync]_syncVars PROVE SyncIInv' /\ MoralStep
  <1>1. CASE NextSync
    BY <1>1, AddSubmittedStep, LoadForCompletedStep, CompletedExceededStep, CasCompletedStep,
       CasCompletedFailsStep, LoadForMarkStep, CasMarkStep, CasMarkFailsStep, OrMarkStep
    DEF NextSync
  <1>2. CASE UNCHANGED syncVars
    BY <1>2 DEF syncVars, SyncIInv, Clean, MoralStep, Moral!countVars, Alive
  <1> QED
    BY <1>1, <1>2

LEMMA SyncIInvImpliesSyncInv == SyncIInv => SyncInv
  BY CleanParts DEF SyncIInv, SyncInv, SyncTypeOK

\* For counters of any width the packed word behaves as the struct of its comment: no carry crosses
\* from one counter into another, no compare-exchange loses the other thread's change, and a counter
\* at its maximum ends the process.
THEOREM SynchronizerBehavesAsStruct == Synchronizer => BehavesAsStruct
  <1>1. InitSync => SyncIInv /\ Moral!InitCounts
    BY SyncInit
  <1>2. SyncIInv /\ [NextSync]_syncVars => SyncIInv' /\ [Moral!NextCounts]_(Moral!countVars)
    BY SyncStep DEF MoralStep
  <1> QED
    BY <1>1, <1>2, PTL DEF Synchronizer, BehavesAsStruct, Moral!Counts

(***************************************************************************)
(* The pipeline.                                                           *)
(***************************************************************************)
Progress == [jobs_submitted : Nat, jobs_completed : Nat, submission_complete : BOOLEAN]
Line == [task : Item, progress : Progress]

\* The lines printed and to be printed, in order: one for each package that is done with.
Lines == (console \o tmp) \o m_published
Lined == Len(Lines)

\* The foreground thread may still submit packages; it has begun an action that is not pushed.
Submitting ==
    \/ fg \in {"setup", "ready", "build", "push_success", "push_restored", "push"}
    \/ fg \in {"print", "printing"} /\ after = "build"
InAction ==
    \/ fg \in {"build", "push_success", "push_restored", "push"}
    \/ fg \in {"print", "printing"} /\ after = "build"
Built == fg \in {"push_success", "push_restored", "push"}

PipeTypeInv ==
    /\ fg \in {"setup", "ready", "print", "printing", "build", "push_success",
               "push_restored", "push", "mark", "publish", "stop", "join", "joined"}
    /\ after \in {"ready", "build", "mark"}
    /\ fg \in {"print", "printing"} => after # "ready"
    /\ round \in {1, 2}
    /\ begun \in 0 .. Len(Ports)
    /\ providers \in {"unset", "none", "some"}
    /\ dirs \in [Dirs -> 0 .. Len(Ports)]
    /\ bgStep \in {"upload", "clean", "count", "line"}
    /\ m_print_directly_to_out_sink \in BOOLEAN
    /\ console \in Seq(Line) /\ tmp \in Seq(Line) /\ m_published \in Seq(Line)
    /\ progress \in Progress
    /\ submitted \in Seq(Item)
    /\ uploads \in Seq(Item \X (0 .. Len(Ports)))

\* Where the foreground thread is decides what it has told the others.
PhaseInv ==
    /\ Submitting => /\ m_running /\ ~ IsComplete(m_state)
                     /\ ~ m_print_directly_to_out_sink /\ round = 1
    /\ fg # "mark" => fgAt \in {"idle", "abort"}
    /\ fg \in {"stop", "join", "joined"} \/ round = 2 => m_print_directly_to_out_sink
    /\ m_print_directly_to_out_sink => m_published = <<>> /\ tmp = <<>>
    /\ tmp # <<>> => fg = "printing"
    /\ fg = "joined" \/ round = 2 => at[Background] = "ended" /\ m_tasks = <<>>
    /\ fg = "setup" <=> providers = "unset"
    /\ submitted # <<>> \/ fg = "push" => providers = "some"

\* Packages are submitted in the order of their actions, each once.
OrderInv ==
    /\ InAction => begun > 0
    /\ \A i \in 1 .. Len(submitted) : submitted[i] < IF InAction THEN begun ELSE begun + 1
    /\ \A i, j \in 1 .. Len(submitted) : i < j => submitted[i] < submitted[j]

\* What is submitted has its line, is in the push thread's hands, or is queued, in this order.
SplitInv ==
    /\ Len(submitted) = Lined + Len(out[Background]) + Len(m_tasks)
    /\ \A i \in 1 .. Lined : Lines[i].task = submitted[i]
    /\ \A i \in 1 .. Len(out[Background]) : out[Background][i] = submitted[Lined + i]
    /\ \A i \in 1 .. Len(m_tasks) : m_tasks[i] = submitted[Lined + Len(out[Background]) + i]

UploadInv ==
    /\ bgStep # "upload" => at[Background] = "working"
    /\ Len(uploads) = Lined + IF bgStep = "upload" THEN 0 ELSE 1
    /\ \A i \in 1 .. Len(uploads) : uploads[i] = <<submitted[i], submitted[i]>>

\* How many submitted packages have been cleaned up after, if any are.
Cleaned == Lined + IF bgStep \in {"count", "line"} THEN 1 ELSE 0

DirInv ==
    /\ \A d \in Dirs : dirs[d] # 0 => PackageDir(dirs[d]) = d
    /\ Built => dirs[PackageDir(begun)] = begun
    /\ \A i \in 1 .. Len(submitted) : i > Cleaned => dirs[PackageDir(submitted[i])] = submitted[i]
    /\ CleanPackages => \A d \in Dirs :
          \/ dirs[d] = 0
          \/ Built /\ dirs[d] = begun
          \/ \E i \in 1 .. Len(submitted) : i > Cleaned /\ dirs[d] = submitted[i]

\* A progress reported at the i-th package says what is left, once everything is submitted.
Tells(p, i) ==
    p.submission_complete =>
        /\ IsComplete(m_state)
        /\ p.jobs_submitted - p.jobs_completed = Len(submitted) - i

CountInv ==
    /\ CountersMatchQueue
    /\ bgStep = "line" => Tells(progress, Lined + 1)
    /\ \A i \in 1 .. Lined : Tells(Lines[i].progress, i)

PipeIInv ==
    /\ SyncIInv /\ QueueInv
    /\ PipeTypeInv /\ PhaseInv /\ OrderInv /\ SplitInv /\ UploadInv /\ DirInv /\ CountInv

LEMMA ConstantsHold ==
    /\ Consumer = {Background} /\ Background \in Consumer
    /\ Len(Ports) \in Nat
    /\ Item = 1 .. Len(Ports)
    /\ MaxCount \in Nat \ {0}
  BY PipelineAssumption, CounterAssumption, LenProperties

\* No two actions share a package directory: the later one of the same port has a higher number.
LEMMA DirectoriesDiffer ==
    ASSUME NEW i \in Item, NEW j \in Item, PackageDir(i) = PackageDir(j)
    PROVE  i = j
  <1> DEFINE before(k) == {m \in 1 .. k - 1 : Ports[m] = Ports[k]}
  <1>1. ASSUME NEW k \in Item, NEW l \in Item, k < l, Ports[k] = Ports[l]
        PROVE  Cardinality(before(k)) # Cardinality(before(l))
    <2>1. k \in Nat /\ l \in Nat
      BY ConstantsHold
    <2>2. IsFiniteSet(1 .. l - 1)
      BY <2>1, FS_Interval
    <2>3. before(l) \in SUBSET (1 .. l - 1)
      OBVIOUS
    <2>4. IsFiniteSet(before(l))
      BY <2>2, <2>3, FS_Subset
    <2>5. before(k) \in SUBSET before(l) /\ k \in before(l) /\ k \notin before(k)
      BY <1>1, <2>1, ConstantsHold
    <2> QED
      BY <2>4, <2>5, FS_Subset
  <1>2. Ports[i] = Ports[j] /\ Cardinality(before(i)) = Cardinality(before(j))
    BY DEF PackageDir
  <1>3. i \in Nat /\ j \in Nat
    BY ConstantsHold
  <1> QED
    BY <1>1, <1>2, <1>3

LEMMA DirInDirs == ASSUME NEW i \in Item PROVE PackageDir(i) \in Dirs
  BY DEF Dirs

LEMMA LinesType == ASSUME PipeTypeInv PROVE Lines \in Seq(Line) /\ Lined \in Nat
  BY ConcatProperties, LenProperties DEF PipeTypeInv, Lines, Lined

(***************************************************************************)
(* What a step leaves alone keeps the parts of the invariant about it.     *)
(***************************************************************************)
LEMMA OrderStays ==
    ASSUME PipeTypeInv, OrderInv, UNCHANGED <<submitted, begun>>, InAction' => InAction
    PROVE  OrderInv'
  <1>1. \A i \in 1 .. Len(submitted) : submitted[i] \in Nat
    BY ConstantsHold, ElementOfSeq DEF PipeTypeInv
  <1>2. begun \in Nat
    BY ConstantsHold DEF PipeTypeInv
  <1>3. \A i \in 1 .. Len(submitted') : submitted'[i] < IF InAction' THEN begun' ELSE begun' + 1
    BY <1>1, <1>2 DEF OrderInv
  <1> QED
    BY <1>3 DEF OrderInv

LEMMA SplitStays ==
    ASSUME SplitInv, UNCHANGED <<submitted, out, m_tasks>>, Lines' = Lines
    PROVE  SplitInv'
  BY DEF SplitInv, Lined

LEMMA UploadStays ==
    ASSUME UploadInv, UNCHANGED <<submitted, uploads, bgStep>>, Lines' = Lines,
           at[Background] = "working" => at'[Background] = "working"
    PROVE  UploadInv'
  BY DEF UploadInv, Lined

LEMMA DirStays ==
    ASSUME DirInv, UNCHANGED <<submitted, dirs, bgStep>>, Lines' = Lines,
           Built' = Built, Built => begun' = begun
    PROVE  DirInv'
  BY DEF DirInv, Lined, Cleaned, Built

LEMMA CountStays ==
    ASSUME CountInv, UNCHANGED <<submitted, out, m_tasks, bgStep, progress, m_state>>, Lines' = Lines,
           (fg' = "push") = (fg = "push"), Alive' => Alive
    PROVE  CountInv'
  <1>1. CountersMatchQueue'
    BY DEF CountInv, CountersMatchQueue, Pending
  <1>2. Lined' = Lined /\ \A p, i : Tells(p, i) => Tells(p, i)'
    BY DEF Lined, Tells
  <1> QED
    BY <1>1, <1>2 DEF CountInv

\* A step of the foreground thread that submits, builds and counts nothing.
LEMMA ControlStep ==
    ASSUME PipeIInv, QueueInv', PipeTypeInv', PhaseInv', OrderInv',
           UNCHANGED <<m_tasks, out, at, syncVars, dirs, bgStep, uploads, submitted>>,
           Lines' = Lines, Built' = Built, Built => begun' = begun,
           (fg' = "push") = (fg = "push")
    PROVE  PipeIInv'
  <1>1. SyncIInv'
    BY SyncStep DEF PipeIInv
  <1>2. UNCHANGED <<progress, m_state>> /\ Alive' = Alive
    BY DEF syncVars, Alive
  <1>3. SplitInv' /\ UploadInv' /\ DirInv' /\ CountInv'
    BY <1>2, SplitStays, UploadStays, DirStays, CountStays DEF PipeIInv
  <1> QED
    BY <1>1, <1>3 DEF PipeIInv

LEMMA QueueStays == ASSUME QueueInv, UNCHANGED queueVars PROVE QueueInv'
  BY DEF queueVars, QueueInv, QueueTypeOK, NoLostWakeup

LEMMA InstallProvidersInv == ASSUME PipeIInv, InstallProviders PROVE PipeIInv'
  <1>1. QueueInv' /\ Lines' = Lines /\ UNCHANGED <<m_tasks, out, at>>
    BY QueueStays DEF InstallProviders, PipeIInv, sinkVars, queueVars, Lines
  <1>2. PipeTypeInv'
    BY DEF PipeIInv, PipeTypeInv, InstallProviders, sinkVars, syncVars
  <1>3. PhaseInv'
    BY DEF PipeIInv, PhaseInv, Submitting, InstallProviders, sinkVars, syncVars, queueVars
  <1>4. OrderInv'
    BY OrderStays DEF PipeIInv, InAction, InstallProviders
  <1> QED
    BY <1>1, <1>2, <1>3, <1>4, ControlStep DEF InstallProviders, Built

LEMMA BeginActionInv == ASSUME PipeIInv, BeginAction PROVE PipeIInv'
  <1>1. QueueInv' /\ Lines' = Lines /\ UNCHANGED <<m_tasks, out, at>>
    BY QueueStays DEF BeginAction, PipeIInv, sinkVars, queueVars, Lines
  <1>2. begun \in Nat /\ begun + 1 \in 1 .. Len(Ports)
    BY ConstantsHold DEF BeginAction, PipeIInv, PipeTypeInv
  <1>3. PipeTypeInv'
    BY <1>2 DEF PipeIInv, PipeTypeInv, BeginAction, sinkVars, syncVars
  <1>4. PhaseInv'
    BY DEF PipeIInv, PhaseInv, Submitting, BeginAction, sinkVars, syncVars, queueVars
  <1>5. OrderInv'
    BY <1>2 DEF PipeIInv, OrderInv, InAction, BeginAction
  <1> QED
    BY <1>1, <1>3, <1>4, <1>5, ControlStep DEF BeginAction, Built

LEMMA BeginWaitInv == ASSUME PipeIInv, BeginWait PROVE PipeIInv'
  <1>1. QueueInv' /\ Lines' = Lines /\ UNCHANGED <<m_tasks, out, at>>
    BY QueueStays DEF BeginWait, PipeIInv, sinkVars, queueVars, Lines
  <1>2. PipeTypeInv'
    BY DEF PipeIInv, PipeTypeInv, BeginWait, sinkVars, syncVars
  <1>3. PhaseInv'
    BY DEF PipeIInv, PhaseInv, Submitting, BeginWait, sinkVars, syncVars, queueVars
  <1>4. OrderInv'
    BY OrderStays DEF PipeIInv, InAction, BeginWait
  <1> QED
    BY <1>1, <1>2, <1>3, <1>4, ControlStep DEF BeginWait, Built

LEMMA JoinInv == ASSUME PipeIInv, Join PROVE PipeIInv'
  <1>1. QueueInv' /\ Lines' = Lines /\ UNCHANGED <<m_tasks, out, at>>
    BY QueueStays DEF Join, PipeIInv, sinkVars, queueVars, Lines
  <1>2. PipeTypeInv'
    BY DEF PipeIInv, PipeTypeInv, Join, Goto, sinkVars, syncVars
  <1>3. m_tasks = <<>>
    BY ConstantsHold DEF PipeIInv, QueueInv, NoLostWakeup, Join
  <1>4. PhaseInv'
    BY <1>3 DEF PipeIInv, PhaseInv, Submitting, Join, Goto, sinkVars, syncVars, queueVars
  <1>5. OrderInv'
    BY OrderStays DEF PipeIInv, InAction, Join, Goto
  <1> QED
    BY <1>1, <1>2, <1>4, <1>5, ControlStep DEF Join, Goto, Built

LEMMA DestroyInv == ASSUME PipeIInv, Destroy PROVE PipeIInv'
  <1>1. QueueInv' /\ Lines' = Lines /\ UNCHANGED <<m_tasks, out, at>>
    BY QueueStays DEF Destroy, PipeIInv, sinkVars, queueVars, Lines
  <1>2. PipeTypeInv'
    BY DEF PipeIInv, PipeTypeInv, Destroy, sinkVars, syncVars
  <1>3. PhaseInv'
    BY DEF PipeIInv, PhaseInv, Submitting, Destroy, sinkVars, syncVars, queueVars
  <1>4. OrderInv'
    BY OrderStays DEF PipeIInv, InAction, Destroy
  <1> QED
    BY <1>1, <1>2, <1>3, <1>4, ControlStep DEF Destroy, Built

LEMMA StopStepInv == ASSUME PipeIInv, StopStep PROVE PipeIInv'
  <1>1. QueueInv' /\ Lines' = Lines /\ UNCHANGED <<m_tasks, out, at>>
    BY StopQueueInv DEF StopStep, StopQueue, PipeIInv, sinkVars, Lines
  <1>2. PipeTypeInv'
    BY DEF PipeIInv, PipeTypeInv, StopStep, Goto, sinkVars, syncVars
  <1>3. PhaseInv'
    BY DEF PipeIInv, PhaseInv, Submitting, StopStep, StopQueue, Goto, sinkVars, syncVars
  <1>4. OrderInv'
    BY OrderStays DEF PipeIInv, InAction, StopStep, Goto
  <1> QED
    BY <1>1, <1>2, <1>3, <1>4, ControlStep DEF StopStep, Goto, Built

LEMMA SpuriousWakeInv == ASSUME PipeIInv, SpuriousWake PROVE PipeIInv'
  <1>1. QueueInv' /\ Lines' = Lines /\ UNCHANGED <<m_tasks, out, at>>
    BY WakeInv, ConstantsHold DEF SpuriousWake, Wake, PipeIInv, sinkVars, Lines
  <1>2. PipeTypeInv'
    BY DEF PipeIInv, PipeTypeInv, SpuriousWake, fgVars, sinkVars, syncVars
  <1>3. PhaseInv'
    BY DEF PipeIInv, PhaseInv, Submitting, SpuriousWake, Wake, fgVars, sinkVars, syncVars
  <1>4. OrderInv'
    BY OrderStays DEF PipeIInv, InAction, SpuriousWake, fgVars
  <1> QED
    BY <1>1, <1>2, <1>3, <1>4, ControlStep DEF SpuriousWake, fgVars, Built

LEMMA PublishStepInv == ASSUME PipeIInv, PublishStep PROVE PipeIInv'
  <1>1. QueueInv' /\ UNCHANGED <<m_tasks, out, at>>
    BY QueueStays DEF PublishStep, PipeIInv, queueVars
  <1>2. tmp = <<>> /\ console \in Seq(Line) /\ m_published \in Seq(Line)
    BY DEF PipeIInv, PhaseInv, PipeTypeInv, PublishStep
  <1>3. Lines' = Lines /\ console' \in Seq(Line)
    <2>1. console \o m_published \in Seq(Line)
      BY <1>2, ConcatProperties
    <2>2. Lines = console \o m_published
      BY <1>2, ConcatEmptySeq DEF Lines
    <2>3. Lines' = console \o m_published
      BY <1>2, <2>1, ConcatEmptySeq DEF Lines, PublishStep, PublishDirectly
    <2> QED
      BY <2>1, <2>2, <2>3 DEF PublishStep, PublishDirectly
  <1>4. PipeTypeInv'
    BY <1>3, EmptySeq DEF PipeIInv, PipeTypeInv, PublishStep, PublishDirectly, Goto, syncVars
  <1>5. PhaseInv'
    BY <1>2 DEF PipeIInv, PhaseInv, Submitting, PublishStep, PublishDirectly, Goto, syncVars, queueVars
  <1>6. OrderInv'
    BY OrderStays DEF PipeIInv, InAction, PublishStep, Goto
  <1> QED
    BY <1>1, <1>3, <1>4, <1>5, <1>6, ControlStep DEF PublishStep, Goto, Built

LEMMA PrintPublishedInv == ASSUME PipeIInv, PrintPublished PROVE PipeIInv'
  <1>1. QueueInv' /\ UNCHANGED <<m_tasks, out, at>>
    BY QueueStays DEF PrintPublished, PipeIInv, queueVars
  <1>2. console \in Seq(Line) /\ tmp \in Seq(Line) /\ m_published \in Seq(Line)
    BY DEF PipeIInv, PipeTypeInv
  <1>3. CASE fg = "print" /\ SwapPublished
                /\ Goto(IF m_published = <<>> THEN after ELSE "printing")
    <2>1. tmp = <<>>
      BY <1>3 DEF PipeIInv, PhaseInv
    <2>2. Lines' = Lines
      <3>1. Lines = console \o m_published
        BY <1>2, <2>1, ConcatEmptySeq DEF Lines
      <3>2. Lines' = (console \o m_published) \o <<>>
        BY <1>3 DEF Lines, SwapPublished
      <3> QED
        BY <1>2, <3>1, <3>2, ConcatProperties, ConcatEmptySeq
    <2>3. PipeTypeInv'
      BY <1>2, <1>3, EmptySeq
      DEF PipeIInv, PipeTypeInv, PrintPublished, SwapPublished, Goto, syncVars
    <2>4. after \in {"build", "mark"}
      BY <1>3 DEF PipeIInv, PipeTypeInv
    <2>5. PhaseInv'
      BY <1>3, <2>1, <2>4
      DEF PipeIInv, PhaseInv, Submitting, PrintPublished, SwapPublished, Goto, syncVars, queueVars
    <2>6. OrderInv'
      BY <1>3, <2>4, OrderStays DEF PipeIInv, InAction, Goto
    <2> QED
      BY <1>1, <1>3, <2>2, <2>3, <2>4, <2>5, <2>6, ControlStep DEF PrintPublished, Goto, Built
  <1>4. CASE fg = "printing" /\ PrintSwapped /\ Goto("print")
    <2>1. Lines' = Lines /\ console' \in Seq(Line)
      BY <1>2, <1>4, ConcatProperties, ConcatEmptySeq DEF Lines, PrintSwapped
    <2>2. PipeTypeInv'
      BY <1>2, <1>4, <2>1, EmptySeq
      DEF PipeIInv, PipeTypeInv, PrintPublished, PrintSwapped, Goto, syncVars
    <2>3. PhaseInv'
      BY <1>4 DEF PipeIInv, PhaseInv, Submitting, PrintPublished, PrintSwapped, Goto, syncVars, queueVars
    <2>4. OrderInv'
      BY <1>4, OrderStays DEF PipeIInv, InAction, Goto
    <2> QED
      BY <1>1, <1>4, <2>1, <2>2, <2>3, <2>4, ControlStep DEF PrintPublished, Goto, Built
  <1> QED
    BY <1>3, <1>4 DEF PrintPublished

LEMMA BegunInItem ==
    ASSUME PipeTypeInv, OrderInv, InAction PROVE begun \in Item /\ PackageDir(begun) \in Dirs
  BY ConstantsHold, DirInDirs DEF PipeTypeInv, OrderInv

\* The directory of the action in work is not that of a package submitted before.
LEMMA SubmittedElsewhere ==
    ASSUME PipeTypeInv, OrderInv, InAction, NEW i \in 1 .. Len(submitted)
    PROVE  submitted[i] \in Item /\ PackageDir(submitted[i]) # PackageDir(begun)
  <1>1. submitted[i] \in Item /\ submitted[i] < begun
    BY ElementOfSeq DEF PipeTypeInv, OrderInv
  <1>2. begun \in Item /\ submitted[i] # begun
    BY <1>1, BegunInItem, ConstantsHold
  <1> QED
    BY <1>1, <1>2, DirectoriesDiffer

\* A step that changes directories only.
LEMMA DirectoryStep ==
    ASSUME PipeIInv, PipeTypeInv', PhaseInv', OrderInv', DirInv',
           UNCHANGED <<queueVars, syncVars, sinkVars, bgStep, uploads, submitted>>,
           (fg' = "push") = (fg = "push")
    PROVE  PipeIInv'
  <1>1. SyncIInv' /\ QueueInv' /\ Lines' = Lines /\ UNCHANGED <<m_tasks, out, at>>
    BY SyncStep, QueueStays DEF PipeIInv, sinkVars, queueVars, Lines
  <1>2. UNCHANGED <<progress, m_state>> /\ Alive' = Alive
    BY DEF syncVars, Alive
  <1>3. SplitInv' /\ UploadInv' /\ CountInv'
    BY <1>1, <1>2, SplitStays, UploadStays, CountStays DEF PipeIInv
  <1> QED
    BY <1>1, <1>3 DEF PipeIInv

LEMMA BuildPackageInv == ASSUME PipeIInv, BuildPackage PROVE PipeIInv'
  <1>1. InAction /\ ~ Built /\ begun \in Item /\ PackageDir(begun) \in Dirs
    BY BegunInItem DEF PipeIInv, BuildPackage, InAction, Built
  <1>2. PICK n \in {0, begun} : /\ dirs' = [dirs EXCEPT ![PackageDir(begun)] = n]
                                /\ (Built' /\ n = begun) \/ (~ Built' /\ n = 0)
    BY DEF BuildPackage, Goto, Built
  <1>3. PipeTypeInv'
    <2>1. begun \in 0 .. Len(Ports) /\ 0 \in 0 .. Len(Ports)
      BY ConstantsHold DEF PipeIInv, PipeTypeInv
    <2>2. dirs' \in [Dirs -> 0 .. Len(Ports)]
      BY <1>2, <2>1 DEF PipeIInv, PipeTypeInv
    <2> QED
      BY <2>2 DEF PipeIInv, PipeTypeInv, BuildPackage, Goto, sinkVars, syncVars
  <1>4. PhaseInv'
    BY DEF PipeIInv, PhaseInv, Submitting, BuildPackage, Goto, sinkVars, syncVars, queueVars
  <1>5. OrderInv'
    BY OrderStays, <1>1 DEF PipeIInv, BuildPackage, Goto
  <1>6. DirInv'
    <2>1. dirs \in [Dirs -> 0 .. Len(Ports)] /\ DirInv
      BY DEF PipeIInv, PipeTypeInv
    <2>2. /\ UNCHANGED <<submitted, begun, bgStep>> /\ Cleaned' = Cleaned
          /\ ~ Built' => n = 0
      BY <1>2 DEF BuildPackage, Goto, Cleaned, Lined, Lines, sinkVars
    <2>3. \A i \in 1 .. Len(submitted) : PackageDir(submitted[i]) \in Dirs /\ PackageDir(submitted[i]) # PackageDir(begun)
      BY <1>1, SubmittedElsewhere, DirInDirs DEF PipeIInv
    <2>4. \A d \in Dirs : dirs'[d] = IF d = PackageDir(begun) THEN n ELSE dirs[d]
      BY <1>2, <2>1
    <2>5. \A d \in Dirs : dirs'[d] # 0 => PackageDir(dirs'[d]) = d
      BY <2>1, <2>4 DEF DirInv
    <2>6. Built' => dirs'[PackageDir(begun)] = begun
      BY <1>1, <1>2, <2>4
    <2>7. \A i \in 1 .. Len(submitted) : i > Cleaned => dirs'[PackageDir(submitted[i])] = submitted[i]
      BY <2>1, <2>3, <2>4 DEF DirInv
    <2>8. CleanPackages => \A d \in Dirs :
             \/ dirs'[d] = 0
             \/ Built' /\ dirs'[d] = begun
             \/ \E i \in 1 .. Len(submitted) : i > Cleaned /\ dirs'[d] = submitted[i]
      BY <1>1, <1>2, <2>1, <2>2, <2>4 DEF DirInv
    <2> QED
      BY <2>2, <2>5, <2>6, <2>7, <2>8 DEF DirInv
  <1> QED
    BY <1>3, <1>4, <1>5, <1>6, DirectoryStep DEF BuildPackage, Goto

LEMMA CleanUnsubmittedInv == ASSUME PipeIInv, CleanUnsubmitted PROVE PipeIInv'
  <1>1. InAction /\ begun \in Item /\ PackageDir(begun) \in Dirs /\ ~ Built'
    <2>1. InAction /\ fg' = "ready"
      BY DEF CleanUnsubmitted, Goto, InAction
    <2> QED
      BY <2>1, BegunInItem DEF PipeIInv, Built
  <1>2. PipeTypeInv'
    <2>1. 0 \in 0 .. Len(Ports)
      BY ConstantsHold
    <2>2. dirs' \in [Dirs -> 0 .. Len(Ports)]
      BY <2>1 DEF PipeIInv, PipeTypeInv, CleanUnsubmitted
    <2> QED
      BY <2>2 DEF PipeIInv, PipeTypeInv, CleanUnsubmitted, Goto, sinkVars, syncVars
  <1>3. PhaseInv'
    BY DEF PipeIInv, PhaseInv, Submitting, CleanUnsubmitted, Goto, sinkVars, syncVars, queueVars
  <1>4. OrderInv'
    BY OrderStays, <1>1 DEF PipeIInv, CleanUnsubmitted, Goto
  <1>5. DirInv'
    <2>1. dirs \in [Dirs -> 0 .. Len(Ports)] /\ DirInv
      BY DEF PipeIInv, PipeTypeInv
    <2>2. UNCHANGED <<submitted, begun, bgStep>> /\ Cleaned' = Cleaned
      BY DEF CleanUnsubmitted, Goto, Cleaned, Lined, Lines, sinkVars
    <2>3. \A i \in 1 .. Len(submitted) : PackageDir(submitted[i]) \in Dirs /\ PackageDir(submitted[i]) # PackageDir(begun)
      BY <1>1, SubmittedElsewhere, DirInDirs DEF PipeIInv
    <2>4. \A d \in Dirs : dirs'[d] = IF CleanPackages /\ d = PackageDir(begun) THEN 0 ELSE dirs[d]
      BY <2>1 DEF CleanUnsubmitted
    <2>5. CleanPackages => \A d \in Dirs :
             \/ dirs'[d] = 0
             \/ \E i \in 1 .. Len(submitted) : i > Cleaned /\ dirs'[d] = submitted[i]
      <3> SUFFICES ASSUME CleanPackages, NEW d \in Dirs, dirs'[d] # 0
                   PROVE  \E i \in 1 .. Len(submitted) : i > Cleaned /\ dirs'[d] = submitted[i]
        OBVIOUS
      <3>1. d # PackageDir(begun) /\ dirs'[d] = dirs[d]
        BY <2>4
      <3>2. dirs[d] # begun
        BY <2>1, <3>1 DEF DirInv
      <3> QED
        BY <2>1, <3>1, <3>2 DEF DirInv
    <2>6. \A d \in Dirs : dirs'[d] # 0 => PackageDir(dirs'[d]) = d
      BY <2>1, <2>4 DEF DirInv
    <2>7. \A i \in 1 .. Len(submitted) : i > Cleaned => dirs'[PackageDir(submitted[i])] = submitted[i]
      BY <2>1, <2>3, <2>4 DEF DirInv
    <2> QED
      BY <1>1, <2>2, <2>5, <2>6, <2>7 DEF DirInv
  <1> QED
    BY <1>2, <1>3, <1>4, <1>5, DirectoryStep DEF CleanUnsubmitted, Goto

\* A step that changes the word, and with it the counts.
LEMMA WordStep ==
    ASSUME PipeIInv, SyncIInv', PipeTypeInv', PhaseInv', CountInv',
           UNCHANGED <<queueVars, sinkVars, dirs, uploads, submitted, begun, after>>,
           InAction' = InAction, Built' = Built,
           bgStep' = bgStep \/ (bgStep = "count" /\ bgStep' = "line")
    PROVE  PipeIInv'
  <1>1. QueueInv' /\ Lines' = Lines /\ UNCHANGED <<m_tasks, out, at>>
    BY QueueStays DEF PipeIInv, sinkVars, queueVars, Lines
  <1>2. OrderInv' /\ SplitInv'
    BY <1>1, OrderStays, SplitStays DEF PipeIInv
  <1>3. UploadInv' /\ Cleaned' = Cleaned
    BY <1>1 DEF PipeIInv, UploadInv, Cleaned, Lined
  <1>4. DirInv'
    BY <1>3 DEF PipeIInv, DirInv, Built
  <1> QED
    BY <1>1, <1>2, <1>3, <1>4 DEF PipeIInv

LEMMA PendingType == ASSUME PipeIInv PROVE Pending \in Nat /\ Len(m_tasks) \in Nat /\ Len(out[Background]) \in Nat
  <1>1. m_tasks \in Seq(Item) /\ out[Background] \in Seq(Item)
    BY ConstantsHold DEF PipeIInv, QueueInv, QueueTypeOK
  <1>2. Len(m_tasks) \in Nat /\ Len(out[Background]) \in Nat
    BY <1>1, LenProperties
  <1>3. bgStep = "line" => Len(out[Background]) > 0
    BY <1>1, ConstantsHold, EmptySeq DEF PipeIInv, QueueInv, UploadInv
  <1> DEFINE m == Len(m_tasks)
             o == Len(out[Background])
  <1>4. m \in Nat /\ o \in Nat /\ (bgStep = "line" => o > 0)
    BY <1>2, <1>3
  <1>5. Pending = (IF fg = "push" THEN 1 ELSE 0) + m + o - (IF bgStep = "line" THEN 1 ELSE 0)
    BY DEF Pending
  <1> HIDE DEF m, o
  <1>6. Pending \in Nat
    BY <1>4, <1>5
  <1> QED
    BY <1>2, <1>6

LEMMA CountsType ==
    ASSUME SyncIInv, fgAt # "abort"
    PROVE  Clean(m_state) /\ Submitted(m_state) \in 0 .. MaxCount /\ Completed(m_state) \in 0 .. MaxCount
  BY CleanParts DEF SyncIInv

LEMMA SubmitInv == ASSUME PipeIInv, Alive, Submit PROVE PipeIInv'
  <1>1. SyncIInv'
    BY SyncStep DEF PipeIInv, Submit, NextSync
  <1>2. /\ Clean(m_state) /\ Submitted(m_state) \in 0 .. MaxCount /\ Completed(m_state) \in 0 .. MaxCount
        /\ IsComplete(m_state') <=> IsComplete(m_state)
        /\ Completed(m_state') = Completed(m_state)
        /\ Alive' => Submitted(m_state') = Submitted(m_state) + 1
    <2>1. Clean(m_state) /\ Submitted(m_state) \in 0 .. MaxCount /\ Completed(m_state) \in 0 .. MaxCount
      BY CountsType DEF PipeIInv, Alive
    <2>2. Alive' => Submitted(m_state) # MaxCount
      BY DEF Submit, AddSubmitted, Alive
    <2> QED
      BY <2>1, <2>2, AddOneToWord DEF Submit, AddSubmitted
  <1>3. PipeTypeInv'
    BY DEF PipeIInv, PipeTypeInv, Submit, AddSubmitted, Goto, sinkVars
  <1>4. PhaseInv'
    BY <1>2 DEF PipeIInv, PhaseInv, Submitting, Submit, AddSubmitted, Goto, sinkVars, queueVars
  <1>5. CountInv'
    <2>1. CountersMatchQueue'
      <3>1. Pending' = Pending + 1
        <4>1. Len(m_tasks) \in Nat /\ Len(out[Background]) \in Nat
          BY PendingType
        <4> DEFINE m == Len(m_tasks)
                   o == Len(out[Background])
                   b == IF bgStep = "line" THEN 1 ELSE 0
        <4>2. Pending = m + o - b /\ Pending' = 1 + m + o - b /\ b \in {0, 1}
          <5>1. /\ fg # "push" /\ fg' = "push" /\ bgStep' = bgStep
                /\ m_tasks' = m_tasks /\ out' = out
            BY DEF Submit, Goto, queueVars
          <5>2. Pending = 0 + m + o - b /\ Pending' = 1 + m + o - b
            BY <5>1 DEF Pending
          <5> QED
            BY <4>1, <5>2
        <4>3. m \in Nat /\ o \in Nat
          BY <4>1
        <4> HIDE DEF m, o, b
        <4> QED
          BY <4>2, <4>3
      <3>2. Submitted(m_state) - Completed(m_state) = Pending
        BY DEF PipeIInv, CountInv, CountersMatchQueue
      <3> QED
        BY <1>2, <3>1, <3>2, PendingType DEF CountersMatchQueue
    <2>2. Lines' = Lines /\ Lined' = Lined /\ UNCHANGED <<bgStep, progress, submitted>>
      BY DEF Lines, Lined, Submit, AddSubmitted, Goto, sinkVars
    <2>3. \A p, i : Tells(p, i) => Tells(p, i)'
      BY <1>2, <2>2 DEF Tells
    <2> QED
      BY <2>1, <2>2, <2>3 DEF PipeIInv, CountInv
  <1>6. InAction' = InAction /\ Built' = Built
    BY DEF Submit, Goto, InAction, Built
  <1> QED
    BY <1>1, <1>3, <1>4, <1>5, <1>6, WordStep DEF Submit, Goto

LEMMA MarkSubmissionCompleteInv == ASSUME PipeIInv, Alive, MarkSubmissionComplete PROVE PipeIInv'
  <1>1. SyncIInv'
    BY SyncStep DEF PipeIInv, MarkSubmissionComplete, NextSync
  <1>2. /\ UNCHANGED <<after, round, begun, providers, submitted, progress, bgAt>>
        /\ fg = "mark" /\ fg' \in {"mark", "publish"}
        /\ fg' = "publish" => fgAt' = "idle"
        /\ Alive'
    BY DEF MarkSubmissionComplete, Goto, fgVars, LoadForMark, CasMark, CasMarkFails, OrMark, Alive
  <1>3. PipeTypeInv'
    BY <1>2 DEF PipeIInv, PipeTypeInv, MarkSubmissionComplete, sinkVars
  <1>4. PhaseInv'
    BY <1>2 DEF PipeIInv, PhaseInv, Submitting, MarkSubmissionComplete, sinkVars, queueVars
  <1>5. /\ IsComplete(m_state) => IsComplete(m_state')
        /\ Submitted(m_state') - Completed(m_state') = Submitted(m_state) - Completed(m_state)
    <2>1. /\ Submitted(m_state) \in 0 .. MaxCount /\ Completed(m_state) \in 0 .. MaxCount
          /\ Clean(m_state)
          /\ Submitted(m_state) - Completed(m_state) \in Nat
      BY CountsType, PendingType DEF PipeIInv, Alive, CountInv, CountersMatchQueue
    <2>2. CASE CasMark
      BY <2>1, <2>2, MarkedWord DEF CasMark
    <2>3. CASE LoadForMark \/ CasMarkFails \/ OrMark
      BY <2>3 DEF LoadForMark, CasMarkFails, OrMark, PipeIInv, SyncIInv
    <2> QED
      BY <2>2, <2>3 DEF MarkSubmissionComplete
  <1>6. CountInv'
    <2>1. Lines' = Lines /\ Lined' = Lined /\ bgStep' = bgStep /\ UNCHANGED <<m_tasks, out>>
      BY DEF Lines, Lined, MarkSubmissionComplete, sinkVars, queueVars
    <2>2. CountersMatchQueue'
      BY <1>2, <1>5, <2>1 DEF PipeIInv, CountInv, CountersMatchQueue, Pending
    <2>3. \A p, i : Tells(p, i) => Tells(p, i)'
      BY <1>2, <1>5 DEF Tells
    <2> QED
      BY <1>2, <2>1, <2>2, <2>3 DEF PipeIInv, CountInv
  <1>7. InAction' = InAction /\ Built' = Built
    BY <1>2 DEF InAction, Built
  <1> QED
    BY <1>1, <1>2, <1>3, <1>4, <1>6, <1>7, WordStep DEF MarkSubmissionComplete

LEMMA CountCompletedInv == ASSUME PipeIInv, Alive, CountCompleted PROVE PipeIInv'
  <1>1. SyncIInv'
    BY SyncStep DEF PipeIInv, CountCompleted, NextSync
  <1>2. /\ UNCHANGED <<fg, after, round, begun, providers, submitted, fgAt>>
        /\ bgStep = "count" /\ at[Background] = "working"
    BY DEF CountCompleted, fgVars, LoadForCompleted, CompletedExceeded, CasCompletedFails, CasCompleted
  <1>3. Lines' = Lines /\ Lined' = Lined /\ UNCHANGED <<m_tasks, out>>
    BY DEF Lines, Lined, CountCompleted, sinkVars, queueVars
  <1>4. InAction' = InAction /\ Built' = Built
    BY <1>2 DEF InAction, Built
  <1>5. CASE (LoadForCompleted \/ CompletedExceeded \/ CasCompletedFails) /\ UNCHANGED bgStep
    <2>1. UNCHANGED <<m_state, progress>> /\ (Alive' => Alive)
      BY <1>5 DEF LoadForCompleted, CompletedExceeded, CasCompletedFails
    <2>2. PipeTypeInv'
      BY <1>2, <1>5, <2>1 DEF PipeIInv, PipeTypeInv, CountCompleted, sinkVars
    <2>3. PhaseInv'
      BY <1>2, <2>1 DEF PipeIInv, PhaseInv, Submitting, CountCompleted, sinkVars, queueVars
    <2>4. CountInv'
      BY <1>2, <1>3, <1>5, <2>1, CountStays DEF PipeIInv
    <2> QED
      BY <1>1, <1>2, <1>4, <1>5, <2>2, <2>3, <2>4, WordStep DEF CountCompleted
  <1>6. CASE CasCompleted /\ bgStep' = "line"
    <2>1. /\ Clean(m_state) /\ m_state = bgOld /\ Completed(m_state) # MaxCount
          /\ m_state' = m_state + OneCompleted
          /\ progress' = SyncState(m_state')
          /\ Submitted(m_state) \in 0 .. MaxCount /\ Completed(m_state) \in 0 .. MaxCount
      BY <1>6, CountsType DEF CasCompleted, PipeIInv, Alive
    <2>2. /\ Clean(m_state')
          /\ Submitted(m_state') = Submitted(m_state)
          /\ Completed(m_state') = Completed(m_state) + 1
          /\ IsComplete(m_state') <=> IsComplete(m_state)
      BY <2>1, AddCompletedToWord
    <2>3. /\ progress' \in Progress
          /\ progress'.jobs_submitted = Submitted(m_state')
          /\ progress'.jobs_completed = Completed(m_state')
          /\ progress'.submission_complete = IsComplete(m_state')
      <3>1. Submitted(m_state') \in Nat /\ Completed(m_state') \in Nat
        BY <2>1, <2>2, ConstantsHold
      <3>2. IsComplete(m_state') \in BOOLEAN
        BY DEF IsComplete
      <3> QED
        BY <2>1, <3>1, <3>2 DEF SyncState, Progress
    <2>4. PipeTypeInv'
      BY <1>2, <1>6, <2>3 DEF PipeIInv, PipeTypeInv, CountCompleted, sinkVars
    <2>5. PhaseInv'
      BY <1>2, <2>2 DEF PipeIInv, PhaseInv, Submitting, CountCompleted, sinkVars, queueVars
    <2>6. Submitted(m_state') - Completed(m_state') = Pending'
      <3>1. Pending' = Pending - 1
        BY <1>2, <1>3, <1>6, PendingType DEF Pending
      <3>2. Submitted(m_state) - Completed(m_state) = Pending
        BY DEF PipeIInv, CountInv, CountersMatchQueue
      <3> QED
        BY <2>1, <2>2, <3>1, <3>2, PendingType
    <2>7. Tells(progress, Lined + 1)'
      <3> SUFFICES ASSUME IsComplete(m_state')
                   PROVE  progress'.jobs_submitted - progress'.jobs_completed = Len(submitted') - (Lined' + 1)
        BY <2>3 DEF Tells
      <3>1. fg # "push"
        BY <2>2 DEF PipeIInv, PhaseInv, Submitting
      <3>2. Pending' = Len(m_tasks) + Len(out[Background]) - 1
        BY <1>2, <1>3, <1>6, <3>1, PendingType DEF Pending
      <3>3. Len(submitted) = Lined + Len(out[Background]) + Len(m_tasks)
        BY DEF PipeIInv, SplitInv
      <3>4. progress'.jobs_submitted - progress'.jobs_completed = Pending'
        BY <2>3, <2>6
      <3>5. Len(submitted') = Len(submitted) /\ Lined' = Lined /\ Lined \in Nat
        BY <1>2, <1>3, LinesType DEF PipeIInv
      <3> HIDE DEF Lined
      <3> QED
        BY <3>2, <3>3, <3>4, <3>5, PendingType
    <2>8. \A p, i : Tells(p, i) => Tells(p, i)'
      BY <1>2, <2>2 DEF Tells
    <2>9. CountInv'
      BY <1>3, <2>6, <2>7, <2>8 DEF PipeIInv, CountInv, CountersMatchQueue
    <2> QED
      BY <1>1, <1>2, <1>4, <1>6, <2>4, <2>5, <2>9, WordStep DEF CountCompleted
  <1> QED
    BY <1>5, <1>6 DEF CountCompleted

LEMMA BegunIsNat == ASSUME PipeTypeInv PROVE begun \in Nat
  BY ConstantsHold DEF PipeTypeInv

LEMMA PushTaskInv == ASSUME PipeIInv, Alive, PushTask PROVE PipeIInv'
  <1>1. /\ InAction /\ Submitting /\ Built /\ ~ InAction' /\ ~ Built' /\ fg = "push" /\ fg' = "ready"
        /\ UNCHANGED <<after, round, begun, providers, dirs, bgStep, uploads, at, out, m_running>>
        /\ UNCHANGED <<m_state, progress, fgAt, bgAt>>
        /\ Lines' = Lines /\ Lined' = Lined
    BY DEF PushTask, Push, InAction, Submitting, Built, Lines, Lined, sinkVars, syncVars
  <1>2. begun \in Item
    BY <1>1, BegunInItem DEF PipeIInv
  <1>3. submitted \in Seq(Item) /\ m_tasks \in Seq(Item) /\ out[Background] \in Seq(Item)
    BY ConstantsHold DEF PipeIInv, PipeTypeInv, QueueInv, QueueTypeOK
  <1>4. submitted' = Append(submitted, begun) /\ m_tasks' = Append(m_tasks, begun)
    BY DEF PushTask, Push
  <1>5. /\ submitted' \in Seq(Item) /\ Len(submitted') = Len(submitted) + 1 /\ Len(submitted) \in Nat
        /\ \A i \in 1 .. Len(submitted) : submitted'[i] = submitted[i]
        /\ submitted'[Len(submitted) + 1] = begun
    BY <1>2, <1>3, <1>4, AppendProperties, LenProperties
  <1>6. /\ Len(m_tasks') = Len(m_tasks) + 1 /\ Len(m_tasks) \in Nat
        /\ \A i \in 1 .. Len(m_tasks) : m_tasks'[i] = m_tasks[i]
        /\ m_tasks'[Len(m_tasks) + 1] = begun
    BY <1>2, <1>3, <1>4, AppendProperties, LenProperties
  <1>7. Lined \in Nat /\ Len(out[Background]) \in Nat
    BY LinesType, PendingType DEF PipeIInv
  <1>8. Len(submitted) = Lined + Len(out[Background]) + Len(m_tasks)
    BY DEF PipeIInv, SplitInv
  <1>9. SyncIInv' /\ QueueInv'
    <2>1. m_running
      BY <1>1 DEF PipeIInv, PhaseInv
    <2> QED
      BY <1>2, <2>1, PushInv, SyncStep DEF PipeIInv, PushTask
  <1>10. PipeTypeInv'
    BY <1>1, <1>5 DEF PipeIInv, PipeTypeInv, PushTask, sinkVars
  <1>11. PhaseInv'
    BY <1>1 DEF PipeIInv, PhaseInv, Submitting, PushTask, sinkVars
  <1>12. OrderInv'
    <2>1. \A i \in 1 .. Len(submitted) : submitted[i] \in Nat /\ submitted[i] < begun
      BY <1>1, <1>3, ConstantsHold, ElementOfSeq DEF PipeIInv, OrderInv
    <2>2. \A i \in 1 .. Len(submitted') : submitted'[i] < begun + 1
      BY <1>2, <1>5, <2>1, ConstantsHold
    <2>3. \A i, j \in 1 .. Len(submitted) : i < j => submitted[i] < submitted[j]
      BY DEF PipeIInv, OrderInv
    <2>4. ASSUME NEW i \in 1 .. Len(submitted'), NEW j \in 1 .. Len(submitted'), i < j
          PROVE  submitted'[i] < submitted'[j]
      <3>1. i \in 1 .. Len(submitted) /\ submitted'[i] = submitted[i]
        BY <1>5, <2>4
      <3>2. CASE j = Len(submitted) + 1
        BY <1>5, <2>1, <3>1, <3>2
      <3>3. CASE j # Len(submitted) + 1
        <4>1. j \in 1 .. Len(submitted) /\ submitted'[j] = submitted[j]
          BY <1>5, <3>3
        <4> QED
          BY <2>3, <2>4, <3>1, <4>1
      <3> QED
        BY <3>2, <3>3
    <2> QED
      BY <1>1, <2>2, <2>4 DEF OrderInv
  <1>13. SplitInv'
    <2> DEFINE n == Lined
               o == Len(out[Background])
               m == Len(m_tasks)
               k == Len(submitted)
    <2>0. /\ n \in Nat /\ o \in Nat /\ m \in Nat /\ k = n + o + m
          /\ Lined' = n /\ Len(out'[Background]) = o /\ Len(m_tasks') = m + 1 /\ Len(submitted') = k + 1
      BY <1>1, <1>5, <1>6, <1>7, <1>8
    <2>5. /\ \A i \in 1 .. m : m_tasks'[i] = m_tasks[i] /\ m_tasks[i] = submitted[n + o + i]
          /\ m_tasks'[m + 1] = begun /\ submitted'[k + 1] = begun
          /\ \A i \in 1 .. k : submitted'[i] = submitted[i]
      BY <1>5, <1>6 DEF PipeIInv, SplitInv
    <2>1. Len(submitted') = Lined' + Len(out'[Background]) + Len(m_tasks')
      <3> HIDE DEF n, o, m, k
      <3> QED
        BY <2>0
    <2>2. \A i \in 1 .. Lined' : Lines'[i].task = submitted'[i]
      BY <1>1, <1>5, <1>6, <1>7, <1>8 DEF PipeIInv, SplitInv
    <2>3. \A i \in 1 .. Len(out'[Background]) : out'[Background][i] = submitted'[Lined' + i]
      BY <1>1, <1>5, <1>6, <1>7, <1>8 DEF PipeIInv, SplitInv
    <2>4. \A i \in 1 .. Len(m_tasks') : m_tasks'[i] = submitted'[Lined' + Len(out'[Background]) + i]
      <3> HIDE DEF n, o, m, k
      <3>1. \A i \in 1 .. m + 1 : m_tasks'[i] = submitted'[n + o + i]
        <4> SUFFICES ASSUME NEW i \in 1 .. m + 1 PROVE m_tasks'[i] = submitted'[n + o + i]
          OBVIOUS
        <4>1. CASE i = m + 1
          <5>1. n + o + i = k + 1
            BY <2>0, <4>1
          <5> QED
            BY <2>5, <4>1, <5>1
        <4>2. CASE i \in 1 .. m
          <5>1. n + o + i \in 1 .. k
            BY <2>0, <4>2
          <5> QED
            BY <2>5, <4>2, <5>1
        <4>3. i = m + 1 \/ i \in 1 .. m
          BY <2>0
        <4> QED
          BY <4>1, <4>2, <4>3
      <3> QED
        BY <2>0, <3>1
    <2> QED
      BY <2>1, <2>2, <2>3, <2>4 DEF SplitInv
  <1>14. UploadInv'
    <2>1. Len(uploads) <= Len(submitted) /\ Len(uploads) \in Nat
      <3>1. bgStep # "upload" => Len(out[Background]) > 0
        BY <1>3, ConstantsHold, EmptySeq DEF PipeIInv, UploadInv, QueueInv
      <3> QED
        BY <1>6, <1>7, <1>8, <3>1 DEF PipeIInv, UploadInv
    <2>2. \A i \in 1 .. Len(uploads) : i \in 1 .. Len(submitted)
      BY <1>5, <2>1
    <2> QED
      BY <1>1, <1>5, <2>2 DEF PipeIInv, UploadInv
  <1>15. DirInv'
    <2>1. Cleaned' = Cleaned
      BY <1>1 DEF Cleaned
    <2>2. dirs[PackageDir(begun)] = begun
      BY <1>1 DEF PipeIInv, DirInv
    <2>3. \A i \in 1 .. Len(submitted') : i > Cleaned => dirs[PackageDir(submitted'[i])] = submitted'[i]
      BY <1>5, <2>2 DEF PipeIInv, DirInv
    <2>4. Len(submitted) + 1 > Cleaned
      <3>1. bgStep \in {"count", "line"} => Len(out[Background]) > 0
        BY <1>3, ConstantsHold, EmptySeq DEF PipeIInv, UploadInv, QueueInv
      <3> QED
        BY <1>6, <1>7, <1>8, <3>1 DEF Cleaned
    <2>5. CleanPackages => \A d \in Dirs :
             \/ dirs[d] = 0
             \/ \E i \in 1 .. Len(submitted') : i > Cleaned /\ dirs[d] = submitted'[i]
      <3> SUFFICES ASSUME CleanPackages, NEW d \in Dirs, dirs[d] # 0
                   PROVE  \E i \in 1 .. Len(submitted') : i > Cleaned /\ dirs[d] = submitted'[i]
        OBVIOUS
      <3>1. CASE dirs[d] = begun
        <4>1. Len(submitted) + 1 \in 1 .. Len(submitted')
          BY <1>5
        <4> QED
          BY <1>5, <2>4, <3>1, <4>1
      <3>2. CASE \E i \in 1 .. Len(submitted) : i > Cleaned /\ dirs[d] = submitted[i]
        BY <1>5, <3>2
      <3> QED
        BY <3>1, <3>2 DEF PipeIInv, DirInv
    <2> QED
      BY <1>1, <2>1, <2>3, <2>5 DEF PipeIInv, DirInv
  <1>16. CountInv'
    <2>1. CountersMatchQueue'
      <3>1. Pending' = Pending
        <4> DEFINE o == Len(out[Background])
                   m == Len(m_tasks)
                   b == IF bgStep = "line" THEN 1 ELSE 0
        <4>1. o \in Nat /\ m \in Nat /\ b \in {0, 1}
          BY <1>6, <1>7
        <4>2. Len(m_tasks') = m + 1
          BY <1>6
        <4>3. Pending = 1 + m + o - b /\ Pending' = 0 + (m + 1) + o - b
          BY <1>1, <4>2 DEF Pending
        <4> HIDE DEF o, m, b
        <4> QED
          BY <4>1, <4>3
      <3> QED
        BY <1>1, <3>1 DEF PipeIInv, CountInv, CountersMatchQueue, Alive
    <2>2. \A p, i : Tells(p, i) => Tells(p, i)'
      BY <1>1 DEF PipeIInv, PhaseInv, Tells
    <2> QED
      BY <1>1, <2>1, <2>2 DEF PipeIInv, CountInv
  <1> QED
    BY <1>9, <1>10, <1>11, <1>12, <1>13, <1>14, <1>15, <1>16 DEF PipeIInv

\* The package at hand is the first one submitted that has no line yet.
LEMMA TaskIsNext ==
    ASSUME PipeIInv, at[Background] = "working"
    PROVE  /\ out[Background] \in Seq(Item) /\ out[Background] # <<>>
           /\ Task = out[Background][1] /\ Task = submitted[Lined + 1] /\ Task \in Item
           /\ Lined \in Nat /\ Len(submitted) \in Nat /\ Lined + 1 \in 1 .. Len(submitted)
           /\ PackageDir(Task) \in Dirs
  <1>1. out[Background] \in Seq(Item) /\ out[Background] # <<>>
    BY ConstantsHold DEF PipeIInv, QueueInv, QueueTypeOK
  <1>2. Len(out[Background]) \in Nat \ {0} /\ Task = out[Background][1]
    BY <1>1, EmptySeq DEF Task
  <1>3. Lined \in Nat /\ Len(m_tasks) \in Nat
    BY LinesType, PendingType DEF PipeIInv
  <1>4. /\ Len(submitted) = Lined + Len(out[Background]) + Len(m_tasks)
        /\ \A i \in 1 .. Len(out[Background]) : out[Background][i] = submitted[Lined + i]
    BY DEF PipeIInv, SplitInv
  <1>5. Task = submitted[Lined + 1]
    BY <1>2, <1>4
  <1>6. Task \in Item
    BY <1>1, <1>2, ElementOfSeq
  <1> DEFINE n == Lined
             o == Len(out[Background])
             m == Len(m_tasks)
             k == Len(submitted)
  <1>7. n \in Nat /\ o \in Nat \ {0} /\ m \in Nat /\ k = n + o + m
    BY <1>2, <1>3, <1>4
  <1>8. k \in Nat /\ n + 1 \in 1 .. k
    <2> HIDE DEF n, o, m, k
    <2> QED
      BY <1>7
  <1> QED
    BY <1>1, <1>2, <1>3, <1>5, <1>6, <1>8, DirInDirs

LEMMA UploadStepInv == ASSUME PipeIInv, Upload PROVE PipeIInv'
  <1>1. /\ at[Background] = "working" /\ bgStep = "upload" /\ bgStep' = "clean"
        /\ UNCHANGED <<fg, after, round, begun, providers, submitted, dirs, m_state, progress, fgAt>>
        /\ UNCHANGED <<out, m_tasks, at, m_running>>
        /\ Lines' = Lines /\ Lined' = Lined /\ Cleaned' = Cleaned /\ Cleaned = Lined
    <2>1. Lined \in Nat
      BY LinesType DEF PipeIInv
    <2> QED
      BY <2>1 DEF Upload, Lines, Lined, Cleaned, fgVars, syncVars, sinkVars, queueVars
  <1>2. /\ Task = submitted[Lined + 1] /\ Task \in Item /\ PackageDir(Task) \in Dirs
        /\ Lined \in Nat /\ Lined + 1 \in 1 .. Len(submitted)
    BY <1>1, TaskIsNext
  <1>3. dirs[PackageDir(Task)] = Task
    <2>1. Lined + 1 > Cleaned
      BY <1>1, <1>2
    <2> QED
      BY <1>1, <1>2, <2>1 DEF PipeIInv, DirInv
  <1>4. uploads' = Append(uploads, <<Task, Task>>)
    BY <1>3 DEF Upload
  <1>5. <<Task, Task>> \in Item \X (0 .. Len(Ports)) /\ uploads \in Seq(Item \X (0 .. Len(Ports)))
    BY <1>2, ConstantsHold DEF PipeIInv, PipeTypeInv
  <1>6. /\ uploads' \in Seq(Item \X (0 .. Len(Ports)))
        /\ Len(uploads') = Len(uploads) + 1 /\ Len(uploads) = Lined
        /\ \A i \in 1 .. Len(uploads) : uploads'[i] = uploads[i]
        /\ uploads'[Lined + 1] = <<Task, Task>>
    <2>1. Len(uploads) = Lined
      BY <1>1, <1>2 DEF PipeIInv, UploadInv
    <2> QED
      BY <1>4, <1>5, <2>1, AppendProperties
  <1>7. SyncIInv' /\ QueueInv'
    BY SyncStep, QueueStays DEF PipeIInv, Upload
  <1>8. PipeTypeInv'
    BY <1>1, <1>6 DEF PipeIInv, PipeTypeInv, Upload, sinkVars
  <1>9. PhaseInv'
    BY <1>1 DEF PipeIInv, PhaseInv, Submitting, Upload, sinkVars
  <1>10. OrderInv' /\ SplitInv'
    BY <1>1, OrderStays, SplitStays DEF PipeIInv, InAction, Upload, queueVars
  <1>11. UploadInv'
    <2>1. \A i \in 1 .. Lined + 1 : uploads'[i] = <<submitted[i], submitted[i]>>
      <3> SUFFICES ASSUME NEW i \in 1 .. Lined + 1 PROVE uploads'[i] = <<submitted[i], submitted[i]>>
        OBVIOUS
      <3>1. CASE i = Lined + 1
        BY <1>2, <1>6, <3>1
      <3>2. CASE i \in 1 .. Lined
        BY <1>6, <3>2 DEF PipeIInv, UploadInv
      <3> QED
        BY <1>2, <3>1, <3>2
    <2> QED
      BY <1>1, <1>2, <1>6, <2>1 DEF UploadInv
  <1>12. DirInv'
    BY <1>1 DEF PipeIInv, DirInv, Built
  <1>13. CountInv'
    <2>1. Alive' = Alive /\ Pending' = Pending
      BY <1>1 DEF Upload, syncVars, Alive, Pending
    <2>2. \A p, i : Tells(p, i)' <=> Tells(p, i)
      BY <1>1 DEF Tells
    <2> QED
      BY <1>1, <2>1, <2>2 DEF PipeIInv, CountInv, CountersMatchQueue
  <1> QED
    BY <1>7, <1>8, <1>9, <1>10, <1>11, <1>12, <1>13 DEF PipeIInv

LEMMA CleanAfterPushInv == ASSUME PipeIInv, CleanAfterPush PROVE PipeIInv'
  <1>1. /\ at[Background] = "working" /\ bgStep = "clean" /\ bgStep' = "count"
        /\ UNCHANGED <<fg, after, round, begun, providers, submitted, uploads, m_state, progress, fgAt>>
        /\ UNCHANGED <<out, m_tasks, at, m_running>>
        /\ Lines' = Lines /\ Lined' = Lined /\ Cleaned = Lined /\ Cleaned' = Lined + 1
    <2>1. Lined \in Nat
      BY LinesType DEF PipeIInv
    <2> QED
      BY <2>1 DEF CleanAfterPush, Lines, Lined, Cleaned, fgVars, syncVars, sinkVars, queueVars
  <1>2. /\ Task = submitted[Lined + 1] /\ Task \in Item /\ PackageDir(Task) \in Dirs
        /\ Lined \in Nat /\ Len(submitted) \in Nat /\ Lined + 1 \in 1 .. Len(submitted)
    BY <1>1, TaskIsNext
  <1>3. SyncIInv' /\ QueueInv'
    BY SyncStep, QueueStays DEF PipeIInv, CleanAfterPush
  <1>4. dirs \in [Dirs -> 0 .. Len(Ports)] /\ 0 \in 0 .. Len(Ports) /\ DirInv
    BY ConstantsHold DEF PipeIInv, PipeTypeInv
  <1>5. /\ dirs' \in [Dirs -> 0 .. Len(Ports)]
        /\ \A d \in Dirs : dirs'[d] = IF CleanPackages /\ d = PackageDir(Task) THEN 0 ELSE dirs[d]
    BY <1>4 DEF CleanAfterPush
  <1>6. PipeTypeInv'
    BY <1>1, <1>5 DEF PipeIInv, PipeTypeInv, CleanAfterPush, sinkVars
  <1>7. PhaseInv'
    BY <1>1 DEF PipeIInv, PhaseInv, Submitting, CleanAfterPush, sinkVars
  <1>8. OrderInv' /\ SplitInv'
    BY <1>1, OrderStays, SplitStays DEF PipeIInv, InAction, CleanAfterPush, queueVars
  <1>9. UploadInv'
    BY <1>1 DEF PipeIInv, UploadInv
  <1>10. DirInv'
    <2>1. \A i \in 1 .. Len(submitted) : i > Lined + 1 =>
             PackageDir(submitted[i]) \in Dirs /\ PackageDir(submitted[i]) # PackageDir(Task)
      <3> SUFFICES ASSUME NEW i \in 1 .. Len(submitted), i > Lined + 1
                   PROVE  PackageDir(submitted[i]) \in Dirs /\ PackageDir(submitted[i]) # PackageDir(Task)
        OBVIOUS
      <3>1. submitted[i] \in Item
        BY ElementOfSeq DEF PipeIInv, PipeTypeInv
      <3>2. Task < submitted[i]
        BY <1>2 DEF PipeIInv, OrderInv
      <3>3. Task # submitted[i]
        BY <1>2, <3>1, <3>2, ConstantsHold
      <3> QED
        BY <1>2, <3>1, <3>3, DirectoriesDiffer, DirInDirs
    <2>2. Built => begun \in Item /\ PackageDir(begun) \in Dirs /\ PackageDir(begun) # PackageDir(Task)
      <3>1. Built => InAction
        BY DEF Built, InAction
      <3> QED
        BY <1>2, <3>1, BegunInItem, SubmittedElsewhere DEF PipeIInv
    <2>3. \A d \in Dirs : dirs'[d] # 0 => PackageDir(dirs'[d]) = d
      BY <1>4, <1>5 DEF DirInv
    <2>4. Built => dirs'[PackageDir(begun)] = begun
      BY <1>4, <1>5, <2>2 DEF DirInv
    <2>5. \A i \in 1 .. Len(submitted) : i > Lined + 1 => dirs'[PackageDir(submitted[i])] = submitted[i]
      <3> SUFFICES ASSUME NEW i \in 1 .. Len(submitted), i > Lined + 1
                   PROVE  dirs'[PackageDir(submitted[i])] = submitted[i]
        OBVIOUS
      <3>1. i > Cleaned
        BY <1>1, <1>2
      <3> QED
        BY <1>4, <1>5, <2>1, <3>1 DEF DirInv
    <2>6. CleanPackages => \A d \in Dirs :
             \/ dirs'[d] = 0
             \/ Built /\ dirs'[d] = begun
             \/ \E i \in 1 .. Len(submitted) : i > Lined + 1 /\ dirs'[d] = submitted[i]
      <3> SUFFICES ASSUME CleanPackages, NEW d \in Dirs, dirs'[d] # 0, ~ (Built /\ dirs'[d] = begun)
                   PROVE  \E i \in 1 .. Len(submitted) : i > Lined + 1 /\ dirs'[d] = submitted[i]
        OBVIOUS
      <3>1. d # PackageDir(Task) /\ dirs'[d] = dirs[d]
        BY <1>5
      <3>2. PICK i \in 1 .. Len(submitted) : i > Lined /\ dirs[d] = submitted[i]
        BY <1>1, <1>4, <3>1 DEF DirInv
      <3>3. i # Lined + 1
        BY <1>2, <1>4, <3>1, <3>2 DEF DirInv
      <3> QED
        BY <1>2, <3>1, <3>2, <3>3
    <2> QED
      BY <1>1, <2>3, <2>4, <2>5, <2>6 DEF DirInv, Built
  <1>11. CountInv'
    <2>1. Alive' = Alive /\ Pending' = Pending
      BY <1>1 DEF CleanAfterPush, syncVars, Alive, Pending
    <2>2. \A p, i : Tells(p, i)' <=> Tells(p, i)
      BY <1>1 DEF Tells
    <2> QED
      BY <1>1, <2>1, <2>2 DEF PipeIInv, CountInv, CountersMatchQueue
  <1> QED
    BY <1>3, <1>6, <1>7, <1>8, <1>9, <1>10, <1>11 DEF PipeIInv

LEMMA PrintLineInv == ASSUME PipeIInv, PrintLine PROVE PipeIInv'
  <1> DEFINE line == [task |-> Task, progress |-> progress]
             rest == Tail(out[Background])
  <1>1. /\ at[Background] = "working" /\ bgStep = "line" /\ bgStep' = "upload"
        /\ UNCHANGED <<fg, after, round, begun, providers, submitted, uploads, dirs, m_state, progress, fgAt>>
        /\ UNCHANGED <<m_tasks, m_running, waiting, m_print_directly_to_out_sink, tmp>>
    BY DEF PrintLine, Println, DoItem, fgVars, syncVars
  <1>2. /\ out[Background] \in Seq(Item) /\ out[Background] # <<>>
        /\ Task = out[Background][1] /\ Task = submitted[Lined + 1] /\ Task \in Item
        /\ Lined \in Nat /\ Len(submitted) \in Nat /\ Lined + 1 \in 1 .. Len(submitted)
    BY <1>1, TaskIsNext
  <1>3. /\ line \in Line
        /\ console \in Seq(Line) /\ tmp \in Seq(Line) /\ m_published \in Seq(Line)
    BY <1>2 DEF Line, PipeIInv, PipeTypeInv
  <1>4. /\ console' \in Seq(Line) /\ m_published' \in Seq(Line)
        /\ Lines' = Append(Lines, line)
        /\ m_print_directly_to_out_sink => m_published' = <<>>
    <2>1. CASE m_print_directly_to_out_sink
      <3>1. m_published = <<>> /\ tmp = <<>>
        BY <2>1 DEF PipeIInv, PhaseInv
      <3>2. console' = Append(console, line) /\ m_published' = <<>>
        BY <2>1, <3>1 DEF PrintLine, Println
      <3>3. console' \in Seq(Line)
        BY <1>3, <3>2, AppendProperties
      <3>4. Lines = console /\ Lines' = console'
        BY <1>1, <1>3, <3>1, <3>2, <3>3, ConcatEmptySeq DEF Lines
      <3> QED
        BY <2>1, <3>2, <3>3, <3>4, EmptySeq
    <2>2. CASE ~ m_print_directly_to_out_sink
      <3>1. m_published' = Append(m_published, line) /\ console' = console
        BY <2>2 DEF PrintLine, Println
      <3>2. m_published' \in Seq(Line) /\ m_published' = m_published \o <<line>> /\ <<line>> \in Seq(Line)
        BY <1>3, <3>1, AppendProperties, AppendIsConcat
      <3>3. console \o tmp \in Seq(Line) /\ Lines \in Seq(Line)
        BY <1>3, ConcatProperties DEF Lines
      <3>4. Lines' = (console \o tmp) \o (m_published \o <<line>>)
        BY <1>1, <3>1, <3>2 DEF Lines
      <3>5. Lines' = Lines \o <<line>>
        <4> DEFINE before == console \o tmp
                   last == <<line>>
        <4>1. before \in Seq(Line) /\ m_published \in Seq(Line) /\ last \in Seq(Line)
          BY <1>3, <3>2, <3>3
        <4>2. Lines = before \o m_published /\ Lines' = before \o (m_published \o last)
          BY <3>4 DEF Lines
        <4> HIDE DEF before, last
        <4>3. (before \o m_published) \o last = before \o (m_published \o last)
          BY <4>1, ConcatAssociative
        <4> QED
          BY <4>2, <4>3 DEF last
      <3>6. Lines' = Append(Lines, line)
        BY <1>3, <3>3, <3>5, AppendIsConcat
      <3> QED
        BY <1>3, <2>2, <3>1, <3>2, <3>6
    <2> QED
      BY <2>1, <2>2
  <1>5. /\ Lined' = Lined + 1
        /\ \A i \in 1 .. Lined : Lines'[i] = Lines[i]
        /\ Lines'[Lined + 1] = line
    BY <1>3, <1>4, LinesType, AppendProperties DEF PipeIInv, Lined
  <1>6. /\ out' = [out EXCEPT ![Background] = rest] /\ out'[Background] = rest
        /\ rest \in Seq(Item) /\ Len(rest) = Len(out[Background]) - 1 /\ Len(out[Background]) \in Nat
        /\ \A i \in 1 .. Len(rest) : rest[i] = out[Background][i + 1]
    <2>1. out' = [out EXCEPT ![Background] = rest]
      BY DEF PrintLine, DoItem
    <2>2. out'[Background] = rest
      BY <2>1, ConstantsHold DEF PipeIInv, QueueInv, QueueTypeOK
    <2> QED
      BY <1>2, <2>1, <2>2, HeadTailProperties, LenProperties
  <1>7. at'[Background] \in {"calling", "working"}
    BY ConstantsHold DEF PrintLine, DoItem, PipeIInv, QueueInv, QueueTypeOK
  <1>8. SyncIInv' /\ QueueInv'
    BY SyncStep, DoItemInv, ConstantsHold DEF PipeIInv, PrintLine
  <1>9. PipeTypeInv'
    BY <1>1, <1>3, <1>4 DEF PipeIInv, PipeTypeInv
  <1>10. PhaseInv'
    <2>1. ~ (fg = "joined" \/ round = 2)
      BY <1>1 DEF PipeIInv, PhaseInv
    <2> QED
      BY <1>1, <1>4, <2>1 DEF PipeIInv, PhaseInv, Submitting
  <1>11. OrderInv'
    BY <1>1, OrderStays DEF PipeIInv, InAction
  <1>12. SplitInv'
    <2> DEFINE n == Lined
               o == Len(out[Background])
               m == Len(m_tasks)
    <2>1. /\ n \in Nat /\ o \in Nat /\ m \in Nat /\ Len(submitted) = n + o + m
          /\ Lined' = n + 1 /\ Len(out'[Background]) = o - 1 /\ Len(m_tasks') = m
      BY <1>1, <1>2, <1>5, <1>6, PendingType DEF PipeIInv, SplitInv
    <2>2. /\ \A i \in 1 .. n : Lines[i].task = submitted[i]
          /\ \A i \in 1 .. o : out[Background][i] = submitted[n + i]
          /\ \A i \in 1 .. m : m_tasks[i] = submitted[n + o + i]
      BY DEF PipeIInv, SplitInv
    <2>3. \A i \in 1 .. n + 1 : Lines'[i].task = submitted[i]
      <3> SUFFICES ASSUME NEW i \in 1 .. n + 1 PROVE Lines'[i].task = submitted[i]
        OBVIOUS
      <3>1. CASE i = n + 1
        BY <1>2, <1>5, <3>1
      <3>2. CASE i \in 1 .. n
        BY <1>5, <2>2, <3>2
      <3> QED
        BY <1>2, <3>1, <3>2
    <2>4. \A i \in 1 .. o - 1 : rest[i] = submitted[(n + 1) + i]
      <3> SUFFICES ASSUME NEW i \in 1 .. o - 1 PROVE rest[i] = submitted[(n + 1) + i]
        OBVIOUS
      <3>1. rest[i] = out[Background][i + 1]
        BY <1>6
      <3> HIDE DEF n, o, rest
      <3>2. i + 1 \in 1 .. o /\ n + (i + 1) = (n + 1) + i
        BY <2>1
      <3>3. out[Background][i + 1] = submitted[n + (i + 1)]
        BY <2>2, <3>2
      <3> QED
        BY <3>1, <3>2, <3>3
    <2>5. \A i \in 1 .. m : m_tasks[i] = submitted[(n + 1) + (o - 1) + i]
      <3> HIDE DEF n, o, m
      <3> QED
        BY <2>1, <2>2
    <2>6. Len(submitted) = (n + 1) + (o - 1) + m
      <3> HIDE DEF n, o, m
      <3> QED
        BY <2>1
    <2> HIDE DEF n, o, m
    <2> QED
      BY <1>1, <1>6, <2>1, <2>3, <2>4, <2>5, <2>6 DEF SplitInv
  <1>13. UploadInv' /\ Cleaned' = Cleaned
    BY <1>1, <1>2, <1>5 DEF PipeIInv, UploadInv, Cleaned
  <1>14. DirInv'
    BY <1>1, <1>13 DEF PipeIInv, DirInv, Built
  <1>15. CountInv'
    <2>1. CountersMatchQueue'
      <3>1. Pending' = Pending
        <4> DEFINE a == IF fg = "push" THEN 1 ELSE 0
                   o == Len(out[Background])
                   m == Len(m_tasks)
        <4>1. o \in Nat /\ m \in Nat /\ a \in {0, 1}
          BY PendingType
        <4>2. Pending = a + m + o - 1 /\ Pending' = a + m + (o - 1) - 0
          BY <1>1, <1>6 DEF Pending
        <4> HIDE DEF a, o, m
        <4> QED
          BY <4>1, <4>2
      <3>2. Alive' = Alive
        BY DEF PrintLine, syncVars, Alive
      <3> QED
        BY <1>1, <3>1, <3>2 DEF PipeIInv, CountInv, CountersMatchQueue
    <2>2. \A p, i : Tells(p, i)' <=> Tells(p, i)
      BY <1>1 DEF Tells
    <2>3. \A i \in 1 .. Lined' : Tells(Lines[i].progress, i)'
      <3> SUFFICES ASSUME NEW i \in 1 .. Lined + 1 PROVE Tells(Lines'[i].progress, i)
        BY <1>5, <2>2
      <3>1. CASE i = Lined + 1
        BY <1>1, <1>5, <3>1 DEF PipeIInv, CountInv
      <3>2. CASE i \in 1 .. Lined
        BY <1>5, <3>2 DEF PipeIInv, CountInv
      <3> QED
        BY <1>2, <3>1, <3>2
    <2> QED
      BY <1>1, <2>1, <2>3 DEF CountInv
  <1> QED
    BY <1>8, <1>9, <1>10, <1>11, <1>12, <1>13, <1>14, <1>15 DEF PipeIInv

LEMMA BackgroundGetWorkInv == ASSUME PipeIInv, BackgroundGetWork PROVE PipeIInv'
  <1>1. /\ UNCHANGED <<fg, after, round, begun, providers, submitted, uploads, dirs, bgStep>>
        /\ UNCHANGED <<m_state, progress, fgAt, bgAt, m_running>>
        /\ at[Background] = "calling" /\ out[Background] = <<>>
        /\ Lines' = Lines /\ Lined' = Lined /\ Cleaned' = Cleaned /\ Alive' = Alive
    BY ConstantsHold
    DEF BackgroundGetWork, GetWork, TakeAll, ReturnFalse, Wait, fgVars, syncVars, sinkVars, Lines, Lined,
        Cleaned, Alive, PipeIInv, QueueInv
  <1>2. bgStep = "upload"
    BY <1>1 DEF PipeIInv, UploadInv
  <1>3. \/ /\ m_tasks' = <<>> /\ out'[Background] = m_tasks /\ at'[Background] = "working"
        \/ /\ m_tasks = <<>> /\ m_tasks' = <<>> /\ out' = out /\ at'[Background] = "ended"
        \/ UNCHANGED <<m_tasks, out, at>>
    BY ConstantsHold
    DEF BackgroundGetWork, GetWork, TakeAll, ReturnFalse, Wait, PipeIInv, QueueInv, QueueTypeOK
  <1>4. SyncIInv' /\ QueueInv'
    BY SyncStep, TakeAllInv, ReturnFalseInv, WaitInv, ConstantsHold DEF PipeIInv, BackgroundGetWork, GetWork
  <1>5. PipeTypeInv'
    BY <1>1 DEF PipeIInv, PipeTypeInv, BackgroundGetWork, sinkVars
  <1>6. PhaseInv'
    BY <1>1, <1>3 DEF PipeIInv, PhaseInv, Submitting, BackgroundGetWork, sinkVars
  <1>7. OrderInv'
    BY <1>1, OrderStays DEF PipeIInv, InAction
  <1>8. /\ Len(m_tasks) \in Nat /\ Lined \in Nat /\ Len(out[Background]) = 0 /\ Len(<<>>) = 0
        /\ Len(submitted) = Lined + Len(m_tasks)
        /\ \A i \in 1 .. Len(m_tasks) : m_tasks[i] = submitted[Lined + i]
    <2>1. Len(m_tasks) \in Nat /\ Lined \in Nat /\ Len(out[Background]) = 0 /\ Len(<<>>) = 0
      BY <1>1, PendingType, LinesType, EmptySeq DEF PipeIInv
    <2> QED
      BY <2>1 DEF PipeIInv, SplitInv
  <1>9. SplitInv'
    <2> DEFINE n == Lined
               m == Len(m_tasks)
    <2>1. n \in Nat /\ m \in Nat /\ Len(submitted) = n + m
      BY <1>8
    <2>2. \A i \in 1 .. m : m_tasks[i] = submitted[n + i]
      BY <1>8
    <2>3. \A i \in 1 .. n : Lines[i].task = submitted[i]
      BY DEF PipeIInv, SplitInv
    <2>4. CASE m_tasks' = <<>> /\ out'[Background] = m_tasks
      <3>1. Len(m_tasks') = 0 /\ Len(out'[Background]) = m
        BY <1>8, <2>4
      <3>2. Len(submitted) = n + m + 0
        <4> HIDE DEF n, m
        <4> QED
          BY <2>1
      <3> HIDE DEF n, m
      <3> QED
        BY <1>1, <2>2, <2>3, <2>4, <3>1, <3>2 DEF SplitInv, n
    <2>5. CASE UNCHANGED <<m_tasks, out>>
      BY <1>1, <2>5, SplitStays DEF PipeIInv
    <2> QED
      BY <1>3, <2>4, <2>5
  <1>10. UploadInv'
    BY <1>1, <1>2 DEF PipeIInv, UploadInv
  <1>11. DirInv'
    BY <1>1 DEF PipeIInv, DirInv, Built
  <1>12. CountInv'
    <2>1. Pending' = Pending
      <3>1. Len(m_tasks') + Len(out'[Background]) = Len(m_tasks) + Len(out[Background])
        BY <1>3, <1>8
      <3>2. Len(m_tasks') \in Nat /\ Len(out'[Background]) \in Nat
        BY <1>3, <1>8
      <3>3. Len(m_tasks) \in Nat /\ Len(out[Background]) \in Nat
        BY <1>8
      <3> DEFINE a == IF fg = "push" THEN 1 ELSE 0
                 m == Len(m_tasks)
                 o == Len(out[Background])
                 k == Len(m_tasks')
                 l == Len(out'[Background])
      <3>4. Pending = a + m + o - 0 /\ Pending' = a + k + l - 0 /\ a \in {0, 1}
        BY <1>1, <1>2 DEF Pending
      <3>5. m \in Nat /\ o \in Nat /\ k \in Nat /\ l \in Nat /\ k + l = m + o
        BY <3>1, <3>2, <3>3
      <3> HIDE DEF a, m, o, k, l
      <3> QED
        BY <3>4, <3>5
    <2>2. \A p, i : Tells(p, i)' <=> Tells(p, i)
      BY <1>1 DEF Tells
    <2> QED
      BY <1>1, <2>1, <2>2 DEF PipeIInv, CountInv, CountersMatchQueue
  <1> QED
    BY <1>4, <1>5, <1>6, <1>7, <1>9, <1>10, <1>11, <1>12 DEF PipeIInv

LEMMA PipeInit == ASSUME InitPipeline PROVE PipeIInv
  <1>1. SyncIInv /\ QueueInv
    BY SyncInit, QueueInit DEF InitPipeline
  <1>2. Len(<<>>) = 0 /\ <<>> \in Seq(Line) /\ <<>> \in Seq(Item) /\ <<>> \in Seq(Item \X (0 .. Len(Ports)))
    BY EmptySeq
  <1>3. Lines = <<>> /\ Lined = 0 /\ out[Background] = <<>> /\ m_tasks = <<>>
    <2>1. Lines = <<>>
      BY <1>2, ConcatEmptySeq DEF InitPipeline, InitSink, Lines
    <2> QED
      BY <1>2, <2>1, ConstantsHold DEF InitPipeline, InitQueue, Lined
  <1>4. /\ m_state = 0 /\ Submitted(m_state) = 0 /\ Completed(m_state) = 0 /\ ~ IsComplete(m_state)
        /\ progress \in Progress
    <2>1. /\ m_state = 0 /\ progress = SyncState(0)
          /\ Submitted(0) = 0 /\ Completed(0) = 0 /\ ~ IsComplete(0)
      BY ZeroIsClean DEF InitPipeline, InitSync
    <2>2. IsComplete(0) \in BOOLEAN
      BY DEF IsComplete
    <2>3. SyncState(0) \in Progress
      BY <2>1, <2>2 DEF SyncState, Progress
    <2> QED
      BY <2>1, <2>3
  <1>5. PipeTypeInv
    <2>1. 0 \in 0 .. Len(Ports)
      BY ConstantsHold
    <2> QED
      BY <1>2, <1>4, <2>1 DEF InitPipeline, InitSink, PipeTypeInv
  <1>6. PhaseInv
    BY <1>4 DEF InitPipeline, InitQueue, InitSync, InitSink, PhaseInv, Submitting
  <1>7. OrderInv /\ SplitInv /\ UploadInv
    BY <1>2, <1>3 DEF InitPipeline, OrderInv, InAction, SplitInv, UploadInv
  <1>8. DirInv
    BY <1>2 DEF InitPipeline, DirInv, Built
  <1>9. CountInv
    <2>1. Pending = 0
      BY <1>2, <1>3 DEF InitPipeline, Pending
    <2> QED
      BY <1>3, <1>4, <2>1 DEF InitPipeline, CountInv, CountersMatchQueue
  <1> QED
    BY <1>1, <1>5, <1>6, <1>7, <1>8, <1>9 DEF PipeIInv

LEMMA PipeNext == ASSUME PipeIInv, [NextPipeline]_pipeVars PROVE PipeIInv'
  <1>1. CASE Foreground
    <2>1. Alive
      BY <1>1 DEF Foreground, Alive
    <2> QED
      BY <1>1, <2>1, InstallProvidersInv, BeginActionInv, PrintPublishedInv, BuildPackageInv,
         CleanUnsubmittedInv, SubmitInv, PushTaskInv, BeginWaitInv, MarkSubmissionCompleteInv,
         PublishStepInv, StopStepInv, JoinInv, DestroyInv
      DEF Foreground
  <1>2. CASE PushThread
    <2>1. Alive
      BY <1>2 DEF PushThread, Alive
    <2> QED
      BY <1>2, <2>1, UploadStepInv, CleanAfterPushInv, CountCompletedInv, PrintLineInv, BackgroundGetWorkInv
      DEF PushThread
  <1>3. CASE SpuriousWake
    BY <1>3, SpuriousWakeInv
  <1>4. CASE UNCHANGED pipeVars
    <2>1. /\ QueueInv' /\ Lines' = Lines /\ UNCHANGED <<m_tasks, out, at>>
      BY <1>4, QueueStays DEF PipeIInv, pipeVars, queueVars, sinkVars, Lines
    <2>2. PipeTypeInv'
      BY <1>4 DEF PipeIInv, PipeTypeInv, pipeVars, fgVars, sinkVars, syncVars
    <2>3. PhaseInv'
      BY <1>4 DEF PipeIInv, PhaseInv, Submitting, pipeVars, fgVars, sinkVars, syncVars, queueVars
    <2>4. OrderInv'
      BY <1>4, OrderStays DEF PipeIInv, InAction, pipeVars, fgVars
    <2> QED
      BY <1>4, <2>1, <2>2, <2>3, <2>4, ControlStep DEF pipeVars, fgVars, Built
  <1> QED
    BY <1>1, <1>2, <1>3, <1>4 DEF NextPipeline

\* Each step of the pipeline is one of the synchronizer or leaves it alone.
LEMMA PipeStepOfSync == ASSUME [NextPipeline]_pipeVars PROVE [NextSync]_syncVars
  <1>1. CASE Foreground
    BY <1>1
    DEF Foreground, InstallProviders, BeginAction, PrintPublished, BuildPackage, CleanUnsubmitted, Submit,
        PushTask, BeginWait, MarkSubmissionComplete, PublishStep, StopStep, Join, Destroy, NextSync
  <1>2. CASE PushThread
    BY <1>2
    DEF PushThread, Upload, CleanAfterPush, CountCompleted, PrintLine, BackgroundGetWork, NextSync
  <1>3. CASE SpuriousWake
    BY <1>3 DEF SpuriousWake
  <1>4. CASE UNCHANGED pipeVars
    BY <1>4 DEF pipeVars
  <1> QED
    BY <1>1, <1>2, <1>3, <1>4 DEF NextPipeline

LEMMA DoneFromInv == ASSUME PipeIInv PROVE DoneWhenJoined
  <1> SUFFICES ASSUME fg = "joined"
               PROVE  /\ uploads = [i \in DOMAIN submitted |-> <<submitted[i], submitted[i]>>]
                      /\ [i \in DOMAIN console |-> console[i].task] = submitted
                      /\ \A i \in DOMAIN console :
                            LET p == console[i].progress
                            IN  p.submission_complete /\ i = Len(submitted)
                                    => p.jobs_completed = p.jobs_submitted
                      /\ CleanPackages => \A d \in Dirs : dirs[d] = 0
    BY DEF DoneWhenJoined
  <1>1. /\ at[Background] = "ended" /\ m_tasks = <<>> /\ out[Background] = <<>>
        /\ m_published = <<>> /\ tmp = <<>> /\ bgStep = "upload"
    BY ConstantsHold DEF PipeIInv, PhaseInv, QueueInv, UploadInv
  <1>2. console \in Seq(Line) /\ submitted \in Seq(Item) /\ uploads \in Seq(Item \X (0 .. Len(Ports)))
    BY DEF PipeIInv, PipeTypeInv
  <1>3. Lines = console /\ Lined = Len(console)
    BY <1>1, <1>2, ConcatEmptySeq DEF Lines, Lined
  <1>4. Len(console) \in Nat /\ Len(submitted) = Len(console) /\ Len(uploads) = Len(console)
    <2>1. Len(console) \in Nat /\ Len(<<>>) = 0
      BY <1>2, LenProperties, EmptySeq
    <2> QED
      BY <1>1, <1>3, <2>1 DEF PipeIInv, SplitInv, UploadInv
  <1>5. DOMAIN console = 1 .. Len(console) /\ DOMAIN submitted = 1 .. Len(console) /\ DOMAIN uploads = 1 .. Len(console)
    BY <1>2, <1>4, LenProperties
  <1>6. uploads = [i \in DOMAIN submitted |-> <<submitted[i], submitted[i]>>]
    <2>1. uploads = [i \in DOMAIN uploads |-> uploads[i]]
      BY <1>2, LenProperties
    <2> QED
      BY <1>4, <1>5, <2>1 DEF PipeIInv, UploadInv
  <1>7. [i \in DOMAIN console |-> console[i].task] = submitted
    <2>1. submitted = [i \in DOMAIN submitted |-> submitted[i]]
      BY <1>2, LenProperties
    <2> QED
      BY <1>3, <1>5, <2>1 DEF PipeIInv, SplitInv
  <1>8. ASSUME NEW i \in DOMAIN console, console[i].progress.submission_complete, i = Len(submitted)
        PROVE  console[i].progress.jobs_completed = console[i].progress.jobs_submitted
    <2>1. console[i].progress \in Progress
      <3>1. console[i] \in Line
        BY <1>2, <1>5, ElementOfSeq
      <3> QED
        BY <3>1 DEF Line
    <2>2. console[i].progress.jobs_submitted - console[i].progress.jobs_completed = Len(submitted) - i
      BY <1>3, <1>5, <1>8 DEF PipeIInv, CountInv, Tells
    <2>3. /\ console[i].progress.jobs_submitted \in Nat /\ console[i].progress.jobs_completed \in Nat
          /\ Len(submitted) - i = 0
      BY <1>4, <1>8, <2>1 DEF Progress
    <2> QED
      BY <2>2, <2>3
  <1>9. CleanPackages => \A d \in Dirs : dirs[d] = 0
    <2>1. Cleaned = Len(submitted) /\ ~ Built
      BY <1>1, <1>3, <1>4 DEF Cleaned, Built
    <2>2. \A i \in 1 .. Len(submitted) : ~ (i > Cleaned)
      BY <1>4, <2>1
    <2> QED
      BY <2>1, <2>2 DEF PipeIInv, DirInv
  <1> QED
    BY <1>6, <1>7, <1>8, <1>9

\* The inductive invariant, which says where each submitted package is.
THEOREM PipeIInvHolds == Pipeline => []PipeIInv
  <1>1. InitPipeline => PipeIInv
    BY PipeInit
  <1>2. PipeIInv /\ [NextPipeline]_pipeVars => PipeIInv'
    BY PipeNext
  <1> QED
    BY <1>1, <1>2, PTL DEF Pipeline

\* For any sequence of install actions and counters of any width: the two packed counters differ by
\* the work that is pending, the unused bit stays clear, and the push thread, which the constructor
\* starts before there are providers, never works without them.
THEOREM PipelineInvHolds == Pipeline => []PipelineInv
  <1>1. PipeIInv => PipelineInv
    <2> SUFFICES ASSUME PipeIInv PROVE PipelineInv
      OBVIOUS
    <2>1. at[Background] = "working" => providers = "some"
      <3> SUFFICES ASSUME at[Background] = "working" PROVE submitted # <<>>
        BY DEF PipeIInv, PhaseInv
      <3>1. Len(submitted) \in Nat /\ Lined \in Nat /\ Lined + 1 \in 1 .. Len(submitted)
        BY TaskIsNext
      <3> QED
        BY <3>1, EmptySeq
    <2> QED
      BY <2>1, SyncIInvImpliesSyncInv DEF PipeIInv, PipeTypeInv, CountInv, PipelineInv
  <1> QED
    BY <1>1, PipeIInvHolds, PTL

\* In the pipeline too the packed word behaves as the struct of its comment.
THEOREM PipelineBehavesAsStruct == Pipeline => BehavesAsStruct
  <1>1. InitPipeline => InitSync
    BY DEF InitPipeline
  <1>2. [NextPipeline]_pipeVars => [NextSync]_syncVars
    BY PipeStepOfSync
  <1>3. Pipeline => Synchronizer
    BY <1>1, <1>2, PTL DEF Pipeline, Synchronizer
  <1> QED
    BY <1>3, SynchronizerBehavesAsStruct, PTL

\* Whoever has waited finds everything done: for any sequence of install actions all that was
\* submitted is uploaded, in order and as its action built it, each line is printed, and with
\* --clean-packages-after-build no package directory is left.
THEOREM JoinedMeansDone == Pipeline => []DoneWhenJoined
  <1>1. PipeIInv => DoneWhenJoined
    BY DoneFromInv
  <1> QED
    BY <1>1, PipeIInvHolds, PTL

(***************************************************************************)
(* CtrlC.                                                                  *)
(***************************************************************************)
\* Whoever runs a program is a thread, and the counter is far from INT_MIN.
LEMMA CountedBounds ==
    /\ IsFiniteSet(Counted)
    /\ Cardinality(Counted) \in Nat
    /\ IntMin + Cardinality(Counted) < 0
    /\ Cardinality(Counted) = 0 <=> Counted = {}
    /\ IntMin + 1 < 0
  <1>1. Counted \subseteq Thread
    BY DEF Counted
  <1>2. IsFiniteSet(Counted) /\ Cardinality(Counted) <= Cardinality(Thread)
    BY <1>1, ThreadAssumption, FS_Subset
  <1>3. Cardinality(Counted) \in Nat /\ Cardinality(Thread) \in Nat
    BY <1>2, ThreadAssumption, FS_CardinalityType
  <1>4. Cardinality(Counted) = 0 <=> Counted = {}
    BY <1>2, FS_EmptySet
  <1>5. Cardinality(Thread) # 0
    BY ThreadAssumption, FS_EmptySet
  <1> QED
    BY <1>2, <1>3, <1>4, <1>5, ThreadAssumption

\* What the sign and the value of the counter say.
LEMMA CounterReads ==
    ASSUME CounterInv
    PROVE  /\ m_number_of_external_processes = 0 => Counted = {} /\ ~ Forbidden
           /\ m_number_of_external_processes = IntMin + 1 => Forbidden /\ Cardinality(Counted) = 1
           /\ Forbidden => m_number_of_external_processes = Cardinality(Counted) + IntMin
           /\ ~ Forbidden => m_number_of_external_processes = Cardinality(Counted)
  <1>1. /\ Forbidden => m_number_of_external_processes = Cardinality(Counted) + IntMin
        /\ ~ Forbidden => m_number_of_external_processes = Cardinality(Counted)
    BY CountedBounds DEF CounterInv
  <1>2. m_number_of_external_processes = IntMin + 1 => Forbidden
    BY CountedBounds DEF Forbidden
  <1> QED
    BY <1>1, <1>2, CountedBounds, ThreadAssumption DEF Forbidden

LEMMA TypeHolds == Inv => TypeOK
  BY DEF Inv, CounterInv

LEMMA InitInv == Init => Inv
  <1> SUFFICES ASSUME Init PROVE Inv
    OBVIOUS
  <1>1. Counted = {}
    BY DEF Init, Counted
  <1>2. Cardinality(Counted) = 0
    BY <1>1, CountedBounds
  <1>3. TypeOK
    <2>1. /\ cur \in [Thread -> Int]
          /\ stage \in [Thread -> {"free", "spawn", "create", "wait", "asleep", "left", "cleanup", "exit"}]
      BY DEF Init
    <2>2. have_entered \in BOOLEAN /\ alive \in BOOLEAN
      BY DEF Init
    <2> QED
      BY <2>1, <2>2 DEF Init, TypeOK
  <1>4. ~ Forbidden
    BY DEF Init, Forbidden
  <1>5. CounterInv
    BY <1>2, <1>3, <1>4 DEF Init, CounterInv
  <1>6. EndInv /\ NoOrphan
    BY <1>1 DEF Init, EndInv, NoOrphan
  <1> QED
    BY <1>5, <1>6 DEF Inv

\* A thread that is not counted comes to be counted.
LEMMA CountIn1 ==
    ASSUME NEW t \in Thread, Counted' = Counted \cup {t}, t \notin Counted
    PROVE  Cardinality(Counted') = Cardinality(Counted) + 1
  BY CountedBounds, FS_AddElement

LEMMA CountOut1 ==
    ASSUME NEW t \in Thread, Counted' = Counted \ {t}, t \in Counted
    PROVE  Cardinality(Counted') = Cardinality(Counted) - 1
  BY CountedBounds, FS_RemoveElement

LEMMA BeginSpawnInv ==
    ASSUME Inv, alive, NEW t \in Thread, BeginSpawn(t)
    PROVE  Inv'
  <1>1. Counted' = Counted
    BY DEF BeginSpawn, SetStage, Counted, Inv, CounterInv, TypeOK
  <1>2. Forbidden' <=> Forbidden
    BY DEF BeginSpawn, Forbidden
  <1>3. TypeOK'
    BY TypeHolds DEF BeginSpawn, SetStage, TypeOK, handlerVars
  <1>4. CounterInv'
    BY <1>1, <1>2, <1>3 DEF BeginSpawn, SetStage, Inv, CounterInv, TypeOK, handlerVars
  <1>5. EndInv'
    <2>1. Main \in Counted => t # Main
      BY DEF BeginSpawn, Counted
    <2> QED
      BY <1>1, <2>1 DEF BeginSpawn, SetStage, Inv, CounterInv, TypeOK, EndInv, handlerVars
  <1>6. NoOrphan'
    BY DEF BeginSpawn, NoOrphan
  <1> QED
    BY <1>4, <1>5, <1>6 DEF Inv

LEMMA CountInInv ==
    ASSUME Inv, alive, NEW t \in Thread, CountIn(t)
    PROVE  Inv' /\ ~ Forbidden
  <1>1. Counted' = Counted \cup {t} /\ t \notin Counted
    BY DEF CountIn, SetStage, Counted, Inv, CounterInv, TypeOK
  <1>2. ~ Forbidden /\ ~ Forbidden'
    BY DEF CountIn, Forbidden, Inv, CounterInv, TypeOK
  <1>3. TypeOK'
    BY TypeHolds DEF CountIn, SetStage, TypeOK, handlerVars
  <1>4. m_number_of_external_processes' = Cardinality(Counted')
    BY <1>1, <1>2, CountIn1, CounterReads DEF CountIn, Inv
  <1>5. CounterInv'
    BY <1>2, <1>3, <1>4, CountedBounds DEF CountIn, SetStage, Inv, CounterInv, TypeOK, handlerVars
  <1>6. EndInv'
    BY <1>2 DEF CountIn, SetStage, Inv, CounterInv, TypeOK, EndInv, handlerVars
  <1>7. NoOrphan'
    BY DEF CountIn, NoOrphan
  <1> QED
    BY <1>2, <1>5, <1>6, <1>7 DEF Inv

LEMMA CountInFailsInv ==
    ASSUME Inv, alive, NEW t \in Thread, CountInFails(t)
    PROVE  Inv' /\ Counted' = Counted
  <1>1. Counted' = Counted
    BY DEF CountInFails, SetStage, Counted, Inv, CounterInv, TypeOK
  <1>2. Forbidden' <=> Forbidden
    BY DEF CountInFails, Forbidden
  <1>3. TypeOK'
    BY TypeHolds DEF CountInFails, SetStage, TypeOK, handlerVars
  <1>4. CounterInv'
    BY <1>1, <1>2, <1>3 DEF CountInFails, SetStage, Inv, CounterInv, TypeOK, handlerVars, Forbidden
  <1>5. EndInv'
    BY <1>1 DEF CountInFails, SetStage, Inv, CounterInv, TypeOK, EndInv, handlerVars
  <1>6. NoOrphan'
    BY DEF CountInFails, NoOrphan
  <1> QED
    BY <1>1, <1>4, <1>5, <1>6 DEF Inv

LEMMA CreateProcessInv ==
    ASSUME Inv, alive, NEW t \in Thread, CreateProcess(t)
    PROVE  Inv' /\ Counted' = Counted
  <1>1. Counted' = Counted
    BY DEF CreateProcess, SetStage, Counted, Inv, CounterInv, TypeOK
  <1>2. Forbidden' <=> Forbidden
    BY DEF CreateProcess, Forbidden
  <1>3. TypeOK'
    BY TypeHolds DEF CreateProcess, SetStage, TypeOK, handlerVars
  <1>4. CounterInv'
    BY <1>1, <1>2, <1>3 DEF CreateProcess, SetStage, Inv, CounterInv, TypeOK, handlerVars
  <1>5. EndInv'
    BY <1>1 DEF CreateProcess, SetStage, Inv, CounterInv, TypeOK, EndInv, handlerVars
  <1>6. NoOrphan'
    BY DEF CreateProcess, NoOrphan
  <1> QED
    BY <1>1, <1>4, <1>5, <1>6 DEF Inv

LEMMA ChildEndsInv ==
    ASSUME Inv, alive, NEW t \in Thread, ChildEnds(t)
    PROVE  Inv' /\ Counted' = Counted
  <1>1. Counted' = Counted
    BY DEF ChildEnds, Counted
  <1>2. Forbidden' <=> Forbidden
    BY DEF ChildEnds, Forbidden
  <1>3. TypeOK'
    BY TypeHolds DEF ChildEnds, TypeOK, handlerVars
  <1>4. CounterInv'
    BY <1>1, <1>2, <1>3 DEF ChildEnds, Inv, CounterInv, TypeOK, handlerVars
  <1>5. EndInv'
    BY <1>1 DEF ChildEnds, Inv, EndInv, handlerVars
  <1>6. NoOrphan'
    BY DEF ChildEnds, NoOrphan
  <1> QED
    BY <1>1, <1>4, <1>5, <1>6 DEF Inv

\* The three ways out: the last program ends and takes vcpkg with it, others are left, no Ctrl-C.
LEMMA CountOutInv ==
    ASSUME Inv, alive, NEW t \in Thread, CountOut(t)
    PROVE  Inv' /\ (alive' \/ child = {} \/ stage[Main] = "exit")
  <1>1. Counted' = Counted \ {t} /\ t \in Counted
    BY TypeHolds DEF CountOut, SetStage, Counted, TypeOK
  <1>2. Cardinality(Counted') = Cardinality(Counted) - 1 /\ Cardinality(Counted) > 0
    <2>1. Cardinality(Counted') = Cardinality(Counted) - 1
      BY <1>1, CountOut1
    <2>2. Cardinality(Counted) # 0
      BY <1>1, CountedBounds
    <2> QED
      BY <2>1, <2>2, CountedBounds
  <1>3. Forbidden' <=> Forbidden
    BY <1>2, CounterReads, CountedBounds, ThreadAssumption DEF CountOut, Forbidden, Inv
  <1>4. TypeOK'
    <2>1. stage' \in [Thread -> {"free", "spawn", "create", "wait", "asleep", "left", "cleanup", "exit"}]
      BY TypeHolds DEF CountOut, SetStage, TypeOK
    <2>2. have_entered' \in BOOLEAN /\ alive' \in BOOLEAN /\ child' \in SUBSET Thread
      BY TypeHolds DEF CountOut, EnterCleanup, Terminate, TypeOK
    <2>3. m_number_of_external_processes' \in Int
      BY TypeHolds DEF CountOut, TypeOK
    <2>4. m_in_interactive' \in {0, 1}
      BY TypeHolds DEF CountOut, TypeOK
    <2> QED
      BY <2>1, <2>2, <2>3, <2>4, TypeHolds DEF CountOut, TypeOK, handlerVars
  <1>5. m_number_of_external_processes' = Cardinality(Counted') + (IF Forbidden' THEN IntMin ELSE 0)
    BY <1>2, <1>3, CounterReads, CountedBounds, ThreadAssumption DEF CountOut, Inv
  <1>6. CounterInv'
    <2>1. child' \subseteq {u \in Thread : stage'[u] = "wait"}
      <3>1. child' \subseteq child /\ t \notin child
        BY DEF CountOut, EnterCleanup, Terminate
      <3>2. \A u \in Thread \ {t} : stage'[u] = stage[u]
        BY TypeHolds DEF CountOut, SetStage, TypeOK
      <3> QED
        BY <3>1, <3>2 DEF Inv, CounterInv
    <2>2. \A u \in Thread : stage'[u] = "spawn" => cur'[u] >= 0
      BY DEF CountOut, SetStage, Inv, CounterInv, TypeOK
    <2>3. \A u \in Thread : stage'[u] \in {"asleep", "cleanup"} => Forbidden'
      BY <1>3, CountedBounds DEF CountOut, SetStage, Inv, CounterInv, TypeOK, Forbidden
    <2>4. /\ handler' = "exchange" => old' >= 0
          /\ handler' \in {"interactive", "close", "cleanup"} => Forbidden'
      BY <1>3 DEF CountOut, Inv, CounterInv, handlerVars
    <2>5. \A u \in Thread : stage'[u] = "exit" => u = Main
      BY DEF CountOut, SetStage, Inv, CounterInv, TypeOK
    <2> QED
      BY <1>4, <1>5, <2>1, <2>2, <2>3, <2>4, <2>5 DEF CounterInv
  <1>7. m_number_of_external_processes = IntMin + 1 => Counted = {t}
    BY <1>1, <1>2, CounterReads, CountedBounds, FS_Singleton DEF Inv
  <1>8. EndInv'
    BY <1>1, <1>7 DEF CountOut, SetStage, Inv, CounterInv, TypeOK, EndInv, handlerVars
  <1>9. m_number_of_external_processes = IntMin + 1 => child = {}
    BY <1>7, TypeHolds DEF CountOut, Inv, CounterInv, Counted, TypeOK
  <1>10. NoOrphan' /\ (alive' \/ child = {} \/ stage[Main] = "exit")
    BY <1>9 DEF CountOut, SetStage, EnterCleanup, Terminate, NoOrphan
  <1> QED
    BY <1>6, <1>8, <1>10 DEF Inv

LEMMA ExitInteractiveInv ==
    ASSUME Inv, alive, ExitInteractive
    PROVE  Inv' /\ Counted' = Counted
  <1>1. Counted' = Counted
    BY TypeHolds DEF ExitInteractive, SetStage, Counted, TypeOK
  <1>2. Forbidden' <=> Forbidden
    BY DEF ExitInteractive, Forbidden
  <1>3. TypeOK'
    BY TypeHolds DEF ExitInteractive, SetStage, TypeOK, handlerVars
  <1>4. CounterInv'
    BY <1>1, <1>2, <1>3 DEF ExitInteractive, SetStage, Inv, CounterInv, TypeOK, handlerVars
  <1>5. EndInv'
    BY <1>1 DEF ExitInteractive, SetStage, Inv, CounterInv, TypeOK, EndInv, handlerVars
  <1>6. NoOrphan'
    BY DEF ExitInteractive, NoOrphan
  <1> QED
    BY <1>1, <1>4, <1>5, <1>6 DEF Inv

LEMMA ExitInv ==
    ASSUME Inv, alive, Exit
    PROVE  Inv' /\ Counted' = Counted /\ Main \notin child
  <1>1. Counted' = Counted
    BY TypeHolds, ThreadAssumption DEF Exit, SetStage, Counted, TypeOK
  <1>2. Forbidden' <=> Forbidden
    BY DEF Exit, Forbidden
  <1>3. TypeOK'
    BY TypeHolds, ThreadAssumption DEF Exit, SetStage, EnterCleanup, Terminate, TypeOK, handlerVars
  <1>4. CounterInv'
    BY <1>1, <1>2, <1>3, ThreadAssumption
       DEF Exit, SetStage, EnterCleanup, Terminate, Inv, CounterInv, TypeOK, handlerVars
  <1>5. EndInv'
    BY <1>1, ThreadAssumption DEF Exit, SetStage, Inv, CounterInv, TypeOK, EndInv, handlerVars
  <1>6. NoOrphan'
    BY TypeHolds, ThreadAssumption DEF Exit, SetStage, TypeOK, NoOrphan
  <1> QED
    BY <1>1, <1>4, <1>5, <1>6 DEF Inv, CounterInv, Exit

LEMMA CleanupEndsInv ==
    ASSUME Inv, alive, NEW t \in Thread, CleanupEnds(t)
    PROVE  Inv' /\ Counted' = Counted /\ Main \notin child
  <1>1. Counted' = Counted
    BY DEF CleanupEnds, Counted
  <1>2. Forbidden' <=> Forbidden
    BY DEF CleanupEnds, Forbidden
  <1>3. TypeOK'
    BY TypeHolds DEF CleanupEnds, Terminate, TypeOK, handlerVars
  <1>4. CounterInv'
    BY <1>1, <1>2, <1>3 DEF CleanupEnds, Terminate, Inv, CounterInv, handlerVars
  <1>5. EndInv'
    BY <1>1 DEF CleanupEnds, Inv, EndInv, handlerVars
  <1>6. stage[t] = "cleanup" => child = {}
    BY DEF Inv, CounterInv, EndInv, Counted
  <1>7. NoOrphan'
    BY <1>6 DEF CleanupEnds, Terminate, NoOrphan, Inv, CounterInv
  <1>8. Main \notin child
    BY <1>6 DEF CleanupEnds, Inv, CounterInv
  <1> QED
    BY <1>1, <1>4, <1>5, <1>7, <1>8 DEF Inv

(***************************************************************************)
(* The handler.                                                            *)
(***************************************************************************)
LEMMA HitCtrlCInv ==
    ASSUME Inv, alive, HitCtrlC
    PROVE  Inv' /\ Counted' = Counted
  <1>1. Counted' = Counted /\ (Forbidden' <=> Forbidden)
    BY DEF HitCtrlC, Counted, Forbidden, threadVars
  <1>2. TypeOK'
    BY TypeHolds DEF HitCtrlC, TypeOK, threadVars
  <1>3. CounterInv'
    BY <1>1, <1>2 DEF HitCtrlC, Inv, CounterInv, threadVars
  <1>4. EndInv' /\ NoOrphan'
    BY <1>1 DEF HitCtrlC, Inv, EndInv, NoOrphan, threadVars
  <1> QED
    BY <1>1, <1>3, <1>4 DEF Inv

LEMMA ForbidInv ==
    ASSUME Inv, alive, Forbid
    PROVE  Inv' /\ ~ Forbidden /\ (alive' \/ child = {})
  <1>1. Counted' = Counted
    BY DEF Forbid, Counted
  <1>2. ~ Forbidden /\ m_number_of_external_processes = Cardinality(Counted)
    <2>1. ~ Forbidden
      BY TypeHolds DEF Forbid, Inv, CounterInv, TypeOK, Forbidden
    <2> QED
      BY <2>1, CounterReads DEF Inv
  <1>3. Forbidden' /\ m_number_of_external_processes' = Cardinality(Counted) + IntMin
    BY <1>2, CountedBounds, ThreadAssumption DEF Forbid, Forbidden
  <1>4. old = 0 => Counted = {}
    BY <1>2, CountedBounds DEF Forbid
  <1>5. child = {} \/ Counted # {}
    BY TypeHolds DEF Inv, CounterInv, Counted, TypeOK
  <1>6. TypeOK'
    <2>1. m_number_of_external_processes' \in Int
      BY <1>3, CountedBounds, ThreadAssumption
    <2>2. have_entered' \in BOOLEAN /\ alive' \in BOOLEAN /\ child' \in SUBSET Thread
      BY TypeHolds DEF Forbid, EnterCleanup, Terminate, TypeOK
    <2> QED
      BY <2>1, <2>2, TypeHolds DEF Forbid, TypeOK
  <1>7. CounterInv'
    <2>1. child' \subseteq child
      BY DEF Forbid, EnterCleanup, Terminate
    <2> QED
      BY <1>1, <1>3, <1>6, <2>1 DEF Forbid, Inv, CounterInv
  <1>8. EndInv'
    BY <1>1, <1>2, <1>4 DEF Forbid, Inv, CounterInv, EndInv
  <1>9. alive' \/ child = {}
    BY <1>4, <1>5 DEF Forbid, EnterCleanup, Terminate
  <1>10. NoOrphan'
    BY <1>4, <1>5 DEF Forbid, EnterCleanup, Terminate, NoOrphan
  <1> QED
    BY <1>2, <1>7, <1>8, <1>9, <1>10 DEF Inv

LEMMA ForbidFailsInv ==
    ASSUME Inv, alive, ForbidFails
    PROVE  Inv' /\ Counted' = Counted
  <1>1. Counted' = Counted /\ (Forbidden' <=> Forbidden)
    BY DEF ForbidFails, Counted, Forbidden, threadVars
  <1>2. TypeOK'
    BY TypeHolds DEF ForbidFails, TypeOK, threadVars
  <1>3. CounterInv'
    BY <1>1, <1>2 DEF ForbidFails, Inv, CounterInv, TypeOK, threadVars
  <1>4. EndInv' /\ NoOrphan'
    BY <1>1 DEF ForbidFails, Inv, EndInv, NoOrphan, threadVars
  <1> QED
    BY <1>1, <1>3, <1>4 DEF Inv

LEMMA LookForInteractiveInv ==
    ASSUME Inv, alive, LookForInteractive
    PROVE  Inv' /\ Counted' = Counted
  <1>1. Counted' = Counted /\ (Forbidden' <=> Forbidden)
    BY DEF LookForInteractive, Counted, Forbidden, threadVars
  <1>2. TypeOK'
    BY TypeHolds DEF LookForInteractive, TypeOK, threadVars
  <1>3. CounterInv'
    BY <1>1, <1>2 DEF LookForInteractive, Inv, CounterInv, threadVars
  <1>4. EndInv' /\ NoOrphan'
    BY <1>1 DEF LookForInteractive, Inv, EndInv, NoOrphan, threadVars
  <1> QED
    BY <1>1, <1>3, <1>4 DEF Inv

LEMMA CloseJobInv ==
    ASSUME Inv, alive, CloseJob
    PROVE  Inv' /\ Counted' = Counted /\ (Main \in child => m_in_interactive = 0)
  <1>1. Counted' = Counted /\ (Forbidden' <=> Forbidden)
    BY DEF CloseJob, Counted, Forbidden
  <1>2. TypeOK'
    BY TypeHolds DEF CloseJob, Terminate, TypeOK
  <1>3. CounterInv'
    BY <1>1, <1>2 DEF CloseJob, Terminate, Inv, CounterInv
  <1>4. EndInv' /\ NoOrphan'
    BY <1>1 DEF CloseJob, Terminate, Inv, EndInv, NoOrphan
  <1>5. Main \in child => m_in_interactive = 0
    BY ThreadAssumption DEF CloseJob, Inv, CounterInv, EndInv, Counted
  <1> QED
    BY <1>1, <1>3, <1>4, <1>5 DEF Inv

LEMMA HandlerCleanupEndsInv ==
    ASSUME Inv, alive, HandlerCleanupEnds
    PROVE  Inv' /\ Counted' = Counted /\ child = {}
  <1>1. Counted' = Counted /\ (Forbidden' <=> Forbidden)
    BY DEF HandlerCleanupEnds, Counted, Forbidden
  <1>2. child = {}
    BY DEF HandlerCleanupEnds, Inv, CounterInv, EndInv, Counted
  <1>3. TypeOK'
    BY TypeHolds DEF HandlerCleanupEnds, Terminate, TypeOK, handlerVars
  <1>4. CounterInv'
    BY <1>1, <1>3 DEF HandlerCleanupEnds, Terminate, Inv, CounterInv, handlerVars
  <1>5. EndInv' /\ NoOrphan'
    BY <1>1, <1>2 DEF HandlerCleanupEnds, Terminate, Inv, EndInv, NoOrphan, handlerVars
  <1> QED
    BY <1>1, <1>2, <1>4, <1>5 DEF Inv

LEMMA StutterInv == ASSUME Inv, UNCHANGED vars PROVE Inv' /\ Counted' = Counted
  <1> USE DEF vars, threadVars, handlerVars
  <1>1. Counted' = Counted /\ (Forbidden' <=> Forbidden) /\ TypeOK'
    BY TypeHolds DEF Counted, Forbidden, TypeOK
  <1> QED
    BY <1>1 DEF Inv, CounterInv, EndInv, NoOrphan

\* Every step keeps the invariant, counts no further thread when that is forbidden, and ends the
\* process only as the action properties allow.
LEMMA StepInv ==
    ASSUME Inv, [Next]_vars
    PROVE  /\ Inv'
           /\ Forbidden => Counted' \subseteq Counted
           /\ alive /\ ~ alive' /\ Main \in child => m_in_interactive = 0
  <1>1. CASE UNCHANGED vars
    BY <1>1, StutterInv DEF vars
  <1>2. CASE Next
    <2>1. alive
      BY <1>2 DEF Next
    <2>2. CASE \E t \in Thread : BeginSpawn(t)
      BY <2>1, <2>2, BeginSpawnInv DEF BeginSpawn, SetStage, Counted, Inv, CounterInv, TypeOK
    <2>3. CASE \E t \in Thread : CountIn(t)
      BY <2>1, <2>3, CountInInv DEF CountIn
    <2>4. CASE \E t \in Thread : CountInFails(t)
      BY <2>1, <2>4, CountInFailsInv DEF CountInFails
    <2>5. CASE \E t \in Thread : CreateProcess(t)
      BY <2>1, <2>5, CreateProcessInv DEF CreateProcess
    <2>6. CASE \E t \in Thread : ChildEnds(t)
      BY <2>1, <2>6, ChildEndsInv DEF ChildEnds
    <2>7. CASE \E t \in Thread : CountOut(t)
      <3>1. PICK t \in Thread : CountOut(t)
        BY <2>7
      <3>2. Counted' \subseteq Counted
        BY <3>1, TypeHolds DEF CountOut, SetStage, Counted, TypeOK
      <3>3. Main \in child => stage[Main] # "exit"
        BY DEF Inv, CounterInv
      <3> QED
        BY <2>1, <3>1, <3>2, <3>3, CountOutInv
    <2>8. CASE \E t \in Thread : CleanupEnds(t)
      BY <2>1, <2>8, CleanupEndsInv
    <2>9. CASE Exit
      BY <2>1, <2>9, ExitInv
    <2>10. CASE HitCtrlC
      BY <2>1, <2>10, HitCtrlCInv DEF HitCtrlC
    <2>11. CASE Forbid
      BY <2>1, <2>11, ForbidInv
    <2>12. CASE ForbidFails
      BY <2>1, <2>12, ForbidFailsInv DEF ForbidFails
    <2>13. CASE LookForInteractive
      BY <2>1, <2>13, LookForInteractiveInv DEF LookForInteractive
    <2>14. CASE CloseJob
      BY <2>1, <2>14, CloseJobInv
    <2>15. CASE HandlerCleanupEnds
      BY <2>1, <2>15, HandlerCleanupEndsInv
    <2>16. CASE ExitInteractive
      BY <2>1, <2>16, ExitInteractiveInv DEF ExitInteractive
    <2> QED
      BY <1>2, <2>2, <2>3, <2>4, <2>5, <2>6, <2>7, <2>8, <2>9, <2>10, <2>11, <2>12, <2>13, <2>14,
         <2>15, <2>16 DEF Next, ThreadStep, HandlerStep
  <1> QED
    BY <1>1, <1>2

(***************************************************************************)
(* The theorems.                                                           *)
(***************************************************************************)
\* The counter is what the threads and Ctrl-C have made it, for any number of threads: the process
\* ends for Ctrl-C when no program is left, and never before.
THEOREM InvHolds == Machine => []Inv
  <1>1. Inv /\ [Next]_vars => Inv'
    BY StepInv
  <1> QED
    BY InitInv, <1>1, PTL DEF Machine

\* Ctrl-C never leaves a program running after vcpkg.
THEOREM NoProgramIsOrphaned == Machine => []NoOrphan
  <1>1. Inv => NoOrphan
    BY DEF Inv
  <1> QED
    BY InvHolds, <1>1, PTL

\* The shell of vcpkg env is never killed by Ctrl-C.
THEOREM TheShellSurvives == Machine => ShellSurvives
  <1>1. Inv /\ [Next]_vars => [alive /\ ~ alive' /\ Main \in child => m_in_interactive = 0]_vars
    BY StepInv
  <1> QED
    BY InvHolds, <1>1, PTL DEF Machine, ShellSurvives

\* After Ctrl-C no thread comes to start a program.
THEOREM NothingIsStarted == Machine => NothingStarted
  <1>1. Inv /\ [Next]_vars => [Forbidden => Counted' \subseteq Counted]_vars
    BY StepInv
  <1> QED
    BY InvHolds, <1>1, PTL DEF Machine, NothingStarted

(***************************************************************************)
(* ExecuteInParallel.                                                      *)
(***************************************************************************)
LEMMA WorkerIsFinite == IsFiniteSet(Worker)
BY CountsAssumption, FS_Interval DEF Worker

LEMMA CallerIsWorker == 0 \in Worker /\ Worker \subseteq Nat
BY CountsAssumption DEF Worker

LEMMA ActiveIsFinite ==
    IsFiniteSet(Active) /\ Cardinality(Active) \in Nat
BY WorkerIsFinite, FS_Subset, FS_CardinalityType DEF Active

\* One thread more or less.
LEMMA OneLess ==
    ASSUME NEW S, IsFiniteSet(S), NEW x \in S
    PROVE  /\ IsFiniteSet(S \ {x})
           /\ Cardinality(S) \in Nat
           /\ Cardinality(S) >= 1
           /\ Cardinality(S \ {x}) = Cardinality(S) - 1
<1>1. Cardinality(S) \in Nat /\ Cardinality(S \ {x}) \in Nat /\ IsFiniteSet(S \ {x})
  BY FS_RemoveElement, FS_CardinalityType
<1>2. Cardinality(S \ {x}) = Cardinality(S) - 1
  BY FS_RemoveElement
<1>. QED
  BY <1>1, <1>2

\* fetch_add on a counter that is not at its end, and on one that is.
LEMMA Increase ==
    ASSUME NEW n \in 0 .. SizeMax
    PROVE  /\ n # SizeMax => (n + 1) % (SizeMax + 1) = n + 1
           /\ n = SizeMax => (n + 1) % (SizeMax + 1) = 0
BY CountsAssumption

--------------------------------------------------------------------------------
LEMMA ParallelInitInv == ParallelInit => ParallelInv
<1>. SUFFICES ASSUME ParallelInit PROVE ParallelInv
  OBVIOUS
<1>1. threads \in 1 .. SizeMax /\ threads <= work_count /\ threads <= SizeMax - work_count + 1
  BY CountsAssumption DEF ParallelInit, IsMaxThreads
<1>2. Active = 0 .. (threads - 1)
  BY <1>1, CountsAssumption DEF ParallelInit, Active, Worker
<1>3. Cardinality(Active) = threads
  <2>1. Cardinality(0 .. (threads - 1)) = (threads - 1) - 0 + 1
    BY <1>1, FS_Interval, CountsAssumption
  <2>. QED
    BY <1>1, <1>2, <2>1
<1>4. Taken = {}
  BY <1>1, <1>2 DEF ParallelInit, Taken, Offsets
<1>5. ParallelTypeOK
  BY <1>1, CountsAssumption DEF ParallelInit, ParallelTypeOK, Worker, Offsets
<1>6. RoomInv
  BY <1>1, <1>3, CountsAssumption DEF ParallelInit, RoomInv
<1>7. CallerInv
  BY CallerIsWorker DEF ParallelInit, CallerInv
<1>8. WorkInv
  BY <1>4 DEF ParallelInit, WorkInv
<1>. QED
  BY <1>5, <1>6, <1>7, <1>8 DEF ParallelInv

\* A step that leaves the counter and the work alone, and neither begins nor ends any thread's
\* activity, keeps the invariant.
LEMMA QuietStep ==
    ASSUME ParallelInv, UNCHANGED <<next_offset, threads, offset, runs>>, ParallelTypeOK', Active' = Active,
           \A t \in Worker : doing'[t] = "work" <=> doing[t] = "work",
           doing'[0] # "new", doing'[0] \in {"left", "ended"} => doing[0] \in {"left", "ended"},
           doing'[0] = "ended" => \A t \in Worker : doing'[t] = "ended"
    PROVE  ParallelInv'
<1>1. Taken' = Taken
  BY DEF Taken
<1>2. RoomInv'
  BY DEF ParallelInv, RoomInv
<1>3. CallerInv'
  BY <1>1 DEF ParallelInv, CallerInv
<1>4. WorkInv'
  BY <1>1 DEF ParallelInv, WorkInv, AtWorkOn
<1>. QED
  BY <1>2, <1>3, <1>4 DEF ParallelInv

LEMMA BeginInv == ASSUME ParallelInv, NEW t \in Worker, Begin(t) PROVE ParallelInv'
<1>1. ParallelTypeOK' /\ Active' = Active
  BY DEF ParallelInv, ParallelTypeOK, Begin, Active
<1>2. \A u \in Worker : doing'[u] = "work" <=> doing[u] = "work"
  BY DEF ParallelInv, ParallelTypeOK, Begin
<1>3. t # 0
  BY DEF ParallelInv, CallerInv, Begin
<1>4. doing'[0] = doing[0]
  BY <1>3, CallerIsWorker DEF ParallelInv, ParallelTypeOK, Begin
<1>. QED
  BY <1>1, <1>2, <1>4, QuietStep DEF ParallelInv, CallerInv, Begin

LEMMA WorkEndsInv == ASSUME ParallelInv, NEW t \in Worker, WorkEnds(t) PROVE ParallelInv'
<1>1. ParallelTypeOK' /\ Active' = Active
  BY DEF ParallelInv, ParallelTypeOK, WorkEnds, Active
<1>2. \A u \in Worker : doing'[u] = "work" <=> doing[u] = "work"
  BY DEF ParallelInv, ParallelTypeOK, WorkEnds
<1>3. doing'[0] \in {doing[0], "take"}
  BY CallerIsWorker DEF ParallelInv, ParallelTypeOK, WorkEnds
<1>. QED
  BY <1>1, <1>2, <1>3, QuietStep DEF ParallelInv, CallerInv, WorkEnds

LEMMA WorkerEndInv == ASSUME ParallelInv, NEW t \in Worker, End(t) PROVE ParallelInv'
<1>1. ParallelTypeOK' /\ Active' = Active
  BY DEF ParallelInv, ParallelTypeOK, End, Active
<1>2. \A u \in Worker : doing'[u] = "work" <=> doing[u] = "work"
  BY DEF ParallelInv, ParallelTypeOK, End
<1>3. doing'[0] = doing[0]
  BY CallerIsWorker DEF ParallelInv, ParallelTypeOK, End
<1>. QED
  BY <1>1, <1>2, <1>3, QuietStep DEF ParallelInv, CallerInv, End

LEMMA ReturnInv == ASSUME ParallelInv, Return PROVE ParallelInv'
<1>1. ParallelTypeOK' /\ Active' = Active
  BY CallerIsWorker DEF ParallelInv, ParallelTypeOK, Return, Active
<1>2. \A u \in Worker : doing'[u] = "work" <=> doing[u] = "work"
  BY CallerIsWorker DEF ParallelInv, ParallelTypeOK, Return
<1>3. doing'[0] = "ended" /\ doing[0] = "left"
  BY CallerIsWorker DEF ParallelInv, ParallelTypeOK, Return
<1>4. \A t \in Worker : doing'[t] = "ended"
  BY CallerIsWorker DEF Return, ParallelInv, ParallelTypeOK
<1>. QED
  BY <1>1, <1>2, <1>3, <1>4, QuietStep DEF Return

\* A thread that never begins leaves more room.
LEMMA NeverBeginInv == ASSUME ParallelInv, NEW t \in Worker, NeverBegin(t) PROVE ParallelInv'
<1>1. t # 0 /\ t \in Active
  BY DEF ParallelInv, CallerInv, NeverBegin, Active
<1>2. doing'[0] = doing[0]
  BY <1>1, CallerIsWorker DEF ParallelInv, ParallelTypeOK, NeverBegin
<1>3. ParallelTypeOK'
  BY DEF ParallelInv, ParallelTypeOK, NeverBegin
<1>4. Active' = Active \ {t}
  BY DEF ParallelInv, ParallelTypeOK, NeverBegin, Active
<1>5. \A u \in Worker : doing'[u] = "work" <=> doing[u] = "work"
  BY DEF ParallelInv, ParallelTypeOK, NeverBegin
<1>6. Taken' = Taken
  <2>1. CASE Active' # {}
    BY <1>4, <2>1 DEF Taken, NeverBegin, Offsets
  <2>2. CASE Active' = {}
    <3>1. 0 \notin Active
      BY <1>1, <1>4, <2>2
    <3>2. doing[0] \in {"left", "ended"}
      BY <3>1, CallerIsWorker DEF ParallelInv, ParallelTypeOK, Active
    <3>3. Taken = Offsets
      BY <3>2 DEF ParallelInv, CallerInv
    <3>. QED
      BY <2>2, <3>3 DEF Taken, Offsets
  <2>. QED
    BY <2>1, <2>2
<1>7. RoomInv'
  <2>1. Cardinality(Active) \in Nat /\ Cardinality(Active') = Cardinality(Active) - 1
    BY <1>1, <1>4, OneLess, ActiveIsFinite
  <2>2. /\ work_count + Cardinality(Active) <= SizeMax + 1
        /\ next_offset + Cardinality(Active) <= SizeMax + 1
    BY <1>1 DEF ParallelInv, RoomInv
  <2>. QED
    BY <2>1, <2>2, CountsAssumption DEF RoomInv, NeverBegin, ParallelInv, ParallelTypeOK
<1>8. CallerInv'
  <2>1. doing[0] # "ended"
    BY <1>1 DEF ParallelInv, CallerInv, NeverBegin
  <2>. QED
    BY <1>2, <1>6, <2>1 DEF ParallelInv, CallerInv, Offsets
<1>9. WorkInv'
  BY <1>5, <1>6 DEF ParallelInv, WorkInv, AtWorkOn, NeverBegin, Offsets
<1>. QED
  BY <1>3, <1>7, <1>8, <1>9 DEF ParallelInv

LEMMA WorkStepInv == ASSUME ParallelInv, NEW t \in Worker, Work(t) PROVE ParallelInv'
<1>1. offset[t] \in Taken /\ runs[offset[t]] = 0 /\ offset[t] \in Offsets
  BY DEF ParallelInv, WorkInv, Work, Taken
<1>2. Active' = Active /\ Taken' = Taken
  BY DEF ParallelInv, ParallelTypeOK, Work, Active, Taken, Offsets
<1>3. runs'[offset[t]] = 1 /\ \A i \in Offsets \ {offset[t]} : runs'[i] = runs[i]
  BY <1>1 DEF ParallelInv, ParallelTypeOK, Work
<1>4. doing'[t] = "busy" /\ \A u \in Worker \ {t} : doing'[u] = doing[u]
  BY DEF ParallelInv, ParallelTypeOK, Work
<1>5. ParallelTypeOK'
  <2>1. runs' \in [Offsets -> {0, 1}]
    BY <1>1 DEF ParallelInv, ParallelTypeOK, Work
  <2>. QED
    BY <2>1 DEF ParallelInv, ParallelTypeOK, Work
<1>6. RoomInv'
  BY <1>2 DEF ParallelInv, RoomInv, Work
<1>7. CallerInv'
  BY <1>2, <1>4, CallerIsWorker DEF ParallelInv, CallerInv, Work, Offsets
<1>8. WorkInv'
  <2>1. \A u \in Worker : doing'[u] = "work" => u # t /\ doing[u] = "work" /\ offset'[u] = offset[u]
    BY <1>4 DEF Work
  <2>2. \A u \in Worker : doing'[u] = "work" => offset'[u] \in Taken' /\ runs'[offset'[u]] = 0
    <3>1. \A u \in Worker : doing'[u] = "work" => offset[u] # offset[t]
      BY <2>1 DEF ParallelInv, WorkInv, Work
    <3>. QED
      BY <1>2, <1>3, <2>1, <3>1 DEF ParallelInv, WorkInv, Taken
  <2>3. \A u, v \in Worker : doing'[u] = "work" /\ doing'[v] = "work" /\ offset'[u] = offset'[v] => u = v
    BY <2>1 DEF ParallelInv, WorkInv
  <2>4. \A i \in Taken' : runs'[i] = 0 => \E u \in Worker : AtWorkOn(u, i)'
    <3>. SUFFICES ASSUME NEW i \in Taken, runs'[i] = 0 PROVE \E u \in Worker : AtWorkOn(u, i)'
      BY <1>2
    <3>1. i # offset[t] /\ runs[i] = 0
      BY <1>3 DEF Taken
    <3>2. PICK u \in Worker : AtWorkOn(u, i)
      BY <3>1 DEF ParallelInv, WorkInv
    <3>. QED
      BY <1>4, <3>1, <3>2 DEF AtWorkOn, Work
  <2>5. \A i \in Offsets \ Taken' : runs'[i] = 0
    BY <1>1, <1>2, <1>3 DEF ParallelInv, WorkInv
  <2>. QED
    BY <2>2, <2>3, <2>4, <2>5 DEF WorkInv, Offsets
<1>. QED
  BY <1>5, <1>6, <1>7, <1>8 DEF ParallelInv

--------------------------------------------------------------------------------
\* What the counter gives out while any thread may read it was given to nobody.
LEMMA FreshOffset ==
    ASSUME ParallelInv, NEW t \in Worker, doing[t] = "take"
    PROVE  /\ t \in Active
           /\ next_offset + Cardinality(Active) <= SizeMax + 1
           /\ work_count + Cardinality(Active) <= SizeMax + 1
           /\ Taken = {i \in Offsets : i < next_offset}
<1>1. t \in Active
  BY DEF Active
<1>. QED
  BY <1>1 DEF ParallelInv, RoomInv, Taken

\* A piece of work is left.
LEMMA TakeWorkInv ==
    ASSUME ParallelInv, NEW t \in Worker, Take(t), next_offset < work_count
    PROVE  ParallelInv'
<1>1. /\ t \in Active
      /\ Taken = {i \in Offsets : i < next_offset}
  BY FreshOffset DEF Take
<1>2. next_offset \in Offsets /\ next_offset \notin Taken /\ next_offset \in Nat
  BY <1>1, CountsAssumption DEF ParallelInv, ParallelTypeOK, Offsets
<1>3. next_offset' = next_offset + 1
  BY <1>2, Increase, CountsAssumption DEF Take, Offsets
<1>4. doing' = [doing EXCEPT ![t] = "work"]
  <2>1. ~(next_offset >= work_count)
    BY <1>2, CountsAssumption
  <2>. QED
    BY <2>1 DEF Take
<1>5. Active' = Active
  BY <1>4 DEF Take, ParallelInv, ParallelTypeOK, Active
<1>6. Taken' = Taken \cup {next_offset}
  BY <1>1, <1>2, <1>3, <1>5, CountsAssumption DEF Taken, Offsets
<1>7. ParallelTypeOK'
  <2>1. next_offset' \in 0 .. SizeMax
    BY <1>2, <1>3, CountsAssumption
  <2>. QED
    BY <2>1, <1>4 DEF ParallelInv, ParallelTypeOK, Take
<1>8. RoomInv'
  <2>1. work_count + Cardinality(Active) <= SizeMax + 1
    BY FreshOffset DEF Take
  <2>. QED
    BY <1>2, <1>3, <1>5, <2>1, ActiveIsFinite, CountsAssumption DEF RoomInv
<1>9. CallerInv'
  <2>1. doing[0] \notin {"left", "ended"}
    BY <1>2 DEF ParallelInv, CallerInv
  <2>2. doing'[0] \in {doing[0], "work"}
    BY <1>4, CallerIsWorker DEF ParallelInv, ParallelTypeOK
  <2>. QED
    BY <2>1, <2>2 DEF ParallelInv, CallerInv
<1>10. WorkInv'
  <2>1. doing'[t] = "work" /\ offset'[t] = next_offset
    BY <1>4 DEF ParallelInv, ParallelTypeOK, Take
  <2>2. \A u \in Worker \ {t} : doing'[u] = doing[u] /\ offset'[u] = offset[u]
    BY <1>4 DEF ParallelInv, ParallelTypeOK, Take
  <2>3. runs' = runs /\ runs[next_offset] = 0
    BY <1>2 DEF ParallelInv, WorkInv, Take
  <2>4. \A u \in Worker : doing'[u] = "work" => offset'[u] \in Taken' /\ runs'[offset'[u]] = 0
    BY <1>6, <2>1, <2>2, <2>3 DEF ParallelInv, WorkInv
  <2>5. \A u, v \in Worker : doing'[u] = "work" /\ doing'[v] = "work" /\ offset'[u] = offset'[v] => u = v
    BY <1>2, <2>1, <2>2 DEF ParallelInv, WorkInv
  <2>6. \A i \in Taken' : runs'[i] = 0 => \E u \in Worker : AtWorkOn(u, i)'
    <3>. SUFFICES ASSUME NEW i \in Taken', runs'[i] = 0 PROVE \E u \in Worker : AtWorkOn(u, i)'
      OBVIOUS
    <3>1. CASE i = next_offset
      BY <2>1, <3>1 DEF AtWorkOn
    <3>2. CASE i \in Taken
      <4>1. PICK u \in Worker : AtWorkOn(u, i)
        BY <2>3, <3>2 DEF ParallelInv, WorkInv
      <4>2. u # t
        BY <4>1 DEF AtWorkOn, Take
      <4>. QED
        BY <2>2, <4>1, <4>2 DEF AtWorkOn
    <3>. QED
      BY <1>6, <3>1, <3>2
  <2>7. \A i \in Offsets \ Taken' : runs'[i] = 0
    BY <1>6, <2>3 DEF ParallelInv, WorkInv
  <2>. QED
    BY <2>4, <2>5, <2>6, <2>7 DEF WorkInv, Offsets
<1>. QED
  BY <1>7, <1>8, <1>9, <1>10 DEF ParallelInv

\* No work is left.
LEMMA TakeNothingInv ==
    ASSUME ParallelInv, NEW t \in Worker, Take(t), ~(next_offset < work_count)
    PROVE  ParallelInv'
<1>1. /\ t \in Active
      /\ next_offset + Cardinality(Active) <= SizeMax + 1
      /\ work_count + Cardinality(Active) <= SizeMax + 1
      /\ Taken = {i \in Offsets : i < next_offset}
  BY FreshOffset DEF Take
<1>2. next_offset \in 0 .. SizeMax /\ next_offset >= work_count /\ Taken = Offsets
  BY <1>1, CountsAssumption DEF ParallelInv, ParallelTypeOK, Offsets
<1>3. doing' = [doing EXCEPT ![t] = "left"]
  BY <1>2, CountsAssumption DEF Take
<1>4. Active' = Active \ {t}
  BY <1>3 DEF Take, ParallelInv, ParallelTypeOK, Active
<1>5. /\ Cardinality(Active) \in Nat
      /\ Cardinality(Active) >= 1
      /\ Cardinality(Active') = Cardinality(Active) - 1
  BY <1>1, <1>4, OneLess, ActiveIsFinite
<1>6. \/ next_offset' = next_offset + 1 /\ next_offset' <= SizeMax
      \/ next_offset' = 0 /\ Active' = {}
  <2>1. CASE next_offset # SizeMax
    BY <1>2, <2>1, Increase, CountsAssumption DEF Take
  <2>2. CASE next_offset = SizeMax
    <3>1. Cardinality(Active') = 0
      BY <1>1, <1>5, <2>2, CountsAssumption
    <3>2. Active' = {}
      BY <1>4, <3>1, ActiveIsFinite, FS_EmptySet, FS_Subset
    <3>. QED
      BY <1>2, <2>2, <3>2, Increase DEF Take
  <2>. QED
    BY <2>1, <2>2
<1>7. ParallelTypeOK'
  <2>1. next_offset' \in 0 .. SizeMax
    BY <1>2, <1>6, CountsAssumption
  <2>. QED
    BY <1>3, <2>1 DEF ParallelInv, ParallelTypeOK, Take
<1>8. RoomInv'
  BY <1>1, <1>2, <1>5, <1>6, CountsAssumption DEF RoomInv
<1>9. Taken' = Taken
  <2>1. CASE Active' = {}
    BY <1>2, <2>1 DEF Taken, Offsets
  <2>2. CASE Active' # {}
    BY <1>1, <1>2, <1>6, <2>2, CountsAssumption DEF Taken, Offsets
  <2>. QED
    BY <2>1, <2>2
<1>10. CallerInv'
  <2>1. (doing'[0] \in {doing[0], "left"} /\ doing[0] \notin {"new", "ended"}) \/ doing[0] = doing'[0]
    BY <1>3, CallerIsWorker DEF ParallelInv, ParallelTypeOK, CallerInv, Take
  <2>2. doing[0] = "ended" => Active = {}
    BY DEF ParallelInv, CallerInv, Active
  <2>3. doing'[0] # "ended"
    BY <1>1, <2>1, <2>2
  <2>. QED
    BY <1>2, <1>9, <2>1, <2>3 DEF ParallelInv, CallerInv, Offsets
<1>11. WorkInv'
  <2>1. \A u \in Worker : doing'[u] = "work" => u # t /\ doing[u] = "work" /\ offset'[u] = offset[u]
    BY <1>3 DEF ParallelInv, ParallelTypeOK, Take
  <2>2. \A u \in Worker : doing[u] = "work" => doing'[u] = "work" /\ offset'[u] = offset[u]
    BY <1>3 DEF ParallelInv, ParallelTypeOK, Take
  <2>3. \A u, i : u \in Worker /\ AtWorkOn(u, i) => AtWorkOn(u, i)'
    BY <2>2 DEF AtWorkOn
  <2>. QED
    BY <1>9, <2>1, <2>2, <2>3 DEF ParallelInv, WorkInv, AtWorkOn, Take, Offsets
<1>. QED
  BY <1>7, <1>8, <1>10, <1>11 DEF ParallelInv

--------------------------------------------------------------------------------
LEMMA ParallelNextInv == ParallelInv /\ [ParallelNext]_parallelVars => ParallelInv'
<1>. SUFFICES ASSUME ParallelInv, [ParallelNext]_parallelVars PROVE ParallelInv'
  OBVIOUS
<1>1. ASSUME NEW t \in Worker, Take(t) PROVE ParallelInv'
  BY <1>1, TakeWorkInv, TakeNothingInv
<1>2. CASE UNCHANGED parallelVars
  <2>1. Active' = Active
    BY <1>2 DEF parallelVars, Active
  <2>. QED
    BY <1>2, <2>1, QuietStep DEF parallelVars, ParallelInv, ParallelTypeOK, CallerInv
<1>. QED
  BY <1>1, <1>2, BeginInv, NeverBeginInv, WorkStepInv, WorkEndsInv, WorkerEndInv, ReturnInv DEF ParallelNext

\* The inductive invariant of execute_in_parallel: the counter has room for every thread that
\* may still read it, and what it has given out is done or about to be begun by one thread.
THEOREM ParallelInvHolds == Parallel => []ParallelInv
<1>. QED
  BY ParallelInitInv, ParallelNextInv, PTL DEF Parallel

\* No two threads are given the same piece of work, and none is given a piece that was done: the
\* bound on the number of threads leaves the counter room, whatever its width.
THEOREM WorkIsGivenOnce == Parallel => OnceEach
<1>1. ASSUME ParallelInv, NEW t \in Worker, Take(t), next_offset \in Offsets
      PROVE  runs[next_offset] = 0 /\ \A u \in Worker : ~AtWorkOn(u, next_offset)
  <2>1. next_offset \notin Taken
    BY <1>1, FreshOffset, CountsAssumption DEF Take, ParallelInv, ParallelTypeOK
  <2>. QED
    BY <1>1, <2>1 DEF ParallelInv, WorkInv, AtWorkOn
<1>2. ParallelInv => [\A t \in Worker : Take(t) /\ next_offset \in Offsets =>
                 runs[next_offset] = 0 /\ \A u \in Worker : ~AtWorkOn(u, next_offset)]_parallelVars
  BY <1>1
<1>. QED
  BY <1>2, ParallelInvHolds, PTL DEF OnceEach

\* When execute_in_parallel returns, every piece of work is done, and no thread can still reach
\* the context that lives on the caller's stack.
THEOREM ReturnsWithAllDone == Parallel => []AllDone
<1>1. ParallelInv => AllDone
  <2>. SUFFICES ASSUME ParallelInv, doing[0] = "ended"
                PROVE  (\A i \in Offsets : runs[i] = 1) /\ \A t \in Worker : doing[t] = "ended"
    BY DEF AllDone
  <2>1. Active = {} /\ Taken = Offsets
    BY CallerIsWorker DEF ParallelInv, CallerInv, Active
  <2>2. \A t \in Worker : doing[t] = "ended"
    BY DEF ParallelInv, CallerInv
  <2>3. \A i \in Offsets : runs[i] = 1
    BY <2>1, <2>2 DEF ParallelInv, ParallelTypeOK, WorkInv, AtWorkOn
  <2>. QED
    BY <2>2, <2>3
<1>. QED
  BY <1>1, ParallelInvHolds, PTL

(***************************************************************************)
(* ParallelChildren.                                                       *)
(***************************************************************************)
\* What a step does, seen from either side.
LEMMA StepOfMachine ==
    ASSUME [NextAll]_allVars
    PROVE  [Next]_vars
<1>1. CASE UNCHANGED allVars
  BY <1>1 DEF allVars
<1>2. CASE NextAll
  <2>1. ASSUME NEW t \in Worker, WorkerStep(t) PROVE [Next]_vars
    <3>1. t \in Thread
      BY ChildrenAssumption
    <3>2. UNCHANGED vars \/ BeginSpawn(t)
      BY <2>1 DEF WorkerStep, WorkStarts, WorkReturns
    <3>. QED
      BY <1>2, <3>1, <3>2 DEF NextAll, Next
  <2>2. ASSUME NEW t \in Thread, OtherSpawn(t) \/ ThreadStep(t) PROVE [Next]_vars
    BY <1>2, <2>2 DEF NextAll, Next, OtherSpawn
  <2>. QED
    BY <1>2, <2>1, <2>2 DEF NextAll, Next
<1>. QED
  BY <1>1, <1>2

LEMMA StepOfParallel ==
    ASSUME [NextAll]_allVars
    PROVE  [ParallelNext]_parallelVars
<1>1. CASE UNCHANGED allVars
  BY <1>1 DEF allVars
<1>2. CASE NextAll
  <2>1. ASSUME NEW t \in Worker, WorkerStep(t) PROVE ParallelNext
    BY <2>1 DEF WorkerStep, WorkStarts, WorkReturns, ParallelNext
  <2>. QED
    BY <1>2, <2>1 DEF NextAll, ParallelNext
<1>. QED
  BY <1>1, <1>2

\* execute_in_parallel under Ctrl-C does nothing that either would not do by itself.
THEOREM ImplementsBoth == All => Machine /\ Parallel
<1>1. InitAll => Init /\ ParallelInit
  BY DEF InitAll
<1>2. [NextAll]_allVars => [Next]_vars /\ [ParallelNext]_parallelVars
  BY StepOfMachine, StepOfParallel
<1>. QED
  BY <1>1, <1>2, PTL DEF All, Machine, Parallel

LEMMA BusyStep ==
    ASSUME TypeOK, ParallelInv, BusyInv, [NextAll]_allVars
    PROVE  BusyInv'
<1>1. CASE UNCHANGED allVars
  BY <1>1 DEF allVars, vars, threadVars, parallelVars, BusyInv
<1>. SUFFICES ASSUME NextAll PROVE BusyInv'
  BY <1>1
\* A worker moves.
<1>2. ASSUME NEW t \in Worker, WorkerStep(t) PROVE BusyInv'
  <2>. SUFFICES ASSUME NEW u \in Worker, stage'[u] # "free"
                PROVE  doing'[u] = "busy" \/ (u = Main /\ doing'[u] = "ended")
    BY DEF BusyInv
  <2>1. u # t => doing'[u] = doing[u]
    BY <1>2 DEF WorkerStep, WorkStarts, WorkReturns, Begin, NeverBegin, Take, End, Work, WorkEnds,
                ParallelInv, ParallelTypeOK
  <2>2. u # t => stage'[u] = stage[u]
    <3>1. UNCHANGED vars \/ BeginSpawn(t)
      BY <1>2 DEF WorkerStep, WorkStarts, WorkReturns
    <3>2. u \in Thread
      BY ChildrenAssumption
    <3>. QED
      BY <3>1, <3>2 DEF BeginSpawn, SetStage, TypeOK, vars, threadVars
  <2>3. CASE u # t
    BY <2>1, <2>2, <2>3 DEF BusyInv
  <2>4. CASE u = t /\ WorkStarts(t)
    BY <2>4 DEF WorkStarts, Work, ParallelInv, ParallelTypeOK
  <2>5. CASE u = t /\ (Begin(t) \/ NeverBegin(t) \/ Take(t) \/ End(t)) /\ UNCHANGED vars
    <3>1. stage[t] # "free"
      BY <2>5 DEF vars, threadVars
    <3>2. doing[t] = "busy" \/ doing[t] = "ended"
      BY <3>1 DEF BusyInv
    <3>. QED
      BY <2>5, <3>2 DEF Begin, NeverBegin, Take, End
  <2>6. CASE u = t /\ WorkReturns(t)
    BY <2>6 DEF WorkReturns, vars, threadVars
  <2>. QED
    BY <1>2, <2>3, <2>4, <2>5, <2>6 DEF WorkerStep
\* The caller returns: none of the others moves.
<1>3. ASSUME Return, UNCHANGED vars PROVE BusyInv'
  <2>1. \A u \in Worker : stage'[u] = stage[u]
    BY <1>3 DEF vars, threadVars
  <2>2. \A u \in Worker : doing'[u] = doing[u] \/ (u = 0 /\ doing[u] = "left")
    BY <1>3, CallerIsWorker DEF Return, ParallelInv, ParallelTypeOK
  <2>. QED
    BY <2>1, <2>2 DEF BusyInv
\* A program is started or ends, and only its own thread moves.
<1>4. ASSUME UNCHANGED parallelVars, \A u \in Worker : stage'[u] # "free" => stage[u] # "free"
      PROVE  BusyInv'
  BY <1>4 DEF parallelVars, BusyInv
<1>5. ASSUME NEW t \in Thread, OtherSpawn(t), UNCHANGED parallelVars PROVE BusyInv'
  <2>1. \A u \in Worker \ {t} : stage'[u] = stage[u]
    BY <1>5, ChildrenAssumption DEF OtherSpawn, BeginSpawn, SetStage, TypeOK
  <2>2. t \in Worker => t = Main /\ doing'[t] = "ended"
    BY <1>5 DEF OtherSpawn, parallelVars
  <2>. QED
    BY <1>5, <2>1, <2>2 DEF BusyInv, parallelVars
<1>6. ASSUME NEW t \in Thread, ThreadStep(t), UNCHANGED parallelVars PROVE BusyInv'
  <2>1. \A u \in Thread : stage'[u] # "free" => stage[u] # "free"
    BY <1>6 DEF ThreadStep, CountIn, CountInFails, CreateProcess, ChildEnds, CountOut, CleanupEnds, SetStage, TypeOK
  <2>. QED
    BY <1>4, <1>6, <2>1, ChildrenAssumption
<1>7. ASSUME ExitInteractive, UNCHANGED parallelVars PROVE BusyInv'
  <2>1. \A u \in Thread : stage'[u] # "free" => stage[u] # "free"
    BY <1>7 DEF ExitInteractive, SetStage, TypeOK
  <2>. QED
    BY <1>4, <1>7, <2>1, ChildrenAssumption
<1>8. ASSUME OnItsOwn, Exit, UNCHANGED parallelVars PROVE BusyInv'
  <2>1. \A u \in Worker : u # Main => stage'[u] = stage[u]
    BY <1>8, ChildrenAssumption DEF Exit, SetStage, TypeOK
  <2>2. doing'[Main] \in {"busy", "ended"}
    BY <1>8 DEF OnItsOwn, parallelVars
  <2>. QED
    BY <1>8, <2>1, <2>2 DEF BusyInv, parallelVars
<1>9. ASSUME HitCtrlC \/ HandlerStep, UNCHANGED parallelVars PROVE BusyInv'
  <2>1. stage' = stage
    BY <1>9 DEF HitCtrlC, HandlerStep, Forbid, ForbidFails, LookForInteractive, CloseJob, HandlerCleanupEnds,
                threadVars
  <2>. QED
    BY <1>4, <1>9, <2>1
<1>. QED
  BY <1>2, <1>3, <1>5, <1>6, <1>7, <1>8, <1>9 DEF NextAll

\* While a program that was run for a piece of work is not counted out, the piece is not done.
LEMMA BusyHolds == All => []BusyInv
<1>1. InitAll => BusyInv
  BY ChildrenAssumption DEF InitAll, Init, BusyInv
<1>2. Inv => TypeOK
  BY TypeHolds
<1>3. BusyInv /\ TypeOK /\ ParallelInv /\ [NextAll]_allVars => BusyInv'
  BY BusyStep
<1>. QED
  BY <1>1, <1>2, <1>3, ImplementsBoth, InvHolds, ParallelInvHolds, PTL DEF All

\* The invariants of Ctrl-C hold while execute_in_parallel runs programs.
THEOREM InvHoldsInAll == All => []Inv
<1>. QED
  BY ImplementsBoth, InvHolds, PTL

\* The shell survives, whichever threads work.
THEOREM TheShellSurvivesInAll == All => ShellSurvives
<1>. QED
  BY ImplementsBoth, TheShellSurvives, PTL

\* When execute_in_parallel returns, all work is done and no program of it runs, for every number
\* of threads, every moment of Ctrl-C and whatever else runs programs.
THEOREM NoneIsLeftBehind == All => []NoneLeftBehind
<1>1. Inv /\ ParallelInv /\ BusyInv /\ AllDone => NoneLeftBehind
  <2>. SUFFICES ASSUME Inv, ParallelInv, BusyInv, AllDone, doing[Main] = "ended", NEW t \in child, t \in Worker
                PROVE  t = Main
    BY DEF NoneLeftBehind
  <2>1. doing[t] = "ended"
    BY ChildrenAssumption DEF ParallelInv, CallerInv
  <2>2. stage[t] = "wait"
    BY DEF Inv, CounterInv
  <2>. QED
    BY <2>1, <2>2 DEF BusyInv
<1>. QED
  BY <1>1, ImplementsBoth, InvHolds, ParallelInvHolds, ReturnsWithAllDone, BusyHolds, PTL
================================================================================

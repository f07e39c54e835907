------------------------ MODULE InstalledDatabase_proofs ------------------------
(***************************************************************************)
(* Theorems about InstalledDatabase: its invariant, that no update file is *)
(* replaced, that a sync leaves no update file behind, and that the status *)
(* file with its updates implements the durable map of StatusStore, for    *)
(* any processes, specs, states and number of updates.                     *)
(***************************************************************************)
EXTENDS RunningLocks, SequenceTheorems, WellFoundedInduction, TLAPS

--------------------------------------------------------------------------------
(***************************************************************************)
(* Least and greatest update ids.                                          *)
(***************************************************************************)
\* A nonempty set of update ids has a least element.
LEMMA LeastId ==
    ASSUME NEW S, S \subseteq Ids, S # {}
    PROVE  \E i \in S : \A j \in S : i <= j
<1>1. S \subseteq Nat
  BY ConstantsAssumption DEF Ids
<1>2. PICK i \in S : \A j \in S : ~ (<<j, i>> \in OpToRel(<, Nat))
  BY <1>1, NatLessThanWellFounded, WFMin, Zenon
<1>3. \A j \in S : ~ (j < i)
  BY <1>1, <1>2 DEF OpToRel
<1>4. QED
  BY <1>1, <1>3

\* Latest(S) is the greatest element of a nonempty set of update ids.
LEMMA LatestIsGreatest ==
    ASSUME NEW S, S \subseteq Ids, S # {}
    PROVE  Latest(S) \in S /\ \A j \in S : j <= Latest(S)
<1> DEFINE M == MaxUpdates
           Mirror == {i \in Ids : M - 1 - i \in S}
<1>1. Mirror \subseteq Ids
  OBVIOUS
<1>2. Mirror # {}
  <2>1. PICK k \in S : TRUE
    OBVIOUS
  <2>2. M - 1 - k \in Ids /\ M - 1 - (M - 1 - k) = k
    BY <2>1, ConstantsAssumption DEF Ids
  <2>3. QED
    BY <2>1, <2>2
<1>3. PICK m \in Mirror : \A j \in Mirror : m <= j
  BY <1>1, <1>2, LeastId, Zenon
<1>4. M - 1 - m \in S
  BY <1>3
<1>5. ASSUME NEW j \in S
      PROVE  j <= M - 1 - m
  <2>1. M - 1 - j \in Ids /\ M - 1 - (M - 1 - j) = j
    BY <1>5, ConstantsAssumption DEF Ids
  <2>2. M - 1 - j \in Mirror
    BY <1>5, <2>1
  <2>3. m <= M - 1 - j
    BY <1>3, <2>2
  <2>4. m \in Nat /\ j \in Nat
    BY <1>3, <1>5, ConstantsAssumption DEF Ids
  <2>5. QED
    BY <2>3, <2>4, ConstantsAssumption
<1>6. \E i \in S : \A j \in S : j <= i
  BY <1>4, <1>5
<1>7. QED
  BY <1>6, Zenon DEF Latest

\* An id of S above all of S is Latest(S).
LEMMA LatestIs ==
    ASSUME NEW S, S \subseteq Ids, NEW i \in S, \A j \in S : j <= i
    PROVE  Latest(S) = i
<1>1. Latest(S) \in S /\ i <= Latest(S)
  BY LatestIsGreatest
<1>2. Latest(S) <= i
  BY <1>1
<1>3. i \in Ids /\ Latest(S) \in Ids
  BY <1>1
<1>4. i \in Int /\ Latest(S) \in Int
  BY <1>3, ConstantsAssumption DEF Ids
<1>5. QED
  BY <1>1, <1>2, <1>4

--------------------------------------------------------------------------------
(***************************************************************************)
(* Replaying updates.                                                      *)
(***************************************************************************)
UpdateDirs == [Ids -> Paragraphs \cup {NoFile}]

\* The update of a spec that Replay takes is one of its updates, and a paragraph.
LEMMA LatestUpdate ==
    ASSUME NEW ups \in UpdateDirs, NEW s \in Spec, IdsOf(ups, s) # {}
    PROVE  /\ Latest(IdsOf(ups, s)) \in IdsOf(ups, s)
           /\ ups[Latest(IdsOf(ups, s))] \in Paragraphs
           /\ ups[Latest(IdsOf(ups, s))].state \in State
<1>1. IdsOf(ups, s) \subseteq Ids
  BY DEF IdsOf
<1>2. Latest(IdsOf(ups, s)) \in IdsOf(ups, s)
  BY <1>1, LatestIsGreatest, Zenon
<1>3. ups[Latest(IdsOf(ups, s))] \in Paragraphs
  BY <1>2 DEF IdsOf, UpdateDirs
<1>4. QED
  BY <1>2, <1>3 DEF Paragraphs

LEMMA ReplayType ==
    ASSUME NEW st \in Maps, NEW ups \in UpdateDirs
    PROVE  Replay(st, ups) \in Maps
<1>1. ASSUME NEW s \in Spec
      PROVE  Replay(st, ups)[s] \in State \cup {Absent}
  BY LatestUpdate DEF Replay, Maps
<1>2. QED
  BY <1>1 DEF Replay, Maps

\* Merging changes nothing: the merged map under the same updates is itself.
LEMMA ReplayMerged ==
    ASSUME NEW st \in Maps, NEW ups \in UpdateDirs
    PROVE  Replay(Replay(st, ups), ups) = Replay(st, ups)
BY DEF Replay

\* Without update files the status file speaks for itself.
LEMMA ReplayEmpty ==
    ASSUME NEW st \in Maps, NEW ups \in UpdateDirs, \A i \in Ids : ups[i] = NoFile
    PROVE  Replay(st, ups) = st
<1>1. \A s \in Spec : IdsOf(ups, s) = {}
  BY DEF IdsOf
<1>2. QED
  BY <1>1 DEF Replay, Maps

\* An update with an id above all others is a write of its paragraph.
LEMMA ReplayAppend ==
    ASSUME NEW st \in Maps, NEW ups \in UpdateDirs, NEW n \in Ids, NEW par \in Paragraphs,
           \A i \in Ids : ups[i] # NoFile => i < n
    PROVE  Replay(st, [ups EXCEPT ![n] = par]) = [Replay(st, ups) EXCEPT ![par.spec] = par.state]
<1> DEFINE after == [ups EXCEPT ![n] = par]
<1>0. par.spec \in Spec /\ par # NoFile /\ after[n] = par
  BY FileAssumption DEF Paragraphs, UpdateDirs
<1>1. ASSUME NEW s \in Spec, s # par.spec
      PROVE  Replay(st, after)[s] = Replay(st, ups)[s]
  <2>1. ups[n] = NoFile
    BY ConstantsAssumption DEF Ids
  <2>2. IdsOf(after, s) = IdsOf(ups, s)
    BY <1>0, <1>1, <2>1 DEF IdsOf, UpdateDirs
  <2>3. n \notin IdsOf(ups, s)
    BY <2>1 DEF IdsOf
  <2>4. IdsOf(ups, s) # {} => after[Latest(IdsOf(ups, s))] = ups[Latest(IdsOf(ups, s))]
    BY <2>3, LatestUpdate DEF IdsOf, UpdateDirs
  <2>5. CASE IdsOf(ups, s) = {}
    BY <2>2, <2>5 DEF Replay
  <2>6. CASE IdsOf(ups, s) # {}
    <3>1. Replay(st, ups)[s] = ups[Latest(IdsOf(ups, s))].state
      BY <2>6 DEF Replay
    <3>2. IdsOf(after, s) # {}
      BY <2>2, <2>6
    <3>3. Replay(st, after)[s] = after[Latest(IdsOf(after, s))].state
      BY <3>2, Zenon DEF Replay
    <3>4. QED
      BY <2>2, <2>4, <2>6, <3>1, <3>3
  <2>7. QED
    BY <2>5, <2>6
<1>2. Replay(st, after)[par.spec] = par.state
  <2>1. n \in IdsOf(after, par.spec)
    BY <1>0 DEF IdsOf
  <2>2. \A j \in IdsOf(after, par.spec) : j <= n
    BY <1>0, ConstantsAssumption DEF IdsOf, UpdateDirs, Ids
  <2>3. IdsOf(after, par.spec) \subseteq Ids
    BY DEF IdsOf
  <2>4. Latest(IdsOf(after, par.spec)) = n
    BY <2>1, <2>2, <2>3, LatestIs
  <2>5. QED
    BY <1>0, <2>1, <2>4 DEF Replay
<1>3. QED
  BY <1>0, <1>1, <1>2 DEF Replay

\* The loop over the sorted update files computes what Replay says, for any status file and any files.
LEMMA InsertedIsReplay ==
    ASSUME NEW st \in Maps, NEW ups \in UpdateDirs
    PROVE  Inserted(st, ups) = Replay(st, ups)
<1> DEFINE Steps == 0 .. MaxUpdates
           upTo(n) == [i \in Ids |-> IF i < n THEN ups[i] ELSE NoFile]
           body(g, n) == IF n = 0 THEN st
                         ELSE IF ups[n - 1] = NoFile THEN g[n - 1]
                         ELSE [g[n - 1] EXCEPT ![ups[n - 1].spec] = ups[n - 1].state]
           replayed == [n \in Steps |-> Replay(st, upTo(n))]
           after == CHOOSE g : g = [n \in Steps |-> body(g, n)]
<1>1. ASSUME NEW n \in Steps
      PROVE  Replay(st, upTo(n)) = body(replayed, n)
  <2>1. n \in Nat /\ \A i \in Ids : i \in Nat
    BY <1>1, ConstantsAssumption DEF Ids
  <2>2. CASE n = 0
    <3>1. upTo(n) \in UpdateDirs /\ \A i \in Ids : upTo(n)[i] = NoFile
      BY <2>1, <2>2 DEF UpdateDirs
    <3> QED
      BY <2>2, <3>1, ReplayEmpty
  <2>3. CASE n # 0
    <3>1. n - 1 \in Ids /\ n - 1 \in Steps
      BY <1>1, <2>1, <2>3, ConstantsAssumption DEF Ids
    <3>2. upTo(n - 1) \in UpdateDirs
      BY DEF UpdateDirs
    <3>3. \A i \in Ids : upTo(n)[i] = IF i = n - 1 THEN ups[n - 1] ELSE upTo(n - 1)[i]
      BY <2>1, <3>1
    <3>4. CASE ups[n - 1] = NoFile
      <4>1. upTo(n) = upTo(n - 1)
        BY <2>1, <3>1, <3>3, <3>4
      <4> QED
        BY <2>3, <3>1, <3>4, <4>1
    <3>5. CASE ups[n - 1] # NoFile
      <4>1. ups[n - 1] \in Paragraphs
        BY <3>1, <3>5 DEF UpdateDirs
      <4>2. \A i \in Ids : upTo(n - 1)[i] # NoFile => i < n - 1
        OBVIOUS
      <4>3. upTo(n) = [upTo(n - 1) EXCEPT ![n - 1] = ups[n - 1]]
        BY <3>1, <3>3
      <4>4. Replay(st, upTo(n)) = [Replay(st, upTo(n - 1)) EXCEPT ![ups[n - 1].spec] = ups[n - 1].state]
        BY <3>1, <3>2, <4>1, <4>2, <4>3, ReplayAppend
      <4> QED
        BY <2>3, <3>1, <3>5, <4>4
    <3> QED
      BY <3>4, <3>5
  <2> QED
    BY <2>2, <2>3
<1>2. replayed = [n \in Steps |-> body(replayed, n)]
  BY <1>1
<1>3. after = [n \in Steps |-> body(after, n)]
  BY <1>2
<1> HIDE DEF after
<1>4. ASSUME NEW n \in Steps, after[n] # replayed[n]
      PROVE  FALSE
  <2> DEFINE wrong == {k \in Steps : after[k] # replayed[k]}
  <2>1. wrong \subseteq Nat /\ wrong # {}
    BY <1>4, ConstantsAssumption
  <2>2. PICK k \in wrong : \A j \in wrong : ~ (<<j, k>> \in OpToRel(<, Nat))
    BY <2>1, NatLessThanWellFounded, WFMin, Zenon
  <2>3. \A j \in wrong : ~ (j < k)
    BY <2>1, <2>2 DEF OpToRel
  <2>4. after[k] = body(after, k) /\ replayed[k] = body(replayed, k)
    BY <1>2, <1>3, <2>2
  <2>5. k # 0
    BY <2>2, <2>4
  <2>6. k - 1 \in Steps /\ k - 1 < k
    <3>1. k \in 0 .. MaxUpdates
      BY <2>2
    <3> QED
      BY <3>1, <2>5, ConstantsAssumption
  <2>7. after[k - 1] = replayed[k - 1]
    BY <2>3, <2>6
  <2> QED
    BY <2>2, <2>4, <2>7
<1>5. MaxUpdates \in Steps /\ Inserted(st, ups) = after[MaxUpdates]
  BY ConstantsAssumption DEF Inserted, after
<1>6. upTo(MaxUpdates) = ups
  BY ConstantsAssumption DEF Ids, UpdateDirs
<1> QED
  BY <1>4, <1>5, <1>6

\* Removing the least update file from a directory the status file already covers leaves a
\* directory that it still covers.
LEMMA ReplayRemoveFirst ==
    ASSUME NEW st \in Maps, NEW ups \in UpdateDirs, Replay(st, ups) = st,
           NEW n \in Ids, \A i \in Ids : ups[i] # NoFile => n <= i
    PROVE  Replay(st, [i \in Ids |-> IF i = n THEN NoFile ELSE ups[i]]) = st
<1> DEFINE after == [i \in Ids |-> IF i = n THEN NoFile ELSE ups[i]]
<1>1. ASSUME NEW s \in Spec
      PROVE  Replay(st, after)[s] = st[s]
  <2>1. IdsOf(after, s) = IdsOf(ups, s) \ {n}
    BY DEF IdsOf
  <2>2. CASE IdsOf(after, s) = {}
    BY <2>2 DEF Replay
  <2>3. CASE IdsOf(after, s) # {}
    <3>1. PICK k \in IdsOf(after, s) : TRUE
      BY <2>3
    <3> DEFINE top == Latest(IdsOf(ups, s))
    <3>2. IdsOf(ups, s) \subseteq Ids /\ IdsOf(ups, s) # {} /\ IdsOf(after, s) \subseteq Ids
      BY <2>1, <3>1 DEF IdsOf
    <3>3. top \in IdsOf(ups, s) /\ \A j \in IdsOf(ups, s) : j <= top
      BY <3>2, LatestIsGreatest, Zenon
    <3>4. n < k
      BY <2>1, <3>1, ConstantsAssumption DEF IdsOf, Ids
    <3>5. k <= top
      BY <2>1, <3>1, <3>3
    <3>6. top # n
      BY <3>1, <3>2, <3>3, <3>4, <3>5, ConstantsAssumption DEF Ids
    <3>7. top \in IdsOf(after, s)
      BY <2>1, <3>3, <3>6
    <3>8. Latest(IdsOf(after, s)) = top
      BY <2>1, <3>2, <3>3, <3>7, LatestIs
    <3>9. after[top] = ups[top]
      BY <3>2, <3>3, <3>6
    <3>10. Replay(st, after)[s] = ups[top].state
      BY <2>3, <3>8, <3>9 DEF Replay
    <3>11. Replay(st, ups)[s] = ups[top].state
      BY <3>2 DEF Replay
    <3>12. QED
      BY <3>10, <3>11
  <2>4. QED
    BY <2>2, <2>3
<1>2. DOMAIN st = Spec /\ st = [s \in Spec |-> st[s]]
  BY DEF Maps
<1>3. QED
  BY <1>1, <1>2 DEF Replay

--------------------------------------------------------------------------------
(***************************************************************************)
(* The names of the update files.                                          *)
(***************************************************************************)
\* The next name to remove is one of the names; it is "incomplete" only when no other is left,
\* and the least id otherwise.
LEMMA NextName ==
    ASSUME NEW names \in SUBSET Names, names # {}
    PROVE  /\ NextToRemove(names) \in names
           /\ names # {Incomplete} => /\ NextToRemove(names) \in Ids
                                      /\ \A j \in names \cap Ids : NextToRemove(names) <= j
<1>1. CASE names = {Incomplete}
  BY <1>1 DEF NextToRemove
<1>2. CASE names # {Incomplete}
  <2>1. names \ {Incomplete} \subseteq Ids /\ names \ {Incomplete} # {}
    BY <1>2 DEF Names
  <2>2. \E i \in names \ {Incomplete} : \A j \in names \ {Incomplete} : i <= j
    BY <2>1, LeastId, Zenon
  <2>3. /\ NextToRemove(names) \in names \ {Incomplete}
        /\ \A j \in names \ {Incomplete} : NextToRemove(names) <= j
    BY <1>2, <2>2, Zenon DEF NextToRemove
  <2>4. \A j \in names \cap Ids : j \in names \ {Incomplete}
    BY FileAssumption
  <2>5. QED
    BY <2>1, <2>3, <2>4
<1>3. QED
  BY <1>1, <1>2

LEMMA ListingType == Listing \subseteq Names
BY DEF Listing, Names

\* Removing the next name removes it from the directory, and what is left is what the status
\* file covers.
LEMMA RemoveNext ==
    ASSUME NEW p \in Proc, Inv, SyncRemove(p)
    PROVE  /\ toRemove'[p] = Listing'
           /\ Replay(status, updates') = status
           /\ updates' \in UpdateDirs
           /\ \A i \in Ids : updates'[i] \in {updates[i], NoFile}
<1> DEFINE name == NextToRemove(toRemove[p])
<1>1. /\ toRemove' = [toRemove EXCEPT ![p] = @ \ {name}]
      /\ updates' = [i \in Ids |-> IF i = name THEN NoFile ELSE updates[i]]
      /\ incomplete' = IF name = Incomplete THEN NoFile ELSE incomplete
      /\ pc[p] = "syncRemove" /\ toRemove[p] # {}
  BY DEF SyncRemove
<1>2. /\ toRemove[p] = Listing /\ Replay(status, updates) = status
      /\ toRemove \in [Proc -> SUBSET Names] /\ status \in Maps /\ updates \in UpdateDirs
  BY <1>1 DEF Inv, TypeOK, MergeInv, RemoveInv, UpdateDirs
<1>3. /\ name \in Listing
      /\ Listing # {Incomplete} => name \in Ids /\ \A j \in Listing \cap Ids : name <= j
  BY <1>1, <1>2, NextName
<1>4. updates' \in UpdateDirs
  BY <1>1, <1>2 DEF UpdateDirs
<1>5. toRemove'[p] = Listing'
  <2>1. toRemove'[p] = Listing \ {name}
    BY <1>1, <1>2
  <2>2. Listing' = {i \in Ids : updates'[i] # NoFile}
                     \cup (IF incomplete' = NoFile THEN {} ELSE {Incomplete})
    BY DEF Listing
  <2>3. {i \in Ids : updates'[i] # NoFile} = {i \in Ids : updates[i] # NoFile} \ {name}
    BY <1>1
  <2>4. QED
    BY <1>1, <1>3, <2>1, <2>2, <2>3, FileAssumption DEF Listing
<1>6. Replay(status, updates') = status
  <2>1. CASE Listing = {Incomplete}
    <3>1. \A i \in Ids : updates'[i] = NoFile
      BY <1>1, <2>1, FileAssumption DEF Listing
    <3>2. QED
      BY <1>2, <1>4, <3>1, ReplayEmpty
  <2>2. CASE Listing # {Incomplete}
    <3>1. name \in Ids /\ \A i \in Ids : updates[i] # NoFile => name <= i
      BY <1>3, <2>2 DEF Listing
    <3>2. QED
      BY <1>1, <1>2, <3>1, ReplayRemoveFirst
  <2>3. QED
    BY <2>1, <2>2
<1>7. \A i \in Ids : updates'[i] \in {updates[i], NoFile}
  BY <1>1
<1>8. QED
  BY <1>4, <1>5, <1>6, <1>7

--------------------------------------------------------------------------------
(***************************************************************************)
(* The invariant.  Only the holder of the lock is past "off", so a step of *)
(* p leaves every other process at "off", where the conjuncts of Inv ask   *)
(* nothing of it.                                                          *)
(***************************************************************************)
LEMMA Alone ==
    ASSUME Inv, NEW p \in Proc, pc[p] # "off"
    PROVE  lock = p /\ \A q \in Proc : q # p => pc[q] = "off"
BY DEF Inv, LockInv

LEMMA NoMapType == NoMap \in Maps
BY DEF NoMap, Maps

\* What a load or a sync merges is a map, and the one the disk holds.
LEMMA ReplayIsMap ==
    ASSUME Inv, NEW p \in Proc, pc[p] \in {"loadUpdates", "syncUpdates"}
    PROVE  merged[p] = status /\ Replay(merged[p], updates) \in Maps
<1>1. merged[p] = status
  BY DEF Inv, MergeInv
<1>2. QED
  BY <1>1, ReplayType DEF Inv, TypeOK, UpdateDirs

\* The rename of status-new puts in place a map that covers every update file.
LEMMA ReplayIsMerged ==
    ASSUME Inv, NEW p \in Proc, pc[p] = "syncRename"
    PROVE  /\ statusNew = merged[p]
           /\ merged[p] = Replay(status, updates)
           /\ Replay(merged[p], updates) = merged[p]
<1>1. statusNew = merged[p] /\ merged[p] = Replay(status, updates)
  BY DEF Inv, MergeInv
<1>2. QED
  BY <1>1, ReplayMerged DEF Inv, TypeOK, UpdateDirs

LEMMA InitInv == Init => Inv
<1> SUFFICES ASSUME Init PROVE Inv
  OBVIOUS
<1>1. TypeOK
  BY ConstantsAssumption DEF Init, TypeOK, NoMap, Maps, Labels
<1>2. QED
  BY <1>1, ConstantsAssumption DEF Init, Inv, LockInv, MergeInv, RemoveInv, FreshIdInv

LEMMA NextInv == Inv /\ [Next]_vars => Inv'
<1> SUFFICES ASSUME Inv, [Next]_vars PROVE Inv'
  OBVIOUS
<1> USE DEF Inv
<1>0. CASE UNCHANGED vars
  BY <1>0 DEF vars, disk, local, TypeOK, LockInv, MergeInv, RemoveInv, FreshIdInv, Listing
<1>1. ASSUME NEW p \in Proc, TakeLock(p)
      PROVE  Inv'
  <2>1. TypeOK'
    BY <1>1, Alone, ConstantsAssumption DEF TakeLock, TypeOK, LockInv, MergeInv, RemoveInv, FreshIdInv, Goto, disk, Labels
  <2>2. LockInv'
    BY <1>1, Alone, ConstantsAssumption DEF TakeLock, TypeOK, LockInv, Goto, disk, Labels
  <2>3. MergeInv'
    BY <1>1, Alone, ConstantsAssumption DEF TakeLock, TypeOK, MergeInv, LockInv, Listing, Goto, disk, Labels
  <2>4. RemoveInv'
    BY <1>1, Alone, ConstantsAssumption DEF TakeLock, TypeOK, MergeInv, RemoveInv, Goto, disk, Labels
  <2>5. FreshIdInv'
    BY <1>1, Alone, ConstantsAssumption DEF TakeLock, TypeOK, FreshIdInv, LockInv, Goto, disk, Labels
  <2>6. QED
    BY <2>1, <2>2, <2>3, <2>4, <2>5
<1>2. ASSUME NEW p \in Proc, LoadStatus(p)
      PROVE  Inv'
  BY <1>2, Alone DEF LoadStatus, TypeOK, LockInv, MergeInv, RemoveInv, FreshIdInv, Listing, Goto, disk, Labels
<1>3. ASSUME NEW p \in Proc, LoadUpdates(p)
      PROVE  Inv'
  <2>1. TypeOK'
    BY <1>3, Alone, ReplayIsMap, NoMapType DEF LoadUpdates, TypeOK, LockInv, MergeInv, RemoveInv, FreshIdInv, Goto, disk, Labels
  <2>2. LockInv'
    BY <1>3, Alone DEF LoadUpdates, TypeOK, LockInv, Goto, disk, Labels
  <2>3. MergeInv'
    BY <1>3, Alone DEF LoadUpdates, TypeOK, MergeInv, LockInv, Listing, Goto, disk, Labels
  <2>4. RemoveInv'
    BY <1>3, Alone DEF LoadUpdates, TypeOK, MergeInv, RemoveInv, Goto, disk, Labels
  <2>5. FreshIdInv'
    BY <1>3, Alone DEF LoadUpdates, TypeOK, FreshIdInv, LockInv, Goto, disk, Labels
  <2>6. QED
    BY <2>1, <2>2, <2>3, <2>4, <2>5
<1>4. ASSUME NEW p \in Proc, SyncStatus(p)
      PROVE  Inv'
  BY <1>4, Alone DEF SyncStatus, TypeOK, LockInv, MergeInv, RemoveInv, FreshIdInv, Listing, Goto, disk, Labels
<1>5. ASSUME NEW p \in Proc, SyncNothing(p)
      PROVE  Inv'
  <2>1. TypeOK'
    BY <1>5, Alone, NoMapType DEF SyncNothing, TypeOK, LockInv, MergeInv, RemoveInv, FreshIdInv, Goto, disk, Labels
  <2>2. LockInv'
    BY <1>5, Alone DEF SyncNothing, TypeOK, LockInv, Goto, disk, Labels
  <2>3. MergeInv'
    BY <1>5, Alone DEF SyncNothing, TypeOK, MergeInv, LockInv, Listing, Goto, disk, Labels
  <2>4. RemoveInv'
    BY <1>5, Alone DEF SyncNothing, TypeOK, MergeInv, RemoveInv, Goto, disk, Labels
  <2>5. FreshIdInv'
    BY <1>5, Alone, ConstantsAssumption DEF SyncNothing, TypeOK, FreshIdInv, LockInv, Listing, Goto, disk, Labels
  <2>6. QED
    BY <2>1, <2>2, <2>3, <2>4, <2>5
<1>6. ASSUME NEW p \in Proc, SyncUpdates(p)
      PROVE  Inv'
  <2>1. TypeOK'
    BY <1>6, Alone, ReplayIsMap, ListingType DEF SyncUpdates, TypeOK, LockInv, MergeInv, RemoveInv, FreshIdInv, Goto, disk, Labels
  <2>2. LockInv'
    BY <1>6, Alone DEF SyncUpdates, TypeOK, LockInv, Goto, disk, Labels
  <2>3. MergeInv'
    BY <1>6, Alone, ReplayIsMap DEF SyncUpdates, TypeOK, MergeInv, LockInv, Listing, Goto, disk, Labels
  <2>4. RemoveInv'
    BY <1>6, Alone DEF SyncUpdates, TypeOK, MergeInv, RemoveInv, Goto, disk, Labels
  <2>5. FreshIdInv'
    BY <1>6, Alone DEF SyncUpdates, TypeOK, FreshIdInv, LockInv, Goto, disk, Labels
  <2>6. QED
    BY <2>1, <2>2, <2>3, <2>4, <2>5
<1>7. ASSUME NEW p \in Proc, SyncCreate(p)
      PROVE  Inv'
  BY <1>7, Alone DEF SyncCreate, TypeOK, LockInv, MergeInv, RemoveInv, FreshIdInv, Listing, Goto, disk, Labels
<1>8. ASSUME NEW p \in Proc, SyncWrite(p)
      PROVE  Inv'
  BY <1>8, Alone DEF SyncWrite, TypeOK, LockInv, MergeInv, RemoveInv, FreshIdInv, Listing, Goto, disk, Labels
<1>9. ASSUME NEW p \in Proc, SyncRename(p)
      PROVE  Inv'
  <2>1. TypeOK'
    BY <1>9, Alone DEF SyncRename, TypeOK, LockInv, MergeInv, RemoveInv, FreshIdInv, Goto, disk, Labels
  <2>2. LockInv'
    BY <1>9, Alone DEF SyncRename, TypeOK, LockInv, Goto, disk, Labels
  <2>3. MergeInv'
    BY <1>9, Alone DEF SyncRename, TypeOK, MergeInv, LockInv, Listing, Goto, disk, Labels
  <2>4. RemoveInv'
    BY <1>9, Alone, ReplayIsMerged DEF SyncRename, TypeOK, MergeInv, RemoveInv, Goto, disk, Labels
  <2>5. FreshIdInv'
    BY <1>9, Alone DEF SyncRename, TypeOK, FreshIdInv, LockInv, Goto, disk, Labels
  <2>6. QED
    BY <2>1, <2>2, <2>3, <2>4, <2>5
<1>10. ASSUME NEW p \in Proc, SyncRemove(p)
      PROVE  Inv'
  <2>1. TypeOK'
    BY <1>10, Alone, RemoveNext DEF SyncRemove, TypeOK, LockInv, MergeInv, RemoveInv, FreshIdInv, Goto, disk, Labels
  <2>2. LockInv'
    BY <1>10, Alone DEF SyncRemove, TypeOK, LockInv, Goto, disk, Labels
  <2>3. MergeInv'
    BY <1>10, Alone, RemoveNext DEF SyncRemove, TypeOK, MergeInv, LockInv, Listing, Goto, disk, Labels
  <2>4. RemoveInv'
    BY <1>10, Alone, RemoveNext DEF SyncRemove, TypeOK, MergeInv, RemoveInv, Goto, disk, Labels
  <2>5. FreshIdInv'
    BY <1>10, Alone DEF SyncRemove, TypeOK, FreshIdInv, LockInv, Goto, disk, Labels
  <2>6. QED
    BY <2>1, <2>2, <2>3, <2>4, <2>5
<1>11. ASSUME NEW p \in Proc, SyncReturn(p)
      PROVE  Inv'
  <2>1. TypeOK'
    BY <1>11, Alone, NoMapType DEF SyncReturn, TypeOK, LockInv, MergeInv, RemoveInv, FreshIdInv, Goto, disk, Labels
  <2>2. LockInv'
    BY <1>11, Alone DEF SyncReturn, TypeOK, LockInv, Goto, disk, Labels
  <2>3. MergeInv'
    BY <1>11, Alone DEF SyncReturn, TypeOK, MergeInv, LockInv, Listing, Goto, disk, Labels
  <2>4. RemoveInv'
    BY <1>11, Alone DEF SyncReturn, TypeOK, MergeInv, RemoveInv, Goto, disk, Labels
  <2>5. FreshIdInv'
    BY <1>11, Alone DEF SyncReturn, TypeOK, FreshIdInv, LockInv, MergeInv, Listing, Goto, disk, Labels
  <2>6. QED
    BY <2>1, <2>2, <2>3, <2>4, <2>5
<1>12. ASSUME NEW p \in Proc, NEW s \in Spec, NEW v \in State, WriteCreate(p, s, v)
      PROVE  Inv'
  BY <1>12, Alone DEF WriteCreate, TypeOK, LockInv, MergeInv, RemoveInv, FreshIdInv, Listing, Goto, disk, Labels, Paragraphs
<1>13. ASSUME NEW p \in Proc, WriteContents(p)
      PROVE  Inv'
  BY <1>13, Alone DEF WriteContents, TypeOK, LockInv, MergeInv, RemoveInv, FreshIdInv, Listing, Goto, disk, Labels
<1>14. ASSUME NEW p \in Proc, WriteRename(p)
      PROVE  Inv'
  <2>1. /\ nextId[p] \in Ids /\ nextId[p] + 1 \in 0 .. MaxUpdates
        /\ incomplete \in Paragraphs
        /\ \A i \in Ids : updates[i] # NoFile => i < nextId[p]
    BY <1>14, ConstantsAssumption DEF WriteRename, TypeOK, FreshIdInv, Ids
  <2>2. TypeOK'
    BY <1>14, <2>1 DEF WriteRename, TypeOK, Goto, Labels
  <2>3. LockInv'
    BY <1>14, Alone DEF WriteRename, TypeOK, LockInv, Goto
  <2>4. MergeInv'
    BY <1>14, Alone DEF WriteRename, TypeOK, MergeInv, Goto
  <2>5. RemoveInv'
    BY <1>14, Alone DEF WriteRename, TypeOK, RemoveInv, Goto
  <2>6. FreshIdInv'
    <3>1. \A i \in Ids : updates'[i] # NoFile => i < nextId'[p]
      BY <1>14, <2>1, ConstantsAssumption DEF WriteRename, TypeOK, Ids
    <3>2. QED
      BY <1>14, <3>1, Alone DEF WriteRename, TypeOK, FreshIdInv, Goto
  <2>7. QED
    BY <2>2, <2>3, <2>4, <2>5, <2>6
<1>15. ASSUME NEW p \in Proc, Stop(p)
      PROVE  Inv'
  <2>1. TypeOK'
    BY <1>15, Alone, NoMapType, ConstantsAssumption DEF Stop, TypeOK, LockInv, MergeInv, RemoveInv, FreshIdInv, Goto, disk, Labels
  <2>2. LockInv'
    BY <1>15, Alone, ConstantsAssumption DEF Stop, TypeOK, LockInv, Goto, disk, Labels
  <2>3. MergeInv'
    BY <1>15, Alone, ConstantsAssumption DEF Stop, TypeOK, MergeInv, LockInv, Listing, Goto, disk, Labels
  <2>4. RemoveInv'
    BY <1>15, Alone, ConstantsAssumption DEF Stop, TypeOK, MergeInv, RemoveInv, Goto, disk, Labels
  <2>5. FreshIdInv'
    BY <1>15, Alone, ConstantsAssumption DEF Stop, TypeOK, FreshIdInv, LockInv, Goto, disk, Labels
  <2>6. QED
    BY <2>1, <2>2, <2>3, <2>4, <2>5
<1>16. QED
  BY <1>0, <1>1, <1>2, <1>3, <1>4, <1>5, <1>6, <1>7, <1>8, <1>9, <1>10, <1>11, <1>12, <1>13, <1>14, <1>15 DEF Next, Work, SyncStep

\* The invariant of the installed database holds in every behaviour, kills included.
THEOREM InvHolds == Database => []Inv
BY InitInv, NextInv, PTL DEF Database

--------------------------------------------------------------------------------
(***************************************************************************)
(* Action properties.                                                      *)
(***************************************************************************)
\* No update file is ever replaced by another.
THEOREM NoUpdateIsReplaced == Database => NoUpdateReplaced
<1> DEFINE Kept == \A i \in Ids : updates[i] # NoFile => updates'[i] \in {updates[i], NoFile}
<1>1. Inv /\ [Next]_vars => [Kept]_vars
  <2> SUFFICES ASSUME Inv, Next PROVE Kept
    OBVIOUS
  <2>1. ASSUME NEW p \in Proc, WriteRename(p)
        PROVE  Kept
    BY <2>1 DEF WriteRename, Inv, TypeOK, FreshIdInv, Ids
  <2>2. ASSUME NEW p \in Proc, SyncRemove(p)
        PROVE  Kept
    BY <2>2, RemoveNext
  <2>3. CASE UNCHANGED updates
    BY <2>3
  <2>4. QED
    BY <2>1, <2>2, <2>3
       DEF Next, Work, SyncStep, TakeLock, LoadStatus, LoadUpdates, SyncStatus, SyncNothing, SyncUpdates,
           SyncCreate, SyncWrite, SyncRename, SyncReturn, WriteCreate, WriteContents, Stop, disk
<1>2. QED
  BY <1>1, InvHolds, PTL DEF Database, NoUpdateReplaced

\* A sync that returns has emptied the directory of updates, and returns the status file.
THEOREM SyncLeavesNoUpdate == Database => SyncEmptiesUpdates
<1> DEFINE Emptied ==
        \A p \in Proc :
            (pc[p] \in {"syncUpdates", "syncRemove"} /\ pc'[p] = "synced") =>
                Listing' = {} /\ db'[p] = status'
<1>1. Inv /\ [Next]_vars => [Emptied]_vars
  <2> SUFFICES ASSUME Inv, Next, NEW p \in Proc,
                      pc[p] \in {"syncUpdates", "syncRemove"}, pc'[p] = "synced"
               PROVE  Listing' = {} /\ db'[p] = status'
    OBVIOUS
  <2>1. lock = p /\ pc \in [Proc -> Labels] /\ \A q \in Proc : q # p => pc[q] = "off"
    BY Alone DEF Inv, TypeOK
  <2>2. SyncNothing(p) \/ SyncReturn(p)
    <3>1. ASSUME NEW q \in Proc, TakeLock(q)
          PROVE  FALSE
      BY <2>1, <3>1, ConstantsAssumption DEF TakeLock
    <3>2. ASSUME NEW q \in Proc,
                 \/ LoadStatus(q) \/ LoadUpdates(q) \/ SyncStatus(q) \/ SyncUpdates(q)
                 \/ SyncCreate(q) \/ SyncWrite(q) \/ SyncRename(q) \/ SyncRemove(q)
          PROVE  FALSE
      BY <2>1, <3>2
         DEF LoadStatus, LoadUpdates, SyncStatus, SyncUpdates, SyncCreate, SyncWrite, SyncRename,
             SyncRemove, Goto
    <3>3. ASSUME NEW q \in Proc,
                 \/ \E s \in Spec, v \in State : WriteCreate(q, s, v)
                 \/ WriteContents(q) \/ WriteRename(q) \/ Stop(q)
          PROVE  FALSE
      BY <2>1, <3>3 DEF WriteCreate, WriteContents, WriteRename, Stop, Goto
    <3>4. ASSUME NEW q \in Proc, SyncNothing(q) \/ SyncReturn(q)
          PROVE  q = p
      BY <2>1, <3>4 DEF SyncNothing, SyncReturn
    <3>5. QED
      BY <3>1, <3>2, <3>3, <3>4, Zenon DEF Next, Work, SyncStep
  <2>3. CASE SyncNothing(p)
    BY <2>3 DEF SyncNothing, disk, Inv, TypeOK, MergeInv, Listing
  <2>4. CASE SyncReturn(p)
    BY <2>4 DEF SyncReturn, disk, Inv, TypeOK, MergeInv, RemoveInv, Listing
  <2>5. QED
    BY <2>2, <2>3, <2>4
<1>2. QED
  BY <1>1, InvHolds, PTL DEF Database, SyncEmptiesUpdates

\* The model's reading of the update files is that of the code, in every state that kills, merges and
\* writes lead to (apply_database_updates, installeddatabase.cpp:27-48).
THEOREM ReplayIsTheLoop == Database => []ReplayIsInsertInOrder
<1>1. Inv => ReplayIsInsertInOrder
  BY InsertedIsReplay DEF Inv, TypeOK, UpdateDirs, ReplayIsInsertInOrder
<1> QED
  BY <1>1, InvHolds, PTL

--------------------------------------------------------------------------------
(***************************************************************************)
(* Refinement: the files on disk are a durable map.                        *)
(***************************************************************************)
LEMMA AbstractInit == Init => Abstract!Init
<1> SUFFICES ASSUME Init PROVE Abstract!Init
  OBVIOUS
<1>1. Replay(status, updates) = NoMap
  <2>1. status \in Maps /\ updates \in UpdateDirs /\ \A i \in Ids : updates[i] = NoFile
    BY NoMapType DEF Init, UpdateDirs
  <2>2. QED
    BY <2>1, ReplayEmpty DEF Init
<1>2. QED
  BY <1>1 DEF Init, Abstract!Init, NoMap

\* Every step of the database is one step of the map or leaves the map as it is.
LEMMA AbstractNext == Inv /\ [Next]_vars => [Abstract!Next]_(Abstract!vars)
<1> SUFFICES ASSUME Inv, [Next]_vars PROVE Abstract!Next \/ UNCHANGED Abstract!vars
  OBVIOUS
<1>0. CASE UNCHANGED vars
  BY <1>0 DEF vars, disk, local, Abstract!vars
<1>1. ASSUME NEW p \in Proc, TakeLock(p)
      PROVE  Abstract!Next
  BY <1>1 DEF TakeLock, disk, Abstract!Next, Abstract!Acquire
<1>2. ASSUME NEW p \in Proc, LoadUpdates(p)
      PROVE  Abstract!Next
  <2>1. db' = [db EXCEPT ![p] = Replay(status, updates)]
    BY <1>2, ReplayIsMap DEF LoadUpdates
  <2>2. lock = p /\ UNCHANGED <<status, updates, lock, pending>>
    BY <1>2, Alone DEF LoadUpdates, disk
  <2>3. QED
    BY <2>1, <2>2 DEF Abstract!Next, Abstract!Load
<1>3. ASSUME NEW p \in Proc, SyncNothing(p)
      PROVE  Abstract!Next
  <2>1. Replay(status, updates) = status
    BY <1>3, ReplayEmpty DEF SyncNothing, Listing, Inv, TypeOK, UpdateDirs
  <2>2. db' = [db EXCEPT ![p] = Replay(status, updates)]
    BY <1>3, <2>1, ReplayIsMap DEF SyncNothing
  <2>3. lock = p /\ UNCHANGED <<status, updates, lock, pending>>
    BY <1>3, Alone DEF SyncNothing, disk
  <2>4. QED
    BY <2>2, <2>3 DEF Abstract!Next, Abstract!Load
<1>4. ASSUME NEW p \in Proc, SyncReturn(p)
      PROVE  Abstract!Next
  <2>1. db' = [db EXCEPT ![p] = Replay(status, updates)]
    BY <1>4 DEF SyncReturn, Inv, RemoveInv
  <2>2. lock = p /\ UNCHANGED <<status, updates, lock, pending>>
    BY <1>4, Alone DEF SyncReturn, disk
  <2>3. QED
    BY <2>1, <2>2 DEF Abstract!Next, Abstract!Load
<1>5. ASSUME NEW p \in Proc, SyncRename(p)
      PROVE  UNCHANGED Abstract!vars
  BY <1>5, ReplayIsMerged DEF SyncRename, Abstract!vars
<1>6. ASSUME NEW p \in Proc, SyncRemove(p)
      PROVE  UNCHANGED Abstract!vars
  BY <1>6, RemoveNext DEF SyncRemove, Inv, RemoveInv, Abstract!vars
<1>7. ASSUME NEW p \in Proc, WriteRename(p)
      PROVE  Abstract!Next
  <2>1. /\ status \in Maps /\ updates \in UpdateDirs /\ nextId[p] \in Ids
        /\ incomplete \in Paragraphs /\ incomplete = pending[p] /\ pending[p] # NoFile
        /\ \A i \in Ids : updates[i] # NoFile => i < nextId[p]
    BY <1>7, ConstantsAssumption, FileAssumption
       DEF WriteRename, Inv, TypeOK, FreshIdInv, Ids, UpdateDirs
  <2>2. updates' = [updates EXCEPT ![nextId[p]] = incomplete]
    BY <1>7 DEF WriteRename
  <2>3. Replay(status, updates')
            = [Replay(status, updates) EXCEPT ![incomplete.spec] = incomplete.state]
    <3>1. Replay(status, [updates EXCEPT ![nextId[p]] = incomplete])
              = [Replay(status, updates) EXCEPT ![incomplete.spec] = incomplete.state]
      BY <2>1, ReplayAppend
    <3>2. QED
      BY <2>2, <3>1
  <2>4. lock = p /\ status' = status /\ lock' = lock /\ db' = db
    BY <1>7, Alone DEF WriteRename
  <2>5. Abstract!Record(p)
    BY <1>7, <2>1, <2>3, <2>4 DEF WriteRename, Abstract!Record
  <2>6. QED
    BY <2>5 DEF Abstract!Next
<1>8. ASSUME NEW p \in Proc, Stop(p)
      PROVE  Abstract!Next
  <2>1. Abstract!Release(p)
    BY <1>8, Alone DEF Stop, disk, NoMap, Abstract!Release
  <2>2. QED
    BY <2>1 DEF Abstract!Next
<1>9. ASSUME NEW p \in Proc, NEW s \in Spec, NEW v \in State, WriteCreate(p, s, v)
      PROVE  Abstract!Next
  <2>1. lock = p /\ pending[p] = NoFile
    BY <1>9, Alone DEF WriteCreate, Inv, FreshIdInv
  <2>2. Abstract!Ask(p, s, v)
    BY <1>9, <2>1 DEF WriteCreate, Abstract!Ask
  <2>3. QED
    BY <2>2 DEF Abstract!Next
<1>10. ASSUME UNCHANGED <<status, updates, lock, db, pending>>
       PROVE  UNCHANGED Abstract!vars
  BY <1>10 DEF Abstract!vars
<1>11. QED
  BY <1>0, <1>1, <1>2, <1>3, <1>4, <1>5, <1>6, <1>7, <1>8, <1>9, <1>10
     DEF Next, Work, SyncStep, LoadStatus, SyncStatus, SyncUpdates, SyncCreate, SyncWrite,
         WriteContents, disk

\* The status file, its updates and the lock implement StatusStore.
THEOREM ImplementsDurableMap == Database => DurableMap
BY InvHolds, AbstractInit, AbstractNext, PTL DEF Database, DurableMap, Abstract!Store

--------------------------------------------------------------------------------
(***************************************************************************)
(* The lock files.                                                         *)
(***************************************************************************)
LEMMA InitLocksInv == InitLocks => LocksInv
<1> SUFFICES ASSUME InitLocks PROVE LocksInv
  OBVIOUS
<1>1. \A p \in Command : LockFiles[p] \in Seq(LockFile) /\ Len(LockFiles[p]) \in Nat
  BY LocksAssumption, LenProperties
<1>2. \A p \in Proc : Len(LockFiles[p]) # 0
  BY <1>1, LocksAssumption, EmptySeq DEF Command
<1>3. LocksTypeOK
  BY <1>1 DEF InitLocks, LocksTypeOK, Holder
<1>4. HoldInv
  BY <1>1, <1>2 DEF InitLocks, Init, HoldInv, Taking, Command
<1>5. OwnInv
  BY LocksAssumption DEF InitLocks, OwnInv
<1> QED
  BY <1>3, <1>4, <1>5 DEF LocksInv

\* A process that leaves has no lock; the locks of the others stay.
LEMMA LeaveInv ==
    ASSUME LocksInv, NEW p \in Command, NEW heir \in {NoProc, Children}, Leave(p, heir),
           \A q \in Proc : pc'[q] = IF q = p THEN "off" ELSE pc[q]
    PROVE  LocksInv'
<1>1. /\ flocked' \in [LockFile -> [{Inode, Spare} -> Holder]]
      /\ \A f \in LockFile : \A i \in {Inode, Spare} :
             flocked'[f][i] = IF flocked[f][i] = p THEN heir ELSE flocked[f][i]
  BY DEF Leave, PassTo, LocksInv, LocksTypeOK, Holder
<1>2. \A q \in Command : taken'[q] = (IF q = p THEN 0 ELSE taken[q]) /\ taken'[q] \in Nat
  BY DEF Leave, LocksInv, LocksTypeOK
<1>3. \A q \in Command : LockFiles[q] \in Seq(LockFile) /\ Len(LockFiles[q]) \in Nat
  BY LocksAssumption, LenProperties
<1>4. LocksTypeOK'
  <2>1. /\ inode' = [f \in LockFile |-> Inode]
        /\ opened' \in [Command -> {Inode, NotOpen}] /\ taken' \in [Command -> Nat]
    BY DEF Leave, LocksInv, LocksTypeOK
  <2>2. \A q \in Command : taken'[q] <= Len(LockFiles[q])
    BY <1>2, <1>3 DEF LocksInv, LocksTypeOK
  <2> QED
    BY <1>1, <2>1, <2>2 DEF LocksTypeOK
<1>5. ASSUME NEW q \in Command, NEW i \in 1 .. taken'[q]
      PROVE  flocked'[LockFiles[q][i]][inode'[LockFiles[q][i]]] = q
  <2>1. q # p /\ i \in 1 .. taken[q] /\ i \in 1 .. Len(LockFiles[q])
    BY <1>2, <1>3 DEF LocksInv, LocksTypeOK
  <2>2. LockFiles[q][i] \in LockFile
    BY <2>1, <1>3, ElementOfSeq
  <2>3. flocked[LockFiles[q][i]][inode[LockFiles[q][i]]] = q /\ inode[LockFiles[q][i]] = Inode
    BY <2>1, <2>2 DEF LocksInv, LocksTypeOK, HoldInv
  <2> QED
    BY <2>1, <2>2, <2>3, <1>1 DEF Leave
<1>6. ASSUME NEW q \in Proc PROVE pc'[q] # "off" <=> ~ Taking(q)'
  <2>1. q \in Command /\ Len(LockFiles[q]) # 0
    BY <1>3, LocksAssumption, EmptySeq DEF Command
  <2>2. pc[q] # "off" <=> ~ Taking(q)
    BY DEF LocksInv, HoldInv
  <2> QED
    BY <2>1, <2>2, <1>2, <1>3 DEF Taking
<1>7. ASSUME NEW q \in Command, NEW f \in LockFile, flocked'[f][inode'[f]] = q
      PROVE  \E i \in 1 .. taken'[q] : LockFiles[q][i] = f
  <2>1. inode'[f] = Inode /\ inode[f] = Inode
    BY <1>4 DEF LocksInv, LocksTypeOK
  <2>2. flocked'[f][Inode] = q /\ q # heir
    BY <1>7, <2>1, LocksAssumption
  <2>3. flocked[f][Inode] = q /\ q # p
    BY <1>1, <2>2
  <2> QED
    BY <1>2, <2>1, <2>3 DEF LocksInv, OwnInv
<1> QED
  BY <1>4, <1>5, <1>6, <1>7 DEF LocksInv, HoldInv, OwnInv

\* The last lock is taken only while no other process is past its own.
LEMMA LastLock ==
    ASSUME Inv, LocksInv, NEW p \in Proc, Flock(p), taken[p] + 1 = Len(LockFiles[p])
    PROVE  pc[p] = "off" /\ lock = NoProc
<1>1. p \in Command /\ Taking(p) /\ pc[p] = "off"
  BY DEF Flock, LocksInv, HoldInv, Command
<1>2. ASSUME NEW q \in Proc, lock = q PROVE FALSE
  <2>1. q \in Command /\ q # p /\ ~ Taking(q)
    BY <1>1, <1>2 DEF Inv, LockInv, LocksInv, HoldInv, Command
  <2>2. Len(LockFiles[q]) \in Nat \ {0} /\ taken[q] \in Nat /\ taken[p] \in Nat
    BY <1>1, <2>1, LocksAssumption, LenProperties, EmptySeq DEF LocksInv, LocksTypeOK
  <2>3. 1 \in 1 .. taken[q]
    BY <2>1, <2>2 DEF Taking
  <2>4. LockFiles[q][1] = InstalledLock /\ LockFiles[p][1] = InstalledLock
    BY LocksAssumption
  <2>5. flocked[InstalledLock][inode[InstalledLock]] = q
    BY <2>1, <2>3, <2>4 DEF LocksInv, HoldInv
  <2>6. CASE taken[p] = 0
    <3>1. Target(p) = InstalledLock /\ opened[p] = Inode /\ flocked[InstalledLock][Inode] = NoProc
      BY <1>1, <2>4, <2>6 DEF Flock, Free, Target, LocksInv, LocksTypeOK
    <3>2. InstalledLock \in LockFile
      BY <2>2, <2>4, <2>1, LocksAssumption, ElementOfSeq
    <3> QED
      BY <2>1, <2>5, <3>1, <3>2, LocksAssumption DEF LocksInv, LocksTypeOK
  <2>7. CASE taken[p] # 0
    <3>1. 1 \in 1 .. taken[p]
      BY <2>2, <2>7
    <3> QED
      BY <1>1, <2>1, <2>4, <2>5, <3>1 DEF LocksInv, HoldInv
  <2> QED
    BY <2>6, <2>7
<1> QED
  BY <1>1, <1>2 DEF Inv, TypeOK

\* A lock that is taken is nobody else's.
LEMMA FlockInv ==
    ASSUME LocksInv, NEW p \in Command, Flock(p), Inv
    PROVE  LocksInv'
<1>1. /\ taken[p] \in Nat /\ Len(LockFiles[p]) \in Nat /\ taken[p] + 1 \in 1 .. Len(LockFiles[p])
      /\ Target(p) \in LockFile /\ opened[p] = Inode
  <2>1. taken[p] \in Nat /\ LockFiles[p] \in Seq(LockFile) /\ Len(LockFiles[p]) \in Nat
    BY LocksAssumption, LenProperties DEF LocksInv, LocksTypeOK
  <2>2. taken[p] + 1 \in 1 .. Len(LockFiles[p])
    BY <2>1 DEF Flock, Taking
  <2>3. opened[p] = Inode
    BY DEF Flock, LocksInv, LocksTypeOK
  <2> QED
    BY <2>1, <2>2, <2>3, ElementOfSeq DEF Target
<1>2. /\ flocked' \in [LockFile -> [{Inode, Spare} -> Holder]]
      /\ \A f \in LockFile : flocked'[f][Inode] = IF f = Target(p) THEN p ELSE flocked[f][Inode]
  BY <1>1, LocksAssumption DEF Flock, LocksInv, LocksTypeOK, Holder
<1>3. \A q \in Command : taken'[q] = (IF q = p THEN taken[q] + 1 ELSE taken[q])
  BY DEF Flock, LocksInv, LocksTypeOK
<1>4. LocksTypeOK'
  <2>1. /\ inode' = [f \in LockFile |-> Inode] /\ opened' \in [Command -> {Inode, NotOpen}]
    BY DEF Flock, LocksInv, LocksTypeOK
  <2>2. taken' \in [Command -> Nat]
    BY <1>1 DEF Flock, LocksInv, LocksTypeOK
  <2>3. \A q \in Command : taken'[q] <= Len(LockFiles[q])
    BY <1>1, <1>3 DEF LocksInv, LocksTypeOK
  <2> QED
    BY <1>2, <2>1, <2>2, <2>3 DEF LocksTypeOK
<1>5. ASSUME NEW q \in Command, NEW i \in 1 .. taken'[q]
      PROVE  flocked'[LockFiles[q][i]][inode'[LockFiles[q][i]]] = q
  <2>1. i \in 1 .. Len(LockFiles[q]) /\ LockFiles[q] \in Seq(LockFile) /\ taken[q] \in Nat
    BY <1>3, <1>4, LocksAssumption, LenProperties DEF LocksInv, LocksTypeOK
  <2>2. LockFiles[q][i] \in LockFile
    BY <2>1, ElementOfSeq
  <2>3. inode'[LockFiles[q][i]] = Inode /\ inode[LockFiles[q][i]] = Inode
    BY <2>2, <1>4 DEF LocksInv, LocksTypeOK
  <2>4. CASE LockFiles[q][i] = Target(p)
    <3>1. q = p
      <4>1. flocked[Target(p)][Inode] = NoProc /\ NoProc # q
        BY <1>1, LocksAssumption DEF Flock, Free
      <4>2. i \notin 1 .. taken[q]
        BY <4>1, <2>3, <2>4 DEF LocksInv, HoldInv
      <4> QED
        BY <4>2, <1>3
    <3> QED
      BY <3>1, <2>2, <2>3, <2>4, <1>2
  <2>5. CASE LockFiles[q][i] # Target(p)
    <3>1. i \in 1 .. taken[q]
      BY <2>1, <2>5, <1>3 DEF Target
    <3>2. flocked[LockFiles[q][i]][Inode] = q
      BY <3>1, <2>3 DEF LocksInv, HoldInv
    <3> QED
      BY <3>2, <2>2, <2>3, <2>5, <1>2
  <2> QED
    BY <2>4, <2>5
<1>6. ASSUME NEW q \in Proc PROVE pc'[q] # "off" <=> ~ Taking(q)'
  <2>1. q \in Command /\ (pc[q] # "off" <=> ~ Taking(q))
    BY DEF LocksInv, HoldInv, Command
  <2>2. pc' = IF p \in Proc /\ taken[p] + 1 = Len(LockFiles[p]) THEN [pc EXCEPT ![p] = "locked"] ELSE pc
    BY DEF Flock, Goto, vars, local
  <2>3. pc \in [Proc -> Labels]
    BY DEF Inv, TypeOK
  <2>4. CASE q = p
    BY <1>1, <1>3, <2>1, <2>2, <2>3, <2>4 DEF Taking, Flock
  <2>5. CASE q # p
    BY <1>3, <2>1, <2>2, <2>3, <2>5 DEF Taking
  <2> QED
    BY <2>4, <2>5
<1>7. ASSUME NEW q \in Command, NEW f \in LockFile, flocked'[f][inode'[f]] = q
      PROVE  \E i \in 1 .. taken'[q] : LockFiles[q][i] = f
  <2>1. flocked'[f][Inode] = q /\ inode[f] = Inode
    BY <1>4, <1>7 DEF LocksInv, LocksTypeOK
  <2>2. CASE f = Target(p)
    <3>1. q = p /\ LockFiles[q][taken[p] + 1] = f
      BY <1>2, <2>1, <2>2 DEF Target
    <3>2. taken[p] + 1 \in 1 .. taken'[q]
      BY <1>1, <1>3, <3>1
    <3> QED
      BY <3>1, <3>2
  <2>3. CASE f # Target(p)
    <3>1. flocked[f][inode[f]] = q
      BY <1>2, <2>1, <2>3
    <3>2. PICK i \in 1 .. taken[q] : LockFiles[q][i] = f
      BY <3>1 DEF LocksInv, OwnInv
    <3>3. taken[q] \in Nat
      BY DEF LocksInv, LocksTypeOK
    <3>4. i \in 1 .. taken'[q]
      BY <1>3, <3>2, <3>3
    <3> QED
      BY <3>2, <3>4
  <2> QED
    BY <2>2, <2>3
<1> QED
  BY <1>4, <1>5, <1>6, <1>7 DEF LocksInv, HoldInv, OwnInv

\* Every step of the processes with their lock files is a step of InstalledDatabase or leaves it alone.
LEMMA LockedStep == Inv /\ LocksInv /\ [NextLocks]_<<vars, lockVars>> => [Next]_vars
<1> SUFFICES ASSUME Inv, LocksInv, NextLocks PROVE [Next]_vars
  OBVIOUS
<1>1. ASSUME NEW p \in Command, Open(p) \/ GiveUp(p) \/ KilledEarly(p) PROVE UNCHANGED vars
  BY <1>1 DEF Open, GiveUp, KilledEarly, vars
<1>2. ASSUME NEW p \in Command, Flock(p) PROVE [Next]_vars
  <2>1. CASE p \in Proc /\ taken[p] + 1 = Len(LockFiles[p])
    <3>1. TakeLock(p)
      BY <1>2, <2>1, LastLock DEF Flock, TakeLock
    <3> QED
      BY <2>1, <3>1 DEF Next
  <2>2. CASE ~ (p \in Proc /\ taken[p] + 1 = Len(LockFiles[p]))
    BY <1>2, <2>2 DEF Flock
  <2> QED
    BY <2>1, <2>2
<1>3. ASSUME NEW p \in Command, Ends(p) PROVE [Next]_vars
  BY <1>3 DEF Ends, Next
<1>4. ASSUME ChildrenEnd PROVE UNCHANGED vars
  BY <1>4 DEF ChildrenEnd, vars
<1>5. ASSUME NEW p \in Proc, Work(p) PROVE Next
  BY <1>5 DEF Next
<1> QED
  BY <1>1, <1>2, <1>3, <1>4, <1>5 DEF NextLocks

LEMMA LocksStep == Inv /\ LocksInv /\ [NextLocks]_<<vars, lockVars>> => LocksInv'
<1> SUFFICES ASSUME Inv, LocksInv, [NextLocks]_<<vars, lockVars>> PROVE LocksInv'
  OBVIOUS
<1>1. \A q \in Command : LockFiles[q] \in Seq(LockFile) /\ Len(LockFiles[q]) \in Nat
  BY LocksAssumption, LenProperties
<1>2. pc \in [Proc -> Labels]
  BY DEF Inv, TypeOK
<1>3. CASE UNCHANGED <<vars, lockVars>>
  <2>1. UNCHANGED <<inode, flocked, opened, taken, pc>>
    BY <1>3 DEF vars, lockVars, local
  <2>2. LocksTypeOK' /\ OwnInv'
    BY <2>1 DEF LocksInv, LocksTypeOK, OwnInv
  <2>3. HoldInv'
    BY <2>1 DEF LocksInv, HoldInv, Taking
  <2> QED
    BY <2>2, <2>3 DEF LocksInv
<1>4. ASSUME NEW p \in Command, Open(p) PROVE LocksInv'
  <2>1. inode[Target(p)] = Inode
    <3>1. taken[p] + 1 \in 1 .. Len(LockFiles[p])
      BY <1>1, <1>4 DEF Open, Taking, LocksInv, LocksTypeOK
    <3> QED
      BY <3>1, <1>1, ElementOfSeq DEF Target, LocksInv, LocksTypeOK
  <2> QED
    <3>1. /\ UNCHANGED <<inode, flocked, taken, pc>>
          /\ opened' = [opened EXCEPT ![p] = Inode]
      BY <1>4, <2>1 DEF Open, vars, local
    <3>2. LocksTypeOK' /\ OwnInv'
      BY <3>1 DEF LocksInv, LocksTypeOK, OwnInv
    <3>3. HoldInv'
      BY <3>1 DEF LocksInv, HoldInv, Taking
    <3> QED
      BY <3>2, <3>3 DEF LocksInv
<1>5. ASSUME NEW p \in Command, Flock(p) PROVE LocksInv'
  BY <1>5, FlockInv
<1>6. ASSUME NEW p \in Command, GiveUp(p) \/ KilledEarly(p) PROVE LocksInv'
  <2>1. Leave(p, NoProc) /\ pc' = pc /\ Taking(p)
    BY <1>6 DEF GiveUp, KilledEarly, vars, local
  <2>2. \A q \in Proc : pc'[q] = IF q = p THEN "off" ELSE pc[q]
    BY <2>1 DEF LocksInv, HoldInv
  <2> QED
    BY <2>1, <2>2, LeaveInv
<1>7. ASSUME NEW p \in Command, Ends(p) PROVE LocksInv'
  <2>1. PICK heir \in {NoProc, Children} : Leave(p, heir)
    BY <1>7 DEF Ends
  <2>2. \A q \in Proc : pc'[q] = IF q = p THEN "off" ELSE pc[q]
    BY <1>2, <1>7 DEF Ends, Stop, Goto, vars, local
  <2> QED
    BY <2>1, <2>2, LeaveInv
<1>8. ASSUME ChildrenEnd PROVE LocksInv'
  <2>1. /\ flocked' \in [LockFile -> [{Inode, Spare} -> Holder]]
        /\ \A f \in LockFile : flocked[f][Inode] # Children => flocked'[f][Inode] = flocked[f][Inode]
    BY <1>8 DEF ChildrenEnd, PassTo, LocksInv, LocksTypeOK, Holder
  <2>2. LocksTypeOK'
    BY <1>8, <2>1 DEF ChildrenEnd, LocksInv, LocksTypeOK
  <2>3. ASSUME NEW q \in Command, NEW i \in 1 .. taken[q]
        PROVE  flocked'[LockFiles[q][i]][inode[LockFiles[q][i]]] = q
    <3>1. i \in 1 .. Len(LockFiles[q])
      BY <1>1 DEF LocksInv, LocksTypeOK
    <3>2. LockFiles[q][i] \in LockFile
      BY <3>1, <1>1, ElementOfSeq
    <3> QED
      BY <3>2, <2>1, LocksAssumption DEF LocksInv, LocksTypeOK, HoldInv
  <2>4. UNCHANGED <<inode, taken, pc>>
    BY <1>8 DEF ChildrenEnd, vars, local
  <2>5. ASSUME NEW q \in Command, NEW f \in LockFile, flocked'[f][inode'[f]] = q
        PROVE  \E i \in 1 .. taken[q] : LockFiles[q][i] = f
    <3>1. inode'[f] = Inode /\ inode[f] = Inode
      BY <2>2 DEF LocksInv, LocksTypeOK
    <3>2. flocked[f][Inode] = q
      BY <1>8, <2>5, <3>1, LocksAssumption DEF ChildrenEnd, PassTo, LocksInv, LocksTypeOK
    <3> QED
      BY <3>1, <3>2 DEF LocksInv, OwnInv
  <2> QED
    <3>1. HoldInv'
      BY <2>3, <2>4 DEF LocksInv, HoldInv, Taking
    <3>2. OwnInv'
      BY <2>4, <2>5, <1>8 DEF ChildrenEnd, OwnInv
    <3> QED
      BY <2>2, <3>1, <3>2 DEF LocksInv
<1>9. ASSUME NEW p \in Proc, Work(p), UNCHANGED lockVars PROVE LocksInv'
  <2>1. \A q \in Proc : pc'[q] = "off" <=> pc[q] = "off"
    BY <1>2, <1>9 DEF Work, SyncStep, LoadStatus, LoadUpdates, SyncStatus, SyncNothing, SyncUpdates, SyncCreate,
                      SyncWrite, SyncRename, SyncRemove, SyncReturn, WriteCreate, WriteContents, WriteRename, Goto
  <2> QED
    <3>1. UNCHANGED <<inode, flocked, opened, taken>>
      BY <1>9 DEF lockVars
    <3>2. LocksTypeOK' /\ OwnInv'
      BY <3>1 DEF LocksInv, LocksTypeOK, OwnInv
    <3>3. HoldInv'
      BY <2>1, <3>1 DEF LocksInv, HoldInv, Taking
    <3> QED
      BY <3>2, <3>3 DEF LocksInv
<1> QED
  BY <1>3, <1>4, <1>5, <1>6, <1>7, <1>8, <1>9 DEF NextLocks

\* The lock files exclude: processes that poll, give up, are killed and leave children behind keep the
\* database's invariant, in which one process at a time is past its lock (installeddatabase.cpp:68-142).
THEOREM LocksExclude == LockedDatabase => []Inv
<1>1. InitLocks => Inv /\ LocksInv
  BY InitInv, InitLocksInv DEF InitLocks
<1>2. Inv /\ LocksInv /\ [NextLocks]_<<vars, lockVars>> => (Inv /\ LocksInv)'
  BY LockedStep, LocksStep, NextInv
<1> QED
  BY <1>1, <1>2, PTL DEF LockedDatabase

\* ... and all that is proved of InstalledDatabase holds of them: they implement it.
THEOREM LocksImplementTakeLock == LockedDatabase => Database
<1>1. InitLocks => Inv /\ LocksInv /\ Init
  BY InitInv, InitLocksInv DEF InitLocks
<1>2. Inv /\ LocksInv /\ [NextLocks]_<<vars, lockVars>> => (Inv /\ LocksInv)' /\ [Next]_vars
  BY LockedStep, LocksStep, NextInv
<1> QED
  BY <1>1, <1>2, PTL DEF LockedDatabase, Database

--------------------------------------------------------------------------------
(***************************************************************************)
(* No process waits for itself by way of others.                           *)
(***************************************************************************)
\* Some element of a set has the greatest value of a bounded measure.
LEMMA GreatestRank ==
    ASSUME NEW last \in Nat, NEW S, S # {}, NEW measure \in [S -> 0 .. last]
    PROVE  \E p \in S : \A q \in S : measure[q] <= measure[p]
<1> DEFINE below == {last - measure[p] : p \in S}
<1>1. \A p \in S : measure[p] \in 0 .. last /\ last - measure[p] \in Nat
  OBVIOUS
<1>2. below \subseteq Nat /\ below # {}
  BY <1>1
<1>3. PICK m \in below : \A n \in below : ~ (<<n, m>> \in OpToRel(<, Nat))
  BY <1>2, NatLessThanWellFounded, WFMin, Zenon
<1>4. PICK p \in S : m = last - measure[p]
  BY <1>3
<1>5. ASSUME NEW q \in S
      PROVE  measure[q] <= measure[p]
  <2>1. ~ (last - measure[q] < last - measure[p])
    BY <1>1, <1>3, <1>4 DEF OpToRel
  <2> QED
    BY <1>1, <2>1
<1> QED
  BY <1>5

\* What a process waits for comes after all that it has.
LEMMA WaitsForLater ==
    ASSUME LocksInv, NEW p \in Command, NEW q \in Command, WaitsFor(p, q), Taking(q)
    PROVE  /\ taken[p] + 1 \in DOMAIN LockFiles[p] /\ taken[q] + 1 \in DOMAIN LockFiles[q]
           /\ Target(p) \in LockFile
           /\ \E i \in DOMAIN LockFiles[q] : i < taken[q] + 1 /\ LockFiles[q][i] = Target(p)
<1>1. \A r \in {p, q} : /\ LockFiles[r] \in Seq(LockFile) /\ Len(LockFiles[r]) \in Nat
                       /\ DOMAIN LockFiles[r] = 1 .. Len(LockFiles[r])
                       /\ taken[r] \in Nat /\ taken[r] < Len(LockFiles[r])
  BY LocksAssumption, LenProperties DEF WaitsFor, Taking, LocksInv, LocksTypeOK
<1>2. \A r \in {p, q} : taken[r] + 1 \in DOMAIN LockFiles[r]
  BY <1>1
<1>3. Target(p) \in LockFile
  BY <1>1, <1>2, ElementOfSeq DEF Target
<1>4. opened[p] = Inode /\ inode[Target(p)] = Inode
  BY <1>3 DEF WaitsFor, LocksInv, LocksTypeOK
<1>5. flocked[Target(p)][inode[Target(p)]] = q
  BY <1>4 DEF WaitsFor
<1>6. PICK i \in 1 .. taken[q] : LockFiles[q][i] = Target(p)
  BY <1>3, <1>5 DEF LocksInv, OwnInv
<1>7. i \in DOMAIN LockFiles[q] /\ i < taken[q] + 1
  BY <1>1, <1>6
<1> QED
  BY <1>2, <1>3, <1>6, <1>7

\* Of the processes that wait for one another, the one whose next lock comes last cannot be there: who
\* has that lock waits for a later one.
LEMMA NoneWaitsInCircle == LocksInOneOrder /\ LocksInv => NoCircularWait
<1> SUFFICES ASSUME LocksInOneOrder, LocksInv, NEW some \in SUBSET Command, some # {},
                    \A p \in some : \E q \in some : WaitsFor(p, q)
             PROVE  FALSE
  BY DEF NoCircularWait
<1>0. PICK last \in Nat :
          \E rank \in [LockFile -> 0 .. last] : \A p \in Command : \A i, j \in DOMAIN LockFiles[p] :
              i < j => rank[LockFiles[p][i]] < rank[LockFiles[p][j]]
  BY DEF LocksInOneOrder
<1>1. PICK rank \in [LockFile -> 0 .. last] :
          \A p \in Command : \A i, j \in DOMAIN LockFiles[p] :
              i < j => rank[LockFiles[p][i]] < rank[LockFiles[p][j]]
  BY <1>0
<1>2. ASSUME NEW p \in some
      PROVE  Target(p) \in LockFile
  <2>1. PICK q \in some : WaitsFor(p, q)
    OBVIOUS
  <2>2. Taking(q)
    BY DEF WaitsFor
  <2> QED
    BY <2>1, <2>2, WaitsForLater
<1> DEFINE measure == [p \in some |-> rank[Target(p)]]
<1>3. measure \in [some -> 0 .. last]
  BY <1>2
<1>4. PICK p \in some : \A q \in some : measure[q] <= measure[p]
  BY <1>3, GreatestRank
<1>5. PICK q \in some : WaitsFor(p, q)
  OBVIOUS
<1>6. Taking(q)
  BY DEF WaitsFor
<1>7. PICK i \in DOMAIN LockFiles[q] : i < taken[q] + 1 /\ LockFiles[q][i] = Target(p)
  BY <1>5, <1>6, WaitsForLater
<1>8. taken[q] + 1 \in DOMAIN LockFiles[q]
  BY <1>5, <1>6, WaitsForLater
<1>9. rank[Target(p)] < rank[Target(q)]
  BY <1>1, <1>7, <1>8 DEF Target
<1>10. rank[Target(q)] <= rank[Target(p)]
  BY <1>4
<1>11. rank[Target(p)] \in Nat /\ rank[Target(q)] \in Nat
  BY <1>2
<1> QED
  BY <1>9, <1>10, <1>11

\* Processes that wait for lock files never wait for one another, if the directories of none cross those
\* of another: the code's one order (first the installed tree, then buildtrees, then packages) is enough,
\* although it is kept by convention only and locks pass to children (installeddatabase.cpp:88-142).
THEOREM LockedInvHolds == LocksInOneOrder => (LockedDatabase => []LockedInv)
<1>1. InitLocks => Inv /\ LocksInv
  BY InitInv, InitLocksInv DEF InitLocks
<1>2. Inv /\ LocksInv /\ [NextLocks]_<<vars, lockVars>> => (Inv /\ LocksInv)'
  BY LockedStep, LocksStep, NextInv
<1>3. LocksInOneOrder => (Inv /\ LocksInv => LockedInv)
  BY NoneWaitsInCircle DEF LockedInv
<1>4. LocksInOneOrder => (LockedDatabase => [](Inv /\ LocksInv))
  BY <1>1, <1>2, PTL DEF LockedDatabase
<1>. SUFFICES ASSUME LocksInOneOrder
              PROVE  LockedDatabase => []LockedInv
  OBVIOUS
<1>5. Inv /\ LocksInv => LockedInv
  BY <1>3
<1> QED
  BY <1>4, <1>5, PTL
================================================================================

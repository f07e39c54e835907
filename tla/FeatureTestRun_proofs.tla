------------------------- MODULE FeatureTestRun_proofs -------------------------
(***************************************************************************)
(* For any tests, packages and caches: no test of x-test-features is       *)
(* judged by another one, and a command that reports nothing has only      *)
(* right marks, as long as one provider answers precheck at most.          *)
(*                                                                         *)
(* What the proof rests on: only packages whose dependencies all build are *)
(* ever stored or installed (StoredInv, QueueInv, InstalledInv), and a     *)
(* package whose files conflict is stored only by a test that comes after  *)
(* its own, which is shorter.                                              *)
(***************************************************************************)
EXTENDS FeatureTestRun, WellFoundedInduction, FiniteSetTheorems, SequenceTheorems, TLAPS

\* At most one provider answers precheck: where several do, the answers of the second are noted for
\* other packages (PrecheckTells).
OneAnswers == \A i, j \in DOMAIN Providers : Providers[i] \notin NoPrecheck /\ Providers[j] \notin NoPrecheck => i = j

(***************************************************************************)
(* The invariant.                                                          *)
(***************************************************************************)
Action == UNION {{Tests[k].plan[i] : i \in DOMAIN Tests[k].plan} : k \in DOMAIN Tests}
Status == [state : {"unknown", "available", "restored"}, unavailable : SUBSET Provider,
           provider : Provider \cup {NoProvider}]

TypeInv ==
    /\ specs_to_test \in Sorted /\ behaviour \in Behaviours /\ all_ports \in BOOLEAN
    /\ status \in [ABI -> Status] /\ stored \in [Provider -> SUBSET ABI] /\ DOMAIN content = Dir
    /\ queue \in Seq(Action)
    /\ test \in 1 .. Len(Tests) + 1 /\ results \in Seq({"Pass", "Fail", "Cascade"}) /\ Len(results) = test - 1

\* What the steps of a test mean.
StepInv ==
    /\ pc \in {"precheckAll", "prechecked", "test", "precheckTest", "fetch", "fetching", "install", "join", "done"}
    /\ call = [op |-> call.op, actions |-> call.actions, next |-> call.next] /\ call.next \in Nat
    /\ pc \in {"precheckAll", "prechecked"} => test = 1
    /\ pc = "prechecked" => /\ call.op = "precheck" /\ DOMAIN call.actions \subseteq DOMAIN Tests
                            /\ \A i \in DOMAIN call.actions : call.actions[i].abi \in ABI
    /\ pc \in {"precheckAll", "prechecked"} /\ (\A i \in DOMAIN Providers : i < call.next => Providers[i] \in NoPrecheck)
         => status = [a \in ABI |-> Unknown]
    /\ pc \in {"test", "precheckTest", "fetch", "fetching", "install"} => test \in DOMAIN Tests
    /\ pc \in {"join", "done"} => test = Len(Tests) + 1
    /\ pc \in {"precheckTest", "fetch", "fetching", "install"} => ~ TestAt(test).unsupported
    /\ pc \in {"precheckTest", "fetch", "fetching"} => Adjusted # {}
    /\ pc = "precheckTest" => call.op = "precheck" /\ call.actions = Actions({Last(Adjusted)})
    /\ pc = "fetching" => call.op = "fetch" /\ call.actions = Actions(Adjusted)
    /\ pc \notin {"prechecked", "precheckTest", "fetching"} => call = NoCall

Stored(a) == \E p \in Provider : a \in stored[p]

\* It builds, and so does all that it needs.
Solid(a) == behaviour[a] # "BuildFailed" /\ \A b \in Against[a] : behaviour[b] = "Succeeded"

\* The actions whose turn has come: those of the tests before, and of the test at hand.
Passed == IF pc = "install" THEN DOMAIN Plan \ todo ELSE {}
Spent(x) ==
    \E k \in DOMAIN Tests : \E i \in DOMAIN TestAt(k).plan :
        /\ ~ TestAt(k).unsupported /\ x = TestAt(k).plan[i]
        /\ k < test \/ (k = test /\ i \in Passed)

StoredInv ==
    \A a \in ABI :
        /\ status[a].state = "restored" \/ status[a].provider # NoProvider => Stored(a)
        /\ Stored(a) => Solid(a) /\ (Good(a) \/ \E x \in Action : Spent(x) /\ x.abi = a)

QueueInv ==
    /\ \A i \in 1 .. Len(queue) : content[queue[i].dir] = queue[i].abi /\ Solid(queue[i].abi) /\ Spent(queue[i])
    /\ \A i, j \in 1 .. Len(queue) : queue[i].dir = queue[j].dir => i = j

InstalledInv ==
    /\ \A y \in installed : y.abi \in ABI /\ Good(y.abi)
    /\ \A a \in known_failures : behaviour[a] # "Succeeded"

Verdict == CASE code = "Succeeded" -> "Pass" [] code = "Cascaded" -> "Cascade" [] OTHER -> "Fail"

InstallInv ==
    pc = "install" =>
        /\ todo \subseteq DOMAIN Plan
        /\ \A i \in DOMAIN Plan \ todo : Good(Plan[i].abi) => \E y \in installed : y.abi = Plan[i].abi
        /\ todo # {} => Len(Plan) \in todo \/ Good(LastAction.abi)
        /\ todo = {} => Verdict = TrueOutcome(TestAt(test))

ResultsInv ==
    \A i \in 1 .. test - 1 :
        /\ results[i] = TrueOutcome(TestAt(i))
        /\ Reported(results[i], expected[specs_to_test[i]]) => i \in diagnostics

TestsInv == TypeInv /\ StepInv /\ StoredInv /\ QueueInv /\ InstalledInv /\ InstallInv /\ ResultsInv

--------------------------------------------------------------------------------
(***************************************************************************)
(* Positions, packages and what they are built against.                    *)
(***************************************************************************)

\* Of some naturals, one is the least.
LEMMA LeastNatural ==
    ASSUME NEW S \in SUBSET Nat, S # {}
    PROVE  \E m \in S : \A n \in S : m <= n
<1>. DEFINE R == OpToRel(<, Nat)
<1>1. IsWellFoundedOn(R, Nat)
  BY NatLessThanWellFounded
<1>2. \A x, y \in Nat : <<y, x>> \in R <=> y < x
  BY DEF OpToRel
<1>. HIDE DEF R
<1>3. PICK m \in S : \A n \in S : ~ (<<n, m>> \in R)
  BY <1>1, WFMin
<1>4. ASSUME NEW n \in S
      PROVE  m <= n
  <2>1. ~ (n < m)
    BY <1>2, <1>3
  <2>2. n \in Nat /\ m \in Nat
    OBVIOUS
  <2>. QED
    BY <2>1, <2>2
<1>. QED
  BY <1>4

LEMMA FirstFacts ==
    ASSUME NEW n \in Nat, NEW S \in SUBSET (1 .. n), S # {}
    PROVE  First(S) \in S /\ \A j \in S : First(S) <= j
<1>1. S \in SUBSET Nat
  OBVIOUS
<1>2. \E i \in S : \A j \in S : i <= j
  BY <1>1, LeastNatural
<1>. QED
  BY <1>2 DEF First

LEMMA LastFacts ==
    ASSUME NEW n \in Nat, NEW S \in SUBSET (1 .. n), S # {}
    PROVE  Last(S) \in S /\ \A j \in S : j <= Last(S)
<1>. DEFINE T == {n - i : i \in S}
<1>1. T \in SUBSET Nat /\ T # {}
  <2>1. \A i \in S : n - i \in Nat
    OBVIOUS
  <2>. QED
    BY <2>1
<1>2. PICK m \in T : \A k \in T : m <= k
  BY <1>1, LeastNatural
<1>3. PICK i \in S : m = n - i
  BY <1>2
<1>4. \A j \in S : n - i <= n - j
  BY <1>2, <1>3
<1>5. \A j \in S : j <= i
  BY <1>4
<1>6. \E l \in S : \A j \in S : j <= l
  BY <1>5
<1>. QED
  BY <1>6 DEF Last

\* Two positions of a list are not at the same place in it.
LEMMA PlaceFacts ==
    ASSUME NEW n \in Nat, NEW D \in SUBSET (1 .. n), NEW i \in D, NEW j \in D, i < j
    PROVE  Place(D, i) # Place(D, j)
<1>. DEFINE before == {k \in D : k <= i}
            more == {k \in D : k <= j}
<1>1. IsFiniteSet(1 .. n)
  BY FS_Interval
<1>2. IsFiniteSet(more)
  BY <1>1, FS_Subset
<1>3. before \in SUBSET more
  <2>1. \A k \in D : k \in Nat
    OBVIOUS
  <2>2. \A k \in D : k <= i => k <= j
    BY <2>1
  <2>. QED
    BY <2>2
<1>4. j \in more /\ j \notin before
  OBVIOUS
<1>5. before # more
  BY <1>4
<1>6. Cardinality(before) = Cardinality(more) => before = more
  BY <1>2, <1>3, FS_Subset
<1>. QED
  BY <1>5, <1>6 DEF Place

LEMMA PlaceIsOwn ==
    ASSUME NEW n \in Nat, NEW D \in SUBSET (1 .. n), NEW i \in D
    PROVE  (CHOOSE j \in D : Place(D, j) = Place(D, i)) = i
<1>1. \A j \in D : Place(D, j) = Place(D, i) => j = i
  <2>. SUFFICES ASSUME NEW j \in D, Place(D, j) = Place(D, i)
                PROVE  j = i
    OBVIOUS
  <2>1. i \in Nat /\ j \in Nat
    OBVIOUS
  <2>2. ~ (i < j) /\ ~ (j < i)
    BY PlaceFacts
  <2>. QED
    BY <2>1, <2>2
<1>. QED
  BY <1>1

\* What a package is built against: what it needs, and what that is built against.
LEMMA AgainstFacts ==
    ASSUME NEW a \in ABI
    PROVE  /\ Against[a] \in SUBSET ABI
           /\ Needs[a] \subseteq Against[a]
           /\ \A b \in Against[a] : Against[b] \subseteq Against[a]
           /\ \A b \in Against[a] : b \in Needs[a] \/ \E c \in Needs[a] : b \in Against[c]
<1>. DEFINE InAll(x) == {b \in ABI : \A S \in SUBSET ABI : Needs[x] \subseteq S /\ Closed(S) => b \in S}
<1>1. \A x \in ABI : Against[x] = InAll(x) /\ Needs[x] \in SUBSET ABI
  BY BuildsAssumption DEF Against
<1>2. Against[a] \in SUBSET ABI /\ Needs[a] \subseteq Against[a]
  BY <1>1
<1>3. ASSUME NEW x \in ABI, NEW b \in Against[x]
      PROVE  b \in ABI /\ Against[b] \subseteq Against[x]
  <2>1. b \in InAll(x)
    BY <1>1, <1>3
  <2>2. ASSUME NEW S \in SUBSET ABI, Needs[x] \subseteq S, Closed(S), NEW c \in Against[b]
        PROVE  c \in S
    <3>1. b \in S
      BY <2>1, <2>2
    <3>2. Needs[b] \subseteq S
      BY <2>2, <3>1 DEF Closed
    <3>3. c \in InAll(b)
      BY <1>1, <2>1, <2>2
    <3>. QED
      BY <2>2, <3>2, <3>3
  <2>3. Against[b] \subseteq ABI
    BY <1>1, <2>1
  <2>. QED
    BY <1>1, <2>1, <2>2, <2>3
<1>. DEFINE T == Needs[a] \cup UNION {Against[c] : c \in Needs[a]}
<1>4. \A x \in ABI : Needs[x] \subseteq Against[x] /\ Against[x] \in SUBSET ABI
  BY <1>1
<1>5. T \in SUBSET ABI
  BY <1>1, <1>4
<1>6. ASSUME NEW x \in T
      PROVE  Needs[x] \subseteq T
  <2>1. CASE x \in Needs[a]
    BY <1>1, <1>4, <2>1
  <2>2. CASE x \in UNION {Against[c] : c \in Needs[a]}
    <3>1. PICK c \in Needs[a] : x \in Against[c]
      BY <2>2
    <3>2. c \in ABI
      BY <1>1
    <3>3. Against[x] \subseteq Against[c] /\ x \in ABI
      BY <1>3, <3>1, <3>2
    <3>. QED
      BY <1>4, <3>1, <3>3
  <2>. QED
    BY <2>1, <2>2
<1>7. Closed(T)
  BY <1>6 DEF Closed
<1>8. Needs[a] \subseteq T
  OBVIOUS
<1>9. Against[a] \subseteq T
  <2>. HIDE DEF T
  <2>. QED
    BY <1>1, <1>5, <1>7, <1>8
<1>10. \A b \in Against[a] : Against[b] \subseteq Against[a]
  BY <1>3
<1>11. \A b \in Against[a] : b \in Needs[a] \/ \E c \in Needs[a] : b \in Against[c]
  BY <1>9
<1>. QED
  BY <1>2, <1>10, <1>11

\* A package that does has dependencies that all do, and where all that a package needs does, so
\* does all that it is built against.
LEMMA GoodFacts ==
    ASSUME NEW a \in ABI
    PROVE  /\ Good(a) => \A b \in Against[a] : Good(b)
           /\ (\A b \in Needs[a] : Good(b)) => \A b \in Against[a] : behaviour[b] = "Succeeded" /\ Good(b)
           /\ Good(a) <=> Solid(a) /\ behaviour[a] = "Succeeded"
           /\ Solid(a) => \A b \in Against[a] : Good(b)
<1>1. \A b \in Against[a] : b \in ABI /\ Against[b] \subseteq Against[a]
  BY AgainstFacts
<1>2. Solid(a) => \A b \in Against[a] : Good(b)
  BY <1>1 DEF Good, Solid
<1>3. Good(a) <=> Solid(a) /\ behaviour[a] = "Succeeded"
  BY DEF Good, Solid
<1>4. ASSUME \A b \in Needs[a] : Good(b), NEW b \in Against[a]
      PROVE  behaviour[b] = "Succeeded"
  <2>1. CASE b \in Needs[a]
    BY <1>4, <2>1 DEF Good
  <2>2. CASE \E c \in Needs[a] : b \in Against[c]
    BY <1>4, <2>2 DEF Good
  <2>. QED
    BY <2>1, <2>2, AgainstFacts
<1>5. (\A b \in Needs[a] : Good(b)) => \A b \in Against[a] : behaviour[b] = "Succeeded" /\ Good(b)
  BY <1>1, <1>4 DEF Good
<1>. QED
  BY <1>2, <1>3, <1>5

--------------------------------------------------------------------------------
(***************************************************************************)
(* The tests and their order.                                              *)
(***************************************************************************)
LEMMA OrderFacts ==
    ASSUME specs_to_test \in Sorted
    PROVE  /\ \A k \in DOMAIN Tests : specs_to_test[k] \in DOMAIN Tests
           /\ \A k, l \in DOMAIN Tests : specs_to_test[k] = specs_to_test[l] => k = l
           /\ \A k, l \in DOMAIN Tests : k < l => Len(TestAt(k).plan) <= Len(TestAt(l).plan)
<1>1. specs_to_test \in [DOMAIN Tests -> DOMAIN Tests]
  BY DEF Sorted
<1>2. \A k \in DOMAIN Tests : specs_to_test[k] \in DOMAIN Tests
  BY <1>1
<1>3. DOMAIN Tests \in SUBSET Nat /\ \A k \in DOMAIN Tests : Len(Tests[k].plan) \in Nat
  BY TestsAssumption
<1>4. ASSUME NEW k \in DOMAIN Tests, NEW l \in DOMAIN Tests, k < l
      PROVE  specs_to_test[k] # specs_to_test[l] /\ Len(TestAt(k).plan) <= Len(TestAt(l).plan)
  <2>1. \/ Len(Tests[specs_to_test[k]].plan) < Len(Tests[specs_to_test[l]].plan)
        \/ /\ Len(Tests[specs_to_test[k]].plan) = Len(Tests[specs_to_test[l]].plan)
           /\ specs_to_test[k] < specs_to_test[l]
    BY <1>4 DEF Sorted
  <2>2. /\ specs_to_test[k] \in Nat /\ specs_to_test[l] \in Nat
        /\ Len(Tests[specs_to_test[k]].plan) \in Nat /\ Len(Tests[specs_to_test[l]].plan) \in Nat
    BY <1>2, <1>3
  <2>. QED
    BY <2>1, <2>2 DEF TestAt
<1>5. ASSUME NEW k \in DOMAIN Tests, NEW l \in DOMAIN Tests, specs_to_test[k] = specs_to_test[l]
      PROVE  k = l
  <2>1. ~ (k < l) /\ ~ (l < k)
    BY <1>4, <1>5
  <2>. QED
    BY <2>1, <1>3
<1>. QED
  BY <1>2, <1>4, <1>5

LEMMA PlanFacts ==
    ASSUME specs_to_test \in Sorted, NEW k \in DOMAIN Tests
    PROVE  LET t == TestAt(k) IN
           /\ t.unsupported \in BOOLEAN /\ Len(t.plan) \in Nat \ {0} /\ DOMAIN t.plan = 1 .. Len(t.plan)
           /\ \A i \in DOMAIN t.plan : t.plan[i] \in Action /\ t.plan[i].abi \in ABI /\ t.plan[i].dir \in Dir
           /\ Len(t.plan) \in DOMAIN t.plan /\ Own(t) = t.plan[Len(t.plan)] /\ Own(t) \in Action /\ Own(t).abi \in ABI
           /\ ~ t.unsupported => \A i \in DOMAIN t.plan :
                 /\ Needs[t.plan[i].abi] \subseteq {t.plan[j].abi : j \in 1 .. i - 1}
                 /\ i # Len(t.plan) => t.plan[i].abi \in Against[Own(t).abi]
<1>1. PICK m \in DOMAIN Tests : TestAt(k) = Tests[m]
  BY OrderFacts DEF TestAt
<1>. DEFINE t == TestAt(k)
<1>2. /\ t.unsupported \in BOOLEAN /\ Len(t.plan) \in Nat \ {0} /\ DOMAIN t.plan = 1 .. Len(t.plan)
      /\ \A i \in DOMAIN t.plan : t.plan[i].abi \in ABI /\ t.plan[i].dir \in Dir
      /\ ~ t.unsupported => \A i \in DOMAIN t.plan :
            /\ Needs[t.plan[i].abi] \subseteq {t.plan[j].abi : j \in 1 .. i - 1}
            /\ i # Len(t.plan) => t.plan[i].abi \in Against[Own(t).abi]
  BY <1>1, TestsAssumption
<1>3. \A i \in DOMAIN t.plan : t.plan[i] \in Action
  BY <1>1 DEF Action
<1>4. Len(t.plan) \in DOMAIN t.plan
  BY <1>2
<1>5. Own(t) = t.plan[Len(t.plan)] /\ Own(t) \in Action /\ Own(t).abi \in ABI
  BY <1>2, <1>3, <1>4 DEF Own
<1>. QED
  BY <1>2, <1>3, <1>4, <1>5

LEMMA ActionFacts ==
    ASSUME NEW x \in Action
    PROVE  x.abi \in ABI /\ x.dir \in Dir
<1>1. PICK k \in DOMAIN Tests : \E i \in DOMAIN Tests[k].plan : x = Tests[k].plan[i]
  BY DEF Action
<1>. QED
  BY <1>1, TestsAssumption

LEMMA DirFacts ==
    ASSUME specs_to_test \in Sorted, NEW k \in DOMAIN Tests, NEW l \in DOMAIN Tests,
           NEW i \in DOMAIN TestAt(k).plan, NEW j \in DOMAIN TestAt(l).plan,
           TestAt(k).plan[i].dir = TestAt(l).plan[j].dir
    PROVE  k = l /\ i = j
<1>1. specs_to_test[k] \in DOMAIN Tests /\ specs_to_test[l] \in DOMAIN Tests
  BY OrderFacts
<1>2. specs_to_test[k] = specs_to_test[l] /\ i = j
  BY <1>1, TestsAssumption DEF TestAt
<1>. QED
  BY <1>2, OrderFacts

\* The test of a package comes before the other tests that install it.
LEMMA OwnFacts ==
    ASSUME specs_to_test \in Sorted, NEW k \in DOMAIN Tests, NEW l \in DOMAIN Tests,
           ~ TestAt(k).unsupported, ~ TestAt(l).unsupported,
           NEW j \in DOMAIN TestAt(l).plan, TestAt(l).plan[j].abi = Own(TestAt(k)).abi
    PROVE  ~ (l < k)
<1>1. specs_to_test[k] \in DOMAIN Tests /\ specs_to_test[l] \in DOMAIN Tests
  BY OrderFacts
<1>2. ASSUME l < k
      PROVE  FALSE
  <2>1. Len(TestAt(l).plan) <= Len(TestAt(k).plan)
    BY <1>2, OrderFacts
  <2>2. DOMAIN Tests \in SUBSET Nat
    BY TestsAssumption
  <2>3. k # l
    BY <1>2, <2>2
  <2>4. specs_to_test[k] # specs_to_test[l]
    BY <2>3, OrderFacts
  <2>5. Len(TestAt(k).plan) < Len(TestAt(l).plan)
    <3>1. \A c, d \in DOMAIN Tests : \A i \in DOMAIN Tests[c].plan, e \in DOMAIN Tests[d].plan :
              ~ Tests[c].unsupported /\ ~ Tests[d].unsupported /\ c # d /\ Tests[d].plan[e].abi = Own(Tests[c]).abi
                => Len(Tests[c].plan) < Len(Tests[d].plan)
      BY TestsAssumption
    <3>2. Len(TestAt(k).plan) \in DOMAIN TestAt(k).plan
      BY PlanFacts
    <3>. QED
      BY <1>1, <2>4, <3>1, <3>2 DEF TestAt
  <2>6. Len(TestAt(k).plan) \in Nat /\ Len(TestAt(l).plan) \in Nat
    BY PlanFacts
  <2>. QED
    BY <2>1, <2>5, <2>6
<1>. QED
  BY <1>2

--------------------------------------------------------------------------------
(***************************************************************************)
(* What the invariant says of the step at hand.                            *)
(***************************************************************************)
LEMMA SpentFacts ==
    ASSUME specs_to_test \in Sorted, NEW x, Spent(x)
    PROVE  /\ x \in Action /\ x.abi \in ABI /\ x.dir \in Dir
           /\ test \in DOMAIN Tests => \A i \in DOMAIN Plan \ Passed : x.dir # Plan[i].dir
           /\ test \in DOMAIN Tests /\ Passed = {} /\ ~ TestAt(test).unsupported => x.abi # LastAction.abi
<1>0. PICK k \in DOMAIN Tests :
          \E i \in DOMAIN TestAt(k).plan :
              /\ ~ TestAt(k).unsupported /\ x = TestAt(k).plan[i]
              /\ k < test \/ (k = test /\ i \in Passed)
  BY DEF Spent
<1>1. PICK i \in DOMAIN TestAt(k).plan :
          /\ ~ TestAt(k).unsupported /\ x = TestAt(k).plan[i]
          /\ k < test \/ (k = test /\ i \in Passed)
  BY <1>0
<1>2. x \in Action /\ x.abi \in ABI /\ x.dir \in Dir
  BY <1>1, PlanFacts
<1>3. DOMAIN Tests \in SUBSET Nat
  BY TestsAssumption
<1>4. ASSUME test \in DOMAIN Tests, NEW j \in DOMAIN Plan \ Passed, x.dir = Plan[j].dir
      PROVE  FALSE
  <2>1. j \in DOMAIN TestAt(test).plan /\ TestAt(k).plan[i].dir = TestAt(test).plan[j].dir
    BY <1>1, <1>4 DEF Plan
  <2>2. k = test /\ i = j
    BY <1>1, <1>4, <2>1, DirFacts
  <2>. QED
    BY <1>1, <1>3, <1>4, <2>2
<1>5. ASSUME test \in DOMAIN Tests, Passed = {}, ~ TestAt(test).unsupported, x.abi = LastAction.abi
      PROVE  FALSE
  <2>1. ~ (k < test)
    BY <1>1, <1>5, OwnFacts DEF LastAction
  <2>. QED
    BY <1>1, <1>5, <2>1
<1>. QED
  BY <1>2, <1>4, <1>5

\* The plan at hand.
LEMMA AtHand ==
    ASSUME TypeInv, test \in DOMAIN Tests
    PROVE  /\ Len(Plan) \in Nat \ {0} /\ DOMAIN Plan = 1 .. Len(Plan) /\ Adjusted \in SUBSET DOMAIN Plan
           /\ \A i \in DOMAIN Plan : Plan[i] \in Action /\ Plan[i].abi \in ABI /\ Plan[i].dir \in Dir
           /\ Len(Plan) \in DOMAIN Plan /\ LastAction = Plan[Len(Plan)] /\ LastAction.abi \in ABI
           /\ ~ TestAt(test).unsupported => \A i \in DOMAIN Plan :
                 /\ Needs[Plan[i].abi] \subseteq {Plan[j].abi : j \in 1 .. i - 1}
                 /\ i # Len(Plan) => Plan[i].abi \in Against[LastAction.abi]
<1>1. specs_to_test \in Sorted
  BY DEF TypeInv
<1>. QED
  BY <1>1, PlanFacts DEF Plan, LastAction, Adjusted

\* A turn that has come stays so.
LEMMA SpentGrows ==
    ASSUME specs_to_test \in Sorted, UNCHANGED specs_to_test,
           \/ test' = test /\ Passed \subseteq Passed'
           \/ test \in Nat /\ test' = test + 1
    PROVE  \A x : Spent(x) => Spent(x)'
<1>. SUFFICES ASSUME NEW x, Spent(x)
              PROVE  Spent(x)'
  OBVIOUS
<1>1. PICK k \in DOMAIN Tests :
          \E i \in DOMAIN TestAt(k).plan :
              /\ ~ TestAt(k).unsupported /\ x = TestAt(k).plan[i]
              /\ k < test \/ (k = test /\ i \in Passed)
  BY DEF Spent
<1>2. PICK i \in DOMAIN TestAt(k).plan :
          /\ ~ TestAt(k).unsupported /\ x = TestAt(k).plan[i]
          /\ k < test \/ (k = test /\ i \in Passed)
  BY <1>1
<1>3. TestAt(k)' = TestAt(k)
  BY DEF TestAt
<1>4. k \in Nat
  BY TestsAssumption
<1>5. k < test' \/ (k = test' /\ i \in Passed')
  BY <1>2, <1>4
<1>. QED
  BY <1>2, <1>3, <1>5 DEF Spent

LEMMA SpentSame ==
    ASSUME TypeInv, UNCHANGED <<specs_to_test, test>>,
           pc # "install" \/ (pc' = pc /\ todo' \subseteq todo)
    PROVE  \A x : Spent(x) => Spent(x)'
<1>1. Plan' = Plan
  BY DEF Plan, TestAt
<1>2. Passed \subseteq Passed'
  BY <1>1 DEF Passed
<1>. QED
  BY <1>2, SpentGrows DEF TypeInv

\* What is known, stored and queued, where no more is known.
LEMMA StoredKept ==
    ASSUME StoredInv, behaviour' = behaviour, stored' = stored,
           \A x : Spent(x) => Spent(x)',
           \A a \in ABI : status'[a].state = "restored" \/ status'[a].provider # NoProvider => Stored(a)
    PROVE  StoredInv'
<1>1. \A a : Stored(a)' <=> Stored(a)
  BY DEF Stored
<1>2. \A a : (Solid(a)' <=> Solid(a)) /\ (Good(a)' <=> Good(a))
  BY DEF Solid, Good
<1>. QED
  BY <1>1, <1>2 DEF StoredInv

LEMMA QueueKept ==
    ASSUME QueueInv, behaviour' = behaviour, queue' = queue,
           \A x : Spent(x) => Spent(x)',
           \A i \in 1 .. Len(queue) : content'[queue[i].dir] = content[queue[i].dir]
    PROVE  QueueInv'
<1>1. \A a : Solid(a)' <=> Solid(a)
  BY DEF Solid
<1>. QED
  BY <1>1 DEF QueueInv

LEMMA InstalledKept ==
    ASSUME InstalledInv, behaviour' = behaviour, installed' \subseteq installed, known_failures' = known_failures
    PROVE  InstalledInv'
<1>1. \A a : Good(a)' <=> Good(a)
  BY DEF Good
<1>. QED
  BY <1>1 DEF InstalledInv

LEMMA ResultsKept ==
    ASSUME ResultsInv, UNCHANGED <<inputs, report, test>>
    PROVE  ResultsInv'
<1>1. \A i : TestAt(i)' = TestAt(i)
  BY DEF TestAt, inputs
<1>2. \A a : Good(a)' <=> Good(a)
  BY DEF Good, inputs
<1>3. \A i : TrueOutcome(TestAt(i))' = TrueOutcome(TestAt(i))
  BY <1>1, <1>2 DEF TrueOutcome, inputs
<1>4. \A i, m : Reported(results[i], expected[specs_to_test[i]])' <=> Reported(results[i], expected[specs_to_test[i]])
  BY DEF Reported, inputs, report
<1>. QED
  BY <1>3, <1>4 DEF ResultsInv, inputs, report

\* A test that gets its outcome.
LEMMA ResultFacts ==
    ASSUME TypeInv, test \in DOMAIN Tests, NEW outcome \in {"Pass", "Fail", "Cascade"}, Result(outcome)
    PROVE  /\ results' \in Seq({"Pass", "Fail", "Cascade"}) /\ Len(results') = test
           /\ test' = test + 1 /\ test \in Nat /\ test' \in 1 .. Len(Tests) + 1
           /\ results'[test] = outcome /\ \A i \in 1 .. test - 1 : results'[i] = results[i]
           /\ diagnostics \subseteq diagnostics'
           /\ Reported(outcome, expected[specs_to_test[test]]) => test \in diagnostics'
           /\ \/ pc' = "join" /\ test' = Len(Tests) + 1
              \/ pc' = "test" /\ test' \in DOMAIN Tests
<1>1. /\ results \in Seq({"Pass", "Fail", "Cascade"}) /\ Len(results) = test - 1
      /\ DOMAIN Tests = 1 .. Len(Tests) /\ Len(Tests) \in Nat
  BY TestsAssumption DEF TypeInv
<1>2. test \in Nat /\ test >= 1 /\ test <= Len(Tests)
  BY <1>1
<1>3. results' = Append(results, outcome) /\ test' = test + 1
  BY DEF Result
<1>4. /\ results' \in Seq({"Pass", "Fail", "Cascade"}) /\ Len(results') = test
      /\ results'[test] = outcome /\ \A i \in 1 .. test - 1 : results'[i] = results[i]
  BY <1>1, <1>2, <1>3, AppendProperties
<1>5. \/ pc' = "join" /\ test' = Len(Tests) + 1
      \/ pc' = "test" /\ test' \in DOMAIN Tests
  BY <1>1, <1>2 DEF Result
<1>6. /\ diagnostics \subseteq diagnostics'
      /\ Reported(outcome, expected[specs_to_test[test]]) => test \in diagnostics'
  BY DEF Result
<1>. QED
  BY <1>1, <1>2, <1>3, <1>4, <1>5, <1>6

LEMMA OutcomeType == ASSUME NEW t PROVE TrueOutcome(t) \in {"Pass", "Fail", "Cascade"}
  BY DEF TrueOutcome

LEMMA Judged ==
    ASSUME TestsInv, test \in DOMAIN Tests, Result(TrueOutcome(TestAt(test))), call' = NoCall,
           UNCHANGED <<inputs, content, queue, stored, installed, known_failures>>,
           status' \in [ABI -> Status],
           \A a \in ABI : status'[a].state = "restored" \/ status'[a].provider # NoProvider => Stored(a)
    PROVE  TestsInv'
<1>. DEFINE outcome == TrueOutcome(TestAt(test))
<1>1. outcome \in {"Pass", "Fail", "Cascade"}
  BY OutcomeType
<1>2. TypeInv /\ StoredInv /\ QueueInv /\ InstalledInv /\ ResultsInv
  BY DEF TestsInv
<1>3. /\ results' \in Seq({"Pass", "Fail", "Cascade"}) /\ Len(results') = test
      /\ test' = test + 1 /\ test \in Nat /\ test' \in 1 .. Len(Tests) + 1
      /\ results'[test] = outcome /\ \A i \in 1 .. test - 1 : results'[i] = results[i]
      /\ diagnostics \subseteq diagnostics'
      /\ Reported(outcome, expected[specs_to_test[test]]) => test \in diagnostics'
      /\ \/ pc' = "join" /\ test' = Len(Tests) + 1
         \/ pc' = "test" /\ test' \in DOMAIN Tests
  BY <1>1, <1>2, ResultFacts
<1>4. TypeInv'
  BY <1>2, <1>3 DEF TypeInv, inputs
<1>5. StepInv'
  BY <1>3 DEF StepInv, NoCall
<1>6. \A x : Spent(x) => Spent(x)'
  BY <1>2, <1>3, SpentGrows DEF TypeInv, inputs
<1>7. StoredInv'
  BY <1>2, <1>6, StoredKept DEF inputs
<1>8. QueueInv'
  BY <1>2, <1>6, QueueKept DEF inputs
<1>9. InstalledInv'
  BY <1>2, InstalledKept DEF inputs
<1>10. InstallInv'
  BY <1>3 DEF InstallInv
<1>11. ResultsInv'
  <2>1. \A i : TestAt(i)' = TestAt(i)
    BY DEF TestAt, inputs
  <2>2. \A a : Good(a)' <=> Good(a)
    BY DEF Good, inputs
  <2>3. \A i : TrueOutcome(TestAt(i))' = TrueOutcome(TestAt(i))
    BY <2>1, <2>2 DEF TrueOutcome, inputs
  <2>4. \A o, m : Reported(o, m)' <=> Reported(o, m)
    BY DEF Reported, inputs
  <2>. HIDE DEF outcome
  <2>5. ASSUME NEW i \in 1 .. test' - 1
        PROVE  /\ results'[i] = TrueOutcome(TestAt(i))
               /\ Reported(results'[i], expected[specs_to_test[i]]) => i \in diagnostics'
    <3>1. CASE i = test
      BY <1>3, <3>1 DEF outcome
    <3>2. CASE i # test
      <4>1. i \in 1 .. test - 1
        BY <1>3, <3>2
      <4>. QED
        BY <1>2, <1>3, <4>1 DEF ResultsInv
    <3>. QED
      BY <3>1, <3>2
  <2>. QED
    BY <2>3, <2>4, <2>5 DEF ResultsInv, inputs
<1>. QED
  BY <1>4, <1>5, <1>7, <1>8, <1>9, <1>10, <1>11 DEF TestsInv

--------------------------------------------------------------------------------
(***************************************************************************)
(* The invariant holds at first, and every step keeps it.                  *)
(***************************************************************************)
LEMMA UnknownType == Unknown \in Status /\ Unknown.provider = NoProvider /\ Unknown.state = "unknown"
  BY DEF Unknown, Status

LEMMA InitTests ==
    ASSUME InitRun
    PROVE  TestsInv
<1>1. TypeInv
  <2>1. stored \in [Provider -> SUBSET ABI]
    BY CacheAssumption DEF InitRun, InitCache
  <2>2. status \in [ABI -> Status] /\ DOMAIN content = Dir /\ queue \in Seq(Action)
    BY UnknownType DEF InitRun, InitCache
  <2>3. test \in 1 .. Len(Tests) + 1 /\ results \in Seq({"Pass", "Fail", "Cascade"}) /\ Len(results) = test - 1
    BY TestsAssumption DEF InitRun
  <2>. QED
    BY <2>1, <2>2, <2>3 DEF InitRun, TypeInv
<1>2. StepInv
  BY DEF InitRun, InitCache, StepInv, NoCall
<1>3. StoredInv
  <2>1. ASSUME NEW a \in ABI
        PROVE  status[a] = Unknown
    BY DEF InitRun, InitCache
  <2>2. ASSUME NEW a \in ABI, Stored(a)
        PROVE  Good(a)
    BY <2>2 DEF InitRun, Stored
  <2>. QED
    BY <2>1, <2>2, UnknownType, GoodFacts DEF StoredInv
<1>4. QueueInv
  BY DEF InitRun, InitCache, QueueInv
<1>5. InstalledInv
  BY BuildsAssumption DEF InitRun, InstalledInv
<1>6. InstallInv /\ ResultsInv
  BY DEF InitRun, InstallInv, ResultsInv
<1>. QED
  BY <1>1, <1>2, <1>3, <1>4, <1>5, <1>6 DEF TestsInv

\* What is known of a package that is not asked for.
LEMMA KnownSame ==
    ASSUME TestsInv, status' = status
    PROVE  /\ status' \in [ABI -> Status]
           /\ \A a \in ABI : status'[a].state = "restored" \/ status'[a].provider # NoProvider => Stored(a)
  BY DEF TestsInv, TypeInv, StoredInv

LEMMA UnsupportedKeeps ==
    ASSUME TestsInv, Unsupported
    PROVE  TestsInv'
<1>1. test \in DOMAIN Tests /\ call' = NoCall
  BY DEF TestsInv, StepInv, Unsupported, cacheVars
<1>2. TrueOutcome(TestAt(test)) = "Cascade"
  BY DEF Unsupported, TrueOutcome
<1>3. Result(TrueOutcome(TestAt(test)))
  BY <1>2 DEF Unsupported
<1>4. UNCHANGED <<inputs, content, queue, stored, installed, known_failures>> /\ status' = status
  BY DEF Unsupported, cacheVars
<1>. QED
  BY <1>1, <1>3, <1>4, KnownSame, Judged

LEMMA DependencyWillFailKeeps ==
    ASSUME TestsInv, DependencyWillFail
    PROVE  TestsInv'
<1>1. test \in DOMAIN Tests /\ call' = NoCall
  BY DEF TestsInv, StepInv, DependencyWillFail, cacheVars
<1>2. TypeInv /\ InstalledInv /\ ~ TestAt(test).unsupported
  BY DEF TestsInv, DependencyWillFail
<1>3. PICK i \in DOMAIN Plan : Plan[i].spec # LastAction.spec /\ Plan[i].abi \in known_failures
  BY DEF DependencyWillFail, WillFail
<1>4. i # Len(Plan)
  BY <1>1, <1>2, <1>3, AtHand
<1>5. Plan[i].abi \in Against[LastAction.abi]
  BY <1>1, <1>2, <1>4, AtHand
<1>6. ~ Good(Plan[i].abi)
  BY <1>2, <1>3 DEF InstalledInv, Good
<1>7. TrueOutcome(TestAt(test)) = "Cascade"
  BY <1>5, <1>6 DEF TrueOutcome, LastAction
<1>8. Result(TrueOutcome(TestAt(test)))
  BY <1>7 DEF DependencyWillFail
<1>9. UNCHANGED <<inputs, content, queue, stored, installed, known_failures>> /\ status' = status
  BY DEF DependencyWillFail, cacheVars
<1>. QED
  BY <1>1, <1>8, <1>9, KnownSame, Judged

\* A test whose package does passes.
LEMMA PassFacts ==
    ASSUME TypeInv, test \in DOMAIN Tests, ~ TestAt(test).unsupported, Good(LastAction.abi)
    PROVE  TrueOutcome(TestAt(test)) = "Pass"
<1>1. LastAction.abi \in ABI
  BY AtHand
<1>2. \A b \in Against[LastAction.abi] : Good(b)
  BY <1>1, GoodFacts
<1>3. behaviour[LastAction.abi] = "Succeeded"
  BY DEF Good
<1>. QED
  BY <1>2, <1>3 DEF TrueOutcome, LastAction

LEMMA InstalledIsGood ==
    ASSUME TestsInv, test \in DOMAIN Tests, Len(Plan) \notin Adjusted
    PROVE  Good(LastAction.abi)
<1>1. Len(Plan) \in DOMAIN Plan /\ LastAction = Plan[Len(Plan)]
  BY AtHand DEF TestsInv
<1>2. IsInstalled(LastAction)
  BY <1>1 DEF Adjusted
<1>. QED
  BY <1>2 DEF IsInstalled, TestsInv, InstalledInv

LEMMA AlreadyInstalledKeeps ==
    ASSUME TestsInv, AlreadyInstalled
    PROVE  TestsInv'
<1>1. test \in DOMAIN Tests /\ call' = NoCall /\ TypeInv /\ ~ TestAt(test).unsupported
  BY DEF TestsInv, StepInv, AlreadyInstalled, cacheVars
<1>2. Good(LastAction.abi)
  BY <1>1, InstalledIsGood DEF AlreadyInstalled
<1>3. Result(TrueOutcome(TestAt(test)))
  BY <1>1, <1>2, PassFacts DEF AlreadyInstalled
<1>4. UNCHANGED <<inputs, content, queue, stored, installed, known_failures>> /\ status' = status
  BY DEF AlreadyInstalled, cacheVars
<1>. QED
  BY <1>1, <1>3, <1>4, KnownSame, Judged

\* A package that conflicts is stored by its own test, or by a later one: where its own test finds
\* it in a cache, it does not conflict.
LEMMA AlreadyInBinaryCacheKeeps ==
    ASSUME TestsInv, AlreadyInBinaryCache
    PROVE  TestsInv'
<1>1. test \in DOMAIN Tests /\ call' = NoCall /\ TypeInv /\ ~ TestAt(test).unsupported /\ Adjusted # {} /\ Passed = {}
  BY DEF TestsInv, StepInv, AlreadyInBinaryCache, Passed
<1>. DEFINE m == Last(Adjusted)
<1>2. Len(Plan) \in Nat /\ Adjusted \in SUBSET (1 .. Len(Plan))
  BY <1>1, AtHand
<1>3. m \in Adjusted /\ \A j \in Adjusted : j <= m
  BY <1>1, <1>2, LastFacts
<1>. HIDE DEF m
<1>4. m \in DOMAIN Plan /\ Plan[m].abi \in ABI
  BY <1>1, <1>3, AtHand
<1>5. Stored(Plan[m].abi)
  BY <1>4 DEF m, AlreadyInBinaryCache, IsAvailable, TestsInv, StoredInv
<1>6. Good(LastAction.abi)
  <2>1. CASE m = Len(Plan)
    <3>1. Plan[m].abi = LastAction.abi
      BY <1>1, <2>1, AtHand
    <3>2. Good(LastAction.abi) \/ \E x \in Action : Spent(x) /\ x.abi = LastAction.abi
      BY <1>4, <1>5, <3>1 DEF TestsInv, StoredInv
    <3>3. ASSUME NEW x \in Action, Spent(x)
          PROVE  x.abi # LastAction.abi
      BY <1>1, <3>3, SpentFacts DEF TypeInv
    <3>. QED
      BY <3>2, <3>3
  <2>2. CASE m # Len(Plan)
    <3>1. m \in 1 .. Len(Plan)
      BY <1>2, <1>3
    <3>2. Len(Plan) \notin Adjusted
      BY <1>2, <1>3, <2>2, <3>1
    <3>. QED
      BY <1>1, <3>2, InstalledIsGood
  <2>. QED
    BY <2>1, <2>2
<1>7. Result(TrueOutcome(TestAt(test)))
  BY <1>1, <1>6, PassFacts DEF AlreadyInBinaryCache
<1>8. UNCHANGED <<inputs, content, queue, stored, installed, known_failures>> /\ status' = status
  BY DEF AlreadyInBinaryCache, inputs
<1>. QED
  BY <1>1, <1>7, <1>8, KnownSame, Judged

LEMMA TestEndsKeeps ==
    ASSUME TestsInv, TestEnds
    PROVE  TestsInv'
<1>1. test \in DOMAIN Tests /\ call' = NoCall /\ TypeInv
  BY DEF TestsInv, StepInv, TestEnds
<1>2. Result(TrueOutcome(TestAt(test)))
  BY DEF TestEnds, TestsInv, InstallInv, Verdict
<1>3. ASSUME NEW a \in ABI
      PROVE  /\ MarkUnrestored(status[a]) \in Status
             /\ MarkUnrestored(status[a]).state # "restored"
             /\ MarkUnrestored(status[a]).provider = status[a].provider
  <2>1. status[a] \in Status
    BY <1>1 DEF TypeInv
  <2>. QED
    BY <2>1 DEF Status, MarkUnrestored
<1>4. /\ status' \in [ABI -> Status]
      /\ \A a \in ABI : status'[a].state = "restored" \/ status'[a].provider # NoProvider => Stored(a)
  <2>1. status' = [a \in ABI |-> MarkUnrestored(status[a])]
    BY DEF TestEnds, MarkAllUnrestored
  <2>. QED
    BY <1>3, <2>1 DEF TestsInv, StoredInv
<1>5. UNCHANGED <<inputs, content, queue, stored, installed, known_failures>>
  BY DEF TestEnds
<1>. QED
  BY <1>1, <1>2, <1>4, <1>5, Judged

\* The plan at hand stays what it is.
LEMMA PlanSame ==
    ASSUME UNCHANGED <<specs_to_test, test>>
    PROVE  /\ \A k : TestAt(k)' = TestAt(k)
           /\ Plan' = Plan /\ LastAction' = LastAction
           /\ \A S : Actions(S)' = Actions(S)
           /\ installed' = installed => Adjusted' = Adjusted
<1>1. \A k : TestAt(k)' = TestAt(k)
  BY DEF TestAt
<1>2. Plan' = Plan /\ LastAction' = LastAction
  BY <1>1 DEF Plan, LastAction
<1>3. \A S : Actions(S)' = Actions(S)
  BY <1>2 DEF Actions
<1>4. installed' = installed => Adjusted' = Adjusted
  BY <1>2 DEF Adjusted, IsInstalled
<1>. QED
  BY <1>1, <1>2, <1>3, <1>4

\* A step between that learns and judges nothing.
LEMMA Quiet ==
    ASSUME TestsInv, UNCHANGED <<inputs, report, test, known_failures, status, queue, stored>>,
           installed' \subseteq installed, pc # "install", DOMAIN content' = Dir,
           \A i \in 1 .. Len(queue) : content'[queue[i].dir] = content[queue[i].dir],
           StepInv', InstallInv'
    PROVE  TestsInv'
<1>1. TypeInv /\ StoredInv /\ QueueInv /\ InstalledInv /\ ResultsInv
  BY DEF TestsInv
<1>2. specs_to_test' = specs_to_test /\ behaviour' = behaviour
  BY DEF inputs
<1>3. TypeInv'
  BY <1>1 DEF TypeInv, inputs, report
<1>4. \A x : Spent(x) => Spent(x)'
  BY <1>1, <1>2, SpentSame
<1>5. StoredInv'
  BY <1>1, <1>2, <1>4, KnownSame, StoredKept
<1>6. QueueInv'
  BY <1>1, <1>2, <1>4, QueueKept
<1>7. InstalledInv'
  BY <1>1, <1>2, InstalledKept
<1>8. ResultsInv'
  BY <1>1, ResultsKept
<1>. QED
  BY <1>3, <1>5, <1>6, <1>7, <1>8 DEF TestsInv

LEMMA PrecheckAllKeeps ==
    ASSUME TestsInv, PrecheckAll
    PROVE  TestsInv'
<1>1. /\ pc = "precheckAll" /\ pc' = "prechecked" /\ call' = [op |-> "precheck",
            actions |-> [i \in {j \in DOMAIN Tests : HasPlan(Tests[j])} |-> Own(Tests[i])], next |-> 1]
      /\ UNCHANGED <<status, content, queue, stored, inputs, report, installed, known_failures, test, todo, code>>
  BY DEF PrecheckAll, BeginCall
<1>2. ASSUME NEW i \in DOMAIN Tests
      PROVE  Own(Tests[i]).abi \in ABI
  <2>1. Len(Tests[i].plan) \in DOMAIN Tests[i].plan
    BY TestsAssumption
  <2>. QED
    BY <2>1, TestsAssumption DEF Own
<1>3. StepInv'
  <2>1. status' = [a \in ABI |-> Unknown]
    <3>1. call.next = 0
      BY <1>1 DEF TestsInv, StepInv, NoCall
    <3>2. \A i \in DOMAIN Providers : ~ (i < call.next)
      BY <3>1, CacheAssumption
    <3>. QED
      BY <1>1, <3>2 DEF TestsInv, StepInv
  <2>2. test' = 1
    BY <1>1 DEF TestsInv, StepInv
  <2>. QED
    BY <1>1, <1>2, <2>1, <2>2 DEF StepInv
<1>4. InstallInv'
  BY <1>1 DEF InstallInv
<1>. QED
  BY <1>1, <1>3, <1>4, Quiet DEF TestsInv, TypeInv

LEMMA PrecheckedAllKeeps ==
    ASSUME TestsInv, PrecheckedAll
    PROVE  TestsInv'
<1>1. /\ pc = "prechecked" /\ pc' = (IF DOMAIN Tests = {} THEN "join" ELSE "test") /\ call' = NoCall
      /\ UNCHANGED <<status, content, queue, stored, inputs, report, installed, known_failures, test, todo, code>>
  BY DEF PrecheckedAll
<1>2. test' = 1
  BY <1>1 DEF TestsInv, StepInv
<1>3. CASE DOMAIN Tests = {}
  <2>1. test' = Len(Tests) + 1
    BY <1>2, <1>3, TestsAssumption
  <2>2. StepInv' /\ InstallInv'
    BY <1>1, <1>3, <2>1 DEF StepInv, InstallInv, NoCall
  <2>. QED
    BY <1>1, <2>2, Quiet DEF TestsInv, TypeInv
<1>4. CASE DOMAIN Tests # {}
  <2>1. test' \in DOMAIN Tests
    BY <1>2, <1>4, TestsAssumption
  <2>2. StepInv' /\ InstallInv'
    BY <1>1, <1>4, <2>1 DEF StepInv, InstallInv, NoCall
  <2>. QED
    BY <1>1, <2>2, Quiet DEF TestsInv, TypeInv
<1>. QED
  BY <1>3, <1>4

LEMMA PrecheckTestKeeps ==
    ASSUME TestsInv, PrecheckTest
    PROVE  TestsInv'
<1>1. /\ pc = "test" /\ pc' = "precheckTest" /\ ~ TestAt(test).unsupported /\ Adjusted # {}
      /\ call' = [op |-> "precheck", actions |-> Actions({Last(Adjusted)}), next |-> 1]
      /\ UNCHANGED <<status, content, queue, stored, inputs, report, installed, known_failures, test, todo, code>>
  BY DEF PrecheckTest, BeginCall
<1>2. UNCHANGED <<specs_to_test, test>>
  BY <1>1 DEF inputs
<1>3. StepInv'
  <2>1. /\ TestAt(test)' = TestAt(test) /\ Adjusted' = Adjusted /\ test \in DOMAIN Tests
        /\ Actions({Last(Adjusted)})' = Actions({Last(Adjusted)})
    BY <1>1, <1>2, PlanSame DEF TestsInv, StepInv
  <2>. QED
    BY <1>1, <2>1 DEF StepInv
<1>4. InstallInv'
  BY <1>1 DEF InstallInv
<1>. QED
  BY <1>1, <1>3, <1>4, Quiet DEF TestsInv, TypeInv

\* The directories of the plan at hand hold nothing that is queued.
LEMMA QueuedElsewhere ==
    ASSUME TestsInv, test \in DOMAIN Tests, NEW i \in 1 .. Len(queue), NEW j \in DOMAIN Plan \ Passed
    PROVE  queue[i].dir # Plan[j].dir /\ queue[i].dir \in Dir
<1>1. Spent(queue[i]) /\ specs_to_test \in Sorted
  BY DEF TestsInv, QueueInv, TypeInv
<1>. QED
  BY <1>1, SpentFacts

LEMMA ClearKeeps ==
    ASSUME TestsInv, Clear
    PROVE  TestsInv'
<1>1. /\ pc = "precheckTest" /\ pc' = "fetch" /\ call' = NoCall /\ ClearPackages(Actions(Adjusted))
      /\ UNCHANGED <<status, queue, stored, inputs, report, installed, known_failures, test, todo, code>>
  BY DEF Clear
<1>2. UNCHANGED <<specs_to_test, test>>
  BY <1>1 DEF inputs
<1>3. test \in DOMAIN Tests /\ ~ TestAt(test).unsupported /\ Adjusted # {} /\ Passed = {}
  BY <1>1 DEF TestsInv, StepInv, Passed
<1>4. StepInv'
  <2>1. TestAt(test)' = TestAt(test) /\ Adjusted' = Adjusted
    BY <1>1, <1>2, PlanSame
  <2>. QED
    BY <1>1, <1>3, <2>1 DEF StepInv, NoCall
<1>5. InstallInv'
  BY <1>1 DEF InstallInv
<1>6. DOMAIN content' = Dir
  BY <1>1 DEF ClearPackages
<1>7. ASSUME NEW i \in 1 .. Len(queue)
      PROVE  content'[queue[i].dir] = content[queue[i].dir]
  <2>1. \A j \in Adjusted : queue[i].dir # Plan[j].dir
    BY <1>3, QueuedElsewhere DEF Adjusted
  <2>2. queue[i].dir \in Dir
    BY <1>3, QueuedElsewhere DEF Adjusted
  <2>. QED
    BY <1>1, <2>1, <2>2 DEF ClearPackages, Actions
<1>. QED
  BY <1>1, <1>4, <1>5, <1>6, <1>7, Quiet

LEMMA FetchKeeps ==
    ASSUME TestsInv, Fetch
    PROVE  TestsInv'
<1>1. /\ pc = "fetch" /\ pc' = "fetching" /\ call' = [op |-> "fetch", actions |-> Actions(Adjusted), next |-> 1]
      /\ UNCHANGED <<status, content, queue, stored, inputs, report, installed, known_failures, test, todo, code>>
  BY DEF Fetch, BeginCall
<1>2. UNCHANGED <<specs_to_test, test>>
  BY <1>1 DEF inputs
<1>3. StepInv'
  <2>1. /\ TestAt(test)' = TestAt(test) /\ Adjusted' = Adjusted /\ Actions(Adjusted)' = Actions(Adjusted)
        /\ test \in DOMAIN Tests /\ ~ TestAt(test).unsupported /\ Adjusted # {}
    BY <1>1, <1>2, PlanSame DEF TestsInv, StepInv
  <2>. QED
    BY <1>1, <2>1 DEF StepInv
<1>4. InstallInv'
  BY <1>1 DEF InstallInv
<1>. QED
  BY <1>1, <1>3, <1>4, Quiet DEF TestsInv, TypeInv

LEMMA JoinKeeps ==
    ASSUME TestsInv, Join
    PROVE  TestsInv'
<1>1. /\ pc = "join" /\ pc' = "done"
      /\ UNCHANGED <<status, call, content, queue, stored, inputs, report, installed, known_failures, test, todo, code>>
  BY DEF Join, cacheVars
<1>2. StepInv'
  BY <1>1 DEF TestsInv, StepInv
<1>3. InstallInv'
  BY <1>1 DEF InstallInv
<1>. QED
  BY <1>1, <1>2, <1>3, Quiet DEF TestsInv, TypeInv

LEMMA RemoveOthersKeeps ==
    ASSUME TestsInv, RemoveOthers
    PROVE  TestsInv'
<1>1. /\ pc = "fetching" /\ pc' = "install" /\ call' = NoCall /\ todo' = Adjusted /\ installed' = Kept
      /\ UNCHANGED <<status, content, queue, stored, inputs, report, known_failures, test, code>>
  BY DEF RemoveOthers
<1>2. UNCHANGED <<specs_to_test, test>>
  BY <1>1 DEF inputs
<1>3. test \in DOMAIN Tests /\ ~ TestAt(test).unsupported /\ Adjusted # {} /\ TypeInv
  BY <1>1 DEF TestsInv, StepInv
<1>4. TestAt(test)' = TestAt(test) /\ Plan' = Plan /\ LastAction' = LastAction
  BY <1>2, PlanSame
<1>5. StepInv'
  BY <1>1, <1>3, <1>4 DEF StepInv, NoCall
<1>6. InstallInv'
  <2>1. todo' \subseteq DOMAIN Plan
    BY <1>1, <1>3, AtHand
  <2>2. ASSUME NEW i \in DOMAIN Plan \ todo'
        PROVE  \E y \in installed' : y.abi = Plan[i].abi
    <3>1. PICK y \in installed : y.spec = Plan[i].spec /\ y.abi = Plan[i].abi
      BY <1>1, <2>2 DEF Adjusted, IsInstalled
    <3>. QED
      BY <1>1, <3>1 DEF Kept
  <2>3. Len(Plan) \in todo' \/ Good(LastAction.abi)
    BY <1>1, <1>3, InstalledIsGood
  <2>4. Good(LastAction.abi)' <=> Good(LastAction.abi)
    BY <1>1, <1>4 DEF Good, inputs
  <2>. QED
    BY <1>1, <1>3, <1>4, <2>1, <2>2, <2>3, <2>4 DEF InstallInv
<1>7. installed' \subseteq installed
  BY <1>1 DEF Kept
<1>. QED
  BY <1>1, <1>5, <1>6, <1>7, Quiet DEF TestsInv, TypeInv

\* A step of the caches: the command waits for it, or for nothing.
LEMMA CacheQuiet ==
    ASSUME TestsInv, UNCHANGED runVars, UNCHANGED queue,
           \A i \in 1 .. Len(queue) : content'[queue[i].dir] = content[queue[i].dir],
           DOMAIN content' = Dir, stored' = stored, status' \in [ABI -> Status],
           \A a \in ABI : status'[a].state = "restored" \/ status'[a].provider # NoProvider => Stored(a),
           StepInv'
    PROVE  TestsInv'
<1>1. TypeInv /\ StoredInv /\ QueueInv /\ InstalledInv /\ InstallInv /\ ResultsInv
  BY DEF TestsInv
<1>2. UNCHANGED <<inputs, report, installed, known_failures, test, pc, todo, code, specs_to_test, behaviour>>
  BY DEF runVars, inputs
<1>3. TypeInv'
  BY <1>1, <1>2 DEF TypeInv, inputs, report
<1>4. \A x : Spent(x) => Spent(x)'
  BY <1>1, <1>2, SpentSame
<1>5. StoredInv'
  BY <1>1, <1>2, <1>4, StoredKept
<1>6. QueueInv'
  BY <1>1, <1>2, <1>4, QueueKept
<1>7. InstalledInv'
  BY <1>1, <1>2, InstalledKept
<1>8. ResultsInv'
  BY <1>1, <1>2, ResultsKept
<1>9. InstallInv'
  <2>1. Plan' = Plan /\ LastAction' = LastAction /\ TestAt(test)' = TestAt(test)
    BY <1>2, PlanSame
  <2>2. \A a : Good(a)' <=> Good(a)
    BY <1>2 DEF Good
  <2>3. \A t : TrueOutcome(t)' = TrueOutcome(t)
    BY <1>2, <2>2 DEF TrueOutcome
  <2>4. Verdict' = Verdict
    BY <1>2 DEF Verdict
  <2>. QED
    BY <1>1, <1>2, <2>1, <2>2, <2>3, <2>4 DEF InstallInv
<1>. QED
  BY <1>3, <1>5, <1>6, <1>7, <1>8, <1>9 DEF TestsInv

LEMMA FetchFromKeeps ==
    ASSUME TestsInv, FetchFrom, UNCHANGED runVars
    PROVE  TestsInv'
<1>1. /\ call.op = "fetch" /\ call.next \in DOMAIN Providers
      /\ call' = [call EXCEPT !.next = @ + 1] /\ UNCHANGED <<queue, stored>>
  BY DEF FetchFrom, Asking, Ask
<1>2. UNCHANGED <<inputs, report, installed, known_failures, test, pc, todo, code, specs_to_test, behaviour>>
  BY DEF runVars, inputs
<1>3. pc = "fetching" /\ call.actions = Actions(Adjusted)
  BY <1>1 DEF TestsInv, StepInv, NoCall
<1>4. test \in DOMAIN Tests /\ TypeInv /\ Passed = {}
  BY <1>3 DEF TestsInv, StepInv, Passed
<1>5. DOMAIN call.actions = Adjusted /\ \A i \in Adjusted : call.actions[i] = Plan[i]
  BY <1>3 DEF Actions
<1>. DEFINE tried == Select(ShouldAttemptRestore)
<1>6. PICK got \in SUBSET {i \in tried : ABIAt(i) \in stored[Asked]} :
          /\ status' = [a \in ABI |->
                 IF \E i \in got : Fetched(i) = a THEN MarkRestored(status[a])
                 ELSE IF \E i \in tried : Fetched(i) = a THEN MarkUnavailable(status[a], Asked) ELSE status[a]]
          /\ content' = [d \in Dir |->
                 IF \E i \in got : call.actions[i].dir = d
                 THEN ABIAt(CHOOSE i \in got : call.actions[i].dir = d) ELSE content[d]]
  BY DEF FetchFrom
<1>7. tried \subseteq Adjusted /\ got \subseteq Adjusted
  BY <1>5 DEF Select
<1>8. Asked \in Provider
  BY <1>1 DEF Asked, Provider
<1>9. ASSUME NEW a \in ABI
      PROVE  /\ status'[a] \in Status /\ status'[a].provider = status[a].provider
             /\ status'[a].state = "restored" => status[a].state = "restored" \/ Stored(a)
  <2>1. status[a] \in Status
    BY <1>4 DEF TypeInv
  <2>2. CASE \E i \in got : Fetched(i) = a
    <3>1. Stored(a)
      BY <1>8, <2>2 DEF Fetched, Stored
    <3>2. status'[a] = MarkRestored(status[a])
      BY <1>6, <2>2
    <3>. QED
      BY <2>1, <3>1, <3>2 DEF MarkRestored, Status
  <2>3. CASE ~ \E i \in got : Fetched(i) = a
    <3>1. status'[a] = MarkUnavailable(status[a], Asked) \/ status'[a] = status[a]
      BY <1>6, <2>3
    <3>2. /\ MarkUnavailable(status[a], Asked) \in Status
          /\ MarkUnavailable(status[a], Asked).state = status[a].state
          /\ MarkUnavailable(status[a], Asked).provider = status[a].provider
      BY <1>8, <2>1 DEF MarkUnavailable, Status
    <3>. QED
      BY <2>1, <3>1, <3>2
  <2>. QED
    BY <2>2, <2>3
<1>10. \A a \in ABI : status'[a].state = "restored" \/ status'[a].provider # NoProvider => Stored(a)
  BY <1>9 DEF TestsInv, StoredInv
<1>11. status' \in [ABI -> Status]
  BY <1>6, <1>9
<1>12. ASSUME NEW i \in 1 .. Len(queue)
       PROVE  content'[queue[i].dir] = content[queue[i].dir]
  <2>1. \A j \in got : queue[i].dir # call.actions[j].dir
    BY <1>4, <1>5, <1>7, QueuedElsewhere DEF Adjusted
  <2>2. queue[i].dir \in Dir
    <3>1. queue[i] \in Action
      BY <1>4 DEF TypeInv
    <3>. QED
      BY <3>1, ActionFacts
  <2>. QED
    BY <1>6, <2>1, <2>2
<1>13. StepInv'
  <2>1. /\ call'.op = call.op /\ call'.actions = call.actions /\ call'.next \in Nat
        /\ call' = [op |-> call'.op, actions |-> call'.actions, next |-> call'.next]
    BY <1>1 DEF TestsInv, StepInv
  <2>2. TestAt(test)' = TestAt(test) /\ Adjusted' = Adjusted /\ Actions(Adjusted)' = Actions(Adjusted)
    BY <1>2, PlanSame
  <2>. QED
    BY <1>2, <1>3, <2>1, <2>2 DEF TestsInv, StepInv
<1>14. DOMAIN content' = Dir
  BY <1>6
<1>. QED
  BY <1>1, <1>10, <1>11, <1>12, <1>13, <1>14, CacheQuiet

\* The answers of the one provider that answers are noted for the packages they are about: all
\* positions are asked for.
LEMMA NotedForOwn ==
    ASSUME OneAnswers, TestsInv, Asking("precheck"), Asked \notin NoPrecheck,
           NEW i \in Select(ShouldAttemptPrecheck)
    PROVE  Prechecked(Select(ShouldAttemptPrecheck), i) = ABIAt(i)
<1>. DEFINE D == DOMAIN call.actions
            asked == Select(ShouldAttemptPrecheck)
<1>1. call.op = "precheck" /\ call.next \in DOMAIN Providers
  BY DEF Asking
<1>2. pc \in {"prechecked", "precheckTest"}
  BY <1>1 DEF TestsInv, StepInv, NoCall
<1>3. asked \subseteq D
  BY DEF Select
<1>4. asked = D /\ \E n \in Nat : D \in SUBSET (1 .. n)
  <2>1. CASE pc = "prechecked"
    <3>1. D \subseteq DOMAIN Tests /\ \A j \in D : call.actions[j].abi \in ABI
      BY <2>1 DEF TestsInv, StepInv
    <3>2. \A j \in DOMAIN Providers : j < call.next => Providers[j] \in NoPrecheck
      <4>1. \A j \in DOMAIN Providers : j < call.next => j # call.next
        BY <1>1, CacheAssumption
      <4>. QED
        BY <1>1, <4>1 DEF OneAnswers, Asked
    <3>3. status = [a \in ABI |-> Unknown]
      BY <2>1, <3>2 DEF TestsInv, StepInv
    <3>4. \A j \in D : ShouldAttemptPrecheck(status[ABIAt(j)], Asked)
      BY <3>1, <3>3 DEF ABIAt, ShouldAttemptPrecheck, Unknown
    <3>5. asked = D
      BY <3>4 DEF Select
    <3>. QED
      BY <3>1, <3>5, TestsAssumption
  <2>2. CASE pc = "precheckTest"
    <3>1. D = {Last(Adjusted)}
      BY <2>2 DEF TestsInv, StepInv, Actions
    <3>2. asked = D
      BY <1>3, <3>1
    <3>3. test \in DOMAIN Tests /\ Adjusted # {} /\ TypeInv
      BY <2>2 DEF TestsInv, StepInv
    <3>4. Len(Plan) \in Nat /\ Adjusted \in SUBSET (1 .. Len(Plan))
      BY <3>3, AtHand
    <3>5. Last(Adjusted) \in 1 .. Len(Plan)
      BY <3>3, <3>4, LastFacts
    <3>. QED
      BY <3>1, <3>2, <3>4, <3>5
  <2>. QED
    BY <1>2, <2>1, <2>2
<1>5. PICK n \in Nat : D \in SUBSET (1 .. n)
  BY <1>4
<1>6. i \in D
  BY <1>3
<1>. HIDE DEF D, asked
<1>7. (CHOOSE j \in D : Place(D, j) = Place(D, i)) = i
  BY <1>5, <1>6, PlaceIsOwn
<1>8. Prechecked(D, i) = ABIAt(i)
  BY <1>7 DEF Prechecked, D
<1>9. Prechecked(asked, i) = ABIAt(i)
  BY <1>4, <1>8
<1>. QED
  BY <1>9 DEF asked

LEMMA MarkFacts ==
    ASSUME NEW s \in Status, NEW answers, Asked \in Provider
    PROVE  /\ Mark(s, answers) \in Status
           /\ Mark(s, answers).state = "restored" => s.state = "restored"
           /\ "available" \notin answers => Mark(s, answers).provider = s.provider
           /\ answers \subseteq {"unknown"} => Mark(s, answers) = s
<1>1. /\ MarkUnavailable(s, Asked) \in Status /\ MarkUnavailable(s, Asked).state = s.state
      /\ MarkUnavailable(s, Asked).provider = s.provider
  BY DEF MarkUnavailable, Status
<1>2. ASSUME NEW r \in Status
      PROVE  MarkAvailable(r, Asked) \in Status /\ (MarkAvailable(r, Asked).state = "restored" => r.state = "restored")
  BY DEF MarkAvailable, Status
<1>. QED
  BY <1>1, <1>2 DEF Mark

LEMMA PrecheckFromKeeps ==
    ASSUME OneAnswers, TestsInv, PrecheckFrom, UNCHANGED runVars
    PROVE  TestsInv'
<1>1. /\ call.op = "precheck" /\ call.next \in DOMAIN Providers /\ Asking("precheck")
      /\ call' = [call EXCEPT !.next = @ + 1] /\ UNCHANGED <<content, queue, stored>>
  BY DEF PrecheckFrom, Asking, Ask
<1>2. UNCHANGED <<inputs, report, installed, known_failures, test, pc, todo, code, specs_to_test, behaviour>>
  BY DEF runVars, inputs
<1>3. pc \in {"prechecked", "precheckTest"} /\ TypeInv
  BY <1>1 DEF TestsInv, StepInv, NoCall
<1>. DEFINE asked == Select(ShouldAttemptPrecheck)
<1>4. PICK answers \in [asked -> {"available", "unavailable", "unknown"}] :
          /\ \A i \in asked : answers[i] \in Answers(ABIAt(i))
          /\ status' = [a \in ABI |-> Mark(status[a], {answers[i] : i \in {j \in asked : Prechecked(asked, j) = a}})]
  BY DEF PrecheckFrom
<1>. DEFINE given(a) == {answers[i] : i \in {j \in asked : Prechecked(asked, j) = a}}
<1>5. Asked \in Provider
  BY <1>1 DEF Asked, Provider
<1>6. \A a \in ABI : status[a] \in Status /\ status'[a] = Mark(status[a], given(a))
  BY <1>3, <1>4 DEF TypeInv
<1>7. ASSUME Asked \in NoPrecheck
      PROVE  status' = status
  <2>1. \A i \in asked : answers[i] = "unknown"
    BY <1>4, <1>7 DEF Answers
  <2>2. ASSUME NEW a \in ABI, NEW v \in given(a)
        PROVE  v = "unknown"
    <3>1. PICK i \in {j \in asked : Prechecked(asked, j) = a} : v = answers[i]
      BY <2>2
    <3>. QED
      BY <2>1, <3>1
  <2>3. \A a \in ABI : given(a) \subseteq {"unknown"}
    BY <2>2
  <2>. HIDE DEF given
  <2>4. \A a \in ABI : status'[a] = status[a]
    BY <1>5, <1>6, <2>3, MarkFacts
  <2>5. status' = [a \in ABI |-> status'[a]]
    BY <1>4
  <2>. QED
    BY <1>3, <2>4, <2>5 DEF TypeInv
<1>8. ASSUME NEW a \in ABI, "available" \in given(a)
      PROVE  Stored(a)
  <2>1. PICK i \in asked : Prechecked(asked, i) = a /\ answers[i] = "available"
    BY <1>8
  <2>2. "available" \in Answers(ABIAt(i))
    BY <1>4, <2>1
  <2>3. Asked \notin NoPrecheck /\ ABIAt(i) \in stored[Asked]
    BY <2>2 DEF Answers
  <2>4. ABIAt(i) = a
    BY <1>1, <2>1, <2>3, NotedForOwn
  <2>. QED
    BY <1>5, <2>3, <2>4 DEF Stored
<1>9. \A a \in ABI : status'[a].state = "restored" \/ status'[a].provider # NoProvider => Stored(a)
  <2>. SUFFICES ASSUME NEW a \in ABI, status'[a].state = "restored" \/ status'[a].provider # NoProvider
                PROVE  Stored(a)
    OBVIOUS
  <2>1. CASE "available" \in given(a)
    BY <1>8, <2>1
  <2>2. CASE "available" \notin given(a)
    <3>. HIDE DEF given
    <3>1. status[a].state = "restored" \/ status[a].provider # NoProvider
      BY <1>5, <1>6, <2>2, MarkFacts
    <3>. QED
      BY <3>1 DEF TestsInv, StoredInv
  <2>. QED
    BY <2>1, <2>2
<1>10. status' \in [ABI -> Status]
  <2>. HIDE DEF given
  <2>1. \A a \in ABI : status'[a] \in Status
    BY <1>5, <1>6, MarkFacts
  <2>2. status' = [a \in ABI |-> status'[a]]
    BY <1>4
  <2>. QED
    BY <2>1, <2>2
<1>11. StepInv'
  <2>1. /\ call'.op = call.op /\ call'.actions = call.actions /\ call'.next = call.next + 1 /\ call.next \in Nat
        /\ call' = [op |-> call'.op, actions |-> call'.actions, next |-> call'.next]
    BY <1>1 DEF TestsInv, StepInv
  <2>2. TestAt(test)' = TestAt(test) /\ Adjusted' = Adjusted
        /\ Actions({Last(Adjusted)})' = Actions({Last(Adjusted)})
    BY <1>2, PlanSame
  <2>3. ASSUME pc = "prechecked", \A i \in DOMAIN Providers : i < call'.next => Providers[i] \in NoPrecheck
        PROVE  status' = [a \in ABI |-> Unknown]
    <3>1. Asked \in NoPrecheck
      BY <1>1, <2>1, <2>3 DEF Asked
    <3>2. \A i \in DOMAIN Providers : i < call.next => Providers[i] \in NoPrecheck
      BY <2>1, <2>3, CacheAssumption
    <3>3. status = [a \in ABI |-> Unknown]
      BY <2>3, <3>2 DEF TestsInv, StepInv
    <3>. QED
      BY <1>7, <3>1, <3>3
  <2>. HIDE DEF asked, given
  <2>4. pc' = pc /\ test' = test
    BY <1>2
  <2>. QED
    BY <1>3, <2>1, <2>2, <2>3, <2>4 DEF TestsInv, StepInv
<1>12. DOMAIN content' = Dir
  BY <1>1, <1>3 DEF TypeInv
<1>. QED
  BY <1>1, <1>9, <1>10, <1>11, <1>12, CacheQuiet

LEMMA UploadKeeps ==
    ASSUME TestsInv, Upload, UNCHANGED runVars
    PROVE  TestsInv'
<1>. DEFINE x == Head(queue)
<1>1. /\ queue # <<>> /\ content' = [content EXCEPT ![x.dir] = Nothing] /\ queue' = Tail(queue)
      /\ UNCHANGED <<status, call>>
  BY DEF Upload
<1>2. PICK to \in SUBSET Writable :
          stored' = [p \in Provider |-> IF p \in to THEN stored[p] \cup ({content[x.dir]} \ {Nothing}) ELSE stored[p]]
  BY DEF Upload
<1>3. UNCHANGED <<inputs, report, installed, known_failures, test, pc, todo, code, specs_to_test, behaviour>>
  BY DEF runVars, inputs
<1>4. TypeInv /\ QueueInv /\ InstallInv /\ InstalledInv /\ ResultsInv /\ StepInv /\ StoredInv
  BY DEF TestsInv
<1>5. queue \in Seq(Action) /\ stored \in [Provider -> SUBSET ABI]
  BY <1>4 DEF TypeInv
<1>6. /\ Len(queue) \in Nat /\ Len(queue) >= 1 /\ x = queue[1] /\ x \in Action
      /\ Len(queue') = Len(queue) - 1 /\ queue' \in Seq(Action) /\ \A i \in 1 .. Len(queue') : queue'[i] = queue[i + 1]
  BY <1>1, <1>5, HeadTailProperties, EmptySeq
<1>. HIDE DEF x
<1>7. x.abi \in ABI /\ x.dir \in Dir
  BY <1>6, ActionFacts
<1>8. content[x.dir] = x.abi /\ Solid(x.abi) /\ Spent(x)
  BY <1>4, <1>6 DEF QueueInv
<1>9. TypeInv'
  <2>1. stored' \in [Provider -> SUBSET ABI]
    BY <1>2, <1>5, <1>7, <1>8
  <2>. QED
    BY <1>1, <1>3, <1>4, <1>6, <2>1 DEF TypeInv, inputs, report
<1>10. \A a : Spent(a) => Spent(a)'
  BY <1>3, <1>4, SpentSame
<1>11. \A a : (Solid(a)' <=> Solid(a)) /\ (Good(a)' <=> Good(a))
  BY <1>3 DEF Solid, Good
<1>12. StoredInv'
  <2>1. \A a \in ABI : Stored(a) => Stored(a)'
    BY <1>2 DEF Stored
  <2>2. \A a \in ABI : Stored(a)' => Stored(a) \/ a = x.abi
    BY <1>2, <1>8 DEF Stored
  <2>. QED
    BY <1>1, <1>4, <1>6, <1>8, <1>10, <1>11, <2>1, <2>2 DEF StoredInv
<1>13. QueueInv'
  <2>1. ASSUME NEW i \in 1 .. Len(queue')
        PROVE  /\ i + 1 \in 1 .. Len(queue) /\ queue'[i] = queue[i + 1]
               /\ content'[queue'[i].dir] = queue'[i].abi /\ Solid(queue[i].abi)' /\ Spent(queue[i])'
    <3>1. i + 1 \in 1 .. Len(queue) /\ i + 1 # 1 /\ queue'[i] = queue[i + 1]
      BY <1>6
    <3>2. content[queue[i + 1].dir] = queue[i + 1].abi /\ Solid(queue[i + 1].abi) /\ Spent(queue[i + 1])
      BY <1>4, <3>1 DEF QueueInv
    <3>3. queue[i + 1].dir # x.dir
      BY <1>4, <1>6, <3>1 DEF QueueInv
    <3>4. queue[i + 1].dir \in Dir
      BY <1>5, <3>1, ActionFacts
    <3>5. content'[queue[i + 1].dir] = content[queue[i + 1].dir]
      BY <1>1, <1>4, <3>3, <3>4 DEF TypeInv, x
    <3>. QED
      BY <1>10, <1>11, <3>1, <3>2, <3>5
  <2>2. ASSUME NEW i \in 1 .. Len(queue'), NEW j \in 1 .. Len(queue'), queue'[i].dir = queue'[j].dir
        PROVE  i = j
    <3>1. i + 1 \in 1 .. Len(queue) /\ j + 1 \in 1 .. Len(queue) /\ queue[i + 1].dir = queue[j + 1].dir
      BY <2>1, <2>2
    <3>2. i + 1 = j + 1
      BY <1>4, <3>1 DEF QueueInv
    <3>. QED
      BY <3>2
  <2>. QED
    BY <2>1, <2>2 DEF QueueInv
<1>14. InstalledInv' /\ ResultsInv'
  BY <1>3, <1>4, InstalledKept, ResultsKept
<1>15. TestAt(test)' = TestAt(test) /\ Plan' = Plan /\ LastAction' = LastAction /\ Adjusted' = Adjusted
       /\ \A S : Actions(S)' = Actions(S)
  BY <1>3, PlanSame
<1>16. StepInv'
  <2>1. Actions({Last(Adjusted)})' = Actions({Last(Adjusted)}) /\ Actions(Adjusted)' = Actions(Adjusted)
    BY <1>15 DEF Actions
  <2>. QED
    BY <1>1, <1>3, <1>4, <1>15, <2>1 DEF StepInv
<1>17. InstallInv'
  <2>1. \A t : TrueOutcome(t)' = TrueOutcome(t)
    BY <1>3, <1>11 DEF TrueOutcome
  <2>2. Verdict' = Verdict
    BY <1>3 DEF Verdict
  <2>. QED
    BY <1>3, <1>4, <1>11, <1>15, <2>1, <2>2 DEF InstallInv
<1>. QED
  BY <1>9, <1>12, <1>13, <1>14, <1>16, <1>17 DEF TestsInv

\* What the next action comes to: where it is installed it does, and where all that it needs does,
\* it comes to what it does by itself.
LEMMA OutcomeFacts ==
    ASSUME TestsInv, pc = "install", todo # {}, NEW f, f = First(todo), NEW x, x = Plan[f]
    PROVE  /\ f \in todo /\ f \in DOMAIN Plan /\ \A j \in todo : f <= j
           /\ x \in Action /\ x.abi \in ABI /\ x.dir \in Dir
           /\ Outcome(x) \in {"Succeeded", "FileConflicts", "BuildFailed", "Cascaded"}
           /\ Outcome(x) # "Cascaded" => Outcome(x) = behaviour[x.abi] /\ \A b \in Against[x.abi] : behaviour[b] = "Succeeded"
           /\ Outcome(x) = "Cascaded" => \E b \in Against[x.abi] : ~ Good(b)
           /\ Outcome(x) \in {"Succeeded", "FileConflicts"} => Solid(x.abi)
           /\ IsRestored(x.abi) => Outcome(x) \in {"Succeeded", "FileConflicts"}
<1>1. /\ TypeInv /\ InstallInv /\ InstalledInv /\ StoredInv
      /\ test \in DOMAIN Tests /\ ~ TestAt(test).unsupported /\ todo \in SUBSET DOMAIN Plan
  BY DEF TestsInv, StepInv, InstallInv
<1>2. Len(Plan) \in Nat /\ todo \in SUBSET (1 .. Len(Plan)) /\ DOMAIN Plan = 1 .. Len(Plan)
  BY <1>1, AtHand
<1>3. f \in todo /\ f \in DOMAIN Plan /\ \A j \in todo : f <= j
  BY <1>2, FirstFacts
<1>4. x \in Action /\ x.abi \in ABI /\ x.dir \in Dir
  BY <1>1, <1>3, AtHand
<1>5. Needs[x.abi] \subseteq {Plan[j].abi : j \in 1 .. f - 1}
  BY <1>1, <1>3, AtHand
<1>6. Against[x.abi] \in SUBSET ABI /\ Needs[x.abi] \subseteq Against[x.abi]
  BY <1>4, AgainstFacts
<1>7. behaviour[x.abi] \in {"Succeeded", "BuildFailed", "FileConflicts"}
  BY <1>1, <1>4, BuildsAssumption DEF TypeInv
<1>8. CASE IsRestored(x.abi)
  <2>1. Solid(x.abi)
    BY <1>1, <1>4, <1>8 DEF StoredInv, IsRestored
  <2>2. Outcome(x) = behaviour[x.abi] /\ Outcome(x) \in {"Succeeded", "FileConflicts"}
    BY <1>7, <1>8, <2>1 DEF Outcome, Solid
  <2>. QED
    BY <1>3, <1>4, <2>1, <2>2 DEF Solid
<1>9. CASE ~ IsRestored(x.abi) /\ Satisfied(x)
  <2>1. \A b \in Needs[x.abi] : Good(b)
    BY <1>1, <1>9 DEF Satisfied, InstalledInv
  <2>2. \A b \in Against[x.abi] : behaviour[b] = "Succeeded"
    BY <1>4, <2>1, GoodFacts
  <2>3. Outcome(x) = behaviour[x.abi]
    BY <1>9 DEF Outcome
  <2>. QED
    BY <1>3, <1>4, <1>7, <1>9, <2>2, <2>3 DEF Solid
<1>10. CASE ~ IsRestored(x.abi) /\ ~ Satisfied(x)
  <2>1. PICK b \in Needs[x.abi] : ~ \E y \in installed : y.abi = b
    BY <1>10 DEF Satisfied
  <2>2. PICK j \in 1 .. f - 1 : Plan[j].abi = b
    BY <1>5, <2>1
  <2>3. j \in DOMAIN Plan \ todo
    BY <1>2, <1>3, <2>2
  <2>4. ~ Good(b)
    BY <1>1, <2>1, <2>2, <2>3 DEF InstallInv
  <2>5. Outcome(x) = "Cascaded"
    BY <1>10 DEF Outcome
  <2>. QED
    BY <1>3, <1>4, <1>6, <1>10, <2>1, <2>4, <2>5
<1>. QED
  BY <1>8, <1>9, <1>10

LEMMA InstallStep ==
    ASSUME TestsInv, Install, NEW f, f = First(todo), NEW x, x = Plan[f]
    PROVE  TestsInv'
<1>1. /\ pc = "install" /\ todo # {} /\ code' = Outcome(x) /\ known_failures' = known_failures \cup Remember(x)
      /\ IF Outcome(x) \in {"Succeeded", "FileConflicts"}
         THEN /\ installed' = installed \cup (IF Outcome(x) = "Succeeded"
                                              THEN {[spec |-> x.spec, abi |-> x.abi]} ELSE {})
              /\ PushSuccess(x)
         ELSE UNCHANGED <<installed, status, queue, content>>
      /\ todo' = todo \ {f}
      /\ UNCHANGED <<call, stored, inputs, report, test, pc>>
  BY DEF Install
<1>2. UNCHANGED <<inputs, report, test, pc, specs_to_test, behaviour>>
  BY <1>1 DEF inputs
<1>3. /\ f \in todo /\ f \in DOMAIN Plan /\ \A j \in todo : f <= j
      /\ x \in Action /\ x.abi \in ABI /\ x.dir \in Dir
      /\ Outcome(x) \in {"Succeeded", "FileConflicts", "BuildFailed", "Cascaded"}
      /\ Outcome(x) # "Cascaded" => Outcome(x) = behaviour[x.abi] /\ \A b \in Against[x.abi] : behaviour[b] = "Succeeded"
      /\ Outcome(x) = "Cascaded" => \E b \in Against[x.abi] : ~ Good(b)
      /\ Outcome(x) \in {"Succeeded", "FileConflicts"} => Solid(x.abi)
      /\ IsRestored(x.abi) => Outcome(x) \in {"Succeeded", "FileConflicts"}
  BY <1>1, OutcomeFacts
<1>4. /\ TypeInv /\ StepInv /\ StoredInv /\ QueueInv /\ InstalledInv /\ InstallInv /\ ResultsInv
      /\ test \in DOMAIN Tests /\ ~ TestAt(test).unsupported /\ specs_to_test \in Sorted
  BY <1>1 DEF TestsInv, StepInv, TypeInv
<1>5. x = Plan[f]
  OBVIOUS
<1>6. /\ DOMAIN Plan = 1 .. Len(Plan) /\ Len(Plan) \in Nat \ {0} /\ LastAction = Plan[Len(Plan)] /\ LastAction.abi \in ABI
      /\ f # Len(Plan) => x.abi \in Against[LastAction.abi]
  BY <1>3, <1>4, AtHand
<1>7. f \notin Passed
  BY <1>1, <1>3 DEF Passed
<1>8. TestAt(test)' = TestAt(test) /\ Plan' = Plan /\ LastAction' = LastAction
  BY <1>2, PlanSame
<1>9. \A a : (Solid(a)' <=> Solid(a)) /\ (Good(a)' <=> Good(a))
  BY <1>2 DEF Solid, Good
<1>10. \A a : Spent(a) => Spent(a)'
  BY <1>1, <1>2, <1>4, SpentSame
<1>11. Spent(x)'
  <2>1. test' = test /\ f \in Passed'
    BY <1>1, <1>3, <1>8 DEF Passed
  <2>2. TestAt(test) = TestAt(test)' /\ x = TestAt(test).plan[f] /\ f \in DOMAIN TestAt(test).plan
    BY <1>3, <1>5, <1>8 DEF Plan
  <2>. QED
    BY <1>4, <1>8, <2>1, <2>2 DEF Spent
<1>12. \A i \in 1 .. Len(queue) : queue[i].dir # x.dir
  BY <1>3, <1>4, <1>5, <1>7, QueuedElsewhere
<1>13. \/ /\ queue' = queue
          /\ content' = content \/ content' = [content EXCEPT ![x.dir] = Nothing]
       \/ /\ queue' = Append(queue, x) /\ content' = [content EXCEPT ![x.dir] = x.abi]
          /\ Outcome(x) \in {"Succeeded", "FileConflicts"}
  BY <1>1 DEF PushSuccess
<1>14. queue \in Seq(Action) /\ DOMAIN content = Dir /\ \A i \in 1 .. Len(queue) : queue[i] \in Action /\ queue[i].dir \in Dir
  <2>1. queue \in Seq(Action) /\ DOMAIN content = Dir
    BY <1>4 DEF TypeInv
  <2>2. \A i \in 1 .. Len(queue) : queue[i] \in Action
    BY <2>1
  <2>. QED
    BY <2>1, <2>2, ActionFacts
<1>15. \A i \in 1 .. Len(queue) : content'[queue[i].dir] = content[queue[i].dir]
  BY <1>12, <1>13, <1>14
<1>16. status' \in [ABI -> Status] /\ \A a \in ABI : status'[a] = status[a] \/ status'[a] = Unknown
  <2>1. status \in [ABI -> Status]
    BY <1>4 DEF TypeInv
  <2>2. status' = status \/ status' = [status EXCEPT ![x.abi] = Unknown]
    BY <1>1 DEF PushSuccess
  <2>. QED
    BY <1>3, <2>1, <2>2, UnknownType
<1>17. TypeInv'
  <2>1. queue' \in Seq(Action) /\ DOMAIN content' = Dir
    BY <1>3, <1>13, <1>14
  <2>. QED
    BY <1>1, <1>2, <1>4, <1>16, <2>1 DEF TypeInv, inputs, report
<1>18. StepInv'
  BY <1>1, <1>2, <1>4, <1>8 DEF StepInv
<1>19. StoredInv'
  <2>1. \A a \in ABI : status'[a].state = "restored" \/ status'[a].provider # NoProvider => Stored(a)
    BY <1>4, <1>16, UnknownType DEF StoredInv
  <2>. QED
    BY <1>1, <1>2, <1>4, <1>10, <2>1, StoredKept
<1>20. QueueInv'
  <2>1. CASE queue' = queue
    BY <1>2, <1>4, <1>10, <1>15, <2>1, QueueKept
  <2>2. CASE queue' = Append(queue, x) /\ content' = [content EXCEPT ![x.dir] = x.abi]
             /\ Outcome(x) \in {"Succeeded", "FileConflicts"}
    <3>. DEFINE n == Len(queue)
    <3>1. /\ n \in Nat /\ Len(queue') = n + 1 /\ queue'[n + 1] = x /\ \A i \in 1 .. n : queue'[i] = queue[i]
      BY <1>3, <1>14, <2>2, AppendProperties
    <3>2. ASSUME NEW i \in 1 .. n + 1
          PROVE  content'[queue'[i].dir] = queue'[i].abi /\ Solid(queue[i].abi)' /\ Spent(queue[i])'
      <4>1. CASE i \in 1 .. n
        <5>1. content[queue[i].dir] = queue[i].abi /\ Solid(queue[i].abi) /\ Spent(queue[i]) /\ queue'[i] = queue[i]
          BY <1>4, <3>1, <4>1 DEF QueueInv
        <5>. QED
          BY <1>9, <1>10, <1>15, <4>1, <5>1
      <4>2. CASE i = n + 1
        <5>1. queue'[i] = x /\ content'[x.dir] = x.abi
          BY <1>3, <1>14, <2>2, <3>1, <4>2
        <5>. QED
          BY <1>3, <1>9, <1>11, <2>2, <5>1
      <4>. QED
        BY <3>1, <4>1, <4>2
    <3>3. ASSUME NEW i \in 1 .. n + 1, NEW j \in 1 .. n + 1, queue'[i].dir = queue'[j].dir
          PROVE  i = j
      <4>1. CASE i \in 1 .. n /\ j \in 1 .. n
        BY <1>4, <3>1, <3>3, <4>1 DEF QueueInv
      <4>2. CASE i \in 1 .. n /\ j = n + 1
        BY <1>12, <3>1, <3>3, <4>2
      <4>3. CASE i = n + 1 /\ j \in 1 .. n
        BY <1>12, <3>1, <3>3, <4>3
      <4>4. CASE i = n + 1 /\ j = n + 1
        BY <4>4
      <4>. QED
        BY <3>1, <4>1, <4>2, <4>3, <4>4
    <3>. QED
      BY <3>1, <3>2, <3>3 DEF QueueInv
  <2>. QED
    BY <1>13, <2>1, <2>2
<1>21. Outcome(x) = "Succeeded" => Good(x.abi)
  BY <1>3, GoodFacts
<1>22. \A y \in installed' : y \in installed \/ (Outcome(x) = "Succeeded" /\ y.abi = x.abi)
  BY <1>1
<1>23. InstalledInv'
  <2>1. ASSUME NEW a \in known_failures'
        PROVE  behaviour[a] # "Succeeded"
    <3>1. CASE a \in known_failures
      BY <1>4, <3>1 DEF InstalledInv
    <3>2. CASE a \in Remember(x)
      <4>1. a = x.abi /\ Outcome(x) \in {"BuildFailed", "FileConflicts"}
        BY <3>2 DEF Remember
      <4>. QED
        BY <1>3, <4>1
    <3>. QED
      BY <1>1, <3>1, <3>2
  <2>2. \A y \in installed' : y.abi \in ABI /\ Good(y.abi)
    BY <1>3, <1>4, <1>21, <1>22 DEF InstalledInv
  <2>. QED
    BY <1>2, <1>9, <2>1, <2>2 DEF InstalledInv
<1>24. ResultsInv'
  BY <1>2, <1>4, ResultsKept
<1>25. Good(x.abi) => Outcome(x) = "Succeeded"
  <2>1. Good(x.abi) => behaviour[x.abi] = "Succeeded" /\ \A b \in Against[x.abi] : Good(b)
    BY <1>3, GoodFacts
  <2>. QED
    BY <1>3, <2>1
<1>26. InstallInv'
  <2>1. todo' \subseteq DOMAIN Plan
    BY <1>1, <1>4 DEF InstallInv
  <2>2. ASSUME NEW i \in DOMAIN Plan \ todo', Good(Plan[i].abi)
        PROVE  \E y \in installed' : y.abi = Plan[i].abi
    <3>1. CASE i \notin todo
      <4>1. PICK y \in installed : y.abi = Plan[i].abi
        BY <1>1, <1>4, <2>2, <3>1 DEF InstallInv
      <4>2. installed \subseteq installed'
        BY <1>1
      <4>. QED
        BY <4>1, <4>2
    <3>2. CASE i \in todo
      <4>1. i = f
        BY <1>1, <2>2, <3>2
      <4>2. Outcome(x) = "Succeeded" /\ Plan[i].abi = x.abi
        BY <1>5, <1>25, <2>2, <4>1
      <4>3. [spec |-> x.spec, abi |-> x.abi] \in installed'
        BY <1>1, <4>2
      <4>. QED
        BY <4>2, <4>3
    <3>. QED
      BY <3>1, <3>2
  <2>3. f = Len(Plan) => todo = {f}
    <3>1. \A j \in todo : j <= Len(Plan) /\ j \in Nat
      BY <1>1, <1>4, <1>6 DEF InstallInv
    <3>. QED
      BY <1>3, <1>6, <3>1
  <2>4. todo' # {} => Len(Plan) \in todo' \/ Good(LastAction.abi)
    BY <1>1, <1>4, <2>3 DEF InstallInv
  <2>5. ASSUME todo' = {}
        PROVE  Verdict' = TrueOutcome(TestAt(test))
    <3>1. todo = {f}
      BY <1>1, <1>3, <2>5
    <3>2. CASE f = Len(Plan)
      <4>1. x = LastAction
        BY <1>5, <1>6, <3>2
      <4>2. CASE Outcome(x) = "Cascaded"
        <5>1. Verdict' = "Cascade"
          BY <1>1, <4>2 DEF Verdict
        <5>2. TrueOutcome(TestAt(test)) = "Cascade"
          BY <1>3, <4>1, <4>2 DEF TrueOutcome, LastAction
        <5>. QED
          BY <5>1, <5>2
      <4>3. CASE Outcome(x) # "Cascaded"
        <5>1. \A b \in Against[x.abi] : Good(b)
          <6>1. \A b \in Against[x.abi] : b \in ABI /\ Against[b] \subseteq Against[x.abi]
            BY <1>3, AgainstFacts
          <6>. QED
            BY <1>3, <4>3, <6>1 DEF Good
        <5>2. Verdict' = (IF behaviour[x.abi] = "Succeeded" THEN "Pass" ELSE "Fail")
          BY <1>1, <1>3, <4>3 DEF Verdict
        <5>. QED
          BY <1>4, <4>1, <5>1, <5>2 DEF TrueOutcome, LastAction
      <4>. QED
        BY <4>2, <4>3
    <3>3. CASE f # Len(Plan)
      <4>1. Good(LastAction.abi)
        BY <1>1, <1>4, <3>1, <3>3 DEF InstallInv
      <4>2. Good(x.abi)
        BY <1>6, <3>3, <4>1, GoodFacts
      <4>3. Verdict' = "Pass"
        BY <1>1, <1>25, <4>2 DEF Verdict
      <4>. QED
        BY <1>4, <4>1, <4>3, PassFacts
    <3>. QED
      BY <3>2, <3>3
  <2>6. \A t : TrueOutcome(t)' = TrueOutcome(t)
    BY <1>2, <1>9 DEF TrueOutcome
  <2>. QED
    BY <1>1, <1>2, <1>8, <1>9, <2>1, <2>2, <2>4, <2>5, <2>6 DEF InstallInv
<1>. QED
  BY <1>17, <1>18, <1>19, <1>20, <1>23, <1>24, <1>26 DEF TestsInv

LEMMA InstallKeeps ==
    ASSUME TestsInv, Install
    PROVE  TestsInv'
<1>1. \E f : f = First(todo)
  OBVIOUS
<1>2. PICK f : f = First(todo)
  BY <1>1
<1>3. \E x : x = Plan[f]
  OBVIOUS
<1>4. PICK x : x = Plan[f]
  BY <1>3
<1>. QED
  BY <1>2, <1>4, InstallStep

LEMMA StutterKeeps ==
    ASSUME TestsInv, UNCHANGED vars
    PROVE  TestsInv'
<1>1. UNCHANGED runVars /\ UNCHANGED <<status, call, content, queue, stored>>
  BY DEF vars, cacheVars
<1>2. UNCHANGED <<inputs, report, installed, known_failures, test, pc, todo, code, specs_to_test>>
  BY <1>1 DEF runVars, inputs
<1>3. StepInv'
  <2>1. TestAt(test)' = TestAt(test) /\ Adjusted' = Adjusted
        /\ Actions({Last(Adjusted)})' = Actions({Last(Adjusted)}) /\ Actions(Adjusted)' = Actions(Adjusted)
    BY <1>2, PlanSame
  <2>. QED
    BY <1>1, <1>2, <2>1 DEF TestsInv, StepInv
<1>4. DOMAIN content' = Dir
  BY <1>1 DEF TestsInv, TypeInv
<1>. QED
  BY <1>1, <1>3, <1>4, KnownSame, CacheQuiet

LEMMA NextKeeps ==
    ASSUME OneAnswers, TestsInv, [NextRun]_vars
    PROVE  TestsInv'
<1>1. CASE UNCHANGED vars
  BY <1>1, StutterKeeps
<1>2. CASE CacheStep /\ UNCHANGED runVars
  BY <1>2, FetchFromKeeps, PrecheckFromKeeps, UploadKeeps DEF CacheStep
<1>3. CASE TestStep
  BY <1>3, PrecheckAllKeeps, PrecheckedAllKeeps, UnsupportedKeeps, DependencyWillFailKeeps, AlreadyInstalledKeeps,
     PrecheckTestKeeps, AlreadyInBinaryCacheKeeps, ClearKeeps, FetchKeeps, RemoveOthersKeeps, InstallKeeps,
     TestEndsKeeps, JoinKeeps DEF TestStep
<1>. QED
  BY <1>1, <1>2, <1>3 DEF NextRun

LEMMA TestsInvHolds == OneAnswers => (FairRun => []TestsInv)
<1>. SUFFICES ASSUME OneAnswers
              PROVE  FairRun => []TestsInv
  OBVIOUS
<1>1. InitRun => TestsInv
  BY InitTests
<1>2. TestsInv /\ [NextRun]_vars => TestsInv'
  BY NextKeeps
<1>. QED
  BY <1>1, <1>2, PTL DEF FairRun, Run

--------------------------------------------------------------------------------
(***************************************************************************)
(* The theorems.                                                           *)
(***************************************************************************)

\* Whatever ran before, failed, was restored or is left over, a test of x-test-features gets the
\* outcome it has by itself (commands.test-features.cpp, the loop over specs_to_test).
THEOREM VerdictIsOwnHolds == OneAnswers => (FairRun => []VerdictIsOwn)
<1>. SUFFICES ASSUME OneAnswers
              PROVE  FairRun => []VerdictIsOwn
  OBVIOUS
<1>1. TestsInv => VerdictIsOwn
  <2>. SUFFICES ASSUME TestsInv
                PROVE  VerdictIsOwn
    OBVIOUS
  <2>1. DOMAIN results = 1 .. test - 1
    <3>1. results \in Seq({"Pass", "Fail", "Cascade"}) /\ Len(results) = test - 1
      BY DEF TestsInv, TypeInv
    <3>. QED
      BY <3>1, LenProperties
  <2>. QED
    BY <2>1 DEF TestsInv, ResultsInv, VerdictIsOwn
<1>2. FairRun => []TestsInv
  BY TestsInvHolds
<1>. QED
  BY <1>1, <1>2, PTL

\* A command that reports nothing of any test has a baseline in which every mark is right
\* (handle_pass_, handle_fail_ and handle_cascade_feature_test_result).
THEOREM MarksAreRightHolds == OneAnswers => (FairRun => []MarksAreRight)
<1>. SUFFICES ASSUME OneAnswers
              PROVE  FairRun => []MarksAreRight
  OBVIOUS
<1>1. TestsInv => MarksAreRight
  <2>. SUFFICES ASSUME TestsInv, pc = "done", diagnostics = {}, NEW i \in DOMAIN Tests
                PROVE  TrueOutcome(TestAt(i)) \in
                           CASE expected[specs_to_test[i]] = "ExplicitPass" -> {"Pass"}
                             [] expected[specs_to_test[i]] = "ImplicitPass" ->
                                    IF all_ports THEN {"Pass"} ELSE {"Pass", "Cascade"}
                             [] expected[specs_to_test[i]] \in {"PortMarkedFail", "FeatureFail", "ConfigurationFail"} ->
                                    {"Fail"}
                             [] OTHER -> {"Cascade"}
    BY DEF MarksAreRight
  <2>1. i \in 1 .. test - 1
    <3>1. test = Len(Tests) + 1
      BY DEF TestsInv, StepInv
    <3>. QED
      BY <3>1, TestsAssumption
  <2>. DEFINE outcome == TrueOutcome(TestAt(i))
              mark == expected[specs_to_test[i]]
  <2>2. ~ Reported(outcome, mark)
    BY <2>1 DEF TestsInv, ResultsInv
  <2>3. outcome \in {"Pass", "Fail", "Cascade"}
    BY OutcomeType
  <2>. HIDE DEF outcome, mark
  <2>4. outcome \in CASE mark = "ExplicitPass" -> {"Pass"}
                      [] mark = "ImplicitPass" -> IF all_ports THEN {"Pass"} ELSE {"Pass", "Cascade"}
                      [] mark \in {"PortMarkedFail", "FeatureFail", "ConfigurationFail"} -> {"Fail"}
                      [] OTHER -> {"Cascade"}
    <3>1. CASE outcome = "Pass"
      BY <2>2, <3>1 DEF Reported
    <3>2. CASE outcome = "Fail"
      BY <2>2, <3>2 DEF Reported
    <3>3. CASE outcome = "Cascade"
      BY <2>2, <3>3 DEF Reported
    <3>. QED
      BY <2>3, <3>1, <3>2, <3>3
  <2>. QED
    BY <2>4 DEF outcome, mark
<1>2. FairRun => []TestsInv
  BY TestsInvHolds
<1>. QED
  BY <1>1, <1>2, PTL
================================================================================

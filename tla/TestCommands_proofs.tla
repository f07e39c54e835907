-------------------------- MODULE TestCommands_proofs --------------------------
(***************************************************************************)
(* Ci, for any ports, baselines, arguments and caches: what vcpkg ci       *)
(* prunes, it need not build (CiInv), and as long as one provider answers  *)
(* precheck at most, a run that reports nothing has tried what it was to   *)
(* try, and a run with a right baseline reports nothing.  RunInv is about  *)
(* the plan and the files, and is what CiInv rests on; JudgedInv adds that *)
(* only packages whose dependencies all build are ever stored or           *)
(* installed, and what that makes of the results.                          *)
(*                                                                         *)
(* FeatureTests, for any ports and baseline entries: the combined test is  *)
(* clean, and each feature is tested (unless another port has one of the   *)
(* same name).                                                             *)
(***************************************************************************)
EXTENDS Ci, FeatureTests, WellFoundedInduction, FiniteSetTheorems, SequenceTheorems, TLAPS

\* At most one provider answers precheck: where several do, the answers of the second are noted for
\* other packages (PrecheckTells of FeatureTestRun).
OneAnswers == \A i, j \in DOMAIN Providers : Providers[i] \notin NoPrecheck /\ Providers[j] \notin NoPrecheck => i = j

(***************************************************************************)
(* The invariant of the plan and the files.                                *)
(***************************************************************************)
Status == [state : {"unknown", "available", "restored"}, unavailable : SUBSET Provider,
           provider : Provider \cup {NoProvider}]
Steps == {"start", "precheck", "prechecking", "prune", "adjust", "fetch", "fetching", "install", "join", "done"}

TypeInv ==
    /\ status \in [Spec -> Status] /\ stored \in [Provider -> SUBSET Spec]
    /\ content \in [Spec -> Spec \cup {Nothing}] /\ \A s \in Spec : content[s] \in {s, Nothing}
    /\ queue \in Seq({Action(s) : s \in Spec})
    /\ behaviour \in Behaviours /\ input \in Inputs /\ order \in Orders
    /\ installed \in SUBSET Spec /\ plan \in SUBSET Spec /\ todo \in SUBSET plan /\ to_keep \in SUBSET Spec
    /\ DOMAIN results = Spec /\ runs \in Nat \ {0}

CallInv ==
    /\ pc \in Steps
    /\ call = [op |-> call.op, actions |-> call.actions, next |-> call.next]
    /\ call.next \in 0 .. Len(Providers) + 1
    /\ pc = "prechecking" => call.op = "precheck" /\ call.actions = Actions(plan)
    /\ pc = "fetching" => call.op = "fetch" /\ call.actions = Actions(todo)
    /\ pc \notin {"prechecking", "fetching"} => call = NoCall

StepInv ==
    /\ pc \in {"start", "precheck", "prechecking", "adjust", "join", "done"} => todo = {}
    /\ pc # "start" => \A s \in Spec : skipped[s] = IF s \in Ports THEN SkipReason(s) ELSE "no"
    /\ pc \in {"adjust", "fetch", "fetching", "install"} => ~ input.dry_run

\* What the plan is made of.
Wanted == Closure(Requested(skipped))
Roots == {s \in Spec : known[s] \in ToBuild}
Known == {"BuildFailed", "Cached", "SkippedBySkipFailures", "SkippedByParentHashes", "SkippedByDryRun"}
IsKnown == pc \in {"prune", "adjust", "fetch", "fetching", "install", "join", "done"}

KnownInv ==
    IsKnown => \A s \in Spec :
        /\ skipped[s] # "no" => known[s] = SkippedResult(skipped[s])
        /\ skipped[s] = "no" /\ s \notin Wanted => known[s] = "none"
        /\ skipped[s] = "no" /\ s \in Wanted => known[s] \in Known

\* The position of a spec in the plan.
At(s) == CHOOSE i \in DOMAIN order : order[i] = s

PlanInv ==
    /\ pc \in {"precheck", "prechecking", "prune"} => plan = Wanted
    /\ pc \in {"adjust", "fetch", "fetching", "install", "join", "done"} => plan = Closure(Roots)
    /\ pc = "prune" =>
          /\ \A s \in plan \ todo, r \in todo : At(r) < At(s)
          /\ to_keep \subseteq Closure(Roots)
          /\ Roots \ todo \subseteq to_keep
          /\ \A s \in to_keep \ todo : Needs[s] \subseteq to_keep

FilesInv ==
    /\ pc \notin {"install", "join"} => queue = <<>>
    /\ \A i \in 1 .. Len(queue) : content[queue[i].dir] = queue[i].abi /\ queue[i].abi \notin todo
    /\ \A i, j \in 1 .. Len(queue) : queue[i] = queue[j] => i = j
    /\ \A s \in Spec : status[s].state = "restored" =>
          pc \in {"fetching", "install", "join", "done"} /\ (s \in todo => content[s] = s)

RunInv == TypeInv /\ CallInv /\ StepInv /\ KnownInv /\ PlanInv /\ FilesInv

(***************************************************************************)
(* The invariant of the results.                                           *)
(***************************************************************************)
Stored(s) == \E p \in Provider : s \in stored[p]

\* It can have been built.
Solid(s) == Truth(s) # "cascades" /\ behaviour[s] # "BuildFailed"

Asks == \E i \in DOMAIN Providers : i < call.next /\ Providers[i] \notin NoPrecheck

CacheInv ==
    /\ \A s \in Spec : status[s].state = "restored" \/ status[s].provider # NoProvider => Stored(s)
    /\ \A s \in Spec : Stored(s) => Solid(s)
    /\ \A i \in 1 .. Len(queue) : Solid(queue[i].abi)
    /\ \A s \in Spec : runs = 1 /\ Stored(s) /\ behaviour[s] = "FileConflicts" =>
          pc \in {"install", "join", "done"} /\ s \notin todo
    /\ pc \in {"start", "precheck"} \/ (pc = "prechecking" /\ ~ Asks) => status = [s \in Spec |-> Unknown]

TruthInv ==
    /\ \A s \in installed : Truth(s) = "builds"
    /\ \A s \in input.known_failures : Truth(s) = "fails" /\ behaviour[s] = "BuildFailed"
    /\ IsKnown => \A s \in Spec :
          /\ known[s] = "Cached" => Stored(s) /\ (runs = 1 => behaviour[s] = "Succeeded")
          /\ known[s] = "BuildFailed" => s \in input.known_failures
          /\ known[s] = "SkippedBySkipFailures" => input.mark[s] = "fail"
          /\ known[s] = "SkippedByParentHashes" => s \in input.parent_hashes

\* The action of a spec has been executed, or there was nothing to do for it.
Executes == pc \in {"fetch", "fetching", "install", "join", "done"} /\ ~ input.dry_run

Judged(s) ==
    CASE Truth(s) = "builds" -> s \in installed /\ results[s] \in {"Succeeded", known[s]}
      [] Truth(s) = "fails" -> results[s] = behaviour[s]
      [] OTHER -> results[s] = "CascadedDueToMissingDependencies"

ResultsInv ==
    /\ IsKnown => \A s \in Spec : IF Executes /\ s \in plan \ todo THEN Judged(s) ELSE results[s] = known[s]
    /\ pc = "done" => failed = \E s \in Spec : results[s] # "none" /\ Regression(results[s], input.mark[s])

JudgedInv == RunInv /\ CacheInv /\ TruthInv /\ ResultsInv

--------------------------------------------------------------------------------
(***************************************************************************)
(* Positions, and what a package needs.                                    *)
(***************************************************************************)

\* Of some naturals, one is the least.
LEMMA LeastNatural ==
    ASSUME NEW S \in SUBSET Nat, S # {}
    PROVE  \E m \in S : \A n \in S : m <= n
<1>. DEFINE R == OpToRel(<, Nat)
<1>1. IsWellFoundedOn(R, Nat)
  BY NatLessThanWellFounded
<1>2. \A x, y \in Nat : <<y, x>> \in R <=> y < x
  BY DEF OpToRel
<1>. HIDE DEF R
<1>3. PICK m \in S : \A n \in S : ~ (<<n, m>> \in R)
  BY <1>1, WFMin
<1>4. ASSUME NEW n \in S
      PROVE  m <= n
  <2>1. ~ (n < m)
    BY <1>2, <1>3
  <2>. QED
    BY <2>1
<1>. QED
  BY <1>4

\* ... and of some up to a bound, one is the greatest.
LEMMA GreatestNatural ==
    ASSUME NEW n \in Nat, NEW S \in SUBSET (1 .. n), S # {}
    PROVE  \E m \in S : \A j \in S : j <= m
<1>. DEFINE T == {n - i : i \in S}
<1>1. T \in SUBSET Nat /\ T # {}
  <2>1. \A i \in S : n - i \in Nat
    OBVIOUS
  <2>. QED
    BY <2>1
<1>2. PICK m \in T : \A k \in T : m <= k
  BY <1>1, LeastNatural
<1>3. PICK i \in S : m = n - i
  BY <1>2
<1>4. \A j \in S : n - i <= n - j
  BY <1>2, <1>3
<1>5. \A j \in S : j <= i
  BY <1>4
<1>. QED
  BY <1>5

LEMMA OrderFacts ==
    ASSUME order \in Orders
    PROVE  /\ Len(order) \in Nat /\ DOMAIN order = 1 .. Len(order) /\ \A i \in DOMAIN order : order[i] \in Spec
           /\ \A s \in Spec : At(s) \in DOMAIN order /\ order[At(s)] = s
           /\ \A i \in DOMAIN order : At(order[i]) = i
           /\ \A s \in Spec : \A n \in Needs[s] : n \in Spec /\ At(n) < At(s)
<1>1. /\ order \in Seq(Spec)
      /\ \A s \in Spec : \E i \in DOMAIN order : order[i] = s
      /\ \A i, j \in DOMAIN order : order[i] = order[j] => i = j
      /\ \A i, j \in DOMAIN order : order[i] \in Needs[order[j]] => i < j
      /\ Needs \in [Spec -> SUBSET Spec]
  BY CiAssumption
<1>2. Len(order) \in Nat /\ DOMAIN order = 1 .. Len(order) /\ \A i \in DOMAIN order : order[i] \in Spec
  BY <1>1, LenProperties, ElementOfSeq
<1>3. \A s \in Spec : At(s) \in DOMAIN order /\ order[At(s)] = s
  BY <1>1 DEF At
<1>4. \A i \in DOMAIN order : At(order[i]) = i
  BY <1>1, <1>2, <1>3
<1>5. \A s \in Spec : \A n \in Needs[s] : n \in Spec /\ At(n) < At(s)
  BY <1>1, <1>3
<1>. QED
  BY <1>2, <1>3, <1>4, <1>5

LEMMA EndFacts ==
    ASSUME order \in Orders, NEW S \in SUBSET Spec, S # {}
    PROVE  /\ FirstOf(S) \in S /\ \A r \in S : At(FirstOf(S)) <= At(r)
           /\ LastOf(S) \in S /\ \A r \in S : At(r) <= At(LastOf(S))
<1>1. /\ Len(order) \in Nat /\ DOMAIN order = 1 .. Len(order)
      /\ \A s \in Spec : At(s) \in DOMAIN order /\ order[At(s)] = s
      /\ \A i \in DOMAIN order : At(order[i]) = i
  BY OrderFacts
<1>2. Positions(S) \in SUBSET (1 .. Len(order)) /\ \A r \in S : At(r) \in Positions(S)
  BY <1>1 DEF Positions
<1>3. Positions(S) # {} /\ Positions(S) \in SUBSET Nat
  BY <1>1, <1>2
<1>4. \E i \in Positions(S) : \A j \in Positions(S) : i <= j
  BY <1>3, LeastNatural
<1>5. \E i \in Positions(S) : \A j \in Positions(S) : j <= i
  BY <1>1, <1>2, <1>3, GreatestNatural
<1>6. PICK f \in Positions(S) : FirstOf(S) = order[f] /\ \A j \in Positions(S) : f <= j
  BY <1>4 DEF FirstOf
<1>7. PICK l \in Positions(S) : LastOf(S) = order[l] /\ \A j \in Positions(S) : j <= l
  BY <1>5 DEF LastOf
<1>8. FirstOf(S) \in S /\ At(FirstOf(S)) = f /\ LastOf(S) \in S /\ At(LastOf(S)) = l
  BY <1>1, <1>6, <1>7 DEF Positions
<1>. QED
  BY <1>2, <1>6, <1>7, <1>8

\* The closure of some packages is the least closed set that has them.
LEMMA ClosureFacts ==
    ASSUME NEW S \in SUBSET Spec
    PROVE  /\ S \subseteq Closure(S) /\ Closure(S) \in SUBSET Spec
           /\ \A s \in Closure(S) : Needs[s] \subseteq Closure(S)
           /\ \A C \in SUBSET Spec : S \subseteq C /\ (\A s \in C : Needs[s] \subseteq C) => Closure(S) \subseteq C
<1>1. Needs \in [Spec -> SUBSET Spec]
  BY CiAssumption
<1>2. S \subseteq Closure(S) /\ Closure(S) \in SUBSET Spec
  BY DEF Closure
<1>3. \A C \in SUBSET Spec : S \subseteq C /\ (\A s \in C : Needs[s] \subseteq C) => Closure(S) \subseteq C
  BY DEF Closure, ClosedSets, Closed
<1>4. ASSUME NEW s \in Closure(S), NEW n \in Needs[s]
      PROVE  n \in Closure(S)
  <2>1. n \in Spec
    BY <1>1, <1>2
  <2>2. ASSUME NEW C \in ClosedSets, S \subseteq C
        PROVE  n \in C
    <3>1. s \in C
      BY <2>2 DEF Closure
    <3>. QED
      BY <3>1 DEF ClosedSets, Closed
  <2>. QED
    BY <2>1, <2>2 DEF Closure
<1>. QED
  BY <1>2, <1>3, <1>4

LEMMA ClosureOfFacts ==
    ASSUME NEW s \in Spec
    PROVE  /\ ClosureOf[s] \in SUBSET Spec /\ s \in ClosureOf[s]
           /\ Needs[s] \in SUBSET Spec /\ Needs[s] \subseteq ClosureOf[s]
           /\ \A r \in ClosureOf[s] : ClosureOf[r] \subseteq ClosureOf[s]
           /\ \A r \in ClosureOf[s] : r = s \/ \E n \in Needs[s] : r \in ClosureOf[n]
<1>1. Needs \in [Spec -> SUBSET Spec]
  BY CiAssumption
<1>2. \A x \in Spec : {x} \in SUBSET Spec /\ ClosureOf[x] = Closure({x})
  BY DEF ClosureOf
<1>3. ASSUME NEW x \in Spec
      PROVE  /\ ClosureOf[x] \in SUBSET Spec /\ x \in ClosureOf[x]
             /\ \A r \in ClosureOf[x] : Needs[r] \subseteq ClosureOf[x]
             /\ \A C \in SUBSET Spec : x \in C /\ (\A r \in C : Needs[r] \subseteq C) => ClosureOf[x] \subseteq C
  <2>1. \A S \in SUBSET Spec :
           /\ S \subseteq Closure(S) /\ Closure(S) \in SUBSET Spec
           /\ \A r \in Closure(S) : Needs[r] \subseteq Closure(S)
           /\ \A C \in SUBSET Spec : S \subseteq C /\ (\A r \in C : Needs[r] \subseteq C) => Closure(S) \subseteq C
    BY ClosureFacts
  <2>2. /\ {x} \subseteq Closure({x}) /\ Closure({x}) \in SUBSET Spec
        /\ \A r \in Closure({x}) : Needs[r] \subseteq Closure({x})
        /\ \A C \in SUBSET Spec : {x} \subseteq C /\ (\A r \in C : Needs[r] \subseteq C) => Closure({x}) \subseteq C
    BY <1>2, <2>1
  <2>3. ClosureOf[x] = Closure({x})
    BY <1>2
  <2>. QED
    BY <2>2, <2>3
<1>4. \A r \in ClosureOf[s] : ClosureOf[r] \subseteq ClosureOf[s]
  BY <1>3
<1>. DEFINE C == {s} \cup UNION {ClosureOf[n] : n \in Needs[s]}
<1>5. C \in SUBSET Spec /\ s \in C
  BY <1>1, <1>3
<1>6. ASSUME NEW r \in C
      PROVE  Needs[r] \subseteq C
  <2>1. CASE r = s
    BY <1>1, <1>3, <2>1
  <2>2. CASE \E n \in Needs[s] : r \in ClosureOf[n]
    BY <1>1, <1>3, <2>2
  <2>. QED
    BY <2>1, <2>2
<1>7. ClosureOf[s] \subseteq C
  <2>. HIDE DEF C
  <2>. QED
    BY <1>3, <1>5, <1>6
<1>. QED
  BY <1>1, <1>3, <1>4, <1>7

\* What is in the closure of some packages is in the closure of one of them.
LEMMA ClosureOfOne ==
    ASSUME NEW S \in SUBSET Spec, NEW r \in Closure(S)
    PROVE  \E s \in S : r \in ClosureOf[s]
<1>. DEFINE C == UNION {ClosureOf[s] : s \in S}
<1>1. \A s \in S : s \in Spec
  OBVIOUS
<1>2. C \in SUBSET Spec /\ S \subseteq C
  BY <1>1, ClosureOfFacts
<1>3. ASSUME NEW x \in C
      PROVE  Needs[x] \subseteq C
  <2>1. PICK s \in S : x \in ClosureOf[s]
    OBVIOUS
  <2>2. x \in Spec /\ ClosureOf[x] \subseteq ClosureOf[s]
    BY <2>1, ClosureOfFacts
  <2>. QED
    BY <2>2, ClosureOfFacts
<1>4. Closure(S) \subseteq C
  <2>. HIDE DEF C
  <2>. QED
    BY <1>2, <1>3, ClosureFacts
<1>. QED
  BY <1>4

\* A package does not need itself.
LEMMA NotItself ==
    ASSUME order \in Orders, NEW s \in Spec, NEW n \in Needs[s]
    PROVE  s \notin ClosureOf[n]
<1>1. /\ \A x \in Spec : At(x) \in DOMAIN order /\ \A m \in Needs[x] : m \in Spec /\ At(m) < At(x)
      /\ DOMAIN order = 1 .. Len(order) /\ Len(order) \in Nat
  BY OrderFacts
<1>. DEFINE C == {x \in Spec : At(x) < At(s)}
<1>2. n \in C /\ s \notin C
  BY <1>1
<1>3. \A x \in C : Needs[x] \subseteq C
  BY <1>1
<1>4. {n} \in SUBSET Spec /\ ClosureOf[n] = Closure({n}) /\ C \in SUBSET Spec
  BY <1>2 DEF ClosureOf
<1>5. Closure({n}) \subseteq C
  <2>. HIDE DEF C
  <2>. QED
    BY <1>2, <1>3, <1>4, ClosureFacts
<1>. QED
  BY <1>2, <1>4, <1>5

\* A package does not cascade exactly if all that it needs builds.
LEMMA TruthFacts ==
    ASSUME order \in Orders, behaviour \in Behaviours, NEW s \in Spec
    PROVE  /\ Truth(s) \in {"builds", "fails", "cascades"}
           /\ Truth(s) = "cascades" <=> \E n \in Needs[s] : Truth(n) # "builds"
           /\ Truth(s) = "builds" => behaviour[s] = "Succeeded"
           /\ Truth(s) = "fails" => behaviour[s] \in {"BuildFailed", "FileConflicts"}
           /\ Truth(s) # "cascades" /\ behaviour[s] = "Succeeded" => Truth(s) = "builds"
<1>1. behaviour \in [Spec -> {"Succeeded", "BuildFailed", "FileConflicts"}]
  BY CiAssumption
<1>2. \A x \in Spec : Truth(x) = "builds" <=> \A r \in ClosureOf[x] : behaviour[r] = "Succeeded"
  BY ClosureOfFacts DEF Truth
<1>3. Truth(s) = "cascades" <=> \E r \in ClosureOf[s] \ {s} : behaviour[r] # "Succeeded"
  BY DEF Truth
<1>4. \A n \in Needs[s] : n \in Spec /\ n \in ClosureOf[s] /\ ClosureOf[n] \subseteq ClosureOf[s]
  BY ClosureOfFacts
<1>5. \A n \in Needs[s] : s \notin ClosureOf[n]
  BY NotItself
<1>6. (\E n \in Needs[s] : Truth(n) # "builds") => Truth(s) = "cascades"
  BY <1>2, <1>3, <1>4, <1>5
<1>7. ASSUME Truth(s) = "cascades"
      PROVE  \E n \in Needs[s] : Truth(n) # "builds"
  <2>1. PICK r \in ClosureOf[s] \ {s} : behaviour[r] # "Succeeded"
    BY <1>3, <1>7
  <2>2. PICK n \in Needs[s] : r \in ClosureOf[n]
    BY <2>1, ClosureOfFacts
  <2>. QED
    BY <1>2, <1>4, <2>1, <2>2
<1>. QED
  BY <1>1, <1>6, <1>7 DEF Truth

--------------------------------------------------------------------------------
(***************************************************************************)
(* Why a port is left out, and what does not change with the step.         *)
(***************************************************************************)
LEMMA ReasonFacts ==
    ASSUME NEW p
    PROVE  /\ SkipReason(p) \in {"no", "Supports", "SupportsCascade", "Baseline", "BaselineCascade"}
           /\ SkipReason(p) = "no" <=> /\ ClosureOf[p] \subseteq input.supported
                                       /\ p[1] \notin Skips(Target) /\ ~ CascadeForTriplet(ClosureOf[p])
           /\ SkipReason(p) \in {"Supports", "SupportsCascade"} => ~ (ClosureOf[p] \subseteq input.supported)
           /\ SkipReason(p) = "BaselineCascade" => CascadeForTriplet(ClosureOf[p])
<1>. DEFINE unsupported == ClosureOf[p] \ input.supported
<1>1. unsupported = {} <=> ClosureOf[p] \subseteq input.supported
  OBVIOUS
<1>2. SkipReason(p) = CASE \E s \in unsupported : s[1] = p[1] -> "Supports"
                        [] unsupported # {} /\ ~ \E s \in unsupported : s[1] = p[1] -> "SupportsCascade"
                        [] unsupported = {} /\ p[1] \in Skips(Target) -> "Baseline"
                        [] unsupported = {} /\ p[1] \notin Skips(Target) /\ CascadeForTriplet(ClosureOf[p]) ->
                             "BaselineCascade"
                        [] OTHER -> "no"
  BY DEF SkipReason
<1>3. (\E s \in unsupported : s[1] = p[1]) => unsupported # {}
  OBVIOUS
<1>. HIDE DEF unsupported
<1>. QED
  BY <1>1, <1>2, <1>3

LEMMA ReasonsSame ==
    ASSUME input' = input
    PROVE  \A s : SkipReason(s)' = SkipReason(s)
BY DEF SkipReason, Skips, CascadeForTriplet

LEMMA SkippedFacts ==
    ASSUME NEW reason \in {"Supports", "SupportsCascade", "Baseline", "BaselineCascade"}
    PROVE  SkippedResult(reason) \in LeftOut
BY DEF SkippedResult, LeftOut

LEMMA PlanSame ==
    ASSUME UNCHANGED <<input, skipped, known, order>>
    PROVE  /\ Wanted' = Wanted /\ Roots' = Roots /\ Closure(Roots)' = Closure(Roots)
           /\ \A s : At(s)' = At(s)
           /\ \A s : SkipReason(s)' = SkipReason(s)
           /\ plan' = plan => Actions(plan)' = Actions(plan)
           /\ todo' = todo => Actions(todo)' = Actions(todo)
<1>1. Wanted' = Wanted
  BY DEF Wanted, Requested, Closure
<1>2. Roots' = Roots
  BY DEF Roots
<1>3. Closure(Roots)' = Closure(Roots)
  BY <1>2 DEF Closure
<1>4. \A s : At(s)' = At(s)
  BY DEF At
<1>5. plan' = plan => Actions(plan)' = Actions(plan)
  BY DEF Actions, Positions
<1>6. todo' = todo => Actions(todo)' = Actions(todo)
  BY DEF Actions, Positions
<1>. QED
  BY <1>1, <1>2, <1>3, <1>4, <1>5, <1>6, ReasonsSame

\* A step that leaves the plan alone keeps what is known of it, if the next step of the run is not
\* about something else.
LEMMA PlanKept ==
    ASSUME RunInv, UNCHANGED <<input, skipped, known, order, plan, todo, to_keep, pc>>
    PROVE  StepInv' /\ KnownInv' /\ PlanInv'
<1>1. /\ Wanted' = Wanted /\ Roots' = Roots /\ Closure(Roots)' = Closure(Roots)
      /\ \A s : At(s)' = At(s)
      /\ \A s : SkipReason(s)' = SkipReason(s)
  BY PlanSame
<1>2. StepInv'
  BY <1>1 DEF RunInv, StepInv
<1>3. KnownInv'
  BY <1>1 DEF RunInv, KnownInv, IsKnown
<1>4. PlanInv'
  BY <1>1 DEF RunInv, PlanInv
<1>. QED
  BY <1>2, <1>3, <1>4

\* The directories and the packages of the plan.
LEMMA ActionFacts ==
    ASSUME order \in Orders, NEW S \in SUBSET Spec
    PROVE  /\ \A i \in DOMAIN Actions(S) : i \in DOMAIN order /\ order[i] \in S /\ Actions(S)[i] = Action(order[i])
           /\ \A s \in S : \E i \in DOMAIN Actions(S) : Actions(S)[i] = Action(s)
           /\ \A s : Action(s).abi = s /\ Action(s).dir = s
           /\ \E n \in Nat : DOMAIN Actions(S) \in SUBSET (1 .. n)
<1>1. DOMAIN Actions(S) = Positions(S) /\ \A i \in Positions(S) : Actions(S)[i] = Action(order[i])
  BY DEF Actions
<1>2. \A i \in Positions(S) : i \in DOMAIN order /\ order[i] \in S
  BY DEF Positions
<1>3. \A s \in S : At(s) \in Positions(S) /\ order[At(s)] = s
  BY OrderFacts DEF Positions
<1>4. Positions(S) \in SUBSET (1 .. Len(order)) /\ Len(order) \in Nat
  BY <1>2, OrderFacts
<1>. QED
  BY <1>1, <1>2, <1>3, <1>4 DEF Action

LEMMA QueueFacts ==
    ASSUME TypeInv
    PROVE  Len(queue) \in Nat /\ \A i \in 1 .. Len(queue) : queue[i].abi \in Spec /\ queue[i] = Action(queue[i].abi)
                                                            /\ queue[i].dir = queue[i].abi
<1>1. queue \in Seq({Action(s) : s \in Spec})
  BY DEF TypeInv
<1>2. Len(queue) \in Nat /\ \A i \in 1 .. Len(queue) : queue[i] \in {Action(s) : s \in Spec}
  BY <1>1, ElementOfSeq, LenProperties
<1>3. \A s \in Spec : Action(s).abi = s /\ Action(s).dir = s
  BY DEF Action
<1>. QED
  BY <1>2, <1>3

--------------------------------------------------------------------------------
(***************************************************************************)
(* The steps of the caches keep RunInv.                                    *)
(***************************************************************************)
LEMMA UnknownType == Unknown \in Status /\ Unknown.provider = NoProvider /\ Unknown.state = "unknown"
  BY DEF Unknown, Status

LEMMA FetchFromRun ==
    ASSUME RunInv, FetchFrom, UNCHANGED ciVars
    PROVE  /\ RunInv'
           /\ \A s \in Spec : /\ status'[s].provider = status[s].provider
                              /\ status'[s].state = "restored" => status[s].state = "restored" \/ Stored(s)
<1>1. /\ call.op = "fetch" /\ call.next \in DOMAIN Providers
      /\ call' = [call EXCEPT !.next = @ + 1] /\ UNCHANGED <<queue, stored>>
  BY DEF FetchFrom, Asking, Ask
<1>2. UNCHANGED <<behaviour, installed, input, skipped, order, plan, known, results, failed, to_keep, pc, todo, runs>>
  BY DEF ciVars
<1>3. pc = "fetching" /\ call.actions = Actions(todo) /\ TypeInv
  BY <1>1 DEF RunInv, CallInv, NoCall
<1>4. todo \in SUBSET Spec /\ order \in Orders /\ Asked \in Provider /\ ABI = Spec /\ Dir = Spec
  BY <1>1, <1>3, CiAssumption DEF TypeInv, Asked, Provider, Spec
<1>. DEFINE tried == Select(ShouldAttemptRestore)
<1>5. PICK got \in SUBSET {i \in tried : ABIAt(i) \in stored[Asked]} :
          /\ status' = [a \in ABI |->
                 IF \E i \in got : Fetched(i) = a THEN MarkRestored(status[a])
                 ELSE IF \E i \in tried : Fetched(i) = a THEN MarkUnavailable(status[a], Asked) ELSE status[a]]
          /\ content' = [d \in Dir |->
                 IF \E i \in got : call.actions[i].dir = d
                 THEN ABIAt(CHOOSE i \in got : call.actions[i].dir = d) ELSE content[d]]
  BY DEF FetchFrom
<1>6. got \subseteq DOMAIN call.actions
  BY DEF Select
<1>7. \A i \in DOMAIN call.actions : order[i] \in todo /\ call.actions[i].dir = order[i] /\ ABIAt(i) = order[i]
  BY <1>3, <1>4, ActionFacts DEF ABIAt
<1>8. ASSUME NEW a \in Spec
      PROVE  /\ status'[a] \in Status /\ status'[a].provider = status[a].provider
             /\ status'[a].state = "restored" =>
                    status[a].state = "restored" \/ ((\E i \in got : ABIAt(i) = a) /\ Stored(a))
  <2>1. status[a] \in Status
    BY <1>3 DEF TypeInv
  <2>2. CASE \E i \in got : Fetched(i) = a
    <3>1. Stored(a) /\ \E i \in got : ABIAt(i) = a
      BY <1>4, <2>2 DEF Fetched, Stored
    <3>2. status'[a] = MarkRestored(status[a])
      BY <1>4, <1>5, <2>2
    <3>. QED
      BY <2>1, <3>1, <3>2 DEF MarkRestored, Status
  <2>3. CASE ~ \E i \in got : Fetched(i) = a
    <3>1. status'[a] = MarkUnavailable(status[a], Asked) \/ status'[a] = status[a]
      BY <1>4, <1>5, <2>3
    <3>2. /\ MarkUnavailable(status[a], Asked) \in Status
          /\ MarkUnavailable(status[a], Asked).state = status[a].state
          /\ MarkUnavailable(status[a], Asked).provider = status[a].provider
      BY <1>4, <2>1 DEF MarkUnavailable, Status
    <3>. QED
      BY <2>1, <3>1, <3>2
  <2>. QED
    BY <2>2, <2>3
<1>9. ASSUME NEW d \in Spec
      PROVE  content'[d] = IF \E i \in got : ABIAt(i) = d THEN d ELSE content[d]
  <2>1. \A i \in got : call.actions[i].dir = ABIAt(i)
    BY <1>6, <1>7
  <2>2. CASE \E i \in got : ABIAt(i) = d
    <3>1. \E i \in got : call.actions[i].dir = d
      BY <2>1, <2>2
    <3>2. content'[d] = ABIAt(CHOOSE i \in got : call.actions[i].dir = d)
      BY <1>4, <1>5, <3>1
    <3>. QED
      BY <2>1, <2>2, <3>1, <3>2
  <2>3. CASE ~ \E i \in got : ABIAt(i) = d
    BY <1>4, <1>5, <2>1, <2>3
  <2>. QED
    BY <2>2, <2>3
<1>10. TypeInv'
  <2>1. status' \in [Spec -> Status]
    BY <1>4, <1>5, <1>8
  <2>2. \A s \in Spec : content'[s] \in {s, Nothing}
    BY <1>3, <1>9 DEF TypeInv
  <2>3. content' \in [Spec -> Spec \cup {Nothing}]
    <3>1. DOMAIN content' = Spec /\ content' = [d \in DOMAIN content' |-> content'[d]]
      BY <1>4, <1>5
    <3>. QED
      BY <2>2, <3>1
  <2>. QED
    BY <1>1, <1>2, <1>3, <2>1, <2>2, <2>3 DEF TypeInv
<1>11. CallInv'
  <2>1. /\ call'.op = call.op /\ call'.actions = call.actions /\ call'.next = call.next + 1
        /\ call' = [op |-> call'.op, actions |-> call'.actions, next |-> call'.next]
    BY <1>1 DEF RunInv, CallInv
  <2>2. call'.next \in 0 .. Len(Providers) + 1
    BY <1>1, <2>1, CacheAssumption
  <2>3. Actions(todo)' = Actions(todo)
    BY <1>2, PlanSame
  <2>. QED
    BY <1>1, <1>2, <1>3, <2>1, <2>2, <2>3 DEF CallInv, RunInv
<1>12. FilesInv'
  <2>1. queue = <<>> /\ \A s \in Spec : status[s].state = "restored" => (s \in todo => content[s] = s)
    BY <1>3 DEF RunInv, FilesInv
  <2>2. \A s \in Spec : status'[s].state = "restored" => (s \in todo => content'[s] = s)
    BY <1>8, <1>9, <2>1
  <2>. QED
    BY <1>1, <1>2, <1>3, <2>1, <2>2 DEF FilesInv
<1>. QED
  BY <1>2, <1>8, <1>10, <1>11, <1>12, PlanKept DEF RunInv

LEMMA MarkFacts ==
    ASSUME NEW s \in Status, NEW answers, Asked \in Provider
    PROVE  /\ Mark(s, answers) \in Status
           /\ Mark(s, answers).state = "restored" => s.state = "restored"
           /\ "available" \notin answers => Mark(s, answers).provider = s.provider
           /\ answers \subseteq {"unknown"} => Mark(s, answers) = s
<1>1. /\ MarkUnavailable(s, Asked) \in Status /\ MarkUnavailable(s, Asked).state = s.state
      /\ MarkUnavailable(s, Asked).provider = s.provider
  BY DEF MarkUnavailable, Status
<1>2. ASSUME NEW r \in Status
      PROVE  MarkAvailable(r, Asked) \in Status /\ (MarkAvailable(r, Asked).state = "restored" => r.state = "restored")
  BY DEF MarkAvailable, Status
<1>. QED
  BY <1>1, <1>2 DEF Mark

LEMMA PrecheckFromRun ==
    ASSUME RunInv, PrecheckFrom, UNCHANGED ciVars
    PROVE  RunInv'
<1>1. /\ call.op = "precheck" /\ call.next \in DOMAIN Providers
      /\ call' = [call EXCEPT !.next = @ + 1] /\ UNCHANGED <<content, queue, stored>>
  BY DEF PrecheckFrom, Asking, Ask
<1>2. UNCHANGED <<behaviour, installed, input, skipped, order, plan, known, results, failed, to_keep, pc, todo, runs>>
  BY DEF ciVars
<1>3. pc = "prechecking" /\ call.actions = Actions(plan) /\ TypeInv
  BY <1>1 DEF RunInv, CallInv, NoCall
<1>4. Asked \in Provider /\ ABI = Spec
  BY <1>1 DEF Asked, Provider, Spec
<1>. DEFINE asked == Select(ShouldAttemptPrecheck)
<1>5. PICK answers \in [asked -> {"available", "unavailable", "unknown"}] :
          status' = [a \in ABI |-> Mark(status[a], {answers[i] : i \in {j \in asked : Prechecked(asked, j) = a}})]
  BY DEF PrecheckFrom
<1>. DEFINE given(a) == {answers[i] : i \in {j \in asked : Prechecked(asked, j) = a}}
<1>6. status' = [a \in Spec |-> Mark(status[a], given(a))]
  BY <1>4, <1>5
<1>. HIDE DEF given, asked
<1>7. \A s \in Spec : status'[s] \in Status /\ (status'[s].state = "restored" => status[s].state = "restored")
  BY <1>3, <1>4, <1>6, MarkFacts DEF TypeInv
<1>8. TypeInv'
  <2>1. status' \in [Spec -> Status]
    BY <1>6, <1>7
  <2>. QED
    BY <1>1, <1>2, <1>3, <2>1 DEF TypeInv
<1>9. CallInv'
  <2>1. /\ call'.op = call.op /\ call'.actions = call.actions /\ call'.next = call.next + 1
        /\ call' = [op |-> call'.op, actions |-> call'.actions, next |-> call'.next]
    BY <1>1 DEF RunInv, CallInv
  <2>2. call'.next \in 0 .. Len(Providers) + 1
    BY <1>1, <2>1, CacheAssumption
  <2>3. Actions(plan)' = Actions(plan)
    BY <1>2, PlanSame
  <2>. QED
    BY <1>1, <1>2, <1>3, <2>1, <2>2, <2>3 DEF CallInv, RunInv
<1>10. FilesInv'
  BY <1>1, <1>2, <1>7 DEF RunInv, FilesInv
<1>. QED
  BY <1>2, <1>8, <1>9, <1>10, PlanKept DEF RunInv

LEMMA UploadRun ==
    ASSUME RunInv, Upload, UNCHANGED ciVars, NEW x, x = Head(queue)
    PROVE  /\ RunInv'
           /\ Len(queue) \in Nat /\ Len(queue) >= 1 /\ x = queue[1] /\ x.abi \in Spec /\ content[x.dir] = x.abi
           /\ \A s \in Spec : Stored(s)' => Stored(s) \/ s = x.abi
           /\ \A s \in Spec : Stored(s) => Stored(s)'
           /\ Len(queue') = Len(queue) - 1
           /\ \A i \in 1 .. Len(queue') : i + 1 \in 1 .. Len(queue) /\ queue'[i] = queue[i + 1]
<1>1. /\ queue # <<>> /\ content' = [content EXCEPT ![x.dir] = Nothing] /\ queue' = Tail(queue)
      /\ UNCHANGED <<status, call>>
  BY DEF Upload
<1>2. PICK to \in SUBSET Writable :
          stored' = [p \in Provider |-> IF p \in to THEN stored[p] \cup ({content[x.dir]} \ {Nothing}) ELSE stored[p]]
  BY DEF Upload
<1>3. UNCHANGED <<behaviour, installed, input, skipped, order, plan, known, results, failed, to_keep, pc, todo, runs>>
  BY DEF ciVars
<1>4. TypeInv /\ FilesInv /\ queue \in Seq({Action(s) : s \in Spec})
  BY DEF RunInv, TypeInv
<1>5. /\ Len(queue) \in Nat /\ Len(queue) >= 1 /\ x = queue[1]
      /\ Len(queue') = Len(queue) - 1 /\ queue' \in Seq({Action(s) : s \in Spec})
      /\ \A i \in 1 .. Len(queue') : queue'[i] = queue[i + 1]
  BY <1>1, <1>4, HeadTailProperties, EmptySeq
<1>6. \A i \in 1 .. Len(queue') : i + 1 \in 1 .. Len(queue) /\ i + 1 # 1 /\ queue'[i] = queue[i + 1]
  BY <1>5
<1>7. x.abi \in Spec /\ x.dir = x.abi /\ content[x.dir] = x.abi /\ x.abi \notin todo /\ x = Action(x.abi)
  BY <1>4, <1>5, QueueFacts DEF FilesInv
<1>8. /\ \A s \in Spec : Stored(s)' => Stored(s) \/ s = x.abi
      /\ \A s \in Spec : Stored(s) => Stored(s)'
  BY <1>2, <1>7 DEF Stored
<1>9. TypeInv'
  <2>1. stored' \in [Provider -> SUBSET Spec]
    BY <1>2, <1>4, <1>7 DEF TypeInv
  <2>2. content' \in [Spec -> Spec \cup {Nothing}] /\ \A s \in Spec : content'[s] \in {s, Nothing}
    BY <1>1, <1>4 DEF TypeInv
  <2>. QED
    BY <1>1, <1>3, <1>4, <1>5, <2>1, <2>2 DEF TypeInv
<1>10. CallInv'
  <2>1. Actions(todo)' = Actions(todo) /\ Actions(plan)' = Actions(plan)
    BY <1>3, PlanSame
  <2>. QED
    BY <1>1, <1>3, <2>1 DEF RunInv, CallInv
<1>11. FilesInv'
  <2>1. pc \in {"install", "join"}
    BY <1>1, <1>4 DEF FilesInv
  <2>2. ASSUME NEW i \in 1 .. Len(queue')
        PROVE  content'[queue'[i].dir] = queue'[i].abi /\ queue'[i].abi \notin todo
    <3>1. i + 1 \in 1 .. Len(queue) /\ i + 1 # 1 /\ queue'[i] = queue[i + 1]
      BY <1>6
    <3>2. /\ content[queue[i + 1].dir] = queue[i + 1].abi /\ queue[i + 1].abi \notin todo
          /\ queue[i + 1].dir = queue[i + 1].abi /\ queue[i + 1] = Action(queue[i + 1].abi) /\ queue[i + 1].abi \in Spec
      BY <1>4, <3>1, QueueFacts DEF FilesInv
    <3>3. queue[i + 1] # queue[1]
      BY <1>4, <1>5, <3>1 DEF FilesInv
    <3>4. queue[i + 1].dir # x.dir
      BY <1>5, <1>7, <3>2, <3>3
    <3>. QED
      BY <1>1, <1>4, <3>1, <3>2, <3>4 DEF TypeInv
  <2>3. ASSUME NEW i \in 1 .. Len(queue'), NEW j \in 1 .. Len(queue'), queue'[i] = queue'[j]
        PROVE  i = j
    <3>1. i + 1 \in 1 .. Len(queue) /\ j + 1 \in 1 .. Len(queue) /\ queue[i + 1] = queue[j + 1]
      BY <1>6, <2>3
    <3>2. i + 1 = j + 1
      BY <1>4, <3>1 DEF FilesInv
    <3>. QED
      BY <3>2
  <2>4. \A s \in Spec : s \in todo => content'[s] = content[s]
    BY <1>1, <1>4, <1>7 DEF TypeInv
  <2>. QED
    BY <1>1, <1>3, <1>4, <2>1, <2>2, <2>3, <2>4 DEF FilesInv
<1>. QED
  BY <1>3, <1>5, <1>6, <1>7, <1>8, <1>9, <1>10, <1>11, PlanKept DEF RunInv

--------------------------------------------------------------------------------
(***************************************************************************)
(* The steps of the run keep RunInv.                                       *)
(***************************************************************************)
LEMMA InitRunInv ==
    ASSUME InitCi
    PROVE  RunInv
<1>1. ABI = Spec /\ Dir = Spec
  BY CiAssumption DEF Spec
<1>2. TypeInv
  <2>1. status \in [Spec -> Status] /\ queue \in Seq({Action(s) : s \in Spec}) /\ content \in [Spec -> Spec \cup {Nothing}]
    BY <1>1, UnknownType DEF InitCi, InitCache
  <2>2. stored \in [Provider -> SUBSET Spec]
    BY <1>1, CacheAssumption DEF InitCi, InitCache
  <2>3. \A s \in Spec : content[s] \in {s, Nothing}
    BY <1>1 DEF InitCi, InitCache
  <2>. QED
    BY <2>1, <2>2, <2>3 DEF InitCi, TypeInv
<1>3. CallInv
  BY CacheAssumption DEF InitCi, InitCache, CallInv, NoCall, Steps
<1>4. StepInv /\ KnownInv /\ PlanInv
  BY DEF InitCi, StepInv, KnownInv, IsKnown, PlanInv
<1>5. FilesInv
  <2>1. \A s \in Spec : status[s].state # "restored"
    BY <1>1, UnknownType DEF InitCi, InitCache
  <2>. QED
    BY <2>1 DEF InitCi, InitCache, FilesInv
<1>. QED
  BY <1>2, <1>3, <1>4, <1>5 DEF RunInv

LEMMA WantedFacts ==
    /\ Requested(skipped) \in SUBSET Spec /\ Wanted \in SUBSET Spec
    /\ \A s \in Wanted : Needs[s] \subseteq Wanted
    /\ Roots \in SUBSET Spec /\ Closure(Roots) \in SUBSET Spec /\ Roots \subseteq Closure(Roots)
    /\ \A s \in Closure(Roots) : Needs[s] \subseteq Closure(Roots)
    /\ \A C \in SUBSET Spec : Roots \subseteq C /\ (\A s \in C : Needs[s] \subseteq C) => Closure(Roots) \subseteq C
<1>1. Requested(skipped) \in SUBSET Spec /\ Roots \in SUBSET Spec
  BY DEF Requested, Ports, Roots
<1>. QED
  BY <1>1, ClosureFacts DEF Wanted

LEMMA CalculateRun ==
    ASSUME RunInv, CalculateCiSpecs
    PROVE  RunInv'
<1>1. /\ pc = "start" /\ pc' = "precheck" /\ order' \in Orders
      /\ skipped' = [s \in Spec |-> IF s \in Ports THEN SkipReason(s) ELSE "no"]
      /\ plan' = Closure(Requested(skipped'))
      /\ UNCHANGED <<status, call, content, queue, stored>>
      /\ UNCHANGED <<behaviour, installed, input, known, results, failed, to_keep, todo, runs>>
  BY DEF CalculateCiSpecs, cacheVars
<1>2. plan' = Wanted' /\ todo = {}
  BY <1>1 DEF RunInv, StepInv, Wanted, Requested, Closure
<1>3. Requested(skipped') \in SUBSET Spec
  BY DEF Requested, Ports
<1>4. TypeInv'
  BY <1>1, <1>2, <1>3, ClosureFacts DEF RunInv, TypeInv
<1>5. CallInv' /\ KnownInv' /\ PlanInv' /\ FilesInv'
  BY <1>1, <1>2 DEF RunInv, CallInv, KnownInv, IsKnown, PlanInv, FilesInv, Steps
<1>6. StepInv'
  BY <1>1, <1>2, ReasonsSame DEF RunInv, StepInv
<1>. QED
  BY <1>4, <1>5, <1>6 DEF RunInv

LEMMA PrecheckRun ==
    ASSUME RunInv, Precheck
    PROVE  RunInv'
<1>1. /\ pc = "precheck" /\ pc' = "prechecking"
      /\ call' = [op |-> "precheck", actions |-> Actions(plan), next |-> 1]
      /\ UNCHANGED <<status, content, queue, stored>>
      /\ UNCHANGED <<behaviour, installed, input, skipped, order, plan, known, results, failed, to_keep, todo, runs>>
  BY DEF Precheck, BeginCall
<1>2. Actions(plan)' = Actions(plan) /\ Wanted' = Wanted /\ \A s : SkipReason(s)' = SkipReason(s)
  BY <1>1, PlanSame
<1>3. CallInv'
  BY <1>1, <1>2, CacheAssumption DEF CallInv, Steps
<1>4. TypeInv' /\ StepInv' /\ KnownInv' /\ PlanInv' /\ FilesInv'
  BY <1>1, <1>2 DEF RunInv, TypeInv, StepInv, KnownInv, IsKnown, PlanInv, FilesInv
<1>. QED
  BY <1>3, <1>4 DEF RunInv

LEMMA KnownResultFacts ==
    ASSUME NEW s
    PROVE  /\ KnownResult(s) \in Known
           /\ KnownResult(s) = "BuildFailed" => s \in input.known_failures
           /\ KnownResult(s) = "Cached" => IsAvailable(s)
           /\ KnownResult(s) = "SkippedBySkipFailures" => input.mark[s] = "fail"
           /\ KnownResult(s) = "SkippedByParentHashes" => s \in input.parent_hashes
BY DEF KnownResult, Known

LEMMA PreBuildStatusesRun ==
    ASSUME RunInv, PreBuildStatuses
    PROVE  RunInv'
<1>1. /\ pc = "prechecking" /\ pc' = "prune" /\ call' = NoCall /\ to_keep' = {} /\ todo' = plan
      /\ known' = [s \in Spec |-> IF skipped[s] # "no" THEN SkippedResult(skipped[s])
                                  ELSE IF s \in plan THEN KnownResult(s) ELSE "none"]
      /\ results' = known'
      /\ UNCHANGED <<status, content, queue, stored, behaviour, installed, input, skipped, order, plan, failed, runs>>
  BY DEF PreBuildStatuses
<1>2. Wanted' = Wanted /\ \A s : SkipReason(s)' = SkipReason(s)
  <2>1. Wanted' = Wanted
    BY <1>1 DEF Wanted, Requested, Closure
  <2>. QED
    BY <1>1, <2>1, ReasonsSame
<1>3. plan = Wanted
  BY <1>1 DEF RunInv, PlanInv
<1>4. TypeInv'
  BY <1>1 DEF RunInv, TypeInv
<1>5. CallInv'
  BY <1>1, CacheAssumption DEF CallInv, NoCall, Steps
<1>6. StepInv'
  BY <1>1, <1>2 DEF RunInv, StepInv
<1>7. KnownInv'
  <2>1. ASSUME NEW s \in Spec
        PROVE  /\ skipped[s] # "no" => known'[s] = SkippedResult(skipped[s])
               /\ skipped[s] = "no" /\ s \notin Wanted => known'[s] = "none"
               /\ skipped[s] = "no" /\ s \in Wanted => known'[s] \in Known
    BY <1>1, <1>3, KnownResultFacts
  <2>2. \A reason : SkippedResult(reason)' = SkippedResult(reason)
    BY DEF SkippedResult
  <2>. QED
    BY <1>1, <1>2, <2>1, <2>2 DEF KnownInv
<1>8. PlanInv'
  <2>1. Roots' \ plan = {}
    <3>1. ASSUME NEW s \in Spec, known'[s] \in ToBuild
          PROVE  s \in plan
      <4>1. CASE skipped[s] # "no"
        <5>1. known'[s] = SkippedResult(skipped[s])
          BY <1>1, <4>1
        <5>2. skipped[s] \in {"Supports", "SupportsCascade", "Baseline", "BaselineCascade"}
          BY <1>1, <4>1, ReasonFacts DEF RunInv, StepInv
        <5>. QED
          BY <3>1, <5>1, <5>2, SkippedFacts DEF LeftOut, ToBuild
      <4>2. CASE skipped[s] = "no" /\ s \notin plan
        BY <1>1, <3>1, <4>2 DEF ToBuild
      <4>. QED
        BY <4>1, <4>2
    <3>. QED
      BY <3>1 DEF Roots
  <2>. QED
    BY <1>1, <1>2, <1>3, <2>1 DEF PlanInv
<1>9. FilesInv'
  BY <1>1 DEF RunInv, FilesInv
<1>. QED
  BY <1>4, <1>5, <1>6, <1>7, <1>8, <1>9 DEF RunInv

LEMMA PruneNextRun ==
    ASSUME RunInv, PruneNext
    PROVE  RunInv'
<1>. DEFINE l == LastOf(todo)
<1>1. /\ pc = "prune" /\ pc' = "prune" /\ todo # {}
      /\ to_keep' = to_keep \cup Keeps(l) /\ todo' = todo \ {l}
      /\ UNCHANGED <<status, call, content, queue, stored>>
      /\ UNCHANGED <<behaviour, installed, input, skipped, order, plan, known, results, failed, runs>>
  BY DEF PruneNext, cacheVars
<1>2. TypeInv /\ PlanInv /\ plan = Wanted /\ todo \in SUBSET Spec /\ order \in Orders
  BY <1>1 DEF RunInv, TypeInv, PlanInv
<1>3. l \in todo /\ l \in Spec /\ \A r \in todo : At(r) <= At(l)
  BY <1>1, <1>2, EndFacts
<1>4. \A n \in Needs[l] : n \in Spec /\ At(n) < At(l) /\ n # l
  BY <1>2, <1>3, OrderFacts
<1>5. \A n \in Needs[l] : n \in plan
  BY <1>2, <1>3, WantedFacts DEF TypeInv
<1>6. /\ Wanted' = Wanted /\ Roots' = Roots /\ Closure(Roots)' = Closure(Roots) /\ \A s : At(s)' = At(s)
      /\ \A s : SkipReason(s)' = SkipReason(s) /\ Actions(plan)' = Actions(plan)
  BY <1>1, PlanSame
<1>7. \A s \in Spec : At(s) \in Nat
  BY <1>2, OrderFacts
<1>8. Keeps(l) = IF l \in Roots THEN {l} \cup Needs[l] ELSE IF l \in to_keep THEN Needs[l] ELSE {}
  BY <1>3 DEF Keeps, Roots
<1>. HIDE DEF l
<1>9. Needs[l] \in SUBSET Spec /\ Keeps(l) \in SUBSET Spec
  BY <1>3, <1>4, <1>8
<1>10. TypeInv'
  BY <1>1, <1>2, <1>9 DEF TypeInv
<1>11. CallInv' /\ StepInv' /\ KnownInv' /\ FilesInv'
  <2>1. CallInv'
    BY <1>1 DEF RunInv, CallInv
  <2>2. StepInv'
    BY <1>1, <1>6 DEF RunInv, StepInv
  <2>3. KnownInv'
    BY <1>1, <1>6 DEF RunInv, KnownInv, IsKnown
  <2>4. FilesInv'
    BY <1>1 DEF RunInv, FilesInv
  <2>. QED
    BY <2>1, <2>2, <2>3, <2>4
<1>12. PlanInv'
  <2>1. \A s \in plan \ todo', r \in todo' : At(r) < At(s)
    <3>. SUFFICES ASSUME NEW s \in plan \ todo', NEW r \in todo'
                  PROVE  At(r) < At(s)
      OBVIOUS
    <3>1. CASE s = l
      <4>1. order[At(r)] = r /\ order[At(l)] = l
        BY <1>1, <1>2, <1>3, OrderFacts
      <4>2. At(r) # At(l)
        BY <1>1, <4>1
      <4>. QED
        BY <1>1, <1>2, <1>3, <1>7, <3>1, <4>2
    <3>2. CASE s # l
      BY <1>1, <1>2, <3>2 DEF PlanInv
    <3>. QED
      BY <3>1, <3>2
  <2>2. to_keep' \subseteq Closure(Roots)
    <3>1. to_keep \subseteq Closure(Roots)
      BY <1>1, <1>2 DEF PlanInv
    <3>2. CASE l \in Roots
      BY <1>1, <1>8, <3>1, <3>2, WantedFacts
    <3>3. CASE l \notin Roots /\ l \in to_keep
      BY <1>1, <1>8, <3>1, <3>3, WantedFacts
    <3>4. CASE l \notin Roots /\ l \notin to_keep
      BY <1>1, <1>8, <3>1, <3>4
    <3>. QED
      BY <3>2, <3>3, <3>4
  <2>3. Roots \ todo' \subseteq to_keep'
    BY <1>1, <1>2, <1>8 DEF PlanInv
  <2>4. ASSUME NEW s \in to_keep' \ todo'
        PROVE  Needs[s] \subseteq to_keep'
    <3>1. CASE s = l
      BY <1>1, <1>4, <1>8, <2>4, <3>1
    <3>2. CASE s # l /\ s \in to_keep
      BY <1>1, <1>2, <2>4, <3>2 DEF PlanInv
    <3>3. CASE s # l /\ s \notin to_keep
      <4>1. s \in Needs[l]
        BY <1>1, <1>8, <2>4, <3>3
      <4>2. s \in plan /\ At(s) < At(l) /\ s \notin todo
        BY <1>1, <1>4, <1>5, <2>4, <3>3, <4>1
      <4>3. At(l) < At(s)
        BY <1>1, <1>2, <1>3, <4>2 DEF PlanInv
      <4>. QED
        BY <1>3, <1>4, <1>7, <4>1, <4>2, <4>3
    <3>. QED
      BY <3>1, <3>2, <3>3
  <2>. QED
    BY <1>1, <1>2, <1>6, <2>1, <2>2, <2>3, <2>4 DEF PlanInv
<1>. QED
  BY <1>10, <1>11, <1>12 DEF RunInv

LEMMA PruneRun ==
    ASSUME RunInv, Prune
    PROVE  RunInv'
<1>1. /\ pc = "prune" /\ todo = {} /\ plan' = plan \cap to_keep /\ pc' = IF input.dry_run THEN "join" ELSE "adjust"
      /\ UNCHANGED <<status, call, content, queue, stored>>
      /\ UNCHANGED <<behaviour, installed, input, skipped, order, known, results, failed, to_keep, todo, runs>>
  BY DEF Prune, cacheVars
<1>2. TypeInv /\ PlanInv /\ plan = Wanted
  BY <1>1 DEF RunInv, PlanInv
<1>3. /\ Wanted' = Wanted /\ Closure(Roots)' = Closure(Roots) /\ \A s : SkipReason(s)' = SkipReason(s)
  BY <1>1, PlanSame
<1>4. to_keep = Closure(Roots)
  <2>1. Roots \subseteq to_keep /\ to_keep \subseteq Closure(Roots) /\ \A s \in to_keep : Needs[s] \subseteq to_keep
    BY <1>1, <1>2 DEF PlanInv
  <2>2. to_keep \in SUBSET Spec
    BY <1>2 DEF TypeInv
  <2>. QED
    BY <2>1, <2>2, WantedFacts
<1>5. Roots \subseteq Wanted
  <2>1. ASSUME NEW s \in Roots
        PROVE  s \in Wanted
    <3>1. s \in Spec /\ known[s] \in ToBuild
      BY DEF Roots
    <3>2. CASE skipped[s] # "no"
      <4>1. known[s] = SkippedResult(skipped[s])
        BY <1>1, <3>1, <3>2 DEF RunInv, KnownInv, IsKnown
      <4>2. skipped[s] \in {"Supports", "SupportsCascade", "Baseline", "BaselineCascade"}
        BY <1>1, <3>1, <3>2, ReasonFacts DEF RunInv, StepInv
      <4>. QED
        BY <3>1, <4>1, <4>2, SkippedFacts DEF LeftOut, ToBuild
    <3>3. CASE skipped[s] = "no"
      BY <1>1, <3>1, <3>3 DEF RunInv, KnownInv, IsKnown, ToBuild
    <3>. QED
      BY <3>2, <3>3
  <2>. QED
    BY <2>1
<1>6. plan' = Closure(Roots)
  <2>1. Closure(Roots) \subseteq Wanted
    BY <1>5, WantedFacts
  <2>. QED
    BY <1>1, <1>2, <1>4, <2>1
<1>7. TypeInv'
  BY <1>1, <1>2 DEF TypeInv
<1>8. CallInv'
  BY <1>1 DEF RunInv, CallInv, Steps
<1>9. StepInv'
  BY <1>1, <1>3 DEF RunInv, StepInv
<1>10. KnownInv'
  BY <1>1, <1>3 DEF RunInv, KnownInv, IsKnown
<1>11. PlanInv'
  BY <1>1, <1>3, <1>6 DEF PlanInv
<1>12. FilesInv'
  BY <1>1 DEF RunInv, FilesInv
<1>. QED
  BY <1>7, <1>8, <1>9, <1>10, <1>11, <1>12 DEF RunInv

LEMMA AdjustRun ==
    ASSUME RunInv, Adjust
    PROVE  RunInv'
<1>1. /\ pc = "adjust" /\ pc' = "fetch" /\ installed' = installed \cap plan /\ todo' = plan \ installed
      /\ content' = [d \in Dir |-> IF \E i \in DOMAIN Actions(todo') : Actions(todo')[i].dir = d
                                   THEN Nothing ELSE content[d]]
      /\ UNCHANGED <<status, call, queue, stored>>
      /\ UNCHANGED <<behaviour, input, skipped, order, plan, known, results, failed, to_keep, runs>>
  BY DEF Adjust, ClearPackages
<1>2. Dir = Spec /\ TypeInv
  BY CiAssumption DEF RunInv
<1>3. /\ Wanted' = Wanted /\ Closure(Roots)' = Closure(Roots) /\ \A s : SkipReason(s)' = SkipReason(s)
  BY <1>1, PlanSame
<1>4. TypeInv'
  <2>1. content' \in [Spec -> Spec \cup {Nothing}] /\ \A d \in Spec : content'[d] \in {d, Nothing}
    BY <1>1, <1>2 DEF TypeInv
  <2>. QED
    BY <1>1, <1>2, <2>1 DEF TypeInv
<1>5. CallInv' /\ StepInv' /\ KnownInv' /\ PlanInv'
  <2>1. CallInv'
    BY <1>1 DEF RunInv, CallInv, Steps
  <2>2. StepInv'
    BY <1>1, <1>3 DEF RunInv, StepInv
  <2>3. KnownInv'
    BY <1>1, <1>3 DEF RunInv, KnownInv, IsKnown
  <2>4. PlanInv'
    BY <1>1, <1>3 DEF RunInv, PlanInv
  <2>. QED
    BY <2>1, <2>2, <2>3, <2>4
<1>6. FilesInv'
  BY <1>1 DEF RunInv, FilesInv
<1>. QED
  BY <1>4, <1>5, <1>6 DEF RunInv

LEMMA FetchRun ==
    ASSUME RunInv, Fetch
    PROVE  RunInv'
<1>1. /\ pc = "fetch" /\ pc' = "fetching" /\ call' = [op |-> "fetch", actions |-> Actions(todo), next |-> 1]
      /\ UNCHANGED <<status, content, queue, stored>>
      /\ UNCHANGED <<behaviour, installed, input, skipped, order, plan, known, results, failed, to_keep, todo, runs>>
  BY DEF Fetch, BeginCall
<1>2. /\ Actions(todo)' = Actions(todo) /\ Wanted' = Wanted /\ Closure(Roots)' = Closure(Roots)
      /\ \A s : SkipReason(s)' = SkipReason(s)
  BY <1>1, PlanSame
<1>3. CallInv'
  BY <1>1, <1>2, CacheAssumption DEF CallInv, Steps
<1>4. TypeInv' /\ StepInv' /\ KnownInv' /\ PlanInv' /\ FilesInv'
  BY <1>1, <1>2 DEF RunInv, TypeInv, StepInv, KnownInv, IsKnown, PlanInv, FilesInv
<1>. QED
  BY <1>3, <1>4 DEF RunInv

LEMMA FetchedPlanRun ==
    ASSUME RunInv, FetchedPlan
    PROVE  RunInv'
<1>1. /\ pc = "fetching" /\ pc' = "install" /\ call' = NoCall
      /\ UNCHANGED <<status, content, queue, stored>>
      /\ UNCHANGED <<behaviour, installed, input, skipped, order, plan, known, results, failed, to_keep, todo, runs>>
  BY DEF FetchedPlan
<1>2. /\ Wanted' = Wanted /\ Closure(Roots)' = Closure(Roots) /\ \A s : SkipReason(s)' = SkipReason(s)
  BY <1>1, PlanSame
<1>3. CallInv'
  BY <1>1, CacheAssumption DEF CallInv, NoCall, Steps
<1>4. TypeInv' /\ StepInv' /\ KnownInv' /\ PlanInv' /\ FilesInv'
  BY <1>1, <1>2 DEF RunInv, TypeInv, StepInv, KnownInv, IsKnown, PlanInv, FilesInv
<1>. QED
  BY <1>3, <1>4 DEF RunInv

LEMMA OutcomeType ==
    ASSUME behaviour \in Behaviours, NEW s \in Spec
    PROVE  Outcome(s) \in {"Succeeded", "BuildFailed", "FileConflicts", "CascadedDueToMissingDependencies"}
<1>1. behaviour[s] \in {"Succeeded", "BuildFailed", "FileConflicts"}
  BY CiAssumption
<1>. QED
  BY <1>1 DEF Outcome

LEMMA InstallRun ==
    ASSUME RunInv, Install, NEW s, s = FirstOf(todo)
    PROVE  RunInv'
<1>1. /\ pc = "install" /\ pc' = "install" /\ todo # {} /\ todo' = todo \ {s}
      /\ results' = [results EXCEPT ![s] = Outcome(s)]
      /\ installed' = IF Outcome(s) = "Succeeded" THEN installed \cup {s} ELSE installed
      /\ IF Outcome(s) \in {"Succeeded", "FileConflicts"} THEN PushSuccess(Action(s))
         ELSE UNCHANGED <<status, content, queue>>
      /\ UNCHANGED <<call, stored, behaviour, input, skipped, order, plan, known, failed, to_keep, runs>>
  BY DEF Install
<1>2. TypeInv /\ FilesInv /\ ABI = Spec /\ todo \in SUBSET Spec /\ order \in Orders
  BY CiAssumption DEF RunInv, TypeInv, Spec
<1>3. s \in todo /\ s \in Spec
  BY <1>1, <1>2, EndFacts
<1>4. /\ Wanted' = Wanted /\ Closure(Roots)' = Closure(Roots) /\ \A r : SkipReason(r)' = SkipReason(r)
  BY <1>1, PlanSame
<1>. DEFINE x == Action(s)
<1>5. x.abi = s /\ x.dir = s
  BY DEF Action
<1>6. /\ status' \in [Spec -> Status]
      /\ \A r \in Spec : status'[r] = Unknown \/ status'[r] = status[r]
      /\ content' \in [Spec -> Spec \cup {Nothing}] /\ \A d \in Spec : d # s => content'[d] = content[d]
      /\ content'[s] \in {s, Nothing}
      /\ queue' \in Seq({Action(r) : r \in Spec})
      /\ \/ queue' = queue
         \/ queue' = Append(queue, x) /\ content'[s] = s
  <2>1. CASE Outcome(s) \in {"Succeeded", "FileConflicts"}
    <3>1. /\ status' = [status EXCEPT ![s] = Unknown]
          /\ \/ content' = [content EXCEPT ![s] = Nothing] /\ UNCHANGED queue
             \/ content' = [content EXCEPT ![s] = s] /\ queue' = Append(queue, x)
      BY <1>1, <1>5, <2>1 DEF PushSuccess
    <3>2. x \in {Action(r) : r \in Spec}
      BY <1>3
    <3>3. Append(queue, x) \in Seq({Action(r) : r \in Spec})
      BY <1>2, <3>2, AppendProperties DEF TypeInv
    <3>4. status \in [Spec -> Status] /\ queue \in Seq({Action(r) : r \in Spec}) /\ content \in [Spec -> Spec \cup {Nothing}]
      BY <1>2 DEF TypeInv
    <3>. HIDE DEF x
    <3>. QED
      BY <1>3, <3>1, <3>3, <3>4, UnknownType
  <2>2. CASE ~ (Outcome(s) \in {"Succeeded", "FileConflicts"})
    BY <1>1, <1>2, <1>3, <2>2 DEF TypeInv
  <2>. QED
    BY <2>1, <2>2
<1>. HIDE DEF x
<1>7. TypeInv'
  <2>1. \A d \in Spec : content'[d] \in {d, Nothing}
    BY <1>2, <1>6 DEF TypeInv
  <2>. QED
    BY <1>1, <1>2, <1>3, <1>6, <2>1 DEF TypeInv
<1>8. CallInv'
  BY <1>1 DEF RunInv, CallInv
<1>9. StepInv' /\ KnownInv' /\ PlanInv'
  <2>1. StepInv'
    BY <1>1, <1>4 DEF RunInv, StepInv
  <2>2. KnownInv'
    BY <1>1, <1>4 DEF RunInv, KnownInv, IsKnown
  <2>3. PlanInv'
    BY <1>1, <1>4 DEF RunInv, PlanInv
  <2>. QED
    BY <2>1, <2>2, <2>3
<1>10. FilesInv'
  <2>1. /\ Len(queue) \in Nat
        /\ \A i \in 1 .. Len(queue) : /\ queue[i].abi \in Spec /\ queue[i].dir = queue[i].abi
                                      /\ content[queue[i].dir] = queue[i].abi /\ queue[i].abi \notin todo
    BY <1>2, QueueFacts DEF FilesInv
  <2>2. \A i \in 1 .. Len(queue) : queue[i].abi # s /\ queue[i] # x
    BY <1>3, <1>5, <2>1
  <2>3. ASSUME NEW r \in Spec, status'[r].state = "restored", r \in todo'
        PROVE  content'[r] = r
    <3>1. status'[r] = status[r] /\ r # s
      BY <1>1, <1>6, <2>3, UnknownType
    <3>. QED
      BY <1>1, <1>2, <1>6, <2>3, <3>1 DEF FilesInv
  <2>4. CASE queue' = queue
    BY <1>1, <1>2, <1>6, <2>1, <2>2, <2>3, <2>4 DEF FilesInv
  <2>5. CASE queue' = Append(queue, x) /\ content'[s] = s
    <3>1. /\ Len(queue') = Len(queue) + 1 /\ \A i \in 1 .. Len(queue) : queue'[i] = queue[i]
          /\ queue'[Len(queue) + 1] = x
      BY <1>2, <2>5, AppendProperties DEF TypeInv
    <3>2. ASSUME NEW i \in 1 .. Len(queue')
          PROVE  content'[queue'[i].dir] = queue'[i].abi /\ queue'[i].abi \notin todo'
      <4>1. CASE i \in 1 .. Len(queue)
        BY <1>1, <1>6, <2>1, <2>2, <3>1, <4>1
      <4>2. CASE i = Len(queue) + 1
        BY <1>1, <1>5, <2>5, <3>1, <4>2
      <4>. QED
        BY <2>1, <3>1, <4>1, <4>2
    <3>3. ASSUME NEW i \in 1 .. Len(queue'), NEW j \in 1 .. Len(queue'), queue'[i] = queue'[j]
          PROVE  i = j
      <4>1. i \in 1 .. Len(queue) \/ i = Len(queue) + 1
        BY <2>1, <3>1
      <4>2. j \in 1 .. Len(queue) \/ j = Len(queue) + 1
        BY <2>1, <3>1
      <4>3. CASE i \in 1 .. Len(queue) /\ j \in 1 .. Len(queue)
        BY <1>2, <3>1, <3>3, <4>3 DEF FilesInv
      <4>. QED
        BY <2>2, <3>1, <3>3, <4>1, <4>2, <4>3
    <3>. QED
      BY <1>1, <2>3, <3>2, <3>3 DEF FilesInv
  <2>. QED
    BY <1>6, <2>4, <2>5
<1>. QED
  BY <1>7, <1>8, <1>9, <1>10 DEF RunInv

LEMMA ExecutedRun ==
    ASSUME RunInv, Executed
    PROVE  RunInv'
<1>1. /\ pc = "install" /\ pc' = "join" /\ todo = {}
      /\ UNCHANGED <<status, call, content, queue, stored>>
      /\ UNCHANGED <<behaviour, installed, input, skipped, order, plan, known, results, failed, to_keep, todo, runs>>
  BY DEF Executed, cacheVars
<1>2. /\ Wanted' = Wanted /\ Closure(Roots)' = Closure(Roots) /\ \A s : SkipReason(s)' = SkipReason(s)
  BY <1>1, PlanSame
<1>3. TypeInv' /\ CallInv' /\ FilesInv'
  BY <1>1 DEF RunInv, TypeInv, CallInv, FilesInv, Steps
<1>4. StepInv' /\ KnownInv' /\ PlanInv'
  BY <1>1, <1>2 DEF RunInv, StepInv, KnownInv, IsKnown, PlanInv
<1>. QED
  BY <1>3, <1>4 DEF RunInv

LEMMA ReportRun ==
    ASSUME RunInv, Report
    PROVE  RunInv'
<1>1. /\ pc = "join" /\ pc' = "done" /\ queue = <<>>
      /\ UNCHANGED <<status, call, content, queue, stored>>
      /\ UNCHANGED <<behaviour, installed, input, skipped, order, plan, known, results, to_keep, todo, runs>>
  BY DEF Report, cacheVars
<1>2. /\ Wanted' = Wanted /\ Closure(Roots)' = Closure(Roots) /\ \A s : SkipReason(s)' = SkipReason(s)
  BY <1>1, PlanSame
<1>3. TypeInv' /\ CallInv' /\ FilesInv'
  BY <1>1 DEF RunInv, TypeInv, CallInv, FilesInv, Steps
<1>4. StepInv' /\ KnownInv' /\ PlanInv'
  BY <1>1, <1>2 DEF RunInv, StepInv, KnownInv, IsKnown, PlanInv
<1>. QED
  BY <1>3, <1>4 DEF RunInv

LEMMA AgainRun ==
    ASSUME RunInv, Again
    PROVE  RunInv'
<1>1. /\ pc = "done" /\ pc' = "start" /\ runs' = runs + 1 /\ installed' \in {installed, {}}
      /\ status' = [s \in ABI |-> Unknown] /\ plan' = {}
      /\ known' = [s \in Spec |-> "none"] /\ results' = known'
      /\ UNCHANGED <<call, content, queue, stored, behaviour, input, order, to_keep, todo>>
  BY DEF Again
<1>2. ABI = Spec /\ todo = {}
  BY <1>1 DEF RunInv, StepInv, Spec
<1>3. status' = [s \in Spec |-> Unknown]
  BY <1>1, <1>2
<1>4. TypeInv'
  BY <1>1, <1>2, <1>3, UnknownType DEF RunInv, TypeInv
<1>5. CallInv' /\ StepInv' /\ KnownInv' /\ PlanInv'
  BY <1>1, <1>2 DEF RunInv, CallInv, StepInv, KnownInv, IsKnown, PlanInv, Steps
<1>6. FilesInv'
  <2>1. \A s \in Spec : status'[s].state # "restored"
    BY <1>3, UnknownType
  <2>. QED
    BY <1>1, <1>2, <2>1 DEF RunInv, FilesInv
<1>. QED
  BY <1>4, <1>5, <1>6 DEF RunInv

LEMMA StutterRun ==
    ASSUME RunInv, UNCHANGED vars
    PROVE  RunInv'
<1>1. /\ UNCHANGED <<status, call, content, queue, stored>>
      /\ UNCHANGED <<behaviour, installed, input, skipped, order, plan, known, results, failed, to_keep, pc, todo, runs>>
  BY DEF vars, cacheVars, ciVars
<1>2. Actions(plan)' = Actions(plan) /\ Actions(todo)' = Actions(todo)
  BY <1>1, PlanSame
<1>3. TypeInv' /\ CallInv' /\ FilesInv'
  BY <1>1, <1>2 DEF RunInv, TypeInv, CallInv, FilesInv
<1>. QED
  BY <1>1, <1>3, PlanKept DEF RunInv

LEMMA NextRunInv ==
    ASSUME RunInv, [NextCi]_vars
    PROVE  RunInv'
<1>1. CASE UNCHANGED vars
  BY <1>1, StutterRun
<1>2. CASE CacheStep /\ UNCHANGED ciVars
  BY <1>2, FetchFromRun, PrecheckFromRun, UploadRun DEF CacheStep
<1>3. CASE Install
  BY <1>3, InstallRun
<1>4. CASE CiStep /\ ~ Install
  BY <1>4, CalculateRun, PrecheckRun, PreBuildStatusesRun, PruneNextRun, PruneRun, AdjustRun, FetchRun, FetchedPlanRun,
     ExecutedRun, ReportRun, AgainRun DEF CiStep
<1>. QED
  BY <1>1, <1>2, <1>3, <1>4 DEF NextCi

LEMMA RunInvHolds == CiRuns => []RunInv
<1>1. InitCi => RunInv
  BY InitRunInv
<1>2. RunInv /\ [NextCi]_vars => RunInv'
  BY NextRunInv
<1>. QED
  BY <1>1, <1>2, PTL DEF CiRuns

--------------------------------------------------------------------------------
(***************************************************************************)
(* The theorems about the plan and the files.                              *)
(***************************************************************************)

\* Nothing that is wanted is left out: what a requested port needs is supported and not skipped.
LEMMA WantedIsNotSkipped ==
    ASSUME RunInv, pc # "start", NEW s \in Wanted
    PROVE  skipped[s] = "no"
<1>1. PICK r \in Requested(skipped) : s \in ClosureOf[r] /\ r \in Spec /\ s \in Spec
  <2>1. Requested(skipped) \in SUBSET Spec /\ s \in Closure(Requested(skipped)) /\ s \in Spec
    BY WantedFacts DEF Wanted
  <2>. QED
    BY <2>1, ClosureOfOne
<1>2. r \in Ports /\ skipped[r] = "no"
  BY <1>1 DEF Requested
<1>3. skipped[r] = SkipReason(r) /\ skipped[s] = IF s \in Ports THEN SkipReason(s) ELSE "no"
  BY <1>1, <1>2 DEF RunInv, StepInv
<1>4. ClosureOf[r] \subseteq input.supported /\ ~ CascadeForTriplet(ClosureOf[r])
  BY <1>2, <1>3, ReasonFacts
<1>5. ClosureOf[s] \subseteq ClosureOf[r]
  BY <1>1, ClosureOfFacts
<1>6. ~ CascadeForTriplet(ClosureOf[s])
  BY <1>4, <1>5 DEF CascadeForTriplet
<1>7. s \in Ports => s[1] \notin Skips(Target)
  BY <1>1, <1>4 DEF CascadeForTriplet, Ports
<1>. QED
  BY <1>3, <1>4, <1>5, <1>6, <1>7, ReasonFacts

\* The pruned plan is what nothing is known of and all that this needs, the files are where they
\* should be, and Checks::unreachable is not reached (prune_entirely_known_action_branches).
THEOREM CiInvHolds == CiRuns => []CiInv
<1>1. RunInv => CiInv
  <2>. SUFFICES ASSUME RunInv
                PROVE  CiInv
    OBVIOUS
  <2>1. TypeInv /\ CallInv /\ PlanInv /\ FilesInv /\ ABI = Spec /\ Dir = Spec
    BY CiAssumption DEF RunInv, Spec
  <2>2. CacheTypeOK
    <3>1. status \in [ABI -> [state : {"unknown", "available", "restored"}, unavailable : SUBSET Provider,
                              provider : Provider \cup {NoProvider}]]
      BY <2>1 DEF TypeInv, Status
    <3>2. call.op \in {"none", "fetch", "precheck"} /\ call.next \in 0 .. Len(Providers) + 1
      BY <2>1 DEF CallInv, NoCall
    <3>3. content \in [Dir -> ABI \cup {Nothing}]
      BY <2>1 DEF TypeInv
    <3>4. \A i \in DOMAIN queue : queue[i].abi \in ABI /\ queue[i].dir \in Dir
      <4>1. DOMAIN queue = 1 .. Len(queue)
        BY <2>1, LenProperties DEF TypeInv
      <4>. QED
        BY <2>1, <4>1, QueueFacts
    <3>. QED
      BY <2>1, <3>1, <3>2, <3>3, <3>4 DEF CacheTypeOK, TypeInv
  <2>3. installed \subseteq Spec /\ todo \subseteq plan
    BY <2>1 DEF TypeInv
  <2>4. pc \in {"adjust", "join"} => plan = Closure({s \in Spec : known[s] \in ToBuild})
    BY <2>1 DEF PlanInv, Roots
  <2>5. PackagesAreThere(Actions(todo))
    <3>1. ASSUME NEW i \in DOMAIN Actions(todo), IsRestored(Actions(todo)[i].abi)
          PROVE  content[Actions(todo)[i].dir] = Actions(todo)[i].abi
      <4>1. order[i] \in todo /\ Actions(todo)[i].abi = order[i] /\ Actions(todo)[i].dir = order[i] /\ order[i] \in Spec
        BY <2>1, ActionFacts DEF TypeInv
      <4>. QED
        BY <2>1, <3>1, <4>1 DEF FilesInv, IsRestored
    <3>2. DOMAIN queue = 1 .. Len(queue)
      BY <2>1, LenProperties DEF TypeInv
    <3>. QED
      BY <2>1, <3>1, <3>2 DEF PackagesAreThere, FilesInv
  <2>6. ~ Unreachable
    <3>. SUFFICES ASSUME pc = "prune", todo # {}
                  PROVE  known[LastOf(todo)] \notin LeftOut
      BY DEF Unreachable
    <3>1. LastOf(todo) \in plan /\ plan = Wanted /\ LastOf(todo) \in Spec
      <4>1. todo \in SUBSET Spec /\ todo \in SUBSET plan /\ order \in Orders /\ plan = Wanted
        BY <2>1 DEF TypeInv, PlanInv
      <4>. QED
        BY <4>1, EndFacts
    <3>2. skipped[LastOf(todo)] = "no"
      BY <3>1, WantedIsNotSkipped
    <3>3. known[LastOf(todo)] \in Known
      BY <3>1, <3>2 DEF RunInv, KnownInv, IsKnown
    <3>. QED
      BY <3>3 DEF Known, LeftOut
  <2>. QED
    BY <2>2, <2>3, <2>4, <2>5, <2>6 DEF CiInv
<1>. QED
  BY <1>1, RunInvHolds, PTL

--------------------------------------------------------------------------------
(***************************************************************************)
(* The steps of the caches keep JudgedInv.                                 *)
(***************************************************************************)
LEMMA TruthSame ==
    ASSUME behaviour' = behaviour
    PROVE  \A s : Truth(s)' = Truth(s) /\ (Solid(s)' <=> Solid(s))
BY DEF Truth, Solid

LEMMA JudgedSame ==
    ASSUME UNCHANGED <<behaviour, known>>, NEW s, s \in installed => s \in installed', results'[s] = results[s], Judged(s)
    PROVE  Judged(s)'
<1>1. Truth(s)' = Truth(s)
  BY TruthSame
<1>. QED
  BY <1>1 DEF Judged

LEMMA ResultsKept ==
    ASSUME JudgedInv, UNCHANGED ciVars, \A s \in Spec : Stored(s) => Stored(s)'
    PROVE  TruthInv' /\ ResultsInv'
<1>1. UNCHANGED <<behaviour, installed, input, skipped, order, plan, known, results, failed, to_keep, pc, todo, runs>>
  BY DEF ciVars
<1>2. \A s : Truth(s)' = Truth(s)
  BY <1>1, TruthSame
<1>3. TruthInv'
  BY <1>1, <1>2 DEF JudgedInv, TruthInv, IsKnown
<1>4. \A s : Judged(s)' <=> Judged(s)
  BY <1>1, <1>2 DEF Judged
<1>5. \A r, m : Regression(r, m)' <=> Regression(r, m)
  BY <1>1 DEF Regression
<1>6. ResultsInv'
  <2>1. IsKnown' = IsKnown /\ Executes' = Executes
    BY <1>1 DEF IsKnown, Executes
  <2>2. (\E s \in Spec : results[s] # "none" /\ Regression(results[s], input.mark[s]))'
           = \E s \in Spec : results[s] # "none" /\ Regression(results[s], input.mark[s])
    BY <1>1 DEF Regression
  <2>. QED
    BY <1>1, <1>4, <2>1, <2>2 DEF JudgedInv, ResultsInv
<1>. QED
  BY <1>3, <1>6

LEMMA FetchFromJudged ==
    ASSUME JudgedInv, FetchFrom, UNCHANGED ciVars
    PROVE  JudgedInv'
<1>1. /\ RunInv' /\ call.op = "fetch" /\ UNCHANGED <<queue, stored>>
      /\ \A s \in Spec : /\ status'[s].provider = status[s].provider
                         /\ status'[s].state = "restored" => status[s].state = "restored" \/ Stored(s)
  BY FetchFromRun DEF JudgedInv, FetchFrom, Asking
<1>2. UNCHANGED <<behaviour, installed, input, skipped, order, plan, known, results, failed, to_keep, pc, todo, runs>>
  BY DEF ciVars
<1>3. \A s : Stored(s)' <=> Stored(s)
  BY <1>1 DEF Stored
<1>4. pc = "fetching"
  BY <1>1 DEF JudgedInv, RunInv, CallInv, NoCall
<1>5. CacheInv'
  BY <1>1, <1>2, <1>3, <1>4, TruthSame DEF JudgedInv, CacheInv
<1>. QED
  BY <1>1, <1>3, <1>5, ResultsKept DEF JudgedInv

\* How many positions of a list are not after one of them tells which it is.
LEMMA PlaceIsOwn ==
    ASSUME NEW n \in Nat, NEW D \in SUBSET (1 .. n), NEW i \in D
    PROVE  (CHOOSE j \in D : Place(D, j) = Place(D, i)) = i
<1>. DEFINE upTo(k) == {j \in D : j <= k}
<1>1. IsFiniteSet(D)
  <2>1. IsFiniteSet(1 .. n)
    BY FS_Interval
  <2>. QED
    BY <2>1, FS_Subset
<1>2. ASSUME NEW j \in D, NEW k \in D, j < k
      PROVE  Place(D, j) # Place(D, k)
  <2>1. IsFiniteSet(upTo(k))
    BY <1>1, FS_Subset
  <2>2. upTo(j) \in SUBSET upTo(k) /\ upTo(j) # upTo(k)
    <3>1. k \in upTo(k) /\ k \notin upTo(j)
      BY <1>2
    <3>2. \A x \in D : x <= j => x <= k
      BY <1>2
    <3>. QED
      BY <3>1, <3>2
  <2>. HIDE DEF upTo
  <2>3. Cardinality(upTo(j)) # Cardinality(upTo(k))
    BY <2>1, <2>2, FS_Subset
  <2>. QED
    BY <2>3 DEF Place, upTo
<1>3. ASSUME NEW j \in D, Place(D, j) = Place(D, i)
      PROVE  j = i
  <2>1. ~ (i < j) /\ ~ (j < i)
    BY <1>2, <1>3
  <2>. QED
    BY <2>1
<1>. QED
  BY <1>3

LEMMA UnknownIsAsked == \A p : ShouldAttemptPrecheck(Unknown, p)
BY DEF ShouldAttemptPrecheck, Unknown

\* The answers of the one provider that answers are noted for the packages they are about: all
\* positions are asked for.
LEMMA NotedForOwn ==
    ASSUME OneAnswers, JudgedInv, Asking("precheck"), Asked \notin NoPrecheck,
           NEW i \in Select(ShouldAttemptPrecheck)
    PROVE  Prechecked(Select(ShouldAttemptPrecheck), i) = ABIAt(i)
<1>. DEFINE D == DOMAIN call.actions
            asked == Select(ShouldAttemptPrecheck)
<1>1. call.op = "precheck" /\ call.next \in DOMAIN Providers
  BY DEF Asking
<1>2. pc = "prechecking" /\ call.actions = Actions(plan) /\ plan \in SUBSET Spec /\ order \in Orders
  BY <1>1 DEF JudgedInv, RunInv, CallInv, NoCall, TypeInv
<1>3. PICK n \in Nat : D \in SUBSET (1 .. n)
  BY <1>2, ActionFacts
<1>4. asked = D
  <2>1. ~ Asks
    <3>1. \A j \in DOMAIN Providers : j < call.next => j # call.next
      BY <1>1, CacheAssumption
    <3>. QED
      BY <1>1, <3>1 DEF Asks, OneAnswers, Asked
  <2>2. status = [s \in Spec |-> Unknown]
    BY <1>2, <2>1 DEF JudgedInv, CacheInv
  <2>3. ASSUME NEW j \in D
        PROVE  ShouldAttemptPrecheck(status[ABIAt(j)], Asked)
    <3>1. ABIAt(j) \in Spec
      <4>1. order[j] \in plan /\ call.actions[j].abi = order[j]
        BY <1>2, ActionFacts
      <4>. QED
        BY <1>2, <4>1 DEF ABIAt
    <3>2. status[ABIAt(j)] = Unknown
      BY <2>2, <3>1
    <3>. QED
      BY <3>2, UnknownIsAsked
  <2>. QED
    BY <2>3 DEF Select
<1>5. i \in D
  BY DEF Select
<1>. HIDE DEF D, asked
<1>6. (CHOOSE j \in D : Place(D, j) = Place(D, i)) = i
  BY <1>3, <1>5, PlaceIsOwn
<1>7. Prechecked(D, i) = ABIAt(i)
  BY <1>6 DEF Prechecked, D
<1>. QED
  BY <1>4, <1>7 DEF asked

LEMMA PrecheckFromJudged ==
    ASSUME OneAnswers, JudgedInv, PrecheckFrom, UNCHANGED ciVars
    PROVE  JudgedInv'
<1>1. /\ RunInv' /\ Asking("precheck") /\ call.op = "precheck" /\ call.next \in DOMAIN Providers
      /\ call' = [call EXCEPT !.next = @ + 1] /\ UNCHANGED <<content, queue, stored>>
  BY PrecheckFromRun DEF JudgedInv, PrecheckFrom, Asking, Ask
<1>2. UNCHANGED <<behaviour, installed, input, skipped, order, plan, known, results, failed, to_keep, pc, todo, runs>>
  BY DEF ciVars
<1>3. pc = "prechecking" /\ status \in [Spec -> Status] /\ ABI = Spec /\ Asked \in Provider
  BY <1>1 DEF JudgedInv, RunInv, CallInv, NoCall, TypeInv, Spec, Asked, Provider
<1>. DEFINE asked == Select(ShouldAttemptPrecheck)
<1>4. PICK answers \in [asked -> {"available", "unavailable", "unknown"}] :
          /\ \A i \in asked : answers[i] \in Answers(ABIAt(i))
          /\ status' = [a \in ABI |-> Mark(status[a], {answers[i] : i \in {j \in asked : Prechecked(asked, j) = a}})]
  BY DEF PrecheckFrom
<1>. DEFINE given(a) == {answers[i] : i \in {j \in asked : Prechecked(asked, j) = a}}
<1>5. status' = [a \in Spec |-> Mark(status[a], given(a))]
  BY <1>3, <1>4
<1>6. ASSUME Asked \in NoPrecheck
      PROVE  status' = status
  <2>1. \A i \in asked : answers[i] = "unknown"
    BY <1>4, <1>6 DEF Answers
  <2>2. \A a : given(a) \subseteq {"unknown"}
    BY <2>1
  <2>. HIDE DEF given
  <2>3. \A a \in Spec : status'[a] = status[a]
    BY <1>3, <1>5, <2>2, MarkFacts
  <2>. QED
    BY <1>3, <1>5, <2>3
<1>7. ASSUME NEW s \in Spec, "available" \in given(s)
      PROVE  Stored(s)
  <2>1. PICK i \in asked : Prechecked(asked, i) = s /\ answers[i] = "available"
    BY <1>7
  <2>2. "available" \in Answers(ABIAt(i))
    BY <1>4, <2>1
  <2>3. Asked \notin NoPrecheck /\ ABIAt(i) \in stored[Asked]
    BY <2>2 DEF Answers
  <2>4. ABIAt(i) = s
    BY <1>1, <2>1, <2>3, NotedForOwn
  <2>. QED
    BY <1>3, <2>3, <2>4 DEF Stored
<1>. HIDE DEF given, asked
<1>8. \A s \in Spec : status'[s].state = "restored" \/ status'[s].provider # NoProvider => Stored(s)
  <2>. SUFFICES ASSUME NEW s \in Spec, status'[s].state = "restored" \/ status'[s].provider # NoProvider
                PROVE  Stored(s)
    OBVIOUS
  <2>1. CASE "available" \in given(s)
    BY <1>7, <2>1
  <2>2. CASE "available" \notin given(s)
    <3>1. status[s].state = "restored" \/ status[s].provider # NoProvider
      BY <1>3, <1>5, <2>2, MarkFacts
    <3>. QED
      BY <3>1 DEF JudgedInv, CacheInv
  <2>. QED
    BY <2>1, <2>2
<1>9. ~ Asks' => status' = [s \in Spec |-> Unknown]
  <2>. SUFFICES ASSUME ~ Asks'
                PROVE  status' = [s \in Spec |-> Unknown]
    OBVIOUS
  <2>1. call'.next = call.next + 1 /\ call.next \in Nat
    BY <1>1, CacheAssumption DEF JudgedInv, RunInv, CallInv
  <2>2. Asked \in NoPrecheck /\ ~ Asks
    BY <1>1, <2>1, CacheAssumption DEF Asks, Asked
  <2>. QED
    BY <1>3, <1>6, <2>2 DEF JudgedInv, CacheInv
<1>10. \A s : Stored(s)' <=> Stored(s)
  BY <1>1 DEF Stored
<1>11. CacheInv'
  BY <1>1, <1>2, <1>3, <1>8, <1>9, <1>10, TruthSame DEF JudgedInv, CacheInv
<1>. QED
  BY <1>1, <1>10, <1>11, ResultsKept DEF JudgedInv

LEMMA UploadJudged ==
    ASSUME JudgedInv, Upload, UNCHANGED ciVars
    PROVE  JudgedInv'
<1>1. PICK x : x = Head(queue)
  OBVIOUS
<1>2. /\ RunInv'
      /\ Len(queue) \in Nat /\ Len(queue) >= 1 /\ x = queue[1] /\ x.abi \in Spec
      /\ \A s \in Spec : Stored(s)' => Stored(s) \/ s = x.abi
      /\ \A s \in Spec : Stored(s) => Stored(s)'
      /\ Len(queue') = Len(queue) - 1
      /\ \A i \in 1 .. Len(queue') : i + 1 \in 1 .. Len(queue) /\ queue'[i] = queue[i + 1]
  BY <1>1, UploadRun DEF JudgedInv
<1>3. UNCHANGED <<behaviour, installed, input, skipped, order, plan, known, results, failed, to_keep, pc, todo, runs>>
  BY DEF ciVars
<1>4. UNCHANGED <<status, call>> /\ queue # <<>>
  BY DEF Upload
<1>5. pc \in {"install", "join"} /\ x.abi \notin todo /\ Solid(x.abi)
  BY <1>2, <1>4 DEF JudgedInv, RunInv, FilesInv, CacheInv
<1>6. CacheInv'
  <2>1. \A s : Solid(s)' <=> Solid(s)
    BY <1>3, TruthSame
  <2>2. \A s \in Spec : status'[s].state = "restored" \/ status'[s].provider # NoProvider => Stored(s)'
    BY <1>2, <1>4 DEF JudgedInv, CacheInv
  <2>3. \A s \in Spec : Stored(s)' => Solid(s)'
    BY <1>2, <1>5, <2>1 DEF JudgedInv, CacheInv
  <2>4. ASSUME NEW i \in 1 .. Len(queue')
        PROVE  Solid(queue[i].abi)'
    <3>1. i + 1 \in 1 .. Len(queue) /\ queue'[i] = queue[i + 1]
      BY <1>2
    <3>2. Solid(queue[i + 1].abi)
      BY <3>1 DEF JudgedInv, CacheInv
    <3>. QED
      BY <2>1, <3>1, <3>2
  <2>5. \A s \in Spec : runs' = 1 /\ Stored(s)' /\ behaviour'[s] = "FileConflicts" =>
            pc' \in {"install", "join", "done"} /\ s \notin todo'
    BY <1>2, <1>3, <1>5 DEF JudgedInv, CacheInv
  <2>. QED
    BY <1>3, <1>5, <2>2, <2>3, <2>4, <2>5 DEF CacheInv
<1>. QED
  BY <1>2, <1>6, ResultsKept DEF JudgedInv

LEMMA StutterJudged ==
    ASSUME JudgedInv, UNCHANGED vars
    PROVE  JudgedInv'
<1>1. UNCHANGED <<status, call, content, queue, stored>> /\ UNCHANGED ciVars /\ RunInv'
  BY StutterRun DEF vars, cacheVars, JudgedInv
<1>2. UNCHANGED <<behaviour, installed, input, skipped, order, plan, known, results, failed, to_keep, pc, todo, runs>>
  BY <1>1 DEF ciVars
<1>3. \A s : Stored(s)' <=> Stored(s)
  BY <1>1 DEF Stored
<1>4. Asks' <=> Asks
  BY <1>1 DEF Asks
<1>5. CacheInv'
  BY <1>1, <1>2, <1>3, <1>4, TruthSame DEF JudgedInv, CacheInv
<1>. QED
  BY <1>1, <1>3, <1>5, ResultsKept DEF JudgedInv

--------------------------------------------------------------------------------
(***************************************************************************)
(* The steps of the run keep JudgedInv.                                    *)
(***************************************************************************)
LEMMA InitJudged ==
    ASSUME InitCi
    PROVE  JudgedInv
<1>1. RunInv
  BY InitRunInv
<1>2. ABI = Spec /\ behaviour \in Behaviours /\ order \in Orders
  BY DEF InitCi, Spec
<1>3. \A s \in Spec : Stored(s) => Truth(s) = "builds"
  BY DEF InitCi, Stored
<1>4. CacheInv
  <2>1. status = [s \in Spec |-> Unknown] /\ queue = <<>>
    BY <1>2 DEF InitCi, InitCache
  <2>2. \A s \in Spec : Stored(s) => behaviour[s] = "Succeeded"
    BY <1>2, <1>3, TruthFacts
  <2>. QED
    BY <1>3, <2>1, <2>2, UnknownType DEF CacheInv, Solid
<1>5. TruthInv
  BY DEF InitCi, TruthInv, IsKnown
<1>6. ResultsInv
  BY DEF InitCi, ResultsInv, IsKnown
<1>. QED
  BY <1>1, <1>4, <1>5, <1>6 DEF JudgedInv

\* A step that does not touch the caches keeps what CacheInv says of them, if it does not turn back.
LEMMA CacheKept ==
    ASSUME JudgedInv, UNCHANGED <<status, queue, stored, behaviour, runs>>,
           pc' \notin {"start", "precheck", "prechecking"},
           pc \in {"install", "join", "done"} => pc' \in {"install", "join", "done"} /\ todo' \subseteq todo
    PROVE  CacheInv'
<1>1. \A s : (Stored(s)' <=> Stored(s)) /\ (Solid(s)' <=> Solid(s))
  BY TruthSame DEF Stored
<1>2. CacheInv
  BY DEF JudgedInv
<1>3. ASSUME NEW i \in 1 .. Len(queue')
      PROVE  Solid(queue[i].abi)'
  BY <1>1, <1>2 DEF CacheInv
<1>. QED
  BY <1>1, <1>2, <1>3 DEF CacheInv

\* ... and one that does not judge keeps TruthInv.
LEMMA TruthKept ==
    ASSUME JudgedInv, UNCHANGED <<stored, behaviour, input, known, runs>>, IsKnown, installed' \subseteq installed
    PROVE  TruthInv'
<1>1. \A s : (Stored(s)' <=> Stored(s)) /\ Truth(s)' = Truth(s)
  BY TruthSame DEF Stored
<1>. QED
  BY <1>1 DEF JudgedInv, TruthInv

LEMMA CalculateJudged ==
    ASSUME JudgedInv, CalculateCiSpecs
    PROVE  JudgedInv'
<1>1. /\ pc = "start" /\ pc' = "precheck" /\ UNCHANGED <<status, call, content, queue, stored>>
      /\ UNCHANGED <<behaviour, installed, input, known, results, failed, to_keep, todo, runs>>
  BY DEF CalculateCiSpecs, cacheVars
<1>2. \A s : (Stored(s)' <=> Stored(s)) /\ Truth(s)' = Truth(s) /\ (Solid(s)' <=> Solid(s))
  BY <1>1, TruthSame DEF Stored
<1>3. RunInv' /\ queue = <<>>
  BY <1>1, CalculateRun DEF JudgedInv, RunInv, FilesInv
<1>4. CacheInv'
  BY <1>1, <1>2, <1>3 DEF JudgedInv, CacheInv
<1>5. TruthInv' /\ ResultsInv'
  BY <1>1, <1>2 DEF JudgedInv, TruthInv, ResultsInv, IsKnown
<1>. QED
  BY <1>3, <1>4, <1>5 DEF JudgedInv

LEMMA PrecheckJudged ==
    ASSUME JudgedInv, Precheck
    PROVE  JudgedInv'
<1>1. /\ pc = "precheck" /\ pc' = "prechecking" /\ UNCHANGED <<status, content, queue, stored>>
      /\ UNCHANGED <<behaviour, installed, input, skipped, order, plan, known, results, failed, to_keep, todo, runs>>
  BY DEF Precheck
<1>2. \A s : (Stored(s)' <=> Stored(s)) /\ Truth(s)' = Truth(s) /\ (Solid(s)' <=> Solid(s))
  BY <1>1, TruthSame DEF Stored
<1>3. RunInv' /\ queue = <<>>
  BY <1>1, PrecheckRun DEF JudgedInv, RunInv, FilesInv
<1>4. CacheInv'
  BY <1>1, <1>2, <1>3 DEF JudgedInv, CacheInv
<1>5. TruthInv' /\ ResultsInv'
  BY <1>1, <1>2 DEF JudgedInv, TruthInv, ResultsInv, IsKnown
<1>. QED
  BY <1>3, <1>4, <1>5 DEF JudgedInv

LEMMA PreBuildStatusesJudged ==
    ASSUME JudgedInv, PreBuildStatuses
    PROVE  JudgedInv'
<1>1. /\ pc = "prechecking" /\ pc' = "prune" /\ todo' = plan
      /\ known' = [s \in Spec |-> IF skipped[s] # "no" THEN SkippedResult(skipped[s])
                                  ELSE IF s \in plan THEN KnownResult(s) ELSE "none"]
      /\ results' = known'
      /\ UNCHANGED <<status, content, queue, stored, behaviour, installed, input, skipped, order, plan, failed, runs>>
  BY DEF PreBuildStatuses
<1>2. \A s : (Stored(s)' <=> Stored(s)) /\ Truth(s)' = Truth(s) /\ (Solid(s)' <=> Solid(s))
  BY <1>1, TruthSame DEF Stored
<1>3. RunInv' /\ queue = <<>> /\ TypeInv
  BY <1>1, PreBuildStatusesRun DEF JudgedInv, RunInv, FilesInv
<1>4. \A s \in Spec : Stored(s) /\ behaviour[s] = "FileConflicts" => runs # 1
  BY <1>1 DEF JudgedInv, CacheInv
<1>5. CacheInv'
  BY <1>1, <1>2, <1>3, <1>4 DEF JudgedInv, CacheInv
<1>6. TruthInv'
  <2>1. ASSUME NEW s \in Spec
        PROVE  /\ known'[s] = "Cached" => Stored(s) /\ (runs = 1 => behaviour[s] = "Succeeded")
               /\ known'[s] = "BuildFailed" => s \in input.known_failures
               /\ known'[s] = "SkippedBySkipFailures" => input.mark[s] = "fail"
               /\ known'[s] = "SkippedByParentHashes" => s \in input.parent_hashes
    <3>1. CASE skipped[s] # "no"
      <4>1. skipped[s] \in {"Supports", "SupportsCascade", "Baseline", "BaselineCascade"}
        BY <1>1, <3>1, ReasonFacts DEF JudgedInv, RunInv, StepInv
      <4>2. known'[s] \in LeftOut
        BY <1>1, <3>1, <4>1, SkippedFacts
      <4>. QED
        BY <4>2 DEF LeftOut
    <3>2. CASE skipped[s] = "no" /\ s \notin plan
      BY <1>1, <3>2
    <3>3. CASE skipped[s] = "no" /\ s \in plan
      <4>1. known'[s] = KnownResult(s)
        BY <1>1, <3>3
      <4>2. IsAvailable(s) => Stored(s)
        BY DEF IsAvailable, JudgedInv, CacheInv
      <4>3. Stored(s) /\ runs = 1 => behaviour[s] = "Succeeded"
        <5>1. behaviour[s] \in {"Succeeded", "BuildFailed", "FileConflicts"}
          BY <1>3, CiAssumption DEF TypeInv
        <5>2. Stored(s) => behaviour[s] # "BuildFailed"
          BY DEF JudgedInv, CacheInv, Solid
        <5>. QED
          BY <1>4, <5>1, <5>2
      <4>. QED
        BY <4>1, <4>2, <4>3, KnownResultFacts
    <3>. QED
      BY <3>1, <3>2, <3>3
  <2>. QED
    BY <1>1, <1>2, <2>1 DEF JudgedInv, TruthInv
<1>7. ResultsInv'
  BY <1>1 DEF ResultsInv, Executes
<1>. QED
  BY <1>3, <1>5, <1>6, <1>7 DEF JudgedInv

\* Pruning, and what comes before the first package is installed, judges nothing.
LEMMA PlansJudged ==
    ASSUME JudgedInv, PruneNext \/ Prune
    PROVE  JudgedInv'
<1>1. /\ pc = "prune" /\ pc' \in {"prune", "join", "adjust"} /\ (pc' = "join" => input.dry_run)
      /\ UNCHANGED <<status, call, content, queue, stored>>
      /\ UNCHANGED <<behaviour, installed, input, skipped, order, known, results, failed, runs>>
  BY DEF PruneNext, Prune, cacheVars
<1>2. RunInv' /\ IsKnown
  BY <1>1, PruneNextRun, PruneRun DEF JudgedInv, IsKnown
<1>3. CacheInv' /\ TruthInv'
  BY <1>1, <1>2, CacheKept, TruthKept
<1>4. ResultsInv'
  BY <1>1, <1>2 DEF JudgedInv, ResultsInv, Executes
<1>. QED
  BY <1>2, <1>3, <1>4 DEF JudgedInv

LEMMA AdjustJudged ==
    ASSUME JudgedInv, Adjust
    PROVE  JudgedInv'
<1>1. /\ pc = "adjust" /\ pc' = "fetch" /\ installed' = installed \cap plan /\ todo' = plan \ installed
      /\ UNCHANGED <<status, call, queue, stored>>
      /\ UNCHANGED <<behaviour, input, skipped, order, plan, known, results, failed, to_keep, runs>>
  BY DEF Adjust
<1>2. RunInv' /\ IsKnown
  BY <1>1, AdjustRun DEF JudgedInv, IsKnown
<1>3. CacheInv' /\ TruthInv'
  BY <1>1, <1>2, CacheKept, TruthKept
<1>4. ResultsInv'
  <2>1. \A s \in Spec : results[s] = known[s]
    BY <1>1, <1>2 DEF JudgedInv, ResultsInv, Executes
  <2>2. ASSUME NEW s \in plan \ todo'
        PROVE  Judged(s)'
    <3>1. s \in installed /\ s \in installed' /\ s \in Spec
      BY <1>1 DEF JudgedInv, RunInv, TypeInv
    <3>2. Truth(s) = "builds" /\ Truth(s)' = Truth(s)
      BY <1>1, <3>1, TruthSame DEF JudgedInv, TruthInv
    <3>. QED
      BY <1>1, <2>1, <3>1, <3>2 DEF Judged
  <2>. QED
    BY <1>1, <2>1, <2>2 DEF ResultsInv
<1>. QED
  BY <1>2, <1>3, <1>4 DEF JudgedInv

\* A step that does not touch the results and does not end the run keeps what is said of them.
LEMMA FetchesJudged ==
    ASSUME JudgedInv, Fetch \/ FetchedPlan \/ Executed
    PROVE  JudgedInv'
<1>1. /\ \/ pc = "fetch" /\ pc' = "fetching"
         \/ pc = "fetching" /\ pc' = "install"
         \/ pc = "install" /\ pc' = "join"
      /\ UNCHANGED <<status, content, queue, stored>>
      /\ UNCHANGED <<behaviour, installed, input, skipped, order, plan, known, results, failed, to_keep, todo, runs>>
  BY DEF Fetch, FetchedPlan, Executed, cacheVars
<1>2. RunInv' /\ IsKnown
  BY <1>1, FetchRun, FetchedPlanRun, ExecutedRun DEF JudgedInv, IsKnown
<1>3. CacheInv' /\ TruthInv'
  BY <1>1, <1>2, CacheKept, TruthKept
<1>4. ResultsInv'
  <2>1. \A s : Judged(s) => Judged(s)'
    BY <1>1, JudgedSame
  <2>. QED
    BY <1>1, <1>2, <2>1 DEF JudgedInv, ResultsInv, Executes
<1>. QED
  BY <1>2, <1>3, <1>4 DEF JudgedInv

LEMMA ReportJudged ==
    ASSUME JudgedInv, Report
    PROVE  JudgedInv'
<1>1. /\ pc = "join" /\ pc' = "done"
      /\ failed' = \E s \in Spec : results[s] # "none" /\ Regression(results[s], input.mark[s])
      /\ UNCHANGED <<status, call, content, queue, stored>>
      /\ UNCHANGED <<behaviour, installed, input, skipped, order, plan, known, results, to_keep, todo, runs>>
  BY DEF Report, cacheVars
<1>2. RunInv' /\ IsKnown
  BY <1>1, ReportRun DEF JudgedInv, IsKnown
<1>3. CacheInv' /\ TruthInv'
  BY <1>1, <1>2, CacheKept, TruthKept
<1>4. ResultsInv'
  <2>1. \A s : Judged(s) => Judged(s)'
    BY <1>1, JudgedSame
  <2>2. (\E s \in Spec : results[s] # "none" /\ Regression(results[s], input.mark[s]))'
           = \E s \in Spec : results[s] # "none" /\ Regression(results[s], input.mark[s])
    BY <1>1 DEF Regression
  <2>. QED
    BY <1>1, <1>2, <2>1, <2>2 DEF JudgedInv, ResultsInv, Executes
<1>. QED
  BY <1>2, <1>3, <1>4 DEF JudgedInv

LEMMA AgainJudged ==
    ASSUME JudgedInv, Again
    PROVE  JudgedInv'
<1>1. /\ pc = "done" /\ pc' = "start" /\ runs' = runs + 1 /\ installed' \in {installed, {}}
      /\ status' = [s \in ABI |-> Unknown] /\ ABI = Spec
      /\ UNCHANGED <<call, content, queue, stored, behaviour, input, order, to_keep, todo>>
  BY DEF Again, Spec
<1>2. RunInv' /\ queue = <<>> /\ runs \in Nat \ {0}
  BY <1>1, AgainRun DEF JudgedInv, RunInv, FilesInv, TypeInv
<1>3. \A s : (Stored(s)' <=> Stored(s)) /\ Truth(s)' = Truth(s) /\ (Solid(s)' <=> Solid(s))
  BY <1>1, TruthSame DEF Stored
<1>4. runs' # 1
  BY <1>1, <1>2
<1>5. CacheInv'
  BY <1>1, <1>2, <1>3, <1>4, UnknownType DEF JudgedInv, CacheInv
<1>6. TruthInv' /\ ResultsInv'
  BY <1>1, <1>3 DEF JudgedInv, TruthInv, ResultsInv, IsKnown
<1>. QED
  BY <1>2, <1>5, <1>6 DEF JudgedInv

\* What the execution of the next action comes to is what the package does by itself.
LEMMA OutcomeFacts ==
    ASSUME JudgedInv, pc = "install", todo # {}, NEW s, s = FirstOf(todo)
    PROVE  /\ s \in todo /\ s \in Spec
           /\ Truth(s) = "builds" => Outcome(s) = "Succeeded"
           /\ Truth(s) = "fails" => Outcome(s) = behaviour[s] /\ Outcome(s) \in {"BuildFailed", "FileConflicts"}
           /\ Truth(s) = "cascades" => Outcome(s) = "CascadedDueToMissingDependencies"
           /\ runs = 1 /\ IsRestored(s) => behaviour[s] # "FileConflicts"
<1>1. /\ RunInv /\ TypeInv /\ order \in Orders /\ behaviour \in Behaviours
      /\ todo \in SUBSET Spec /\ todo \in SUBSET plan /\ plan \in SUBSET Spec
  BY DEF JudgedInv, RunInv, TypeInv
<1>2. s \in todo /\ s \in Spec /\ s \in plan /\ \A r \in todo : At(s) <= At(r)
  BY <1>1, EndFacts
<1>3. plan = Closure(Roots) /\ ~ input.dry_run
  BY DEF JudgedInv, RunInv, PlanInv, StepInv
<1>4. ASSUME NEW n \in Needs[s]
      PROVE  n \in Spec /\ n \in plan \ todo
  <2>1. n \in plan
    BY <1>2, <1>3, <1>4, WantedFacts
  <2>2. n \in Spec /\ At(n) < At(s)
    BY <1>1, <1>2, OrderFacts
  <2>3. At(n) \in Nat /\ At(s) \in Nat
    BY <1>1, <1>2, <2>2, OrderFacts
  <2>. QED
    BY <1>2, <2>1, <2>2, <2>3
<1>5. \A n \in Needs[s] : n \in installed <=> Truth(n) = "builds"
  <2>1. \A n \in Needs[s] : Judged(n)
    BY <1>3, <1>4 DEF JudgedInv, ResultsInv, Executes, IsKnown
  <2>2. \A n \in installed : Truth(n) = "builds"
    BY DEF JudgedInv, TruthInv
  <2>. QED
    BY <2>1, <2>2 DEF Judged
<1>6. Needs[s] \subseteq installed <=> Truth(s) # "cascades"
  BY <1>1, <1>2, <1>5, TruthFacts
<1>7. IsRestored(s) => Stored(s) /\ Solid(s)
  BY <1>2 DEF IsRestored, JudgedInv, CacheInv
<1>8. runs = 1 /\ IsRestored(s) => behaviour[s] # "FileConflicts"
  BY <1>2, <1>7 DEF JudgedInv, CacheInv
<1>9. behaviour[s] \in {"Succeeded", "BuildFailed", "FileConflicts"}
  BY <1>1, <1>2, CiAssumption
<1>. QED
  BY <1>1, <1>2, <1>6, <1>7, <1>8, <1>9, TruthFacts DEF Outcome, Solid

LEMMA InstallJudged ==
    ASSUME JudgedInv, Install, NEW s, s = FirstOf(todo)
    PROVE  JudgedInv'
<1>1. /\ pc = "install" /\ pc' = "install" /\ todo # {} /\ todo' = todo \ {s}
      /\ results' = [results EXCEPT ![s] = Outcome(s)]
      /\ installed' = IF Outcome(s) = "Succeeded" THEN installed \cup {s} ELSE installed
      /\ IF Outcome(s) \in {"Succeeded", "FileConflicts"} THEN PushSuccess(Action(s))
         ELSE UNCHANGED <<status, content, queue>>
      /\ UNCHANGED <<call, stored, behaviour, input, skipped, order, plan, known, failed, to_keep, runs>>
  BY DEF Install
<1>2. /\ s \in todo /\ s \in Spec
      /\ Truth(s) = "builds" => Outcome(s) = "Succeeded"
      /\ Truth(s) = "fails" => Outcome(s) = behaviour[s] /\ Outcome(s) \in {"BuildFailed", "FileConflicts"}
      /\ Truth(s) = "cascades" => Outcome(s) = "CascadedDueToMissingDependencies"
  BY <1>1, OutcomeFacts
<1>3. RunInv' /\ TypeInv /\ order \in Orders /\ behaviour \in Behaviours
  BY InstallRun DEF JudgedInv, RunInv, TypeInv
<1>4. Truth(s) \in {"builds", "fails", "cascades"}
  BY <1>2, <1>3, TruthFacts
<1>5. \A r : (Stored(r)' <=> Stored(r)) /\ Truth(r)' = Truth(r) /\ (Solid(r)' <=> Solid(r))
  BY <1>1, TruthSame DEF Stored
<1>6. Outcome(s) \in {"Succeeded", "FileConflicts"} => Solid(s)
  BY <1>2, <1>3, <1>4, TruthFacts DEF Solid
<1>. DEFINE x == Action(s)
<1>7. /\ \A r \in Spec : status'[r] = Unknown \/ status'[r] = status[r]
      /\ \/ queue' = queue
         \/ queue' = Append(queue, x) /\ Solid(s)
  <2>1. CASE Outcome(s) \in {"Succeeded", "FileConflicts"}
    <3>1. /\ status' = [status EXCEPT ![s] = Unknown]
          /\ UNCHANGED queue \/ queue' = Append(queue, x)
      BY <1>1, <2>1 DEF PushSuccess, Action
    <3>2. status \in [Spec -> Status]
      BY <1>3 DEF TypeInv
    <3>. HIDE DEF x
    <3>. QED
      BY <1>2, <1>6, <2>1, <3>1, <3>2
  <2>2. CASE ~ (Outcome(s) \in {"Succeeded", "FileConflicts"})
    BY <1>1, <2>2
  <2>. QED
    BY <2>1, <2>2
<1>8. CacheInv'
  <2>1. \A r \in Spec : status'[r].state = "restored" \/ status'[r].provider # NoProvider => Stored(r)'
    BY <1>5, <1>7, UnknownType DEF JudgedInv, CacheInv
  <2>2. \A r \in Spec : Stored(r)' => Solid(r)'
    BY <1>5 DEF JudgedInv, CacheInv
  <2>3. ASSUME NEW i \in 1 .. Len(queue')
        PROVE  Solid(queue[i].abi)'
    <3>1. CASE queue' = queue
      BY <1>5, <3>1 DEF JudgedInv, CacheInv
    <3>2. CASE queue' = Append(queue, x) /\ Solid(s)
      <4>1. /\ Len(queue) \in Nat /\ Len(queue') = Len(queue) + 1
            /\ \A j \in 1 .. Len(queue) : queue'[j] = queue[j]
            /\ queue'[Len(queue) + 1] = x
        BY <1>3, <3>2, AppendProperties, LenProperties DEF TypeInv
      <4>2. x.abi = s
        BY DEF Action
      <4>3. CASE i \in 1 .. Len(queue)
        <5>1. queue'[i] = queue[i] /\ Solid(queue[i].abi)
          BY <4>1, <4>3 DEF JudgedInv, CacheInv
        <5>. QED
          BY <1>5, <5>1
      <4>4. CASE i = Len(queue) + 1
        <5>1. queue'[i].abi = s
          BY <4>1, <4>2, <4>4
        <5>. QED
          BY <1>5, <3>2, <5>1
      <4>. QED
        BY <4>1, <4>3, <4>4
    <3>. QED
      BY <1>7, <3>1, <3>2
  <2>4. \A r \in Spec : runs' = 1 /\ Stored(r)' /\ behaviour'[r] = "FileConflicts" =>
            pc' \in {"install", "join", "done"} /\ r \notin todo'
    BY <1>1, <1>5 DEF JudgedInv, CacheInv
  <2>. QED
    BY <1>1, <2>1, <2>2, <2>3, <2>4 DEF CacheInv
<1>9. TruthInv'
  <2>1. IsKnown
    BY <1>1 DEF IsKnown
  <2>2. \A r \in installed' : Truth(r) = "builds"
    BY <1>1, <1>2, <1>4 DEF JudgedInv, TruthInv
  <2>. QED
    BY <1>1, <1>5, <2>1, <2>2 DEF JudgedInv, TruthInv
<1>10. ResultsInv'
  <2>1. IsKnown /\ Executes /\ Executes'
    BY <1>1 DEF IsKnown, Executes, JudgedInv, RunInv, StepInv
  <2>2. \A r \in Spec : r # s => results'[r] = results[r]
    BY <1>1
  <2>3. Judged(s)'
    <3>1. results'[s] = Outcome(s)
      BY <1>1, <1>2, <1>3 DEF TypeInv
    <3>. QED
      BY <1>1, <1>2, <1>4, <1>5, <3>1 DEF Judged
  <2>4. ASSUME NEW r \in Spec
        PROVE  IF r \in plan \ todo' THEN Judged(r)' ELSE results'[r] = known[r]
    <3>1. CASE r = s
      BY <1>1, <1>2, <2>3, <3>1 DEF JudgedInv, RunInv, TypeInv
    <3>2. CASE r # s /\ r \in plan \ todo
      <4>1. Judged(r)
        BY <2>1, <3>2 DEF JudgedInv, ResultsInv
      <4>2. Judged(r)'
        BY <1>1, <2>2, <3>2, <4>1, JudgedSame
      <4>. QED
        BY <1>1, <3>2, <4>2
    <3>3. CASE r # s /\ r \notin plan \ todo
      BY <1>1, <2>1, <2>2, <3>3 DEF JudgedInv, ResultsInv
    <3>. QED
      BY <3>1, <3>2, <3>3
  <2>. QED
    BY <1>1, <2>1, <2>4 DEF ResultsInv
<1>. QED
  BY <1>3, <1>8, <1>9, <1>10 DEF JudgedInv

LEMMA NextJudged ==
    ASSUME OneAnswers, JudgedInv, [NextCi]_vars
    PROVE  JudgedInv'
<1>1. CASE UNCHANGED vars
  BY <1>1, StutterJudged
<1>2. CASE CacheStep /\ UNCHANGED ciVars
  BY <1>2, FetchFromJudged, PrecheckFromJudged, UploadJudged DEF CacheStep
<1>3. CASE Install
  BY <1>3, InstallJudged
<1>4. CASE CiStep /\ ~ Install
  BY <1>4, CalculateJudged, PrecheckJudged, PreBuildStatusesJudged, PlansJudged, AdjustJudged, FetchesJudged,
     ReportJudged, AgainJudged DEF CiStep
<1>. QED
  BY <1>1, <1>2, <1>3, <1>4 DEF NextCi

LEMMA JudgedInvHolds == OneAnswers => (CiRuns => []JudgedInv)
<1>. SUFFICES ASSUME OneAnswers
              PROVE  CiRuns => []JudgedInv
  OBVIOUS
<1>1. InitCi => JudgedInv
  BY InitJudged
<1>2. JudgedInv /\ [NextCi]_vars => JudgedInv'
  BY NextJudged
<1>. QED
  BY <1>1, <1>2, PTL DEF CiRuns

--------------------------------------------------------------------------------
(***************************************************************************)
(* The theorems about what is reported.                                    *)
(***************************************************************************)

\* What a selected port is known as when the plan is pruned, and what a spec is known as that is not
\* in the plan or was left out.
LEMMA SelectedFacts ==
    ASSUME RunInv, pc # "start", NEW p \in Ports
    PROVE  /\ Selected(p) <=> skipped[p] = "no"
           /\ skipped[p] = "no" => p \in Wanted
<1>1. p \in Spec /\ p[2] = Target
  BY DEF Ports
<1>2. skipped[p] = SkipReason(p) /\ p \in ClosureOf[p]
  BY <1>1, ClosureOfFacts DEF RunInv, StepInv
<1>3. p[1] \in Skips(Target) => CascadeForTriplet(ClosureOf[p])
  BY <1>1, <1>2 DEF CascadeForTriplet
<1>4. skipped[p] = "no" => p \in Requested(skipped)
  BY DEF Requested
<1>. QED
  BY <1>2, <1>3, <1>4, ReasonFacts, WantedFacts, ClosureFacts DEF Selected, Wanted

\* A run that is not a dry run and reports nothing has tried every selected port that its arguments
\* do not except (command_ci_and_exit, format_ci_result).
THEOREM CatchesBreakageHolds == OneAnswers => (CiRuns => []CatchesBreakage)
<1>. SUFFICES ASSUME OneAnswers
              PROVE  CiRuns => []CatchesBreakage
  OBVIOUS
<1>1. JudgedInv => CatchesBreakage
  <2>. SUFFICES ASSUME JudgedInv, pc = "done", ~ failed, ~ input.dry_run, runs = 1 \/ ~ ConflictCached,
                       NEW p \in Ports, Selected(p), Truth(p) = "fails",
                       input.mark[p] # "fail", p \notin input.parent_hashes
                PROVE  FALSE
    BY DEF CatchesBreakage
  <2>1. /\ RunInv /\ TypeInv /\ IsKnown /\ Executes /\ p \in Spec /\ order \in Orders /\ behaviour \in Behaviours
        /\ todo = {} /\ plan = Closure(Roots)
    BY DEF JudgedInv, RunInv, TypeInv, IsKnown, Executes, Ports, StepInv, PlanInv
  <2>2. skipped[p] = "no" /\ known[p] \in Known
    <3>1. skipped[p] = "no" /\ p \in Wanted
      BY <2>1, SelectedFacts
    <3>. QED
      BY <2>1, <3>1 DEF RunInv, KnownInv
  <2>3. behaviour[p] \in {"BuildFailed", "FileConflicts"}
    BY <2>1, TruthFacts
  <2>4. known[p] # "Cached"
    <3>1. Stored(p) => behaviour[p] = "FileConflicts"
      BY <2>1, <2>3 DEF JudgedInv, CacheInv, Solid
    <3>2. Stored(p) => ConflictCached
      BY <3>1 DEF Stored, ConflictCached
    <3>. QED
      BY <2>1, <2>3, <3>2 DEF JudgedInv, TruthInv
  <2>5. known[p] \in ToBuild
    BY <2>1, <2>2, <2>4 DEF JudgedInv, TruthInv, Known, ToBuild
  <2>6. p \in plan \ todo
    BY <2>1, <2>5, WantedFacts DEF Roots
  <2>7. results[p] = behaviour[p]
    <3>1. Judged(p)
      BY <2>1, <2>6 DEF JudgedInv, ResultsInv
    <3>. QED
      BY <3>1 DEF Judged
  <2>8. Regression(results[p], input.mark[p])
    BY <2>3, <2>7 DEF Regression
  <2>. QED
    BY <2>1, <2>3, <2>7, <2>8 DEF JudgedInv, ResultsInv
<1>2. CiRuns => []JudgedInv
  BY JudgedInvHolds
<1>. QED
  BY <1>1, <1>2, PTL

\* What the result of a spec says of it, at the end of a run.
LEMMA ResultFacts ==
    ASSUME JudgedInv, pc = "done", NEW s \in Spec
    PROVE  /\ results[s] \in {"none"} \cup LeftOut \cup Known
                  \cup {"Succeeded", "FileConflicts", "CascadedDueToMissingDependencies"}
           /\ results[s] \in LeftOut => s \in Ports /\ skipped[s] # "no" /\ results[s] = SkippedResult(skipped[s])
           /\ results[s] = "Cached" => Stored(s) /\ (runs = 1 => behaviour[s] = "Succeeded")
           /\ results[s] = "Succeeded" => Truth(s) = "builds"
           /\ results[s] \in {"BuildFailed", "FileConflicts"} => Truth(s) = "fails" /\ skipped[s] = "no" /\ s \in Wanted
           /\ results[s] = "CascadedDueToMissingDependencies" => Truth(s) = "cascades"
<1>1. /\ RunInv /\ TypeInv /\ IsKnown /\ order \in Orders /\ behaviour \in Behaviours
      /\ plan = Closure(Roots) /\ todo = {}
      /\ skipped[s] = IF s \in Ports THEN SkipReason(s) ELSE "no"
  BY DEF JudgedInv, RunInv, TypeInv, IsKnown, StepInv, PlanInv
<1>2. /\ skipped[s] # "no" => known[s] = SkippedResult(skipped[s]) /\ known[s] \in LeftOut /\ s \in Ports
      /\ skipped[s] = "no" /\ s \notin Wanted => known[s] = "none"
      /\ skipped[s] = "no" /\ s \in Wanted => known[s] \in Known
  <2>1. skipped[s] # "no" => skipped[s] \in {"Supports", "SupportsCascade", "Baseline", "BaselineCascade"}
    BY <1>1, ReasonFacts
  <2>. QED
    BY <1>1, <2>1, SkippedFacts DEF RunInv, KnownInv
<1>3. /\ known[s] = "Cached" => Stored(s) /\ (runs = 1 => behaviour[s] = "Succeeded")
      /\ known[s] = "BuildFailed" => Truth(s) = "fails" /\ behaviour[s] = "BuildFailed"
  BY <1>1 DEF JudgedInv, TruthInv
<1>4. CASE Executes /\ s \in plan \ todo
  <2>1. Judged(s)
    BY <1>1, <1>4 DEF JudgedInv, ResultsInv
  <2>2. skipped[s] = "no" /\ s \in Wanted
    <3>1. Roots \subseteq Wanted
      <4>1. ASSUME NEW r \in Roots
            PROVE  r \in Wanted
        <5>1. r \in Spec /\ known[r] \in ToBuild
          BY DEF Roots
        <5>2. skipped[r] # "no" => skipped[r] \in {"Supports", "SupportsCascade", "Baseline", "BaselineCascade"}
          BY <1>1, <5>1, ReasonFacts DEF RunInv, StepInv
        <5>3. skipped[r] # "no" => known[r] \in LeftOut
          BY <1>1, <5>1, <5>2, SkippedFacts DEF RunInv, KnownInv
        <5>. QED
          BY <1>1, <5>1, <5>3 DEF RunInv, KnownInv, ToBuild, LeftOut
      <4>. QED
        BY <4>1
    <3>2. s \in Wanted
      BY <1>1, <1>4, <3>1, WantedFacts
    <3>. QED
      BY <1>1, <3>2, WantedIsNotSkipped
  <2>3. Truth(s) \in {"builds", "fails", "cascades"} /\ (Truth(s) = "fails" => behaviour[s] \in {"BuildFailed", "FileConflicts"})
    BY <1>1, TruthFacts
  <2>4. CASE Truth(s) = "builds"
    BY <1>2, <1>3, <2>1, <2>2, <2>4 DEF Judged, LeftOut, Known
  <2>5. CASE Truth(s) = "fails"
    BY <2>1, <2>2, <2>3, <2>5 DEF Judged, LeftOut, Known
  <2>6. CASE Truth(s) = "cascades"
    BY <2>1, <2>2, <2>6 DEF Judged, LeftOut, Known
  <2>. QED
    BY <2>3, <2>4, <2>5, <2>6
<1>5. CASE ~ (Executes /\ s \in plan \ todo)
  <2>1. results[s] = known[s]
    BY <1>1, <1>5 DEF JudgedInv, ResultsInv
  <2>. QED
    BY <1>2, <1>3, <2>1 DEF LeftOut, Known
<1>. QED
  BY <1>4, <1>5

\* What is wanted is not to be skipped, in the triplet that it is for.
LEMMA SkipMarks ==
    ASSUME RunInv, pc # "start", NEW s \in Wanted, input.mark[s] = "skip"
    PROVE  FALSE
<1>1. PICK r \in Requested(skipped) : s \in ClosureOf[r] /\ r \in Spec /\ s \in Spec
  <2>1. Requested(skipped) \in SUBSET Spec /\ s \in Closure(Requested(skipped)) /\ s \in Spec
    BY WantedFacts DEF Wanted
  <2>. QED
    BY <2>1, ClosureOfOne
<1>2. r \in Ports /\ skipped[r] = "no"
  BY <1>1 DEF Requested
<1>3. ~ CascadeForTriplet(ClosureOf[r])
  BY <1>1, <1>2, ReasonFacts DEF RunInv, StepInv
<1>4. s[1] \in Skips(s[2]) /\ s[2] \in {Target, Host}
  BY <1>1, CiAssumption DEF Skips
<1>. QED
  BY <1>1, <1>3, <1>4 DEF CascadeForTriplet

\* A run whose baseline is right reports nothing, the first time and when it is repeated, unless a
\* package is cached whose files conflict (format_ci_result).
THEOREM NoFalseAlarmHolds == OneAnswers => (CiRuns => []NoFalseAlarm)
<1>. SUFFICES ASSUME OneAnswers
              PROVE  CiRuns => []NoFalseAlarm
  OBVIOUS
<1>1. JudgedInv => NoFalseAlarm
  <2>. SUFFICES ASSUME JudgedInv, pc = "done", failed, BaselineIsRight
                PROVE  runs > 1 /\ ConflictCached
    BY DEF NoFalseAlarm
  <2>1. PICK s \in Spec : results[s] # "none" /\ Regression(results[s], input.mark[s])
    BY DEF JudgedInv, ResultsInv
  <2>2. /\ RunInv /\ TypeInv /\ order \in Orders /\ behaviour \in Behaviours /\ runs \in Nat \ {0}
        /\ input.mark[s] \in {"none", "fail", "skip", "pass"} /\ MarkIsRight(s)
    BY CiAssumption DEF JudgedInv, RunInv, TypeInv, BaselineIsRight
  <2>3. s \in Ports => skipped[s] = SkipReason(s)
    BY <2>2 DEF RunInv, StepInv
  <2>4. CASE results[s] = "Cached"
    <3>1. Stored(s) /\ (runs = 1 => behaviour[s] = "Succeeded")
      BY <2>4, ResultFacts
    <3>2. input.mark[s] = "fail"
      BY <2>1, <2>4 DEF Regression
    <3>3. Truth(s) = "fails"
      BY <2>2, <3>2 DEF MarkIsRight
    <3>4. behaviour[s] \in {"BuildFailed", "FileConflicts"}
      BY <2>2, <3>3, TruthFacts
    <3>5. behaviour[s] = "FileConflicts"
      BY <3>1, <3>4 DEF JudgedInv, CacheInv, Solid
    <3>. QED
      BY <2>2, <3>1, <3>5 DEF ConflictCached, Stored
  <2>5. CASE results[s] = "Succeeded"
    <3>1. Truth(s) = "builds" /\ input.mark[s] = "fail"
      BY <2>1, <2>5, ResultFacts DEF Regression
    <3>. QED
      BY <2>2, <3>1 DEF MarkIsRight
  <2>6. CASE results[s] \in {"BuildFailed", "FileConflicts"}
    <3>1. Truth(s) = "fails" /\ skipped[s] = "no" /\ s \in Wanted /\ input.mark[s] # "fail"
      BY <2>1, <2>6, ResultFacts DEF Regression
    <3>2. input.mark[s] = "skip"
      BY <2>2, <3>1 DEF MarkIsRight
    <3>. QED
      BY <2>2, <3>1, <3>2, SkipMarks
  <2>7. CASE results[s] = "CascadedDueToMissingDependencies"
    <3>1. Truth(s) = "cascades" /\ input.mark[s] = "pass"
      BY <2>1, <2>7, ResultFacts DEF Regression
    <3>. QED
      BY <2>2, <3>1 DEF MarkIsRight
  <2>8. CASE results[s] \in LeftOut
    <3>1. s \in Ports /\ SkipReason(s) # "no" /\ results[s] = SkippedResult(SkipReason(s))
      BY <2>3, <2>8, ResultFacts
    <3>2. CASE SkipReason(s) \in {"Supports", "SupportsCascade"}
      <4>1. ~ (ClosureOf[s] \subseteq input.supported)
        BY <3>2, ReasonFacts
      <4>2. results[s] \in {"Unsupported", "CascadedDueToSupports"}
        BY <3>1, <3>2 DEF SkippedResult
      <4>3. input.mark[s] \in {"fail", "pass"}
        BY <2>1, <4>2 DEF Regression
      <4>. QED
        BY <2>2, <4>1, <4>3 DEF MarkIsRight, Selected
    <3>3. CASE SkipReason(s) = "BaselineCascade"
      <4>1. CascadeForTriplet(ClosureOf[s])
        BY <3>3, ReasonFacts
      <4>2. results[s] = "CascadedDueToBaseline"
        BY <3>1, <3>3 DEF SkippedResult
      <4>3. input.mark[s] = "pass"
        BY <2>1, <4>2 DEF Regression
      <4>. QED
        BY <2>2, <4>1, <4>3 DEF MarkIsRight, Selected
    <3>4. CASE SkipReason(s) = "Baseline"
      <4>1. results[s] = "Skipped"
        BY <3>1, <3>4 DEF SkippedResult
      <4>. QED
        BY <2>1, <4>1 DEF Regression
    <3>. QED
      BY <3>1, <3>2, <3>3, <3>4, ReasonFacts
  <2>9. CASE results[s] \in {"SkippedBySkipFailures", "SkippedByParentHashes", "SkippedByDryRun"}
    BY <2>1, <2>9 DEF Regression
  <2>. QED
    BY <2>1, <2>4, <2>5, <2>6, <2>7, <2>8, <2>9, ResultFacts DEF Known
<1>2. CiRuns => []JudgedInv
  BY JudgedInvHolds
<1>. QED
  BY <1>1, <1>2, PTL

--------------------------------------------------------------------------------
(***************************************************************************)
(* FeatureTests.                                                           *)
(***************************************************************************)
\* What a port and its baseline entry call features.
NamesOf(p) == ToSet(Paragraphs[p]) \cup UNION {ToSet(o) : o \in ToSet(baseline[p].options)}

\* No two ports have features of the same name: a list of features that was chosen for one port counts
\* as chosen for all.
OwnNames == \A p, q \in PortSet : p # q => ToSet(Paragraphs[p]) \cap NamesOf(q) = {}

\* Sets of options do not overlap.
OptionsDisjoint ==
    \A p \in PortSet : \A o1, o2 \in ToSet(baseline[p].options) :
        ToSet(o1) \cap ToSet(o2) # {} => ToSet(o1) = ToSet(o2)

\* MayCombine for any port.
Combines(p, f) ==
    /\ f \notin baseline[p].cascade \cup baseline[p].fail
    /\ \A o \in ToSet(baseline[p].options) : f \notin ToSet(o) \/ o[1] = f \/ (o[1] = Core /\ o[2] = f)

\* What EachFeatureTested says of a feature.
IsTested(p, f) ==
    \/ baseline[p].state = "Skip" \/ Core \notin supported[p]
    \/ f \in baseline[p].skip \cup baseline[p].no_separate \/ f \notin supported[p]
    \/ \E t \in Tests :
           /\ t.port = p
           /\ {Core, f} \subseteq DOMAIN t.features
           /\ DOMAIN t.features \ {Core, f} \subseteq
                  {g \in FirstsOf(p) : \A o \in ToSet(baseline[p].options) : g \in ToSet(o) => f \notin ToSet(o)}

LoopInv ==
    /\ baseline \in [PortSet -> Entries]
    /\ port \in Nat \ {0} /\ feature \in Nat
    /\ specs_to_test \in Seq(Tests)

\* No test has a feature that its port and its entry do not name.
NamesInv == \A t \in Tests : t.port \in PortSet /\ DOMAIN t.features \subseteq {Core} \cup NamesOf(t.port)

CombinedInv ==
    /\ ~ Finished => DOMAIN combined_features \subseteq {Core} \cup {f \in ToSet(Paragraphs[Port]) : Combines(Port, f)}
    /\ \A t \in Tests : t.kind = "Combined" => DOMAIN t.features \subseteq 
             {Core} \cup {f \in NamesOf(t.port) : Combines(t.port, f)}

TestedInv ==
    "Separate" \in flags =>
        \A k \in DOMAIN feature_test_ports : \A j \in DOMAIN Paragraphs[feature_test_ports[k]] :
            k < port \/ (k = port /\ j < feature) =>
                IsTested(feature_test_ports[k], Paragraphs[feature_test_ports[k]][j])

FeaturesInv == LoopInv /\ NamesInv /\ CombinedInv

--------------------------------------------------------------------------------
LEMMA AppendSet ==
    ASSUME NEW s, s \in Seq(ToSet(s)), NEW e
    PROVE  Append(s, e) \in Seq(ToSet(Append(s, e))) /\ ToSet(Append(s, e)) = ToSet(s) \cup {e}
  <1> DEFINE T == ToSet(s) \cup {e}
             a == Append(s, e)
  <1>1. s \in Seq(T)
    <2>1. Len(s) \in Nat /\ DOMAIN s = 1 .. Len(s) /\ s \in [1 .. Len(s) -> ToSet(s)]
      BY LenProperties, ElementOfSeq
    <2>2. s \in [1 .. Len(s) -> T]
      BY <2>1
    <2> QED
      BY <2>1, <2>2, SeqDef
  <1>2. /\ a \in Seq(T) /\ Len(s) \in Nat /\ Len(a) = Len(s) + 1
        /\ \A i \in 1 .. Len(s) : a[i] = s[i]
        /\ a[Len(s) + 1] = e
    BY <1>1, AppendProperties, LenProperties
  <1>3. DOMAIN s = 1 .. Len(s) /\ DOMAIN a = 1 .. Len(a)
    BY <1>1, <1>2, LenProperties
  <1> HIDE DEF a
  <1>4. ToSet(a) = T
    BY <1>2, <1>3 DEF ToSet
  <1> QED
    BY <1>2, <1>4 DEF a

LEMMA SetBagDomain == ASSUME NEW S PROVE DOMAIN SetToBag(S) = S
  BY DEF SetToBag

LEMMA CupDomain == ASSUME NEW A, NEW B PROVE DOMAIN (A (+) B) = DOMAIN A \cup DOMAIN B
  BY DEF (+)

LEMMA SetCupDomain == ASSUME NEW S, NEW B PROVE DOMAIN (SetToBag(S) (+) B) = S \cup DOMAIN B
  <1> DEFINE A == SetToBag(S)
  <1>1. DOMAIN A = S
    BY SetBagDomain
  <1> HIDE DEF A
  <1>2. DOMAIN (A (+) B) = DOMAIN A \cup DOMAIN B
    BY CupDomain
  <1> QED
    BY <1>1, <1>2 DEF A

LEMMA AddFacts ==
    ASSUME LoopInv, NEW features, NEW kind, Add(features, kind)
    PROVE  /\ specs_to_test' \in Seq(Tests')
           /\ Tests' = Tests \cup {[port |-> Port, features |-> features, kind |-> kind]}
  BY AppendSet DEF LoopInv, Add, Tests

LEMMA PortFacts ==
    ASSUME LoopInv, ~ Finished
    PROVE  /\ port \in DOMAIN feature_test_ports /\ Port \in PortSet /\ Entry \in Entries
           /\ Paragraphs[Port] \in Seq(ToSet(Paragraphs[Port])) /\ Core \notin ToSet(Paragraphs[Port])
           /\ Entry = baseline[Port]
  <1>1. DOMAIN feature_test_ports = 1 .. Len(feature_test_ports) /\ Len(feature_test_ports) \in Nat
    BY FeaturesAssumption, LenProperties
  <1>2. port \in DOMAIN feature_test_ports
    BY <1>1 DEF LoopInv, Finished
  <1> QED
    BY <1>2, FeaturesAssumption DEF LoopInv, Port, PortSet, ToSet, Entry

\* The first options are options.
LEMMA FrontFacts ==
    ASSUME LoopInv, ~ Finished, NEW sets \in SUBSET DOMAIN Entry.options
    PROVE  /\ DOMAIN Fronts(sets) = {Entry.options[i][1] : i \in sets}
           /\ \A i \in sets : /\ Entry.options[i] \in ToSet(Entry.options)
                              /\ Entry.options[i][1] \in ToSet(Entry.options[i])
           /\ DOMAIN Fronts(sets) \subseteq NamesOf(Port)
  <1>1. DOMAIN Fronts(sets) = {Entry.options[i][1] : i \in sets}
    BY DEF Fronts
  <1>2. ASSUME NEW i \in sets
        PROVE  Entry.options[i] \in ToSet(Entry.options) /\ Entry.options[i][1] \in ToSet(Entry.options[i])
    <2>1. Entry.options[i] \in ToSet(Entry.options)
      BY DEF ToSet
    <2>2. Entry.options[i] \in Seq(ToSet(Entry.options[i])) /\ Entry.options[i] # <<>>
      BY <2>1, PortFacts, FeaturesAssumption
    <2>3. 1 \in DOMAIN Entry.options[i]
      BY <2>2, LenProperties, EmptySeq
    <2> QED
      BY <2>1, <2>3 DEF ToSet
  <1> QED
    BY <1>1, <1>2, PortFacts DEF NamesOf

LEMMA SeparateFacts ==
    ASSUME LoopInv, ~ Finished, NEW f
    PROVE  /\ {Core, f} \subseteq DOMAIN SeparateFeatures(f)
           /\ DOMAIN SeparateFeatures(f) \subseteq {Core, f} \cup NamesOf(Port)
           /\ OptionsDisjoint => DOMAIN SeparateFeatures(f) \ {Core, f} \subseteq
                  {g \in FirstsOf(Port) : \A o \in ToSet(baseline[Port].options) : g \in ToSet(o) => f \notin ToSet(o)}
  <1> DEFINE sets == {i \in Optional : f \notin ToSet(Entry.options[i])}
  <1>1. sets \in SUBSET DOMAIN Entry.options
    BY DEF Optional
  <1>2. DOMAIN SeparateFeatures(f) = {Core, f} \cup DOMAIN Fronts(sets)
    <2> DEFINE fronts == Fronts(sets)
    <2>1. SeparateFeatures(f) = SetToBag({Core, f}) (+) fronts
      BY DEF SeparateFeatures
    <2> HIDE DEF fronts, sets
    <2>2. DOMAIN (SetToBag({Core, f}) (+) fronts) = {Core, f} \cup DOMAIN fronts
      BY SetCupDomain
    <2> QED
      BY <2>1, <2>2 DEF fronts
  <1>3. ASSUME OptionsDisjoint, NEW i \in sets, NEW o \in ToSet(Entry.options), Entry.options[i][1] \in ToSet(o)
        PROVE  f \notin ToSet(o)
    <2>1. Entry.options[i] \in ToSet(Entry.options) /\ Entry.options[i][1] \in ToSet(Entry.options[i])
      BY <1>1, FrontFacts
    <2>2. ToSet(o) = ToSet(Entry.options[i])
      BY <1>3, <2>1, PortFacts DEF OptionsDisjoint
    <2> QED
      BY <2>2
  <1>4. \A i \in sets : Entry.options[i][1] \in FirstsOf(Port)
    BY <1>1, FrontFacts, PortFacts DEF FirstsOf
  <1>5. DOMAIN Fronts(sets) = {Entry.options[i][1] : i \in sets} /\ DOMAIN Fronts(sets) \subseteq NamesOf(Port)
    BY <1>1, FrontFacts
  <1>6. Entry = baseline[Port]
    BY PortFacts
  <1> HIDE DEF sets
  <1>7. ASSUME OptionsDisjoint, NEW g \in DOMAIN Fronts(sets)
        PROVE  g \in FirstsOf(Port) /\ \A o \in ToSet(baseline[Port].options) : g \in ToSet(o) => f \notin ToSet(o)
    BY <1>3, <1>4, <1>5, <1>6, <1>7
  <1> QED
    BY <1>2, <1>5, <1>7

LEMMA FeaturesInit == Init => FeaturesInv /\ TestedInv
  <1> SUFFICES ASSUME Init PROVE FeaturesInv /\ TestedInv
    OBVIOUS
  <1>1. Tests = {} /\ specs_to_test \in Seq(Tests)
    BY EmptySeq DEF Init, Tests, ToSet
  <1>2. LoopInv /\ NamesInv
    BY <1>1 DEF Init, LoopInv, NamesInv
  <1>3. CombinedInv
    BY <1>1, SetBagDomain, CupDomain DEF Init, CombinedInv
  <1>4. TestedInv
    <2> SUFFICES ASSUME NEW k \in DOMAIN feature_test_ports, NEW j \in DOMAIN Paragraphs[feature_test_ports[k]],
                        k < port \/ (k = port /\ j < feature)
                 PROVE  FALSE
      BY DEF TestedInv
    <2>1. k \in Nat \ {0}
      BY FeaturesAssumption, LenProperties
    <2>2. Paragraphs[feature_test_ports[k]] \in Seq(ToSet(Paragraphs[feature_test_ports[k]]))
      BY FeaturesAssumption DEF ToSet
    <2>3. j \in Nat \ {0}
      BY <2>2, LenProperties
    <2> QED
      BY <2>1, <2>3 DEF Init
  <1> QED
    BY <1>2, <1>3, <1>4 DEF FeaturesInv

\* What has been tested stays so, and what is left to be shown of a step of the loop.
LEMMA TestedKept ==
    ASSUME UNCHANGED <<baseline, supported>>, Tests \subseteq Tests', NEW p, NEW f, IsTested(p, f)
    PROVE  IsTested(p, f)'
  BY DEF IsTested, FirstsOf

LEMMA SameEntry ==
    ASSUME UNCHANGED <<baseline, supported, flags>>
    PROVE  /\ OwnNames' = OwnNames /\ OptionsDisjoint' = OptionsDisjoint
           /\ \A p : NamesOf(p)' = NamesOf(p)
           /\ \A p, f : Combines(p, f)' = Combines(p, f)
  BY DEF OwnNames, OptionsDisjoint, NamesOf, Combines

\* What the tests are after a step that may add one.
LEMMA TestsStep ==
    ASSUME FeaturesInv, UNCHANGED <<baseline, supported, flags>>, NEW features, NEW kind, NEW P \in BOOLEAN,
           IF P THEN Add(features, kind) ELSE UNCHANGED specs_to_test,
           P => Port \in PortSet /\ DOMAIN features \subseteq {Core} \cup NamesOf(Port),
           P /\ kind = "Combined" => DOMAIN features \subseteq {Core} \cup {f \in NamesOf(Port) : Combines(Port, f)}
    PROVE  /\ Tests \subseteq Tests' /\ specs_to_test' \in Seq(Tests') /\ NamesInv'
           /\ \A t \in Tests' : t.kind = "Combined" =>
                 DOMAIN t.features \subseteq {Core} \cup {f \in NamesOf(t.port)' : Combines(t.port, f)'}
  <1> DEFINE new == [port |-> Port, features |-> features, kind |-> kind]
  <1>1. CASE P
    <2>1. specs_to_test' \in Seq(Tests') /\ Tests' = Tests \cup {new}
      BY <1>1, AddFacts DEF FeaturesInv
    <2>2. /\ NamesInv
          /\ \A t \in Tests : t.kind = "Combined" =>
                DOMAIN t.features \subseteq {Core} \cup {f \in NamesOf(t.port) : Combines(t.port, f)}
      BY DEF FeaturesInv, CombinedInv
    <2>3. new.port = Port /\ new.features = features /\ new.kind = kind
      OBVIOUS
    <2> HIDE DEF new
    <2>4. NamesInv'
      BY <1>1, <2>1, <2>2, <2>3, SameEntry DEF NamesInv
    <2>5. ASSUME NEW t \in Tests', t.kind = "Combined"
          PROVE  DOMAIN t.features \subseteq {Core} \cup {f \in NamesOf(t.port)' : Combines(t.port, f)'}
      <3>1. DOMAIN t.features \subseteq {Core} \cup {f \in NamesOf(t.port) : Combines(t.port, f)}
        BY <1>1, <2>1, <2>2, <2>3, <2>5
      <3> QED
        BY <3>1, SameEntry
    <2> QED
      BY <2>1, <2>4, <2>5
  <1>2. CASE ~ P
    <2>1. Tests' = Tests /\ specs_to_test' = specs_to_test
      BY <1>2 DEF Tests
    <2> QED
      BY <2>1, SameEntry DEF FeaturesInv, LoopInv, NamesInv, CombinedInv
  <1> QED
    BY <1>1, <1>2

\* The features of a port that the loop has passed.
LEMMA TestedStep ==
    ASSUME FeaturesInv, TestedInv, UNCHANGED <<baseline, supported, flags>>, Tests \subseteq Tests', ~ Finished,
           NEW n \in Nat, NEW p, p = Port,
           \/ port' = port + 1 /\ feature' = 0 /\ n = Len(Paragraphs[p])
           \/ port' = port /\ feature' = n + 1,
           "Separate" \in flags =>
               \A j \in DOMAIN Paragraphs[p] : feature <= j /\ j <= n => IsTested(p, Paragraphs[p][j])'
    PROVE  TestedInv'
  <1> SUFFICES ASSUME "Separate" \in flags,
                      NEW k \in DOMAIN feature_test_ports, NEW j \in DOMAIN Paragraphs[feature_test_ports[k]],
                      k < port' \/ (k = port' /\ j < feature')
               PROVE  IsTested(feature_test_ports[k], Paragraphs[feature_test_ports[k]][j])'
    BY DEF TestedInv
  <1>1. k \in Nat \ {0} /\ feature_test_ports[k] \in ToSet(feature_test_ports)
    BY FeaturesAssumption, LenProperties DEF ToSet
  <1>2. Paragraphs[feature_test_ports[k]] \in Seq(ToSet(Paragraphs[feature_test_ports[k]]))
    BY <1>1, FeaturesAssumption
  <1>3. j \in Nat \ {0} /\ j <= Len(Paragraphs[feature_test_ports[k]])
    BY <1>2, LenProperties
  <1>4. CASE k < port \/ (k = port /\ j < feature)
    BY <1>4, TestedKept DEF TestedInv
  <1>5. CASE k = port /\ feature <= j
    <2>1. feature_test_ports[k] = p
      BY <1>5 DEF Port
    <2>2. Len(Paragraphs[p]) \in Nat
      BY <1>2, <2>1, LenProperties
    <2>3. j <= n
      BY <1>1, <1>3, <1>5, <2>1, <2>2
    <2> QED
      BY <1>5, <2>1, <2>3
  <1> QED
    BY <1>1, <1>3, <1>4, <1>5 DEF FeaturesInv, LoopInv

LEMMA PassOverTested ==
    ASSUME FeaturesInv, PassOver PROVE FeaturesInv' /\ (TestedInv => TestedInv')
  <1>1. /\ ~ Finished /\ UNCHANGED <<baseline, supported, flags, specs_to_test>> /\ Tests' = Tests
        /\ port' = port + 1 /\ feature' = 0 /\ combined_features' = SetToBag({Core})
        /\ Entry.state = "Skip" \/ Core \notin supported[Port]
    BY DEF PassOver, NextPort, Tests
  <1>2. Port \in PortSet /\ Paragraphs[Port] \in Seq(ToSet(Paragraphs[Port])) /\ Entry = baseline[Port]
    BY <1>1, PortFacts DEF FeaturesInv
  <1>3. FeaturesInv'
    BY <1>1, SetBagDomain, CupDomain, SameEntry DEF FeaturesInv, LoopInv, NamesInv, CombinedInv
  <1>4. ASSUME TestedInv PROVE TestedInv'
    <2> SUFFICES ASSUME NEW p, p = Port PROVE TestedInv'
      OBVIOUS
    <2>1. Len(Paragraphs[p]) \in Nat
      BY <1>2, LenProperties
    <2>2. baseline'[p].state = "Skip" \/ Core \notin supported'[p]
      BY <1>1, <1>2
    <2>3. \A f : IsTested(p, f)'
      BY <2>2 DEF IsTested
    <2> QED
      BY <1>1, <1>4, <2>1, <2>3, TestedStep
  <1> QED
    BY <1>3, <1>4

LEMMA TestCoreTested ==
    ASSUME FeaturesInv, TestCore PROVE FeaturesInv' /\ (TestedInv => TestedInv')
  <1>1. /\ ~ Finished /\ UNCHANGED <<baseline, supported, flags, port, combined_features>>
        /\ feature = 0 /\ feature' = 1
    BY DEF TestCore
  <1>2. /\ Port \in PortSet /\ Paragraphs[Port] \in Seq(ToSet(Paragraphs[Port]))
    BY <1>1, PortFacts DEF FeaturesInv
  <1>3. DOMAIN CoreFeatures \subseteq {Core} \cup NamesOf(Port)
    <2>1. Optional \in SUBSET DOMAIN Entry.options
      BY DEF Optional
    <2>2. DOMAIN Fronts(Optional) \subseteq NamesOf(Port)
      BY <1>1, <2>1, FrontFacts DEF FeaturesInv
    <2>3. DOMAIN CoreFeatures = {Core} \cup DOMAIN Fronts(Optional)
      <3> DEFINE fronts == Fronts(Optional)
      <3> HIDE DEF fronts
      <3>1. CoreFeatures = SetToBag({Core}) (+) fronts
        BY DEF CoreFeatures, fronts
      <3>2. DOMAIN (SetToBag({Core}) (+) fronts) = {Core} \cup DOMAIN fronts
        BY SetCupDomain
      <3> QED
        BY <3>1, <3>2 DEF fronts
    <2> QED
      BY <2>2, <2>3
  <1>4. /\ Tests \subseteq Tests' /\ specs_to_test' \in Seq(Tests') /\ NamesInv'
        /\ \A t \in Tests' : t.kind = "Combined" =>
              DOMAIN t.features \subseteq {Core} \cup {f \in NamesOf(t.port)' : Combines(t.port, f)'}
    <2> DEFINE P == "Core" \in flags /\ Core \notin Entry.skip
               cf == CoreFeatures
    <2>1. IF P THEN Add(cf, "Core") ELSE UNCHANGED specs_to_test
      BY DEF TestCore
    <2>2. P \in BOOLEAN /\ DOMAIN cf \subseteq {Core} \cup NamesOf(Port)
      BY <1>3
    <2> HIDE DEF P, cf
    <2> QED
      BY <1>1, <1>2, <2>1, <2>2, TestsStep
  <1>5. FeaturesInv'
    <2>1. LoopInv'
      BY <1>1, <1>4 DEF FeaturesInv, LoopInv
    <2>2. CombinedInv'
      BY <1>1, <1>4, SameEntry DEF FeaturesInv, CombinedInv, Finished, Port
    <2> QED
      BY <1>4, <2>1, <2>2 DEF FeaturesInv
  <1>6. ASSUME TestedInv PROVE TestedInv'
    <2>1. \A j \in DOMAIN Paragraphs[Port] : ~ (j <= 0)
      BY <1>2, LenProperties
    <2> QED
      BY <1>1, <1>4, <1>6, <2>1, TestedStep
  <1> QED
    BY <1>5, <1>6

LEMMA TestFeatureTested ==
    ASSUME FeaturesInv, TestFeature
    PROVE  FeaturesInv' /\ (TestedInv /\ OwnNames /\ OptionsDisjoint => TestedInv')
  <1> DEFINE fe == Paragraphs[Port][feature]
             separate == SeparateFeatures(fe)
  <1>1. /\ ~ Finished /\ UNCHANGED <<baseline, supported, flags, port>> /\ feature' = feature + 1
        /\ feature \in DOMAIN Paragraphs[Port]
    BY DEF TestFeature
  <1>2. /\ Port \in PortSet /\ Paragraphs[Port] \in Seq(ToSet(Paragraphs[Port])) /\ Entry = baseline[Port]
        /\ Core \notin ToSet(Paragraphs[Port])
    BY <1>1, PortFacts DEF FeaturesInv
  <1>3. fe \in ToSet(Paragraphs[Port]) /\ fe \in NamesOf(Port) /\ fe # Core
    BY <1>1, <1>2 DEF ToSet, NamesOf
  <1>4. /\ {Core, fe} \subseteq DOMAIN separate
        /\ DOMAIN separate \subseteq {Core, fe} \cup NamesOf(Port)
        /\ OptionsDisjoint => DOMAIN separate \ {Core, fe} \subseteq
               {g \in FirstsOf(Port) : \A o \in ToSet(baseline[Port].options) : g \in ToSet(o) => fe \notin ToSet(o)}
    BY <1>1, SeparateFacts DEF FeaturesInv
  <1> DEFINE P == Testable(fe) /\ "Separate" \in flags /\ fe \notin Entry.no_separate /\ ~ Tested(separate)
  <1>5. IF P THEN Add(separate, "Separate") ELSE UNCHANGED specs_to_test
    BY DEF TestFeature
  <1>6. /\ Tests \subseteq Tests' /\ specs_to_test' \in Seq(Tests') /\ NamesInv'
        /\ \A t \in Tests' : t.kind = "Combined" =>
              DOMAIN t.features \subseteq {Core} \cup {f \in NamesOf(t.port)' : Combines(t.port, f)'}
    <2>1. P \in BOOLEAN /\ DOMAIN separate \subseteq {Core} \cup NamesOf(Port)
      BY <1>3, <1>4
    <2> HIDE DEF P, separate
    <2> QED
      BY <1>1, <1>2, <1>5, <2>1, TestsStep
  <1>7. combined_features' = IF Testable(fe) /\ "Combined" \in flags /\ MayCombine(fe)
                             THEN combined_features (+) SetToBag({fe}) ELSE combined_features
    BY DEF TestFeature
  <1>8. DOMAIN combined_features' \subseteq {Core} \cup {f \in ToSet(Paragraphs[Port]) : Combines(Port, f)}
    <2>1. DOMAIN combined_features \subseteq {Core} \cup {f \in ToSet(Paragraphs[Port]) : Combines(Port, f)}
      BY <1>1 DEF FeaturesInv, CombinedInv
    <2>2. MayCombine(fe) => Combines(Port, fe)
      BY <1>2 DEF MayCombine, Combines, Options
    <2> HIDE DEF fe
    <2> DEFINE own == SetToBag({fe})
    <2>3. DOMAIN own = {fe}
      BY SetBagDomain
    <2> HIDE DEF own
    <2>4. DOMAIN (combined_features (+) own) = DOMAIN combined_features \cup DOMAIN own
      BY CupDomain
    <2>5. combined_features' = combined_features (+) own \/ combined_features' = combined_features
      BY <1>7 DEF own
    <2>6. CASE MayCombine(fe)
      BY <1>3, <2>1, <2>2, <2>3, <2>4, <2>5, <2>6
    <2>7. CASE ~ MayCombine(fe)
      BY <1>7, <2>1, <2>7
    <2> QED
      BY <2>6, <2>7
  <1>9. FeaturesInv'
    <2>1. LoopInv'
      BY <1>1, <1>6 DEF FeaturesInv, LoopInv
    <2>2. CombinedInv'
      BY <1>1, <1>6, <1>8, SameEntry DEF CombinedInv, Finished, Port
    <2> QED
      BY <1>6, <2>1, <2>2 DEF FeaturesInv
  <1>10. ASSUME TestedInv, OwnNames, OptionsDisjoint PROVE TestedInv'
    <2> SUFFICES ASSUME NEW p, p = Port, NEW i, i = feature PROVE TestedInv'
      OBVIOUS
    <2> DEFINE f == Paragraphs[p][i]
    <2> SUFFICES ASSUME "Separate" \in flags PROVE IsTested(p, f)'
      <3>1. feature \in Nat /\ \A j \in DOMAIN Paragraphs[p] : feature <= j /\ j <= feature => j = feature
        BY <1>2, LenProperties DEF FeaturesInv, LoopInv
      <3>2. ASSUME "Separate" \in flags, NEW j \in DOMAIN Paragraphs[p], feature <= j, j <= feature
            PROVE  IsTested(p, Paragraphs[p][j])'
        BY <3>1, <3>2
      <3> QED
        BY <1>1, <1>6, <1>10, <3>1, <3>2, TestedStep
    <2>1. f = fe
      OBVIOUS
    <2> HIDE DEF f, fe, separate
    <2>2. CASE ~ Testable(f) \/ f \in baseline[p].no_separate
      <3>1. f \in baseline'[p].skip \cup baseline'[p].no_separate \/ f \notin supported'[p]
        BY <1>1, <1>2, <2>2 DEF Testable
      <3> QED
        BY <3>1 DEF IsTested
    <2>3. ASSUME NEW t \in Tests', t.port = p, t.features = separate
          PROVE  IsTested(p, f)'
      <3>1. /\ {Core, f} \subseteq DOMAIN t.features
            /\ DOMAIN t.features \ {Core, f} \subseteq
                   {g \in FirstsOf(p) : \A o \in ToSet(baseline[p].options) : g \in ToSet(o) => f \notin ToSet(o)}
        BY <1>4, <1>10, <2>1, <2>3
      <3>2. /\ t.port = p /\ {Core, f} \subseteq DOMAIN t.features
            /\ DOMAIN t.features \ {Core, f} \subseteq
                   {g \in FirstsOf(p)' : \A o \in ToSet(baseline'[p].options) : g \in ToSet(o) => f \notin ToSet(o)}
        BY <1>1, <2>3, <3>1 DEF FirstsOf
      <3> QED
        BY <3>2 DEF IsTested
    <2>4. CASE Tested(separate)
      <3>1. PICK t \in Tests : t.features = separate
        BY <2>4 DEF Tested, Tests, ToSet
      <3>2. f \in DOMAIN t.features
        BY <1>4, <2>1, <3>1
      <3>3. t.port \in PortSet /\ f \in NamesOf(t.port)
        BY <1>3, <2>1, <3>1, <3>2 DEF FeaturesInv, NamesInv
      <3>4. t.port = p
        BY <1>2, <1>3, <1>10, <2>1, <3>3 DEF OwnNames
      <3> QED
        BY <1>6, <2>3, <3>1, <3>4
    <2>5. CASE Testable(f) /\ f \notin baseline[p].no_separate /\ ~ Tested(separate)
      <3>1. Add(separate, "Separate")
        BY <1>2, <1>5, <2>1, <2>5
      <3> DEFINE t == [port |-> Port, features |-> separate, kind |-> "Separate"]
      <3>2. t \in Tests'
        BY <3>1, AddFacts DEF FeaturesInv
      <3>3. t.port = p /\ t.features = separate
        OBVIOUS
      <3> HIDE DEF t
      <3>4. \A u \in Tests' : u.port = p /\ u.features = separate => IsTested(p, f)'
        BY <2>3
      <3> QED
        BY <3>2, <3>3, <3>4
    <2> QED
      BY <2>2, <2>4, <2>5
  <1> QED
    BY <1>9, <1>10

LEMMA TestCombinedTested ==
    ASSUME FeaturesInv, TestCombined PROVE FeaturesInv' /\ (TestedInv => TestedInv')
  <1>1. /\ ~ Finished /\ UNCHANGED <<baseline, supported, flags>>
        /\ feature = Len(Paragraphs[Port]) + 1
        /\ port' = port + 1 /\ feature' = 0 /\ combined_features' = SetToBag({Core})
    BY DEF TestCombined, NextPort
  <1>2. Port \in PortSet /\ Paragraphs[Port] \in Seq(ToSet(Paragraphs[Port]))
    BY <1>1, PortFacts DEF FeaturesInv
  <1>3. DOMAIN combined_features \subseteq {Core} \cup {f \in NamesOf(Port) : Combines(Port, f)}
    BY <1>1 DEF FeaturesInv, CombinedInv, NamesOf
  <1>4. /\ Tests \subseteq Tests' /\ specs_to_test' \in Seq(Tests') /\ NamesInv'
        /\ \A t \in Tests' : t.kind = "Combined" =>
              DOMAIN t.features \subseteq {Core} \cup {f \in NamesOf(t.port)' : Combines(t.port, f)'}
    <2> DEFINE P == "Combined" \in flags /\ ~ Tested(combined_features)
    <2>1. IF P THEN Add(combined_features, "Combined") ELSE UNCHANGED specs_to_test
      BY DEF TestCombined
    <2>2. P \in BOOLEAN /\ DOMAIN combined_features \subseteq {Core} \cup NamesOf(Port)
      BY <1>3
    <2> HIDE DEF P
    <2> QED
      BY <1>1, <1>2, <1>3, <2>1, <2>2, TestsStep
  <1>5. FeaturesInv'
    <2>1. LoopInv'
      BY <1>1, <1>4 DEF FeaturesInv, LoopInv
    <2>2. DOMAIN combined_features' = {Core}
      BY <1>1, SetBagDomain
    <2>3. CombinedInv'
      BY <1>4, <2>2 DEF CombinedInv
    <2> QED
      BY <1>4, <2>1, <2>3 DEF FeaturesInv
  <1>6. ASSUME TestedInv PROVE TestedInv'
    <2> SUFFICES ASSUME NEW p, p = Port PROVE TestedInv'
      OBVIOUS
    <2>1. Len(Paragraphs[p]) \in Nat /\ DOMAIN Paragraphs[p] = 1 .. Len(Paragraphs[p])
      BY <1>2, LenProperties
    <2>2. \A j \in DOMAIN Paragraphs[p] : ~ (feature <= j)
      BY <1>1, <2>1
    <2> QED
      BY <1>1, <1>4, <1>6, <2>1, <2>2, TestedStep
  <1> QED
    BY <1>5, <1>6

LEMMA FeaturesStep ==
    ASSUME FeaturesInv, [Next]_selectionVars
    PROVE  FeaturesInv' /\ (TestedInv /\ OwnNames /\ OptionsDisjoint => (TestedInv /\ OwnNames /\ OptionsDisjoint)')
  <1>1. UNCHANGED <<baseline, supported, flags>>
    BY DEF Next, PassOver, TestCore, TestFeature, TestCombined, NextPort, selectionVars
  <1>2. OwnNames' = OwnNames /\ OptionsDisjoint' = OptionsDisjoint
    BY <1>1, SameEntry
  <1>3. CASE PassOver
    BY <1>2, <1>3, PassOverTested
  <1>4. CASE TestCore
    BY <1>2, <1>4, TestCoreTested
  <1>5. CASE TestFeature
    BY <1>2, <1>5, TestFeatureTested
  <1>6. CASE TestCombined
    BY <1>2, <1>6, TestCombinedTested
  <1>7. CASE UNCHANGED selectionVars
    <2>1. /\ Tests' = Tests /\ UNCHANGED <<baseline, supported, flags, port, feature, combined_features, specs_to_test>>
      BY <1>7 DEF selectionVars, Tests
    <2>2. \A p, f : IsTested(p, f) => IsTested(p, f)'
      BY <2>1, TestedKept
    <2>3. FeaturesInv'
      BY <2>1, SameEntry DEF FeaturesInv, LoopInv, NamesInv, CombinedInv, Finished, Port
    <2>4. TestedInv => TestedInv'
      BY <2>1, <2>2 DEF TestedInv
    <2> QED
      BY <1>2, <2>3, <2>4
  <1> QED
    BY <1>3, <1>4, <1>5, <1>6, <1>7 DEF Next

\* CombinedIsClean: the combined test of a port never has a feature that is marked to fail or to cascade,
\* or two of a set of options (command_test_features_and_exit), for any ports and entries.
THEOREM CombinedIsCleanHolds == Selection => []CombinedIsClean
<1>1. Init => FeaturesInv
  BY FeaturesInit
<1>2. FeaturesInv /\ [Next]_selectionVars => FeaturesInv'
  BY FeaturesStep
<1>3. FeaturesInv => CombinedIsClean
  <2> SUFFICES ASSUME FeaturesInv, NEW t \in Tests, t.kind = "Combined"
               PROVE  /\ ExpectedOutcome(baseline[t.port], t.features) \notin {"FeatureFail", "FeatureCascade"}
                      /\ \A o \in OptionsOf(t) : Cardinality((o \cap DOMAIN t.features) \ {Core}) <= 1
    BY DEF CombinedIsClean
  <2>1. t.port \in PortSet /\ DOMAIN t.features \subseteq {Core} \cup {f \in NamesOf(t.port) : Combines(t.port, f)}
    BY DEF FeaturesInv, NamesInv, CombinedInv
  <2>2. Core \notin baseline[t.port].cascade \cup baseline[t.port].fail
    BY <2>1, FeaturesAssumption DEF FeaturesInv, LoopInv
  <2>3. DOMAIN t.features \cap baseline[t.port].fail = {} /\ DOMAIN t.features \cap baseline[t.port].cascade = {}
    BY <2>1, <2>2 DEF Combines
  <2>4. ExpectedOutcome(baseline[t.port], t.features) \notin {"FeatureFail", "FeatureCascade"}
    BY <2>3 DEF ExpectedOutcome
  <2>5. ASSUME NEW o \in OptionsOf(t)
        PROVE  Cardinality((o \cap DOMAIN t.features) \ {Core}) <= 1
    <3> DEFINE both == (o \cap DOMAIN t.features) \ {Core}
    <3>1. PICK set \in ToSet(baseline[t.port].options) : o = ToSet(set)
      BY DEF OptionsOf
    <3>2. \A f \in both : f = set[1] \/ (set[1] = Core /\ f = set[2])
      BY <2>1, <3>1 DEF Combines
    <3>3. \A f, g \in both : f = g
      BY <3>2
    <3> HIDE DEF both
    <3>4. both = {} \/ \E f : both = {f}
      BY <3>3
    <3>5. Cardinality(both) = 0 \/ Cardinality(both) = 1
      BY <3>4, FS_EmptySet, FS_Singleton
    <3> QED
      BY <3>5 DEF both
  <2> QED
    BY <2>4, <2>5
<1> QED
  BY <1>1, <1>2, <1>3, PTL DEF Selection

\* EachFeatureTested: each feature that is to be tested by itself has a test, in its own port, with nothing
\* beside it but the first options of sets it is not in, whatever the order of ports and features.
THEOREM EachFeatureTestedHolds == OwnNames /\ OptionsDisjoint /\ Selection => []EachFeatureTested
<1> DEFINE All == FeaturesInv /\ TestedInv /\ OwnNames /\ OptionsDisjoint
<1>1. OwnNames /\ OptionsDisjoint /\ Init => All
  BY FeaturesInit
<1>2. All /\ [Next]_selectionVars => All'
  BY FeaturesStep
<1>3. All => EachFeatureTested
  <2> SUFFICES ASSUME All, Finished, "Separate" \in flags, NEW p \in PortSet, NEW f \in ToSet(Paragraphs[p])
               PROVE  IsTested(p, f)
    BY DEF EachFeatureTested, IsTested
  <2>1. PICK k \in DOMAIN feature_test_ports : feature_test_ports[k] = p
    BY DEF PortSet, ToSet
  <2>2. PICK j \in DOMAIN Paragraphs[p] : Paragraphs[p][j] = f
    BY DEF ToSet
  <2>3. k < port
    BY FeaturesAssumption, LenProperties DEF Finished, FeaturesInv, LoopInv
  <2> QED
    BY <2>1, <2>2, <2>3 DEF TestedInv
<1> QED
  BY <1>1, <1>2, <1>3, PTL DEF Selection
================================================================================

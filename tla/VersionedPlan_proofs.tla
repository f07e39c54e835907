------------------------- MODULE VersionedPlan_proofs -------------------------
(***************************************************************************)
(* VersionedPlan for all manifests: phase 1 selects the greatest version   *)
(* that it has considered, and a plan that phase 2 returns is in order.    *)
(***************************************************************************)
EXTENDS VersionedPlan, FiniteSetTheorems, SequenceTheorems, WellFoundedInduction, TLAPS

(***************************************************************************)
(* Comparison of versions.                                                 *)
(***************************************************************************)
Below(u, v) ==
    /\ u.scheme = v.scheme
    /\ \/ u.scheme # "string" /\ u.text < v.text
       \/ u.text = v.text /\ u.port < v.port

LEMMA LtIsBelow ==
    ASSUME NEW u \in Version, NEW v \in Version
    PROVE  CompareVersions(u, v) = "lt" <=> Below(u, v)
  BY DEF Version, CompareVersions, CompareTexts, Integer, Below

LEMMA LtTransitive ==
    ASSUME NEW u \in Version, NEW v \in Version, NEW w \in Version,
           CompareVersions(u, v) = "lt", CompareVersions(v, w) = "lt"
    PROVE  CompareVersions(u, w) = "lt"
  <1>1. Below(u, v) /\ Below(v, w)
    BY LtIsBelow
  <1>2. Below(u, w)
    BY <1>1 DEF Below, Version
  <1> QED
    BY <1>2, LtIsBelow

LEMMA LtTotalAbove ==
    ASSUME NEW u \in Version, NEW v \in Version, NEW w \in Version,
           CompareVersions(u, v) = "lt" \/ u = v, CompareVersions(u, w) = "lt",
           CompareVersions(v, w) # "lt", v # w
    PROVE  CompareVersions(w, v) = "lt"
  <1>1. (Below(u, v) \/ u = v) /\ Below(u, w) /\ ~ Below(v, w)
    BY LtIsBelow
  <1>2. v.text = w.text /\ v.port = w.port /\ v.scheme = w.scheme => v = w
    BY DEF Version
  <1>3. Below(w, v)
    BY <1>1, <1>2 DEF Below, Version
  <1> QED
    BY <1>3, LtIsBelow

(***************************************************************************)
(* Phase 1.                                                                *)
(***************************************************************************)
LEMMA FirstIsVersion ==
    ASSUME NEW name, CanStart(name), ~ Pinned(name), world \in DOMAIN Manifests
    PROVE  FirstScfl(name) \in Version /\ FirstScfl(name) = Manifest.baseline[name]
  BY ManifestsAssumption DEF CanStart, Pinned, FirstScfl, Has, Manifest

\* require_scfl considers one more version and selects none.
LEMMA RequireScflConsiders ==
    ASSUME NEW spec, NEW n, Node(n), NEW scfl
    PROVE  /\ Node(RequireScfl(spec, n, scfl)[1])
           /\ RequireScfl(spec, n, scfl)[1].scfl = n.scfl
           /\ RequireScfl(spec, n, scfl)[1].considered = n.considered \cup {scfl}
  BY DEF RequireScfl, Node

LEMMA NewSelects ==
    ASSUME NEW spec, NEW origin, CanStart(spec[1]), spec \notin DOMAIN graph, world \in DOMAIN Manifests
    PROVE  LET n == RequirePackage(spec, origin)[1] IN Node(n) /\ Selects(spec[1], n)
  <1> DEFINE first == FirstScfl(spec[1])
             new == [scfl |-> first, considered |-> {}, requested |-> {Core}, defaults |-> origin # TopLevel[1]]
             n == RequirePackage(spec, origin)[1]
  <1>1. Node(new) /\ new.scfl = first /\ new.considered = {}
    BY DEF Node
  <1>2. n = RequireScfl(spec, new, first)[1]
    BY DEF RequirePackage
  <1> HIDE DEF new, n
  <1>3. Node(n) /\ n.scfl = first /\ n.considered = {first}
    BY <1>1, <1>2, RequireScflConsiders
  <1>4. ~ Pinned(spec[1]) => first \in Version
    BY FirstIsVersion
  <1> QED
    BY <1>3, <1>4 DEF Selects, n

LEMMA ConstrainSelects ==
    ASSUME NEW spec, NEW n, Node(n), Selects(spec[1], n), NEW min, spec[1] \in Port, world \in DOMAIN Manifests
    PROVE  LET m == Constrain(spec, n, min)[1] IN Node(m) /\ Selects(spec[1], m)
  <1> DEFINE m == Constrain(spec, n, min)[1]
             base == Manifest.baseline[spec[1]]
  <1>1. CASE Pinned(spec[1]) \/ min = None \/ ~ Has(spec[1], min)
    BY <1>1 DEF Constrain
  <1>2. CASE ~ (Pinned(spec[1]) \/ min = None \/ ~ Has(spec[1], min))
    <2>0. FirstScfl(spec[1]) = base
      BY <1>2 DEF FirstScfl, Pinned
    <2>1. min \in Version
      BY <1>2, ManifestsAssumption DEF Has, Manifest
    <2>2. n.scfl \in Version /\ base \in Version /\ n.considered \subseteq Version /\ base \in n.considered
      BY <1>2, <2>0 DEF Selects
    <2>3. base = n.scfl \/ CompareVersions(base, n.scfl) = "lt"
      BY <1>2, <2>0, <2>2 DEF Selects
    <2>4. CASE CompareVersions(n.scfl, min) = "lt"
      <3>1. PICK best : best = [n EXCEPT !.scfl = min]
        OBVIOUS
      <3>2. Node(best) /\ best.scfl = min /\ best.considered = n.considered
        BY <3>1 DEF Node
      <3>3. m = RequireScfl(spec, best, min)[1]
        BY <1>2, <2>4, <3>1 DEF Constrain
      <3> HIDE DEF m
      <3>a. Node(best)
        BY <3>2
      <3>b. /\ Node(RequireScfl(spec, best, min)[1])
            /\ RequireScfl(spec, best, min)[1].scfl = best.scfl
            /\ RequireScfl(spec, best, min)[1].considered = best.considered \cup {min}
        <4>1. ASSUME NEW k, Node(k)
              PROVE  /\ Node(RequireScfl(spec, k, min)[1])
                     /\ RequireScfl(spec, k, min)[1].scfl = k.scfl
                     /\ RequireScfl(spec, k, min)[1].considered = k.considered \cup {min}
          BY <4>1, RequireScflConsiders
        <4> QED
          BY <3>a, <4>1
      <3>c. Node(m) /\ m.scfl = best.scfl /\ m.considered = best.considered \cup {min}
        BY <3>3, <3>b, Zenon
      <3>d. Node(m) /\ m.scfl = min /\ m.considered = n.considered \cup {min}
        BY <3>2, <3>c
      <3>4. \A v \in n.considered : CompareVersions(v, min) = "lt"
        BY <2>1, <2>2, <2>4, LtTransitive DEF Selects
      <3>5. CompareVersions(base, min) = "lt"
        BY <2>2, <3>4
      <3> QED
        BY <1>2, <2>0, <2>1, <2>2, <3>d, <3>4, <3>5 DEF Selects, m
    <2>5. CASE CompareVersions(n.scfl, min) # "lt" /\ CompareVersions(base, min) = "lt"
      <3>1. m = RequireScfl(spec, n, min)[1]
        BY <1>2, <2>5 DEF Constrain
      <3> HIDE DEF m
      <3>2. Node(m) /\ m.scfl = n.scfl /\ m.considered = n.considered \cup {min}
        BY <3>1, RequireScflConsiders DEF Selects
      <3>3. min = n.scfl \/ CompareVersions(min, n.scfl) = "lt"
        BY <2>1, <2>2, <2>3, <2>5, LtTotalAbove
      <3> QED
        BY <1>2, <2>0, <2>1, <2>2, <2>5, <3>2, <3>3 DEF Selects, m
    <2>6. CASE CompareVersions(n.scfl, min) # "lt" /\ CompareVersions(base, min) # "lt"
      BY <1>2, <2>6 DEF Constrain
    <2> QED
      BY <2>4, <2>5, <2>6
  <1> QED
    BY <1>1, <1>2

GraphInv ==
    /\ world \in DOMAIN Manifests
    /\ pc \in {"resolve", "extract", "done"}
    /\ graph = [s \in DOMAIN graph |-> graph[s]]
    /\ \A s \in DOMAIN graph : s[1] \in Port /\ Node(graph[s]) /\ Selects(s[1], graph[s])
    /\ met => DepSpec \in DOMAIN graph /\ frame.deps # <<>>

\* Another node for spec, or one more.
LEMMA NewNode ==
    ASSUME GraphInv, NEW spec, spec[1] \in Port, NEW n, Node(n), Selects(spec[1], n),
           graph' = [s \in DOMAIN graph \cup {spec} |-> IF s = spec THEN n ELSE graph[s]],
           UNCHANGED <<world, pc>>
    PROVE  /\ graph' = [s \in DOMAIN graph' |-> graph'[s]]
           /\ DOMAIN graph' = DOMAIN graph \cup {spec}
           /\ (\A s \in DOMAIN graph : s[1] \in Port /\ Node(graph[s]) /\ Selects(s[1], graph[s]))'
  <1>1. /\ DOMAIN graph' = DOMAIN graph \cup {spec}
        /\ \A s \in DOMAIN graph' : graph'[s] = IF s = spec THEN n ELSE graph[s]
    OBVIOUS
  <1>2. \A s \in DOMAIN graph' : s[1] \in Port /\ Node(graph'[s]) /\ Selects(s[1], graph'[s])
    BY <1>1 DEF GraphInv
  <1>3. ASSUME NEW s PROVE Selects(s[1], graph'[s]) => Selects(s[1], graph[s])'
    BY DEF Selects, FirstScfl, Pinned, Manifest
  <1> QED
    BY <1>1, <1>2, <1>3 DEF Node

LEMMA RequireDependencyStep == GraphInv /\ RequireDependency => GraphInv'
  <1> SUFFICES ASSUME GraphInv, RequireDependency PROVE GraphInv'
    OBVIOUS
  <1> DEFINE required == RequirePackage(DepSpec, frame.spec[1])
             n == Constrain(DepSpec, required[1], Dep.min)[1]
  <1>1. /\ graph' = [s \in DOMAIN graph \cup {DepSpec} |-> IF s = DepSpec THEN n ELSE graph[s]]
        /\ met' = TRUE /\ UNCHANGED <<world, pc, frame>> /\ frame.deps # <<>>
        /\ DepSpec \in DOMAIN graph \/ CanStart(Dep.name)
    BY DEF RequireDependency, Resolving
  <1>2. DepSpec[1] = Dep.name
    BY DEF DepSpec, SpecOf
  <1>3. DepSpec[1] \in Port
    BY <1>1, <1>2 DEF GraphInv, CanStart
  <1>4. Node(required[1]) /\ Selects(DepSpec[1], required[1])
    <2>1. CASE DepSpec \in DOMAIN graph
      BY <2>1 DEF RequirePackage, GraphInv
    <2>2. CASE DepSpec \notin DOMAIN graph
      BY <2>2, <1>1, <1>2, NewSelects DEF GraphInv
    <2> QED
      BY <2>1, <2>2
  <1> HIDE DEF required
  <1>5. Node(n) /\ Selects(DepSpec[1], n)
    BY <1>3, <1>4, ConstrainSelects DEF GraphInv
  <1> HIDE DEF n
  <1>6. /\ graph' = [s \in DOMAIN graph' |-> graph'[s]]
        /\ DOMAIN graph' = DOMAIN graph \cup {DepSpec}
        /\ (\A s \in DOMAIN graph : s[1] \in Port /\ Node(graph[s]) /\ Selects(s[1], graph[s]))'
    BY <1>1, <1>3, <1>5, NewNode
  <1>7. DepSpec' = DepSpec
    BY <1>1 DEF DepSpec, Dep, SpecOf
  <1> QED
    BY <1>1, <1>6, <1>7 DEF GraphInv

LEMMA Updated ==
    ASSUME NEW f, NEW x \in DOMAIN f, NEW v
    PROVE  [f EXCEPT ![x] = v] = [s \in DOMAIN f \cup {x} |-> IF s = x THEN v ELSE f[s]]
  <1>1. DOMAIN f \cup {x} = DOMAIN f
    OBVIOUS
  <1> QED
    BY <1>1

\* A step that changes at most what is requested of a node.
LEMMA RequestStep ==
    ASSUME GraphInv, met,
           \/ graph' = graph
           \/ \E set : graph' = [graph EXCEPT ![DepSpec].requested = set]
           \/ graph' = [graph EXCEPT ![DepSpec].defaults = TRUE],
           UNCHANGED <<world, pc>>
    PROVE  /\ graph' = [s \in DOMAIN graph' |-> graph'[s]]
           /\ DOMAIN graph' = DOMAIN graph
           /\ (\A s \in DOMAIN graph : s[1] \in Port /\ Node(graph[s]) /\ Selects(s[1], graph[s]))'
  <1> DEFINE spec == DepSpec
             old == graph[spec]
  <1>1. spec \in DOMAIN graph /\ spec[1] \in Port /\ Node(old) /\ Selects(spec[1], old)
    BY DEF GraphInv
  <1>2. PICK n : /\ graph' = [graph EXCEPT ![spec] = n]
                 /\ Node(n) /\ n.scfl = old.scfl /\ n.considered = old.considered
    <2>1. CASE graph' = graph
      BY <1>1, <2>1 DEF GraphInv
    <2>2. CASE \E set : graph' = [graph EXCEPT ![DepSpec].requested = set]
      <3>1. PICK set : graph' = [graph EXCEPT ![DepSpec].requested = set]
        BY <2>2
      <3> DEFINE m == [old EXCEPT !.requested = set]
      <3>2. Node(m) /\ m.scfl = old.scfl /\ m.considered = old.considered
        BY <1>1 DEF Node
      <3>3. graph' = [graph EXCEPT ![spec] = m]
        BY <3>1
      <3> QED
        BY <3>2, <3>3
    <2>3. CASE graph' = [graph EXCEPT ![DepSpec].defaults = TRUE]
      <3>1. PICK yes : yes = TRUE
        OBVIOUS
      <3> DEFINE m == [old EXCEPT !.defaults = yes]
      <3>2. Node(m) /\ m.scfl = old.scfl /\ m.considered = old.considered
        BY <1>1 DEF Node
      <3>3. graph' = [graph EXCEPT ![spec] = m]
        BY <2>3, <3>1, Zenon
      <3> QED
        BY <3>2, <3>3
    <2> QED
      BY <2>1, <2>2, <2>3
  <1>3. Selects(spec[1], n)
    BY <1>1, <1>2 DEF Selects
  <1> HIDE DEF spec, old
  <1>4. graph' = [s \in DOMAIN graph \cup {spec} |-> IF s = spec THEN n ELSE graph[s]]
    <2>1. spec \in DOMAIN graph /\ graph' = [graph EXCEPT ![spec] = n]
      BY <1>1, <1>2
    <2>2. [graph EXCEPT ![spec] = n] = [s \in DOMAIN graph \cup {spec} |-> IF s = spec THEN n ELSE graph[s]]
      BY <2>1, Updated
    <2> QED
      BY <2>1, <2>2
  <1>5. /\ graph' = [s \in DOMAIN graph' |-> graph'[s]]
        /\ DOMAIN graph' = DOMAIN graph \cup {spec}
        /\ (\A s \in DOMAIN graph : s[1] \in Port /\ Node(graph[s]) /\ Selects(s[1], graph[s]))'
    <2>1. spec[1] \in Port /\ UNCHANGED <<world, pc>>
      BY <1>1 DEF GraphInv
    <2> QED
      BY <1>2, <1>3, <1>4, <2>1, NewNode
  <1> QED
    BY <1>1, <1>5

LEMMA GraphStep == GraphInv /\ [NextVersioned]_versionedVars => GraphInv'
  <1> SUFFICES ASSUME GraphInv, [NextVersioned]_versionedVars PROVE GraphInv'
    OBVIOUS
  <1>1. ASSUME UNCHANGED <<world, graph>>, pc' \in {"resolve", "extract", "done"},
               ~ met' \/ UNCHANGED <<met, frame>>
        PROVE  GraphInv'
    <2>1. (\A s \in DOMAIN graph : s[1] \in Port /\ Node(graph[s]) /\ Selects(s[1], graph[s]))'
      BY <1>1 DEF GraphInv, Node, Selects, FirstScfl, Pinned, Manifest
    <2> QED
      BY <1>1, <2>1 DEF GraphInv, DepSpec, Dep, SpecOf
  <1>2. CASE UNCHANGED versionedVars
    BY <1>1, <1>2 DEF versionedVars, resolverVars, GraphInv
  <1>3. CASE PopFrame
    BY <1>1, <1>3 DEF PopFrame, Resolving, GraphInv
  <1>4. CASE SkipDependency \/ SkipFeature
    BY <1>1, <1>4 DEF SkipDependency, SkipFeature, Resolving, GraphInv
  <1>5. CASE FailPackage
    BY <1>1, <1>5 DEF FailPackage, Resolving, GraphInv
  <1>6. CASE RequireDependency
    BY <1>6, RequireDependencyStep
  <1>7. CASE RequireFeature
    <2>1. /\ met /\ UNCHANGED <<world, pc, met, frame>>
          /\ \/ graph' = graph
             \/ \E set : graph' = [graph EXCEPT ![DepSpec].requested = set]
      BY <1>7 DEF RequireFeature, Resolving
    <2>2. DepSpec' = DepSpec
      BY <2>1 DEF DepSpec, Dep, SpecOf
    <2> QED
      BY <2>1, <2>2, RequestStep DEF GraphInv
  <1>8. CASE RequireDefaults
    <2>1. /\ met /\ ~ met' /\ UNCHANGED <<world, pc>>
          /\ graph' = graph \/ graph' = [graph EXCEPT ![DepSpec].defaults = TRUE]
      BY <1>8 DEF RequireDefaults, Resolving
    <2> QED
      BY <2>1, RequestStep DEF GraphInv
  <1>9. CASE Resolved
    BY <1>1, <1>9 DEF Resolved, resolverVars, GraphInv
  <1>10. CASE WalkRoot \/ WalkDependency
    BY <1>1, <1>10 DEF WalkRoot, WalkDependency, Extracting, Push, resolverVars, GraphInv
  <1>11. CASE Emit \/ Finish
    BY <1>1, <1>11 DEF Emit, Finish, Extracting, resolverVars, GraphInv
  <1> QED
    BY <1>2, <1>3, <1>4, <1>5, <1>6, <1>7, <1>8, <1>9, <1>10, <1>11 DEF NextVersioned

LEMMA InitGraph == InitVersioned => GraphInv
  BY DEF InitVersioned, GraphInv

(***************************************************************************)
(* Phase 2.                                                                *)
(***************************************************************************)
Planned(s) == [spec |-> s, scfl |-> graph[s].scfl, needs |-> FeatureDependencies(s)]
PlanActions == {Planned(s) : s \in DOMAIN graph}
WalkFrames == [spec : DOMAIN graph, left : SUBSET UNION {DepSpecs(s) : s \in DOMAIN graph}]

\* The walk, whether it has met an error or not.
WalkShape ==
    /\ walk \in Seq(WalkFrames)
    /\ plan \in Seq(PlanActions)
    /\ emitted \in [DOMAIN emitted -> BOOLEAN] /\ DOMAIN emitted \subseteq DOMAIN graph
    /\ \A i \in 1 .. Len(walk) : walk[i].spec \in DOMAIN emitted /\ ~ emitted[walk[i].spec]
    /\ \A s \in DOMAIN emitted : ~ emitted[s] => \E i \in 1 .. Len(walk) : walk[i].spec = s
    /\ \A i, j \in 1 .. Len(walk) : walk[i].spec = walk[j].spec => i = j

\* The packages of the plan are those emitted, each after what it needs.
PlanShape ==
    /\ \A i \in 1 .. Len(plan) : plan[i].spec \in DOMAIN emitted /\ emitted[plan[i].spec]
    /\ \A s \in DOMAIN emitted : emitted[s] => \E i \in 1 .. Len(plan) : plan[i].spec = s
    /\ \A i, j \in 1 .. Len(plan) : plan[i].spec = plan[j].spec => i = j
    /\ \A i \in 1 .. Len(plan) : \A need \in DepSpecs(plan[i].spec) : Provided(need, i)

\* A need that has been walked is emitted, or it is in progress just above the i-th package of the walk.
Walked(need, i) ==
    /\ Admitted(need) /\ need.spec \in DOMAIN emitted
    /\ emitted[need.spec] \/ (i + 1 \in 1 .. Len(walk) /\ need.spec = walk[i + 1].spec)

WalkProgress ==
    /\ \A i \in 1 .. Len(walk) : \A need \in DepSpecs(walk[i].spec) \ walk[i].left : Walked(need, i)
    /\ \A root \in Roots \ roots : Walked(root, 0)

\* Nothing of phase 2 has happened.
Unwalked ==
    walk = <<>> /\ plan = <<>> /\ emitted = [s \in {} |-> FALSE] /\ roots = Roots

WalkInv ==
    /\ WalkShape
    /\ PlanShape
    /\ outcome \in {"none", "plan"} => WalkProgress
    /\ pc = "resolve" => Unwalked /\ outcome = "none"
    /\ pc = "extract" => outcome = "none"
    /\ outcome = "plan" => walk = <<>> /\ roots = {}

Unstarted ==
    /\ Unwalked
    /\ pc \in {"resolve", "extract"} => outcome = "none"
    /\ outcome # "plan"

LEMMA UnstartedInv == Unstarted => WalkInv
  <1> SUFFICES ASSUME Unstarted PROVE WalkInv
    OBVIOUS
  <1>1. walk = <<>> /\ plan = <<>> /\ DOMAIN emitted = {} /\ Roots \ roots = {}
    BY DEF Unstarted, Unwalked
  <1>2. Len(walk) = 0 /\ Len(plan) = 0 /\ walk \in Seq(WalkFrames) /\ plan \in Seq(PlanActions)
    BY <1>1
  <1>3. emitted \in [DOMAIN emitted -> BOOLEAN]
    BY DEF Unstarted, Unwalked
  <1>4. WalkShape
    BY <1>1, <1>2, <1>3 DEF WalkShape
  <1>5. PlanShape /\ WalkProgress
    BY <1>1, <1>2 DEF PlanShape, WalkProgress
  <1> QED
    BY <1>4, <1>5 DEF WalkInv, Unstarted, Unwalked

LEMMA UnstartedStep == Unstarted' => WalkInv'
  BY UnstartedInv, PTL

\* What phase 2 reads and does not change.
LEMMA Static ==
    ASSUME UNCHANGED <<world, graph>>
    PROVE  /\ Roots' = Roots
           /\ WalkFrames' = WalkFrames
           /\ PlanActions' = PlanActions
           /\ \A s : DepSpecs(s)' = DepSpecs(s) /\ Planned(s)' = Planned(s)
           /\ \A need : Admitted(need)' = Admitted(need)
  <1>1. Roots' = Roots
    BY DEF Roots, SpecOf, TopLevel, Manifest
  <1>2. ASSUME NEW s, NEW f PROVE Needs(s, f)' = Needs(s, f)
    BY DEF Needs, PortOf, Manifest
  <1>3. ASSUME NEW s PROVE AllFeatures(s)' = AllFeatures(s)
    BY DEF AllFeatures, Required, Defaults, FeaturesOf, PortOf, Manifest
  <1>4. ASSUME NEW s PROVE DepSpecs(s)' = DepSpecs(s)
    BY <1>2, <1>3 DEF DepSpecs
  <1>5. ASSUME NEW s PROVE FeatureDependencies(s)' = FeatureDependencies(s)
    BY <1>2, <1>3 DEF FeatureDependencies
  <1>6. ASSUME NEW s PROVE Planned(s)' = Planned(s)
    BY <1>5 DEF Planned
  <1>7. ASSUME NEW need PROVE Admitted(need)' = Admitted(need)
    BY DEF Admitted, Satisfied, Pinned, FeaturesOf, PortOf, Manifest
  <1>8. WalkFrames' = WalkFrames
    <2>1. {DepSpecs(s)' : s \in DOMAIN graph} = {DepSpecs(s) : s \in DOMAIN graph}
      BY <1>4
    <2>2. WalkFrames' = [spec : DOMAIN graph, left : SUBSET UNION {DepSpecs(s)' : s \in DOMAIN graph}]
      BY DEF WalkFrames
    <2> QED
      BY <2>1, <2>2 DEF WalkFrames
  <1>9. PlanActions' = PlanActions
    BY <1>6 DEF PlanActions
  <1> QED
    BY <1>1, <1>4, <1>6, <1>7, <1>8, <1>9

LEMMA VerdictOk ==
    ASSUME NEW need
    PROVE  /\ Verdict(need) \notin {"none", "plan"}
           /\ Verdict(need) = "ok" => Admitted(need) /\ (need.spec \in DOMAIN emitted => emitted[need.spec])
  <1>1. Verdict(need) \notin {"none", "plan"}
    BY DEF Verdict
  <1>2. ASSUME NEW u, NEW v PROVE CompareVersions(u, v) \in {"lt", "eq", "gt", "unk"}
    BY DEF CompareVersions, CompareTexts, Integer
  <1>3. Verdict(need) = "ok" => Admitted(need) /\ (need.spec \in DOMAIN emitted => emitted[need.spec])
    BY <1>2 DEF Verdict, Admitted, Satisfied
  <1> QED
    BY <1>1, <1>3

\* The plan stays, and what is new in emitted is in progress.
LEMMA PlanStays ==
    ASSUME PlanShape, UNCHANGED <<world, graph, plan>>,
           \A s \in DOMAIN emitted : s \in DOMAIN emitted' /\ emitted'[s] = emitted[s],
           \A s \in DOMAIN emitted' \ DOMAIN emitted : ~ emitted'[s]
    PROVE  PlanShape'
  <1>1. ASSUME NEW need, NEW i, Provided(need, i) PROVE Provided(need, i)'
    BY <1>1, Static DEF Provided
  <1>2. \A i \in 1 .. Len(plan) : \A need \in DepSpecs(plan[i].spec)' : Provided(need, i)'
    BY <1>1, Static DEF PlanShape
  <1> QED
    BY <1>2 DEF PlanShape

\* push, when everything walked but need is accounted for.
LEMMA PushStep ==
    ASSUME WalkInv, pc = "extract", UNCHANGED <<world, graph>>,
           NEW need, NEW rest \in Seq(WalkFrames), Push(need, rest),
           Len(rest) = Len(walk),
           \A i \in 1 .. Len(walk) : rest[i].spec = walk[i].spec,
           \A i \in 1 .. Len(walk) : \A d \in DepSpecs(walk[i].spec) \ rest[i].left :
               Walked(d, i) \/ (d = need /\ i = Len(walk)),
           \A root \in Roots \ roots' : Walked(root, 0) \/ (root = need /\ Len(walk) = 0)
    PROVE  WalkInv'
  <1> DEFINE ok == Verdict(need) = "ok"
             known == need.spec \in DOMAIN emitted
             new == [spec |-> need.spec, left |-> DepSpecs(need.spec)]
  <1>1. /\ pc' = IF ok THEN "extract" ELSE "done"
        /\ outcome' = IF ok THEN "none" ELSE Verdict(need)
        /\ plan' = plan
        /\ ok /\ ~ known => /\ emitted' = [s \in DOMAIN emitted \cup {need.spec} |-> s # need.spec /\ emitted[s]]
                            /\ walk' = Append(rest, new)
        /\ ~ ok \/ known => walk' = rest /\ emitted' = emitted
    BY DEF Push
  <1>2. /\ Verdict(need) \notin {"none", "plan"}
        /\ ok => Admitted(need) /\ (known => emitted[need.spec])
    BY VerdictOk
  <1> HIDE DEF ok
  <1>3. WalkShape /\ PlanShape
    BY DEF WalkInv
  <1>4. rest \in Seq(WalkFrames') /\ plan' \in Seq(PlanActions')
    BY <1>1, <1>3, Static DEF WalkShape
  <1>5. outcome' # "plan" /\ pc' # "resolve" /\ (pc' = "extract" => outcome' = "none") /\ (outcome' = "none" => ok)
    BY <1>1, <1>2
  <1>a. WalkProgress
    BY DEF WalkInv
  <1>6. CASE ~ ok \/ known
    <2>0. walk' = rest /\ emitted' = emitted /\ plan' = plan
      BY <1>1, <1>6
    <2>1. WalkShape'
      BY <1>3, <1>4, <2>0 DEF WalkShape
    <2>2. PlanShape'
      BY <1>1, <1>3, <1>6, PlanStays
    <2>3. ASSUME ok PROVE WalkProgress'
      <3>1. ASSUME NEW d, NEW i, Walked(d, i) PROVE Walked(d, i)'
        BY <1>1, <1>6, <3>1, Static DEF Walked
      <3>2. ASSUME NEW i PROVE Walked(need, i)'
        BY <1>1, <1>2, <1>6, <2>3, Static DEF Walked
      <3>3. ASSUME NEW i \in 1 .. Len(walk'), NEW d \in (DepSpecs(walk[i].spec) \ walk[i].left)' PROVE Walked(d, i)'
        <4>1. i \in 1 .. Len(walk) /\ d \in DepSpecs(walk[i].spec) \ rest[i].left
          BY <1>1, <1>6, Static
        <4> QED
          BY <3>1, <3>2, <4>1
      <3>4. ASSUME NEW root \in (Roots \ roots)' PROVE Walked(root, 0)'
        BY <3>1, <3>2, Static
      <3> QED
        BY <3>3, <3>4 DEF WalkProgress
    <2> QED
      BY <1>5, <2>1, <2>2, <2>3 DEF WalkInv
  <1>7. CASE ok /\ ~ known
    <2>0. PICK n : n = Len(walk)
      OBVIOUS
    <2>3. n \in Nat /\ Len(rest) = n
      BY <1>3, <2>0 DEF WalkShape
    <2>1. /\ Len(walk') = n + 1 /\ walk' \in Seq(WalkFrames)
          /\ \A i \in 1 .. n : walk'[i] = rest[i]
          /\ walk'[n + 1] = new
      <3>1. new \in WalkFrames
        BY <1>2, <1>7 DEF WalkFrames, Admitted
      <3>2. walk' = Append(rest, new)
        BY <1>1, <1>7
      <3> HIDE DEF new
      <3> QED
        BY <2>3, <3>1, <3>2
    <2>2. /\ DOMAIN emitted' = DOMAIN emitted \cup {need.spec}
          /\ \A s \in DOMAIN emitted : emitted'[s] = emitted[s]
          /\ ~ emitted'[need.spec]
          /\ emitted' \in [DOMAIN emitted' -> BOOLEAN]
      <3>1. emitted' = [s \in DOMAIN emitted \cup {need.spec} |-> s # need.spec /\ emitted[s]]
        BY <1>1, <1>7
      <3>2. \A s \in DOMAIN emitted : s # need.spec /\ emitted[s] \in BOOLEAN
        BY <1>3, <1>7 DEF WalkShape
      <3>3. DOMAIN emitted' = DOMAIN emitted \cup {need.spec}
        BY <3>1
      <3>4. \A s \in DOMAIN emitted : emitted'[s] = emitted[s]
        BY <3>1, <3>2, Zenon
      <3>5. ~ emitted'[need.spec]
        BY <3>1, Zenon
      <3>6. emitted' \in [DOMAIN emitted' -> BOOLEAN]
        BY <3>1
      <3> QED
        BY <3>3, <3>4, <3>5, <3>6
    <2>4. WalkShape'
      <3>1. walk' \in Seq(WalkFrames')
        BY <2>1, Static
      <3>2. DOMAIN emitted' \subseteq DOMAIN graph'
        BY <1>2, <1>3, <1>7, <2>2 DEF WalkShape, Admitted
      <3>3. \A i \in 1 .. Len(walk') : walk'[i].spec = IF i = n + 1 THEN need.spec ELSE walk[i].spec
        BY <2>0, <2>1, <2>3
      <3>4. \A i \in 1 .. Len(walk') : i = n + 1 \/ i \in 1 .. n
        BY <2>0, <2>1, <2>3
      <3>5. \A i \in 1 .. Len(walk') : walk'[i].spec \in DOMAIN emitted' /\ ~ emitted'[walk'[i].spec]
        BY <1>3, <2>0, <2>2, <3>3, <3>4 DEF WalkShape
      <3>6. \A s \in DOMAIN emitted' : ~ emitted'[s] => \E i \in 1 .. Len(walk') : walk'[i].spec = s
        <4>1. n + 1 \in 1 .. Len(walk') /\ \A i \in 1 .. n : i \in 1 .. Len(walk') /\ i # n + 1
          BY <2>0, <2>1, <2>3
        <4>2. ASSUME NEW s \in DOMAIN emitted, ~ emitted[s] PROVE \E i \in 1 .. Len(walk') : walk'[i].spec = s
          <5>1. PICK i \in 1 .. n : walk[i].spec = s
            BY <1>3, <2>0, <4>2 DEF WalkShape
          <5> QED
            BY <3>3, <4>1, <5>1
        <4> QED
          BY <2>2, <3>3, <4>1, <4>2
      <3>7. \A i, j \in 1 .. Len(walk') : walk'[i].spec = walk'[j].spec => i = j
        <4>1. \A i \in 1 .. n : walk[i].spec # need.spec
          BY <1>3, <1>7, <2>0 DEF WalkShape
        <4>2. \A i, j \in 1 .. n : walk[i].spec = walk[j].spec => i = j
          BY <1>3, <2>0 DEF WalkShape
        <4>3. \A i \in 1 .. n : i # n + 1
          BY <2>3
        <4> QED
          BY <3>3, <3>4, <4>1, <4>2, <4>3
      <3> QED
        BY <1>4, <2>2, <3>1, <3>2, <3>5, <3>6, <3>7 DEF WalkShape
    <2>5. PlanShape'
      BY <1>1, <1>3, <2>2, PlanStays
    <2>6. WalkProgress'
      <3>1. ASSUME NEW d, NEW i \in 0 .. n, Walked(d, i) PROVE Walked(d, i)'
        <4>1. i + 1 \in 1 .. n => i + 1 \in 1 .. Len(walk') /\ walk'[i + 1].spec = walk[i + 1].spec
          BY <2>0, <2>1, <2>3
        <4> QED
          BY <2>0, <2>2, <3>1, <4>1, Static DEF Walked
      <3>2. Walked(need, n)'
        <4>1. Admitted(need)' /\ need.spec \in DOMAIN emitted'
          BY <1>2, <1>7, <2>2, Static
        <4>2. n + 1 \in 1 .. Len(walk') /\ walk'[n + 1].spec = need.spec
          BY <2>1, <2>3
        <4> QED
          BY <4>1, <4>2 DEF Walked
      <3>3. ASSUME NEW i \in 1 .. Len(walk'), NEW d \in (DepSpecs(walk[i].spec) \ walk[i].left)' PROVE Walked(d, i)'
        <4>1. CASE i = n + 1
          BY <2>1, <4>1, Static
        <4>2. CASE i # n + 1
          <5>1. i \in 1 .. n /\ d \in DepSpecs(walk[i].spec) \ rest[i].left
            BY <2>0, <2>1, <2>3, <4>2, Static
          <5>2. i \in 0 .. n
            BY <2>3, <5>1
          <5> QED
            BY <2>0, <3>1, <3>2, <5>1, <5>2
        <4> QED
          BY <4>1, <4>2
      <3>4. ASSUME NEW root \in (Roots \ roots)' PROVE Walked(root, 0)'
        <4>1. 0 \in 0 .. n
          BY <2>3
        <4> QED
          BY <2>0, <3>1, <3>2, <4>1, Static
      <3> QED
        BY <3>3, <3>4 DEF WalkProgress
    <2> QED
      BY <1>5, <2>4, <2>5, <2>6 DEF WalkInv
  <1> QED
    BY <1>6, <1>7

LEMMA WalkRootStep == WalkInv /\ WalkRoot => WalkInv'
  <1> SUFFICES ASSUME WalkInv, WalkRoot PROVE WalkInv'
    OBVIOUS
  <1>1. pc = "extract" /\ UNCHANGED <<world, graph>> /\ walk = <<>>
    BY DEF WalkRoot, Extracting, resolverVars
  <1>2. PICK root \in roots : Push(root, <<>>) /\ roots' = roots \ {root}
    BY DEF WalkRoot
  <1>3. WalkProgress
    BY <1>1 DEF WalkInv
  <1>4. Len(walk) = 0 /\ <<>> \in Seq(WalkFrames) /\ Len(<<>>) = 0
    BY <1>1
  <1>5. \A r \in Roots \ roots' : Walked(r, 0) \/ (r = root /\ Len(walk) = 0)
    BY <1>2, <1>3, <1>4 DEF WalkProgress
  <1>6. PICK rest : rest = <<>>
    OBVIOUS
  <1>7. rest \in Seq(WalkFrames) /\ Push(root, rest) /\ Len(rest) = Len(walk) /\ \A i \in 1 .. Len(walk) : FALSE
    BY <1>2, <1>4, <1>6
  <1> QED
    BY <1>1, <1>5, <1>7, PushStep

LEMMA WalkDependencyStep == WalkInv /\ WalkDependency => WalkInv'
  <1> SUFFICES ASSUME WalkInv, WalkDependency PROVE WalkInv'
    OBVIOUS
  <1>1. pc = "extract" /\ UNCHANGED <<world, graph, roots>> /\ walk # <<>>
    BY DEF WalkDependency, Extracting, resolverVars
  <1>2. PICK need \in Last(walk).left : Push(need, [walk EXCEPT ![Len(walk)].left = @ \ {need}])
    BY DEF WalkDependency
  <1>3. PICK rest : rest = [walk EXCEPT ![Len(walk)].left = @ \ {need}]
    OBVIOUS
  <1>4. WalkProgress /\ WalkShape
    BY <1>1 DEF WalkInv
  <1>5. walk \in Seq(WalkFrames) /\ Len(walk) \in 1 .. Len(walk)
    BY <1>1, <1>4 DEF WalkShape
  <1>6. walk[Len(walk)] \in WalkFrames
    BY <1>5
  <1>7. /\ rest \in Seq(WalkFrames) /\ Len(rest) = Len(walk)
        /\ \A i \in 1 .. Len(walk) :
              rest[i].spec = walk[i].spec
              /\ rest[i].left = IF i = Len(walk) THEN walk[i].left \ {need} ELSE walk[i].left
    <2> DEFINE last == [walk[Len(walk)] EXCEPT !.left = @ \ {need}]
    <2>1. last \in WalkFrames /\ last.spec = walk[Len(walk)].spec /\ last.left = walk[Len(walk)].left \ {need}
      BY <1>6 DEF WalkFrames
    <2>2. rest = [walk EXCEPT ![Len(walk)] = last]
      BY <1>3
    <2> HIDE DEF last
    <2>3. rest \in Seq(WalkFrames) /\ Len(rest) = Len(walk)
      BY <1>5, <2>1, <2>2, ExceptSeq
    <2>4. \A i \in 1 .. Len(walk) : rest[i] = IF i = Len(walk) THEN last ELSE walk[i]
      BY <1>5, <2>2
    <2> QED
      BY <2>1, <2>3, <2>4
  <1>8. \A i \in 1 .. Len(walk) : \A d \in DepSpecs(walk[i].spec) \ rest[i].left :
            Walked(d, i) \/ (d = need /\ i = Len(walk))
    BY <1>4, <1>7 DEF WalkProgress
  <1>9. \A root \in Roots \ roots' : Walked(root, 0)
    BY <1>1, <1>4 DEF WalkProgress
  <1>10. Push(need, rest)
    BY <1>2, <1>3
  <1> QED
    BY <1>1, <1>7, <1>8, <1>9, <1>10, PushStep

LEMMA EmitStep == WalkInv /\ Emit => WalkInv'
  <1> SUFFICES ASSUME WalkInv, Emit PROVE WalkInv'
    OBVIOUS
  <1>1. pc = "extract" /\ UNCHANGED <<world, graph, roots, pc, outcome>> /\ walk # <<>> /\ outcome = "none"
    BY DEF Emit, Extracting, resolverVars, WalkInv
  <1>2. WalkProgress /\ WalkShape /\ PlanShape
    BY <1>1 DEF WalkInv
  <1>3. PICK n : n = Len(walk)
    OBVIOUS
  <1>4. PICK m : m = Len(plan)
    OBVIOUS
  <1>5. n \in 1 .. n /\ n \in Nat /\ m \in Nat
    BY <1>1, <1>2, <1>3, <1>4 DEF WalkShape
  <1>6. PICK spec : spec = walk[n].spec
    OBVIOUS
  <1>7. /\ walk[n].left = {}
        /\ emitted' = [emitted EXCEPT ![spec] = TRUE]
        /\ plan' = Append(plan, Planned(spec))
        /\ walk' = SubSeq(walk, 1, n - 1)
    BY <1>3, <1>6 DEF Emit, Last, Front, Planned
  <1>8. spec \in DOMAIN emitted /\ ~ emitted[spec] /\ spec \in DOMAIN graph
    BY <1>2, <1>3, <1>5, <1>6 DEF WalkShape
  <1>9. /\ DOMAIN emitted' = DOMAIN emitted
        /\ emitted'[spec]
        /\ \A s \in DOMAIN emitted : s # spec => emitted'[s] = emitted[s]
        /\ emitted' \in [DOMAIN emitted' -> BOOLEAN]
    <2>1. \A s \in DOMAIN emitted : emitted[s] \in BOOLEAN
      BY <1>2 DEF WalkShape
    <2>2. DOMAIN emitted' = DOMAIN emitted
      BY <1>7
    <2>3. \A s \in DOMAIN emitted : emitted'[s] = IF s = spec THEN TRUE ELSE emitted[s]
      BY <1>2, <1>7, Zenon DEF WalkShape
    <2> QED
      BY <1>2, <1>7, <1>8, <2>1, <2>2, <2>3, Zenon DEF WalkShape
  <1>10. /\ walk' \in Seq(WalkFrames) /\ Len(walk') = n - 1
         /\ \A i \in 1 .. n - 1 : walk'[i] = walk[i] /\ i \in 1 .. n /\ i # n
    BY <1>2, <1>3, <1>5, <1>7 DEF WalkShape
  <1>11. Planned(spec) \in PlanActions /\ Planned(spec).spec = spec
    BY <1>8 DEF Planned, PlanActions
  <1>12. /\ plan' \in Seq(PlanActions) /\ Len(plan') = m + 1
         /\ \A i \in 1 .. m : plan'[i] = plan[i]
         /\ plan'[m + 1].spec = spec
    <2>1. plan \in Seq(PlanActions)
      BY <1>2 DEF WalkShape
    <2>2. PICK action : action = Planned(spec)
      OBVIOUS
    <2> QED
      BY <1>4, <1>7, <1>11, <2>1, <2>2
  <1>13. WalkShape'
    <2>1. \A i \in 1 .. n - 1 : walk[i].spec \in DOMAIN emitted /\ ~ emitted[walk[i].spec] /\ walk[i].spec # spec
      BY <1>2, <1>3, <1>5, <1>6, <1>10 DEF WalkShape
    <2>2. \A i \in 1 .. Len(walk') : walk'[i].spec \in DOMAIN emitted' /\ ~ emitted'[walk'[i].spec]
      BY <1>9, <1>10, <2>1
    <2>3. \A s \in DOMAIN emitted' : ~ emitted'[s] => \E i \in 1 .. Len(walk') : walk'[i].spec = s
      <3>1. ASSUME NEW s \in DOMAIN emitted', ~ emitted'[s] PROVE \E i \in 1 .. Len(walk') : walk'[i].spec = s
        <4>1. s # spec /\ s \in DOMAIN emitted /\ ~ emitted[s]
          BY <1>9, <3>1
        <4>2. PICK i \in 1 .. n : walk[i].spec = s
          BY <1>2, <1>3, <4>1 DEF WalkShape
        <4>3. i \in 1 .. n - 1
          BY <1>5, <1>6, <4>1, <4>2
        <4> QED
          BY <1>10, <4>2, <4>3
      <3> QED
        BY <3>1
    <2>4. \A i, j \in 1 .. Len(walk') : walk'[i].spec = walk'[j].spec => i = j
      BY <1>2, <1>3, <1>10 DEF WalkShape
    <2>5. walk' \in Seq(WalkFrames') /\ plan' \in Seq(PlanActions') /\ DOMAIN emitted' \subseteq DOMAIN graph'
      BY <1>1, <1>2, <1>9, <1>10, <1>12, Static DEF WalkShape
    <2> QED
      BY <1>9, <2>2, <2>3, <2>4, <2>5 DEF WalkShape
  <1>14. ASSUME NEW d, NEW i \in 0 .. n, Walked(d, i)
         PROVE  d.spec \in DOMAIN emitted' /\ (emitted'[d.spec] \/ (i + 1 \in 1 .. n - 1 /\ d.spec = walk[i + 1].spec))
    <2>1. CASE emitted[d.spec]
      BY <1>8, <1>9, <1>14, <2>1 DEF Walked
    <2>2. CASE i + 1 \in 1 .. Len(walk) /\ d.spec = walk[i + 1].spec
      <3>1. CASE i + 1 = n
        BY <1>6, <1>9, <1>14, <2>2, <3>1 DEF Walked
      <3>2. CASE i + 1 # n
        BY <1>3, <1>5, <1>9, <1>14, <2>2, <3>2 DEF Walked
      <3> QED
        BY <3>1, <3>2
    <2> QED
      BY <1>14, <2>1, <2>2 DEF Walked
  <1>15. WalkProgress'
    <2>1. ASSUME NEW d, NEW i \in 0 .. n, Walked(d, i) PROVE Walked(d, i)'
      <3>1. i + 1 \in 1 .. n - 1 => i + 1 \in 1 .. Len(walk') /\ walk'[i + 1] = walk[i + 1]
        BY <1>10
      <3>2. Admitted(d)'
        BY <1>1, <2>1, Static DEF Walked
      <3> QED
        BY <1>14, <2>1, <3>1, <3>2 DEF Walked
    <2>2. ASSUME NEW i \in 1 .. Len(walk'), NEW d \in (DepSpecs(walk[i].spec) \ walk[i].left)' PROVE Walked(d, i)'
      <3>1. i \in 1 .. n /\ i \in 0 .. n /\ d \in DepSpecs(walk[i].spec) \ walk[i].left
        BY <1>1, <1>5, <1>10, Static
      <3> QED
        BY <1>2, <1>3, <2>1, <3>1 DEF WalkProgress
    <2>3. ASSUME NEW root \in (Roots \ roots)' PROVE Walked(root, 0)'
      <3>1. 0 \in 0 .. n /\ root \in Roots \ roots
        BY <1>1, <1>5, Static
      <3> QED
        BY <1>2, <2>1, <3>1 DEF WalkProgress
    <2> QED
      BY <2>2, <2>3 DEF WalkProgress
  <1>16. PlanShape'
    <2>1. \A i \in 1 .. m : plan'[i].spec \in DOMAIN emitted /\ emitted[plan'[i].spec] /\ plan'[i].spec # spec
      BY <1>2, <1>4, <1>8, <1>12 DEF PlanShape
    <2>2. \A i \in 1 .. Len(plan') : i = m + 1 \/ i \in 1 .. m
      BY <1>5, <1>12
    <2>3. \A i \in 1 .. Len(plan') : plan'[i].spec \in DOMAIN emitted' /\ emitted'[plan'[i].spec]
      BY <1>8, <1>9, <1>12, <2>1, <2>2
    <2>4. \A s \in DOMAIN emitted' : emitted'[s] => \E i \in 1 .. Len(plan') : plan'[i].spec = s
      <3>1. ASSUME NEW s \in DOMAIN emitted, s # spec, emitted[s] PROVE \E i \in 1 .. Len(plan') : plan'[i].spec = s
        <4>1. PICK i \in 1 .. m : plan[i].spec = s
          BY <1>2, <1>4, <3>1 DEF PlanShape
        <4>2. i \in 1 .. Len(plan')
          BY <1>5, <1>12
        <4> QED
          BY <1>12, <4>1, <4>2
      <3>2. m + 1 \in 1 .. Len(plan')
        BY <1>5, <1>12
      <3> QED
        BY <1>9, <1>12, <3>1, <3>2
    <2>5. \A i, j \in 1 .. Len(plan') : plan'[i].spec = plan'[j].spec => i = j
      <3>1. \A i, j \in 1 .. m : plan'[i].spec = plan'[j].spec => i = j
        BY <1>2, <1>4, <1>12 DEF PlanShape
      <3> QED
        BY <1>12, <2>1, <2>2, <3>1
    <2>6. ASSUME NEW need, NEW i \in 1 .. m, Provided(need, i) PROVE Provided(need, i)'
      <3>1. PICK j \in 1 .. i - 1 : plan[j].spec = need.spec
        BY <2>6 DEF Provided
      <3>2. j \in 1 .. m
        BY <1>5
      <3>3. Admitted(need)'
        BY <1>1, <2>6, Static DEF Provided
      <3> QED
        BY <1>12, <3>1, <3>2, <3>3 DEF Provided
    <2>7. ASSUME NEW need \in DepSpecs(spec) PROVE Provided(need, m + 1)'
      <3>1. Walked(need, n)
        BY <1>2, <1>3, <1>5, <1>6, <1>7 DEF WalkProgress
      <3>2. emitted[need.spec] /\ need.spec \in DOMAIN emitted
        BY <1>3, <1>5, <3>1 DEF Walked
      <3>3. PICK j \in 1 .. m : plan[j].spec = need.spec
        BY <1>2, <1>4, <3>2 DEF PlanShape
      <3>4. j \in 1 .. (m + 1) - 1 /\ plan'[j].spec = need.spec
        BY <1>5, <1>12, <3>3
      <3>5. Admitted(need)'
        BY <1>1, <3>1, Static DEF Walked
      <3> QED
        BY <3>4, <3>5 DEF Provided
    <2>8. ASSUME NEW i \in 1 .. Len(plan'), NEW need \in DepSpecs(plan[i].spec)' PROVE Provided(need, i)'
      <3>1. CASE i = m + 1
        BY <1>1, <1>12, <2>7, <2>8, <3>1, Static
      <3>2. CASE i \in 1 .. m
        BY <1>1, <1>2, <1>4, <1>12, <2>6, <2>8, <3>2, Static DEF PlanShape
      <3> QED
        BY <2>2, <3>1, <3>2
    <2> QED
      BY <2>3, <2>4, <2>5, <2>8 DEF PlanShape
  <1> QED
    BY <1>1, <1>13, <1>15, <1>16 DEF WalkInv

LEMMA FinishStep == WalkInv /\ Finish => WalkInv'
  <1> SUFFICES ASSUME WalkInv, Finish PROVE WalkInv'
    OBVIOUS
  <1>1. /\ UNCHANGED <<world, graph, roots, emitted, walk, plan>>
        /\ pc = "extract" /\ pc' = "done" /\ walk = <<>> /\ roots = {}
    BY DEF Finish, Extracting, resolverVars, extractVars
  <1>2. WalkShape /\ PlanShape /\ WalkProgress
    BY <1>1 DEF WalkInv
  <1>3. WalkShape'
    BY <1>1, <1>2, Static DEF WalkShape
  <1>4. PlanShape'
    BY <1>1, <1>2, PlanStays
  <1>5. WalkProgress'
    BY <1>1, <1>2, Static DEF WalkProgress, Walked
  <1> QED
    BY <1>1, <1>3, <1>4, <1>5 DEF WalkInv

LEMMA WalkStep == WalkInv /\ [NextVersioned]_versionedVars => WalkInv'
  <1> SUFFICES ASSUME WalkInv, [NextVersioned]_versionedVars PROVE WalkInv'
    OBVIOUS
  <1>1. ASSUME Resolving PROVE WalkInv'
    <2>1. Unwalked /\ outcome = "none" /\ UNCHANGED <<world, pc, roots, emitted, walk, plan, outcome>>
      BY <1>1 DEF Resolving, WalkInv, extractVars
    <2>2. Unwalked'
      BY <2>1 DEF Unwalked, Roots, SpecOf, TopLevel, Manifest
    <2> QED
      BY <2>1, <2>2, UnstartedStep DEF Unstarted
  <1>2. CASE Resolved
    <2>1. /\ Unwalked /\ outcome' # "plan" /\ pc' \in {"extract", "done"} /\ (pc' = "extract" => outcome' = "none")
          /\ UNCHANGED <<world, roots, emitted, walk, plan>>
      BY <1>2 DEF Resolved, WalkInv, extractVars
    <2>2. Unwalked'
      BY <2>1 DEF Unwalked, Roots, SpecOf, TopLevel, Manifest
    <2> QED
      BY <2>1, <2>2, UnstartedStep DEF Unstarted
  <1>3. CASE UNCHANGED versionedVars
    <2>1. UNCHANGED <<world, pc, graph, roots, emitted, walk, plan, outcome>>
      BY <1>3 DEF versionedVars, resolverVars, extractVars
    <2>2. WalkShape'
      BY <2>1, Static DEF WalkInv, WalkShape
    <2>3. PlanShape'
      BY <2>1, PlanStays DEF WalkInv
    <2>4. WalkProgress => WalkProgress'
      BY <2>1, Static DEF WalkProgress, Walked
    <2> QED
      BY <2>1, <2>2, <2>3, <2>4, Static DEF WalkInv, Unwalked
  <1>4. CASE PopFrame \/ SkipDependency \/ FailPackage \/ RequireDependency \/ SkipFeature \/ RequireFeature \/ RequireDefaults
    BY <1>1, <1>4 DEF PopFrame, SkipDependency, FailPackage, RequireDependency, SkipFeature, RequireFeature, RequireDefaults
  <1> QED
    BY <1>2, <1>3, <1>4, WalkRootStep, WalkDependencyStep, EmitStep, FinishStep DEF NextVersioned

LEMMA InitWalk == InitVersioned => WalkInv
  BY UnstartedInv DEF InitVersioned, Unstarted, Unwalked

(***************************************************************************)
(* A cycle that is reported.                                               *)
(***************************************************************************)
\* Each package of the walk needs the next one.
ChainInv ==
    /\ pc = "extract" =>
          \A i \in 1 .. Len(walk) :
              /\ walk[i].left \subseteq DepSpecs(walk[i].spec)
              /\ i + 1 \in 1 .. Len(walk) => \E need \in DepSpecs(walk[i].spec) : need.spec = walk[i + 1].spec
    /\ pc = "resolve" => outcome = "none"
    /\ CycleIsReal

LEMMA ChainDependency == GraphInv /\ WalkInv /\ ChainInv /\ WalkDependency => ChainInv'
  <1> SUFFICES ASSUME GraphInv, WalkInv, ChainInv, WalkDependency PROVE ChainInv'
    OBVIOUS
  <1>1. pc = "extract" /\ UNCHANGED <<world, graph, roots>> /\ walk # <<>>
    BY DEF WalkDependency, Extracting, resolverVars
  <1>2. PICK need \in Last(walk).left : Push(need, [walk EXCEPT ![Len(walk)].left = @ \ {need}])
    BY DEF WalkDependency
  <1>3. PICK n : n = Len(walk)
    OBVIOUS
  <1>4. WalkShape
    BY DEF WalkInv
  <1>5. walk \in Seq(WalkFrames) /\ n \in 1 .. n /\ n \in Nat
    BY <1>1, <1>3, <1>4 DEF WalkShape
  <1>6. PICK rest : rest = [walk EXCEPT ![n].left = @ \ {need}]
    OBVIOUS
  <1>7. Push(need, rest) /\ need \in walk[n].left /\ need \in DepSpecs(walk[n].spec)
    BY <1>1, <1>2, <1>3, <1>5, <1>6 DEF Last, ChainInv
  <1>8. walk[n] \in WalkFrames
    BY <1>3, <1>5
  <1>9. /\ rest \in Seq(WalkFrames) /\ Len(rest) = n
        /\ \A i \in 1 .. n : rest[i].spec = walk[i].spec /\ rest[i].left \subseteq walk[i].left
    <2> DEFINE last == [walk[n] EXCEPT !.left = @ \ {need}]
    <2>1. last \in WalkFrames /\ last.spec = walk[n].spec /\ last.left = walk[n].left \ {need}
      BY <1>8 DEF WalkFrames
    <2>2. rest = [walk EXCEPT ![n] = last]
      BY <1>6
    <2> HIDE DEF last
    <2>3. rest \in Seq(WalkFrames) /\ Len(rest) = n
      BY <1>3, <1>5, <2>1, <2>2, ExceptSeq
    <2>4. \A i \in 1 .. n : rest[i] = IF i = n THEN last ELSE walk[i]
      BY <1>3, <1>5, <2>2
    <2> QED
      BY <2>1, <2>3, <2>4
  <1> DEFINE new == [spec |-> need.spec, left |-> DepSpecs(need.spec)]
             ok == Verdict(need) = "ok"
             known == need.spec \in DOMAIN emitted
  <1>10. /\ pc' = IF ok THEN "extract" ELSE "done"
         /\ outcome' = IF ok THEN "none" ELSE Verdict(need)
         /\ ok /\ ~ known => walk' = Append(rest, new)
         /\ ok /\ known => walk' = rest
    BY <1>7 DEF Push
  <1>11. \A i \in 1 .. n : /\ rest[i].left \subseteq DepSpecs(rest[i].spec)
                           /\ i + 1 \in 1 .. n =>
                                 \E d \in DepSpecs(rest[i].spec) : d.spec = rest[i + 1].spec
    BY <1>1, <1>3, <1>9 DEF ChainInv
  <1>12. \A s : DepSpecs(s)' = DepSpecs(s)
    BY <1>1, Static
  <1>13. CASE ok /\ known
    <2>1. walk' = rest /\ pc' = "extract" /\ outcome' = "none"
      BY <1>10, <1>13
    <2> QED
      BY <1>9, <1>11, <1>12, <2>1 DEF ChainInv, CycleIsReal
  <1>14. CASE ok /\ ~ known
    <2>1. walk' = Append(rest, new) /\ pc' = "extract" /\ outcome' = "none"
      BY <1>10, <1>14
    <2>2. new.spec = need.spec /\ new.left = DepSpecs(need.spec)
      OBVIOUS
    <2> HIDE DEF new
    <2>3. /\ Len(walk') = n + 1 /\ walk'[n + 1] = new
          /\ \A i \in 1 .. n : walk'[i] = rest[i]
      BY <1>5, <1>9, <2>1
    <2>4. ASSUME NEW i \in 1 .. Len(walk')
          PROVE  /\ walk'[i].left \subseteq DepSpecs(walk'[i].spec)
                 /\ i + 1 \in 1 .. Len(walk') => \E d \in DepSpecs(walk'[i].spec) : d.spec = walk'[i + 1].spec
      <3>1. CASE i = n + 1
        BY <1>5, <2>2, <2>3, <3>1
      <3>2. CASE i = n
        BY <1>5, <1>7, <1>9, <1>11, <2>2, <2>3, <3>2
      <3>3. CASE i # n + 1 /\ i # n
        <4>1. i \in 1 .. n /\ i + 1 \in 1 .. n
          BY <1>5, <2>3, <3>3
        <4> QED
          BY <1>11, <2>3, <4>1
      <3> QED
        BY <3>1, <3>2, <3>3
    <2> QED
      BY <1>12, <2>1, <2>4 DEF ChainInv, CycleIsReal
  <1>15. CASE ~ ok
    <2>1. pc' = "done" /\ outcome' = Verdict(need)
      BY <1>10, <1>15
    <2>2. ASSUME outcome' = "cycle" PROVE CycleIsReal'
      <3>1. need.spec \in DOMAIN emitted /\ ~ emitted[need.spec]
        BY <2>1, <2>2 DEF Verdict
      <3>2. PICK k \in 1 .. n : walk[k].spec = need.spec
        BY <1>3, <1>4, <3>1 DEF WalkShape
      <3> DEFINE S == {walk[i].spec : i \in k .. n}
      <3>3. \A i \in k .. n : i \in 1 .. n
        BY <1>5, <3>2
      <3>4. S \subseteq DOMAIN graph /\ need.spec \in S
        <4>1. \A i \in 1 .. n : walk[i].spec \in DOMAIN graph
          BY <1>3, <1>4 DEF WalkShape
        <4>2. k \in k .. n
          BY <1>5, <3>2
        <4> QED
          BY <3>2, <3>3, <4>1, <4>2
      <3>5. ASSUME NEW i \in k .. n PROVE \E d \in DepSpecs(walk[i].spec) : d.spec \in S
        <4>1. CASE i = n
          BY <1>7, <3>4, <4>1
        <4>2. CASE i # n
          <5>1. i \in 1 .. n /\ i + 1 \in k .. n /\ i + 1 \in 1 .. n
            BY <1>5, <3>2, <4>2
          <5>2. PICK d \in DepSpecs(walk[i].spec) : d.spec = walk[i + 1].spec
            BY <1>1, <1>3, <5>1 DEF ChainInv
          <5> QED
            BY <5>1, <5>2
        <4> QED
          BY <4>1, <4>2
      <3>6. \A s \in S : \E d \in DepSpecs(s) : d.spec \in S
        BY <3>5
      <3>7. PICK T : T = S
        OBVIOUS
      <3>8. T \in SUBSET DOMAIN graph' /\ T # {} /\ \A s \in T : \E d \in DepSpecs(s)' : d.spec \in T
        BY <1>1, <1>12, <3>4, <3>6, <3>7
      <3> QED
        BY <3>8 DEF CycleIsReal
    <2> QED
      BY <2>1, <2>2 DEF ChainInv, CycleIsReal
  <1> QED
    BY <1>13, <1>14, <1>15

LEMMA ChainRoot == GraphInv /\ WalkInv /\ WalkRoot => ChainInv'
  <1> SUFFICES ASSUME WalkInv, WalkRoot PROVE ChainInv'
    OBVIOUS
  <1>1. pc = "extract" /\ UNCHANGED <<world, graph>> /\ walk = <<>>
    BY DEF WalkRoot, Extracting, resolverVars
  <1>2. PICK root \in roots : Push(root, <<>>)
    BY DEF WalkRoot
  <1>3. \A s \in DOMAIN emitted : emitted[s]
    BY <1>1 DEF WalkInv, WalkShape
  <1>4. /\ pc' # "resolve" /\ outcome' # "cycle"
        /\ walk' = <<>> \/ walk' = Append(<<>>, [spec |-> root.spec, left |-> DepSpecs(root.spec)])
    BY <1>2, <1>3 DEF Push, Verdict
  <1>5. PICK new : new = [spec |-> root.spec, left |-> DepSpecs(root.spec)]
    OBVIOUS
  <1>6. walk' = <<>> \/ walk' = <<new>>
    BY <1>4, <1>5
  <1>7. ASSUME NEW i \in 1 .. Len(walk') PROVE i + 1 \notin 1 .. Len(walk') /\ walk'[i] = new
    <2>1. Len(<<new>>) = 1 /\ <<new>>[1] = new
      OBVIOUS
    <2>2. Len(walk') = 1 /\ walk'[1] = new
      <3>1. walk' # <<>>
        BY <1>7
      <3> QED
        BY <1>6, <2>1, <3>1
    <2> QED
      BY <1>7, <2>2
  <1>8. DepSpecs(root.spec)' = DepSpecs(root.spec)
    BY <1>1, Static
  <1>9. \A i \in 1 .. Len(walk') : walk'[i].left \subseteq DepSpecs(walk[i].spec)'
    <2>1. new.spec = root.spec /\ new.left = DepSpecs(root.spec)
      BY <1>5
    <2>2. \A s : DepSpecs(s)' = DepSpecs(s)
      BY <1>1, Static
    <2> QED
      BY <1>7, <2>1, <2>2
  <1> QED
    BY <1>4, <1>7, <1>9 DEF ChainInv, CycleIsReal

LEMMA ChainEmit == WalkInv /\ ChainInv /\ Emit => ChainInv'
  <1> SUFFICES ASSUME WalkInv, ChainInv, Emit PROVE ChainInv'
    OBVIOUS
  <1>1. pc = "extract" /\ UNCHANGED <<world, graph, pc, outcome>> /\ walk # <<>> /\ outcome = "none"
    BY DEF Emit, Extracting, resolverVars, WalkInv
  <1>2. walk \in Seq(WalkFrames) /\ walk' = SubSeq(walk, 1, Len(walk) - 1)
    BY DEF Emit, Front, WalkInv, WalkShape
  <1>3. /\ Len(walk') = Len(walk) - 1
        /\ \A i \in 1 .. Len(walk) - 1 : walk'[i] = walk[i] /\ i \in 1 .. Len(walk)
    <2>1. PICK n : n = Len(walk)
      OBVIOUS
    <2>2. n \in Nat /\ n # 0 /\ walk' = SubSeq(walk, 1, n - 1)
      BY <1>1, <1>2, <2>1
    <2>3. walk' \in Seq(WalkFrames) /\ Len(walk') = n - 1 /\ \A i \in 1 .. n - 1 : walk'[i] = walk[i]
      BY <1>2, <2>1, <2>2
    <2> QED
      BY <2>1, <2>2, <2>3
  <1>4. \A s : DepSpecs(s)' = DepSpecs(s)
    BY <1>1, Static
  <1>5. \A i \in 1 .. Len(walk') :
            /\ walk'[i].left \subseteq DepSpecs(walk'[i].spec)
            /\ i + 1 \in 1 .. Len(walk') => \E need \in DepSpecs(walk'[i].spec) : need.spec = walk'[i + 1].spec
    <2>1. ASSUME NEW i \in 1 .. Len(walk')
          PROVE  /\ walk'[i].left \subseteq DepSpecs(walk'[i].spec)
                 /\ i + 1 \in 1 .. Len(walk') => \E need \in DepSpecs(walk'[i].spec) : need.spec = walk'[i + 1].spec
      BY <1>1, <1>3 DEF ChainInv
    <2> QED
      BY <2>1
  <1> QED
    BY <1>1, <1>4, <1>5 DEF ChainInv, CycleIsReal

LEMMA ChainStep == GraphInv /\ WalkInv /\ ChainInv /\ [NextVersioned]_versionedVars => ChainInv'
  <1> SUFFICES ASSUME GraphInv, WalkInv, ChainInv, [NextVersioned]_versionedVars PROVE ChainInv'
    OBVIOUS
  <1>1. ASSUME Resolving PROVE ChainInv'
    BY <1>1 DEF Resolving, ChainInv, CycleIsReal
  <1>2. CASE PopFrame \/ SkipDependency \/ FailPackage \/ RequireDependency \/ SkipFeature \/ RequireFeature \/ RequireDefaults
    BY <1>1, <1>2 DEF PopFrame, SkipDependency, FailPackage, RequireDependency, SkipFeature, RequireFeature, RequireDefaults
  <1>3. CASE Resolved
    <2>1. walk' = <<>> /\ pc' # "resolve" /\ outcome' # "cycle"
      BY <1>3 DEF Resolved, WalkInv, Unwalked, extractVars
    <2> QED
      BY <2>1 DEF ChainInv, CycleIsReal
  <1>4. CASE Finish
    BY <1>4 DEF Finish, Extracting, ChainInv, CycleIsReal
  <1>5. CASE UNCHANGED versionedVars
    <2>1. UNCHANGED <<world, graph, pc, outcome, walk>>
      BY <1>5 DEF versionedVars, resolverVars, extractVars
    <2>2. \A s : DepSpecs(s)' = DepSpecs(s)
      BY <2>1, Static
    <2> QED
      BY <2>1, <2>2 DEF ChainInv, CycleIsReal
  <1> QED
    BY <1>2, <1>3, <1>4, <1>5, ChainRoot, ChainDependency, ChainEmit DEF NextVersioned

(***************************************************************************)
(* The theorems.                                                           *)
(***************************************************************************)
LEMMA Inductive == Versioned => [](GraphInv /\ WalkInv)
  <1>1. InitVersioned => GraphInv /\ WalkInv
    BY InitGraph, InitWalk
  <1>2. GraphInv /\ WalkInv /\ [NextVersioned]_versionedVars => GraphInv' /\ WalkInv'
    BY GraphStep, WalkStep
  <1> QED
    BY <1>1, <1>2, PTL DEF Versioned

\* The version selected for a package is the greatest of those considered, none of them is below the one to
\* start with, and a pinned one stays alone; the packages in progress are those on the stack of phase 2:
\* for all ports, manifests and orders (dependencies.cpp:1536-1564, 1626-1731 and 1992-2021).
THEOREM SelectionHolds == Versioned => []VersionedInv
  <1>1. GraphInv /\ WalkInv => VersionedInv
    <2> SUFFICES ASSUME GraphInv, WalkInv PROVE VersionedInv
      OBVIOUS
    <2>1. WalkShape
      BY DEF WalkInv
    <2>2. {s \in DOMAIN emitted : ~ emitted[s]} = {walk[i].spec : i \in 1 .. Len(walk)}
      BY <2>1 DEF WalkShape
    <2> QED
      BY <2>1, <2>2 DEF GraphInv, WalkShape, WalkFrames, VersionedInv
  <1> QED
    BY <1>1, Inductive, PTL

\* A plan that is returned has each package once, after everything that its features depend on, in versions
\* that their dependencies and the manifest allow (dependencies.cpp:1372 and 1893-2021).
THEOREM PlansAreInOrder == Versioned => []PlanInOrder
  <1>1. WalkInv => PlanInOrder
    <2> SUFFICES ASSUME WalkInv, outcome = "plan" PROVE
          /\ \A i \in 1 .. Len(plan) : \A need \in DepSpecs(plan[i].spec) : Provided(need, i)
          /\ \A root \in Roots : Provided(root, Len(plan) + 1)
          /\ \A i, j \in 1 .. Len(plan) : plan[i].spec = plan[j].spec => i = j
      BY DEF PlanInOrder
    <2>1. WalkShape /\ PlanShape /\ WalkProgress /\ walk = <<>> /\ roots = {}
      BY DEF WalkInv
    <2>2. Len(plan) \in Nat
      BY <2>1 DEF WalkShape
    <2>3. ASSUME NEW root \in Roots PROVE Provided(root, Len(plan) + 1)
      <3>1. Walked(root, 0) /\ Len(walk) = 0
        BY <2>1 DEF WalkProgress
      <3>2. emitted[root.spec] /\ root.spec \in DOMAIN emitted /\ Admitted(root)
        BY <3>1 DEF Walked
      <3>3. PICK j \in 1 .. Len(plan) : plan[j].spec = root.spec
        BY <2>1, <3>2 DEF PlanShape
      <3>4. j \in 1 .. (Len(plan) + 1) - 1
        BY <2>2
      <3> QED
        BY <3>2, <3>3, <3>4 DEF Provided
    <2> QED
      BY <2>1, <2>3 DEF PlanShape
  <1> QED
    BY <1>1, Inductive, PTL

\* A cycle is reported only if selected versions do depend on each other in a cycle (dependencies.cpp:1981-1988).
THEOREM CyclesAreReal == Versioned => []CycleIsReal
  <1>1. InitVersioned => ChainInv
    BY DEF InitVersioned, ChainInv, CycleIsReal
  <1> QED
    BY <1>1, ChainStep, GraphStep, WalkStep, Inductive, PTL DEF Versioned, ChainInv

(***************************************************************************)
(* Recursive functions and sets of sequences.                              *)
(***************************************************************************)
LEMMA LeastNatural ==
    ASSUME NEW S \in SUBSET Nat, S # {}
    PROVE  \E m \in S : \A n \in S : m <= n
<1>. DEFINE R == OpToRel(<, Nat)
<1>1. IsWellFoundedOn(R, Nat)
  BY NatLessThanWellFounded
<1>2. \A x, y \in Nat : <<y, x>> \in R <=> y < x
  BY DEF OpToRel
<1>. HIDE DEF R
<1>3. \E x \in S : \A y \in S : ~ (<<y, x>> \in R)
  BY <1>1, WFMin
<1>4. PICK m \in S : \A n \in S : ~ (<<n, m>> \in R)
  BY <1>3
<1>5. ASSUME NEW n \in S
      PROVE  m <= n
  <2>1. ~ (n < m)
    BY <1>2, <1>4
  <2>2. n \in Nat /\ m \in Nat
    OBVIOUS
  <2>. QED
    BY <2>1, <2>2
<1>. QED
  BY <1>5

\* Of some subsets of a finite set, one is in no other.
LEMMA GreatestSubset ==
    ASSUME NEW U, IsFiniteSet(U), NEW C \in SUBSET SUBSET U, C # {}
    PROVE  \E s \in C : \A t \in C : s \subseteq t => s = t
<1>. DEFINE missing == {Cardinality(U \ s) : s \in C}
<1>1. ASSUME NEW s \in SUBSET U
      PROVE  IsFiniteSet(U \ s) /\ Cardinality(U \ s) \in Nat
  BY FS_Difference, FS_CardinalityType
<1>2. missing \in SUBSET Nat /\ missing # {}
  BY <1>1
<1>3. \E m \in missing : \A n \in missing : m <= n
  BY <1>2, LeastNatural
<1>4. PICK s \in C : \A t \in C : Cardinality(U \ s) <= Cardinality(U \ t)
  BY <1>3
<1>5. ASSUME NEW t \in C, s \subseteq t
      PROVE  s = t
  <2>1. (U \ t) \in SUBSET (U \ s) /\ IsFiniteSet(U \ s)
    BY <1>1, <1>5
  <2>2. /\ Cardinality(U \ t) <= Cardinality(U \ s)
        /\ Cardinality(U \ s) = Cardinality(U \ t) => U \ s = U \ t
    BY <2>1, FS_Subset
  <2>3. Cardinality(U \ s) <= Cardinality(U \ t) /\ Cardinality(U \ s) \in Nat /\ Cardinality(U \ t) \in Nat
    BY <1>1, <1>4
  <2>4. U \ s = U \ t
    BY <2>2, <2>3
  <2>. QED
    BY <2>4
<1>. QED
  BY <1>5


\* What Frames builds, feature by feature.
UpTo(g, spec, scfl, features, i) ==
    IF i = 0 THEN <<>>
    ELSE IF FeatureNames[i] \in features THEN Append(g[i - 1], FrameOf(spec, scfl, FeatureNames[i]))
    ELSE g[i - 1]

LEMMA UpToExists ==
    ASSUME NEW spec, NEW scfl, NEW features, NEW n \in Nat
    PROVE  \E g : g = [i \in 0 .. n |-> UpTo(g, spec, scfl, features, i)]
  <1> DEFINE Built(m) == \E g : g = [i \in 0 .. m |-> UpTo(g, spec, scfl, features, i)]
             bad == {m \in Nat : ~ Built(m)}
  <1>1. bad \in SUBSET Nat /\ \A m \in Nat : m \in bad <=> ~ Built(m)
    OBVIOUS
  <1> HIDE DEF bad
  <1>2. ASSUME bad # {} PROVE FALSE
    <2>1. PICK m \in bad : \A k \in bad : m <= k
      BY <1>1, <1>2, LeastNatural
    <2>2. m \in Nat /\ ~ Built(m)
      BY <1>1
    <2>3. CASE m = 0
      <3> DEFINE g == [i \in 0 .. 0 |-> <<>>]
      <3>1. g = [i \in 0 .. 0 |-> UpTo(g, spec, scfl, features, i)]
        BY DEF UpTo
      <3> QED
        BY <2>2, <2>3, <3>1
    <2>4. CASE m > 0
      <3>1. m - 1 \in Nat /\ ~ (m <= m - 1)
        BY <2>2, <2>4
      <3>2. Built(m - 1)
        BY <2>1, <3>1, <1>1
      <3>3. PICK g : g = [i \in 0 .. m - 1 |-> UpTo(g, spec, scfl, features, i)]
        BY <3>2
      <3> DEFINE h == [i \in 0 .. m |-> IF i < m THEN g[i] ELSE UpTo(g, spec, scfl, features, m)]
      <3>4. ASSUME NEW i \in 0 .. m PROVE h[i] = UpTo(h, spec, scfl, features, i)
        <4>1. i # 0 => i - 1 \in 0 .. m - 1 /\ h[i - 1] = g[i - 1]
          BY <2>2
        <4>2. UpTo(h, spec, scfl, features, i) = UpTo(g, spec, scfl, features, i)
          BY <4>1 DEF UpTo
        <4>3. CASE i < m
          <5>1. g[i] = UpTo(g, spec, scfl, features, i)
            BY <2>2, <3>3, <4>3
          <5> QED
            BY <4>2, <4>3, <5>1
        <4>4. CASE i = m
          BY <4>2, <4>4
        <4> QED
          BY <2>2, <4>3, <4>4
      <3>5. h = [i \in 0 .. m |-> h[i]]
        OBVIOUS
      <3> HIDE DEF h
      <3>6. h = [i \in 0 .. m |-> UpTo(h, spec, scfl, features, i)]
        BY <3>4, <3>5
      <3> QED
        BY <2>2, <3>6
    <2> QED
      BY <2>2, <2>3, <2>4
  <1>3. Built(n)
    BY <1>1, <1>2
  <1> QED
    BY <1>3

Pushed(q, spec, scfl, f) == \E i \in 1 .. Len(q) : q[i] = FrameOf(spec, scfl, f)

\* Frames has a frame for each of the features, and no other.
LEMMA FramesFacts ==
    ASSUME NEW spec, NEW scfl, NEW features \in SUBSET Feature
    PROVE  /\ Frames(spec, scfl, features) \in Seq({FrameOf(spec, scfl, f) : f \in features})
           /\ \A f \in features : Pushed(Frames(spec, scfl, features), spec, scfl, f)
  <1> DEFINE n == Len(FeatureNames)
             set == {FrameOf(spec, scfl, f) : f \in features}
             upTo == CHOOSE g : g = [i \in 0 .. n |-> UpTo(g, spec, scfl, features, i)]
  <1>1. n \in Nat /\ \A f \in features : \E k \in 1 .. n : FeatureNames[k] = f
    BY FeatureAssumption DEF Feature
  <1>2. Frames(spec, scfl, features) = upTo[n]
    BY DEF Frames, UpTo
  <1>3. upTo = [i \in 0 .. n |-> UpTo(upTo, spec, scfl, features, i)]
    BY <1>1, UpToExists
  <1> HIDE DEF upTo, n
  <1> DEFINE Good(i) == /\ upTo[i] \in Seq(set)
                        /\ \A k \in 1 .. i : FeatureNames[k] \in features => Pushed(upTo[i], spec, scfl, FeatureNames[k])
             bad == {i \in 0 .. n : ~ Good(i)}
  <1>4. bad \in SUBSET Nat /\ \A i \in 0 .. n : i \in bad <=> ~ Good(i)
    BY <1>1
  <1>a. \A i \in bad : i \in 0 .. n
    OBVIOUS
  <1> HIDE DEF bad
  <1>5. ASSUME bad # {} PROVE FALSE
    <2>1. PICK m \in bad : \A k \in bad : m <= k
      BY <1>4, <1>5, LeastNatural
    <2>2. m \in 0 .. n /\ ~ Good(m)
      BY <1>4, <1>a
    <2>3. upTo[m] = UpTo(upTo, spec, scfl, features, m)
      BY <1>3, <2>2
    <2>4. CASE m = 0
      <3>1. upTo[m] = <<>> /\ <<>> \in Seq(set)
        BY <2>3, <2>4 DEF UpTo
      <3> QED
        BY <2>2, <2>4, <3>1
    <2>5. CASE m # 0
      <3>1. m - 1 \in 0 .. n /\ ~ (m <= m - 1) /\ m \in Nat
        BY <1>1, <2>2, <2>5
      <3>2. Good(m - 1)
        BY <1>4, <2>1, <3>1
      <3>3. upTo[m - 1] \in Seq(set)
        BY <3>2
      <3>4. CASE FeatureNames[m] \notin features
        <4>1. upTo[m] = upTo[m - 1]
          BY <2>3, <2>5, <3>4 DEF UpTo
        <4>2. \A k \in 1 .. m : k = m \/ k \in 1 .. m - 1
          BY <3>1
        <4>3. Good(m)
          BY <3>2, <3>4, <4>1, <4>2
        <4> QED
          BY <2>2, <4>3
      <3>5. CASE FeatureNames[m] \in features
        <4> DEFINE new == FrameOf(spec, scfl, FeatureNames[m])
        <4>1. upTo[m] = Append(upTo[m - 1], new) /\ new \in set
          BY <2>3, <2>5, <3>5 DEF UpTo
        <4> HIDE DEF new, set
        <4>2. /\ upTo[m] \in Seq(set) /\ Len(upTo[m]) = Len(upTo[m - 1]) + 1 /\ Len(upTo[m - 1]) \in Nat
              /\ upTo[m][Len(upTo[m])] = new
              /\ \A i \in 1 .. Len(upTo[m - 1]) : i \in 1 .. Len(upTo[m]) /\ upTo[m][i] = upTo[m - 1][i]
          BY <3>3, <4>1
        <4>3. Pushed(upTo[m], spec, scfl, FeatureNames[m])
          BY <4>2 DEF Pushed, new
        <4>4. \A k \in 1 .. m - 1 : FeatureNames[k] \in features => Pushed(upTo[m], spec, scfl, FeatureNames[k])
          BY <3>2, <4>2 DEF Pushed
        <4>5. \A k \in 1 .. m : k = m \/ k \in 1 .. m - 1
          BY <3>1
        <4>6. Good(m)
          BY <4>2, <4>3, <4>4, <4>5
        <4> QED
          BY <2>2, <4>6
      <3> QED
        BY <3>4, <3>5
    <2> QED
      BY <2>4, <2>5
  <1>b. n \in 0 .. n /\ n \notin bad
    BY <1>1, <1>5
  <1>6. Good(n)
    BY <1>4, <1>b
  <1>7. \A f \in features : Pushed(upTo[n], spec, scfl, f)
    BY <1>1, <1>6
  <1> QED
    BY <1>2, <1>6, <1>7

LEMMA SetToSeqsFacts ==
    ASSUME NEW S, IsFiniteSet(S), NEW order \in SetToSeqs(S)
    PROVE  /\ order \in Seq(S) /\ Len(order) \in Nat
           /\ \A x \in S : \E i \in 1 .. Len(order) : order[i] = x
  <1> DEFINE n == Cardinality(S)
  <1>1. n \in Nat
    BY FS_CardinalityType
  <1>2. order \in [1 .. n -> S] /\ \A i, j \in 1 .. n : i # j => order[i] # order[j]
    BY DEF SetToSeqs
  <1>3. order \in Seq(S) /\ Len(order) = n
    BY <1>1, <1>2
  <1>4. order \in Injection(1 .. n, S)
    BY <1>2 DEF Injection, IsInjective
  <1>5. Cardinality(1 .. n) = n
    BY <1>1, FS_Interval
  <1>6. order \in Surjection(1 .. n, S)
    BY <1>4, <1>5, FS_Injection
  <1> QED
    BY <1>1, <1>3, <1>6 DEF Surjection

(***************************************************************************)
(* The ports of a call.                                                    *)
(***************************************************************************)
FrameIn(specs) == [spec : specs, deps : Seq(Dependency)]

LEMMA CallFacts ==
    ASSUME world \in DOMAIN Manifests
    PROVE  Manifest.triplet \in Triplet /\ Manifest.depends \in Seq(Dependency)
  BY ManifestsAssumption DEF Manifest

LEMMA PortFacts ==
    ASSUME world \in DOMAIN Manifests, NEW name \in Port, NEW v, Exists(name, v)
    PROVE  IsPort(PortOf(name, v)) /\ (v # Overlay => v \in Version /\ Has(name, v))
  BY ManifestsAssumption DEF Manifest, Exists, Has, PortOf

LEMMA HasExists ==
    ASSUME world \in DOMAIN Manifests, NEW name \in Port, NEW v, Has(name, v)
    PROVE  Exists(name, v) /\ v \in Version /\ v # Overlay
  BY ManifestsAssumption DEF Manifest, Exists, Has

LEMMA FirstExists ==
    ASSUME world \in DOMAIN Manifests, NEW name, CanStart(name)
    PROVE  name \in Port /\ Exists(name, FirstScfl(name))
  <1>1. name \in Port
    BY DEF CanStart
  <1>2. CASE Manifest.overlay[name] # None
    BY <1>1, <1>2 DEF FirstScfl, Exists
  <1>3. CASE Manifest.overlay[name] = None
    <2>1. FirstScfl(name) # Overlay
      BY <1>1, <1>3, ManifestsAssumption DEF FirstScfl, Manifest
    <2> QED
      BY <1>1, <2>1 DEF CanStart, Exists
  <1> QED
    BY <1>1, <1>2, <1>3

LEMMA HoldingFacts ==
    ASSUME NEW features \in Seq(FeatureRef), NEW triplet
    PROVE  Holding(features, triplet) \subseteq NamesOf(features) /\ NamesOf(features) \subseteq Feature
  <1>a. \A i \in 1 .. Len(features) : features[i] \in FeatureRef
    OBVIOUS
  <1>1. \A i \in 1 .. Len(features) : features[i].name \in Feature
    BY <1>a DEF FeatureRef
  <1> QED
    BY <1>1 DEF Holding, NamesOf

LEMMA FeaturesFacts ==
    ASSUME world \in DOMAIN Manifests, NEW spec \in Spec, NEW v, Exists(spec[1], v)
    PROVE  /\ FeaturesOf(spec, v) \subseteq Feature /\ Core \in FeaturesOf(spec, v)
           /\ Defaults(spec, v) \subseteq Feature
           /\ \A f \in FeaturesOf(spec, v) :
                 PortOf(spec[1], v).needs[f] \in Seq(Dependency) /\ FrameOf(spec, v, f) \in FrameIn({spec})
  <1>1. IsPort(PortOf(spec[1], v))
    BY PortFacts DEF Spec
  <1>2. Defaults(spec, v) \subseteq Feature
    BY <1>1, HoldingFacts DEF Defaults, IsPort
  <1> QED
    BY <1>1, <1>2 DEF IsPort, FeaturesOf, FrameOf, FrameIn

(***************************************************************************)
(* What require_scfl, require_package and a version constraint push.       *)
(***************************************************************************)
\* A node with features and versions that there are.
NodeIn(spec, n) ==
    /\ Node(n)
    /\ n.requested \subseteq Feature /\ Core \in n.requested
    /\ n.defaults \in BOOLEAN
    /\ IsFiniteSet(n.considered)
    /\ n.scfl \in n.considered
    /\ \A v \in n.considered : Exists(spec[1], v)

\* The frames of q are for features of considered versions that are required of the node.
PushedFor(q, spec, n) ==
    /\ q \in Seq(FrameIn({spec}))
    /\ \A i \in 1 .. Len(q) : \E v \in n.considered :
          \E f \in ({Core} \cup Required(spec, n, v)) \cap FeaturesOf(spec, v) : q[i] = FrameOf(spec, v, f)

\* All features are pushed, if the version has them.
PushesRequired(q, spec, n, v) ==
    Required(spec, n, v) \subseteq FeaturesOf(spec, v) => \A f \in Required(spec, n, v) : Pushed(q, spec, v, f)

LEMMA SeqWithin ==
    ASSUME NEW S, NEW T, NEW q \in Seq(S), \A i \in 1 .. Len(q) : q[i] \in T
    PROVE  q \in Seq(T)
  OBVIOUS

\* Concatenation of sequences of frames.
LEMMA ConcatFacts ==
    ASSUME NEW S, NEW q \in Seq(S), NEW r \in Seq(S)
    PROVE  /\ q \o r \in Seq(S) /\ Len(q \o r) = Len(q) + Len(r) /\ Len(q) \in Nat /\ Len(r) \in Nat
           /\ \A i \in 1 .. Len(q) : i \in 1 .. Len(q \o r) /\ (q \o r)[i] = q[i]
           /\ \A i \in 1 .. Len(r) : Len(q) + i \in 1 .. Len(q \o r) /\ (q \o r)[Len(q) + i] = r[i]
           /\ \A i \in 1 .. Len(q \o r) :
                 \/ i \in 1 .. Len(q) /\ (q \o r)[i] = q[i]
                 \/ \E j \in 1 .. Len(r) : (q \o r)[i] = r[j]
  <1>1. /\ q \o r \in Seq(S) /\ Len(q \o r) = Len(q) + Len(r) /\ Len(q) \in Nat /\ Len(r) \in Nat
        /\ \A i \in 1 .. Len(q) + Len(r) : (q \o r)[i] = IF i <= Len(q) THEN q[i] ELSE r[i - Len(q)]
    OBVIOUS
  <1>2. ASSUME NEW i \in 1 .. Len(q \o r), ~ (i <= Len(q)) PROVE i - Len(q) \in 1 .. Len(r)
    BY <1>1, <1>2
  <1> QED
    BY <1>1, <1>2

LEMMA PushedConcat ==
    ASSUME NEW S, NEW q \in Seq(S), NEW r \in Seq(S), NEW spec, NEW v, NEW f,
           Pushed(q, spec, v, f) \/ Pushed(r, spec, v, f)
    PROVE  Pushed(q \o r, spec, v, f)
  BY ConcatFacts DEF Pushed

LEMMA BeforeFacts ==
    ASSUME world \in DOMAIN Manifests, NEW spec, NEW v, NEW features \in SUBSET Feature
    PROVE  /\ Before(spec, v, features) \subseteq features \cap FeaturesOf(spec, v)
           /\ features \subseteq FeaturesOf(spec, v) => Before(spec, v, features) = features
  <1>1. ASSUME NEW k \in 1 .. Len(FeatureNames), FeatureNames[k] \in features,
               \A j \in 1 .. k : FeatureNames[j] \in features => FeatureNames[j] \in FeaturesOf(spec, v)
        PROVE  FeatureNames[k] \in FeaturesOf(spec, v)
    BY <1>1
  <1>2. ASSUME features \subseteq FeaturesOf(spec, v), NEW f \in features
        PROVE  f \in Before(spec, v, features)
    <2>1. PICK k \in 1 .. Len(FeatureNames) : FeatureNames[k] = f
      BY DEF Feature
    <2> QED
      BY <1>2, <2>1 DEF Before
  <1> QED
    BY <1>1, <1>2 DEF Before

LEMMA RequireScflFacts ==
    ASSUME world \in DOMAIN Manifests, NEW spec \in Spec, NEW n, Node(n), NEW scfl,
           n.requested \subseteq Feature, Exists(spec[1], n.scfl), Exists(spec[1], scfl),
           n.scfl \in n.considered \cup {scfl}
    PROVE  LET r == RequireScfl(spec, n, scfl)
           IN  /\ r[1].requested = n.requested /\ r[1].defaults = n.defaults
               /\ PushedFor(r[2], spec, r[1])
               /\ scfl \notin n.considered => Pushed(r[2], spec, scfl, Core) /\ PushesRequired(r[2], spec, n, n.scfl)
  <1> DEFINE r == RequireScfl(spec, n, scfl)
             features == Required(spec, n, n.scfl)
             before == Before(spec, n.scfl, features)
             q == Frames(spec, scfl, {Core})
             p == Frames(spec, n.scfl, before)
  <1>1. features \in SUBSET Feature /\ Core \in Feature
    BY FeaturesFacts, FeatureAssumption DEF Required
  <1>2. before \subseteq features \cap FeaturesOf(spec, n.scfl) /\ (features \subseteq FeaturesOf(spec, n.scfl) => before = features)
    BY <1>1, BeforeFacts
  <1>3. CASE scfl \in n.considered
    <2>1. r = <<n, <<>>>> /\ <<>> \in Seq(FrameIn({spec})) /\ Len(<<>>) = 0
      BY <1>3 DEF RequireScfl
    <2> QED
      BY <1>3, <2>1 DEF PushedFor
  <1>4. CASE scfl \notin n.considered
    <2>1. r[2] = q \o p
      BY <1>4 DEF RequireScfl
    <2>2. Node(r[1]) /\ r[1].scfl = n.scfl /\ r[1].considered = n.considered \cup {scfl}
          /\ r[1].requested = n.requested /\ r[1].defaults = n.defaults
      BY <1>4 DEF RequireScfl, Node
    <2> HIDE DEF before, features
    <2>3. q \in Seq({FrameOf(spec, scfl, f) : f \in {Core}}) /\ Pushed(q, spec, scfl, Core)
      BY <1>1, FramesFacts
    <2>4. p \in Seq({FrameOf(spec, n.scfl, f) : f \in before}) /\ \A f \in before : Pushed(p, spec, n.scfl, f)
      BY <1>1, <1>2, FramesFacts
    <2> HIDE DEF q, p
    <2>a. \A i \in 1 .. Len(q) : q[i] \in {FrameOf(spec, scfl, f) : f \in {Core}}
      BY <2>3
    <2>5. \A i \in 1 .. Len(q) : q[i] = FrameOf(spec, scfl, Core) /\ q[i] \in FrameIn({spec})
      BY <2>a, FeaturesFacts
    <2>b. \A i \in 1 .. Len(p) : p[i] \in {FrameOf(spec, n.scfl, f) : f \in before}
      BY <2>4
    <2>6. \A i \in 1 .. Len(p) : \E f \in before : p[i] = FrameOf(spec, n.scfl, f) /\ p[i] \in FrameIn({spec})
      BY <1>2, <2>b, FeaturesFacts
    <2>7. q \in Seq(FrameIn({spec})) /\ p \in Seq(FrameIn({spec}))
      <3>1. \A i \in 1 .. Len(q) : q[i] \in FrameIn({spec})
        BY <2>5
      <3>2. \A i \in 1 .. Len(p) : p[i] \in FrameIn({spec})
        BY <2>6
      <3>3. q \in Seq(FrameIn({spec}))
        BY <2>3, <3>1, SeqWithin
      <3>4. p \in Seq(FrameIn({spec}))
        BY <2>4, <3>2, SeqWithin
      <3> QED
        BY <3>3, <3>4
    <2>8. Required(spec, r[1], n.scfl) = features
      BY <2>2 DEF Required, features
    <2>9. PushedFor(r[2], spec, r[1])
      <3> DEFINE k == q \o p
      <3>1. k \in Seq(FrameIn({spec})) /\ r[2] = k
        BY <2>1, <2>7, ConcatFacts
      <3>2. ASSUME NEW i \in 1 .. Len(k)
            PROVE  \E v \in r[1].considered : \E f \in ({Core} \cup Required(spec, r[1], v)) \cap FeaturesOf(spec, v) :
                      k[i] = FrameOf(spec, v, f)
        <4>1. \/ i \in 1 .. Len(q) /\ k[i] = q[i]
              \/ \E j \in 1 .. Len(p) : k[i] = p[j]
          BY <2>7, ConcatFacts
        <4>2. CASE i \in 1 .. Len(q) /\ k[i] = q[i]
          <5>1. k[i] = FrameOf(spec, scfl, Core) /\ scfl \in r[1].considered /\ Core \in FeaturesOf(spec, scfl)
            BY <2>2, <2>5, <4>2, FeaturesFacts
          <5> QED
            BY <5>1
        <4>3. CASE \E j \in 1 .. Len(p) : k[i] = p[j]
          <5>1. PICK f \in before : k[i] = FrameOf(spec, n.scfl, f)
            BY <2>6, <4>3
          <5>2. n.scfl \in r[1].considered /\ f \in Required(spec, r[1], n.scfl) \cap FeaturesOf(spec, n.scfl)
            BY <1>2, <2>2, <2>8
          <5> QED
            BY <5>1, <5>2
        <4> QED
          BY <4>1, <4>2, <4>3
      <3> HIDE DEF k
      <3> QED
        BY <3>1, <3>2 DEF PushedFor
    <2>10. Pushed(r[2], spec, scfl, Core)
      BY <2>1, <2>3, <2>7, PushedConcat
    <2>11. PushesRequired(r[2], spec, n, n.scfl)
      BY <1>2, <2>1, <2>4, <2>7, PushedConcat DEF PushesRequired, features
    <2> HIDE DEF r
    <2> QED
      BY <2>2, <2>9, <2>10, <2>11 DEF r
  <1> QED
    BY <1>3, <1>4

LEMMA PushesNothing ==
    ASSUME NEW spec, NEW n
    PROVE  PushedFor(<<>>, spec, n)
  BY DEF PushedFor

LEMMA NewFacts ==
    ASSUME world \in DOMAIN Manifests, NEW spec \in Spec, NEW origin, CanStart(spec[1]), spec \notin DOMAIN graph
    PROVE  LET r == RequirePackage(spec, origin)
           IN  /\ NodeIn(spec, r[1])
               /\ r[1].considered = {FirstScfl(spec[1])} /\ r[1].scfl = FirstScfl(spec[1])
               /\ r[1].requested = {Core} /\ r[1].defaults = (origin # TopLevel[1])
               /\ PushedFor(r[2], spec, r[1])
               /\ Pushed(r[2], spec, r[1].scfl, Core) /\ PushesRequired(r[2], spec, r[1], r[1].scfl)
  <1> DEFINE first == FirstScfl(spec[1])
             new == [scfl |-> first, considered |-> {}, requested |-> {Core}, defaults |-> origin # TopLevel[1]]
             r == RequireScfl(spec, new, first)
  <1>1. RequirePackage(spec, origin) = r
    BY DEF RequirePackage
  <1>2. Exists(spec[1], first)
    BY FirstExists
  <1>3. /\ Node(new) /\ new.scfl = first /\ new.considered = {} /\ new.requested = {Core}
        /\ new.defaults = (origin # TopLevel[1])
    BY DEF Node
  <1> HIDE DEF new, first
  <1>a. ASSUME NEW k, Node(k)
        PROVE  LET m == RequireScfl(spec, k, first)[1]
               IN  Node(m) /\ m.scfl = k.scfl /\ m.considered = k.considered \cup {first}
    BY <1>a, RequireScflConsiders
  <1>4. /\ Node(r[1]) /\ r[1].scfl = new.scfl /\ r[1].considered = new.considered \cup {first}
    BY <1>3, <1>a
  <1>5. /\ r[1].requested = new.requested /\ r[1].defaults = new.defaults /\ PushedFor(r[2], spec, r[1])
        /\ Pushed(r[2], spec, first, Core) /\ PushesRequired(r[2], spec, new, new.scfl)
    BY <1>2, <1>3, FeatureAssumption, RequireScflFacts
  <1> HIDE DEF r
  <1>b. /\ r[1].considered = {first} /\ r[1].requested = {Core} /\ r[1].scfl = first
        /\ r[1].defaults = (origin # TopLevel[1])
    BY <1>3, <1>4, <1>5
  <1>c. IsFiniteSet({first})
    BY FS_Singleton
  <1>d. (origin # TopLevel[1]) \in BOOLEAN
    OBVIOUS
  <1>6. NodeIn(spec, r[1])
    BY <1>2, <1>4, <1>b, <1>c, <1>d, FeatureAssumption DEF NodeIn
  <1>7. PushesRequired(r[2], spec, r[1], r[1].scfl)
    BY <1>3, <1>4, <1>5 DEF PushesRequired, Required
  <1> QED
    BY <1>1, <1>3, <1>4, <1>5, <1>6, <1>7 DEF first

\* The node n of the port has met the minimum version of a dependency.
MetBy(name, n, min) ==
    \/ Pinned(name) \/ min = None \/ ~ Has(name, min)
    \/ /\ CompareVersions(n.scfl, min) # "lt"
       /\ CompareVersions(Manifest.baseline[name], min) = "lt" => min \in n.considered

\* m is the node n with no version or one more, which may be the best.
Advances(spec, n, m) ==
    /\ n.considered \subseteq m.considered
    /\ n.requested \subseteq m.requested
    /\ n.defaults => m.defaults
    /\ m.scfl = n.scfl \/ (~ Pinned(spec[1]) /\ CompareVersions(n.scfl, m.scfl) = "lt")

LEMMA ConstrainFacts ==
    ASSUME world \in DOMAIN Manifests, NEW spec \in Spec, NEW n, NodeIn(spec, n), Selects(spec[1], n), NEW min
    PROVE  LET r == Constrain(spec, n, min)
           IN  /\ NodeIn(spec, r[1])
               /\ Advances(spec, n, r[1]) /\ r[1].requested = n.requested /\ r[1].defaults = n.defaults
               /\ PushedFor(r[2], spec, r[1])
               /\ \A v \in r[1].considered \ n.considered : Pushed(r[2], spec, v, Core) /\ ~ Pinned(spec[1]) /\ Has(spec[1], v)
               /\ r[1].scfl # n.scfl => PushesRequired(r[2], spec, r[1], r[1].scfl)
               /\ MetBy(spec[1], r[1], min)
  <1> DEFINE name == spec[1]
             base == Manifest.baseline[name]
             r == Constrain(spec, n, min)
  <1>0. name \in Port
    BY DEF Spec
  <1>1. CASE Pinned(name) \/ min = None \/ ~ Has(name, min)
    <2>1. r = <<n, <<>>>>
      BY <1>1 DEF Constrain
    <2>2. r[1] = n /\ r[2] = <<>>
      BY <2>1
    <2> HIDE DEF r
    <2> QED
      BY <1>1, <2>2, PushesNothing DEF MetBy, Advances, r
  <1>2. CASE ~ (Pinned(name) \/ min = None \/ ~ Has(name, min))
    <2>0. Exists(name, min) /\ min \in Version
      BY <1>0, <1>2, HasExists
    <2>1. CASE CompareVersions(n.scfl, min) = "lt"
      <3> DEFINE best == [n EXCEPT !.scfl = min]
                 s == RequireScfl(spec, best, min)
      <3>1. r = s
        BY <1>2, <2>1 DEF Constrain
      <3>2. /\ Node(best) /\ best.scfl = min /\ best.considered = n.considered
            /\ best.requested = n.requested /\ best.defaults = n.defaults
        BY DEF NodeIn, Node
      <3> HIDE DEF best, r
      <3>3. Node(s[1]) /\ s[1].scfl = min /\ s[1].considered = n.considered \cup {min}
        BY <3>2, RequireScflConsiders
      <3>4. /\ s[1].requested = n.requested /\ s[1].defaults = n.defaults /\ PushedFor(s[2], spec, s[1])
            /\ min \notin n.considered => Pushed(s[2], spec, min, Core) /\ PushesRequired(s[2], spec, best, min)
        BY <2>0, <3>2, RequireScflFacts DEF NodeIn
      <3>5. min \notin n.considered
        <4> SUFFICES ASSUME min \in n.considered PROVE FALSE
          OBVIOUS
        <4>1. n.scfl \in Version /\ (min = n.scfl \/ CompareVersions(min, n.scfl) = "lt")
          BY <1>2 DEF Selects
        <4>2. CompareVersions(min, min) = "lt"
          BY <2>0, <2>1, <4>1, LtTransitive
        <4> QED
          BY <2>0, <4>2, LtIsBelow DEF Below, Version
      <3>6. CompareVersions(min, min) # "lt"
        BY <2>0, LtIsBelow DEF Below, Version
      <3> HIDE DEF s
      <3>7. NodeIn(spec, s[1])
        BY <2>0, <3>3, <3>4, FS_AddElement DEF NodeIn
      <3>8. PushesRequired(s[2], spec, s[1], min)
        BY <3>2, <3>3, <3>4, <3>5 DEF PushesRequired, Required
      <3>9. Advances(spec, n, s[1]) /\ MetBy(name, s[1], min)
        BY <1>2, <2>1, <3>3, <3>4, <3>6 DEF Advances, MetBy
      <3> QED
        BY <1>2, <3>1, <3>3, <3>4, <3>5, <3>7, <3>8, <3>9 DEF r
    <2>2. CASE CompareVersions(n.scfl, min) # "lt" /\ CompareVersions(base, min) = "lt"
      <3> DEFINE s == RequireScfl(spec, n, min)
      <3>1. r = s
        BY <1>2, <2>2 DEF Constrain
      <3> HIDE DEF r
      <3>2. Node(s[1]) /\ s[1].scfl = n.scfl /\ s[1].considered = n.considered \cup {min}
        BY RequireScflConsiders DEF NodeIn
      <3>3. /\ s[1].requested = n.requested /\ s[1].defaults = n.defaults /\ PushedFor(s[2], spec, s[1])
            /\ min \notin n.considered => Pushed(s[2], spec, min, Core)
        BY <2>0, RequireScflFacts DEF NodeIn
      <3> HIDE DEF s
      <3>4. NodeIn(spec, s[1])
        BY <2>0, <3>2, <3>3, FS_AddElement DEF NodeIn
      <3>5. Advances(spec, n, s[1]) /\ MetBy(name, s[1], min)
        BY <2>2, <3>2, <3>3 DEF Advances, MetBy
      <3> QED
        BY <1>2, <3>1, <3>2, <3>3, <3>4, <3>5 DEF r
    <2>3. CASE CompareVersions(n.scfl, min) # "lt" /\ CompareVersions(base, min) # "lt"
      <3>1. r = <<n, <<>>>>
        BY <1>2, <2>3 DEF Constrain
      <3>2. r[1] = n /\ r[2] = <<>>
        BY <3>1
      <3> HIDE DEF r
      <3> QED
        BY <2>3, <3>2, PushesNothing DEF MetBy, Advances, r
    <2> QED
      BY <2>1, <2>2, <2>3
  <1> QED
    BY <1>1, <1>2

(***************************************************************************)
(* What phase 1 has followed, and what it still has to follow.             *)
(***************************************************************************)
\* What does not change with the state.
LEMMA WorldFacts ==
    ASSUME UNCHANGED world
    PROVE  /\ Manifest' = Manifest /\ TopLevel' = TopLevel /\ Roots' = Roots /\ AtTopLevel' = AtTopLevel
           /\ \A name : CanStart(name)' = CanStart(name) /\ Pinned(name)' = Pinned(name)
                        /\ FirstScfl(name)' = FirstScfl(name)
           /\ \A name, v : Has(name, v)' = Has(name, v) /\ Exists(name, v)' = Exists(name, v)
                           /\ PortOf(name, v)' = PortOf(name, v)
           /\ \A s, v : FeaturesOf(s, v)' = FeaturesOf(s, v) /\ Defaults(s, v)' = Defaults(s, v)
           /\ \A s, n, v : Required(s, n, v)' = Required(s, n, v)
           /\ \A s, v, f : FrameOf(s, v, f)' = FrameOf(s, v, f)
           /\ \A q, s, v, f : Pushed(q, s, v, f)' = Pushed(q, s, v, f)
           /\ \A s, n : NodeIn(s, n)' = NodeIn(s, n)
           /\ \A name, n, min : MetBy(name, n, min)' = MetBy(name, n, min)
  <1>1. Manifest' = Manifest /\ TopLevel' = TopLevel
    BY DEF Manifest, TopLevel
  <1>2. Roots' = Roots
    BY <1>1 DEF Roots, SpecOf
  <1>3. AtTopLevel' = AtTopLevel
    BY <1>2 DEF AtTopLevel
  <1>4. /\ \A name : Pinned(name)' = Pinned(name) /\ FirstScfl(name)' = FirstScfl(name)
        /\ \A name, v : Has(name, v)' = Has(name, v) /\ PortOf(name, v)' = PortOf(name, v)
    BY <1>1 DEF Pinned, FirstScfl, Has, PortOf
  <1>5. \A name : CanStart(name)' = CanStart(name)
    BY <1>4 DEF CanStart
  <1>6. \A name, v : Exists(name, v)' = Exists(name, v)
    BY <1>1, <1>4 DEF Exists
  <1>7. \A s, v : FeaturesOf(s, v)' = FeaturesOf(s, v) /\ Defaults(s, v)' = Defaults(s, v)
    BY <1>4 DEF FeaturesOf, Defaults
  <1>8. \A s, n, v : Required(s, n, v)' = Required(s, n, v)
    BY <1>7 DEF Required
  <1>9. \A s, v, f : FrameOf(s, v, f)' = FrameOf(s, v, f)
    BY <1>4 DEF FrameOf
  <1>10. \A q, s, v, f : Pushed(q, s, v, f)' = Pushed(q, s, v, f)
    BY <1>9 DEF Pushed
  <1>11. \A s, n : NodeIn(s, n)' = NodeIn(s, n)
    BY <1>6 DEF NodeIn
  <1>12. \A name, n, min : MetBy(name, n, min)' = MetBy(name, n, min)
    BY <1>1, <1>4 DEF MetBy
  <1> QED
    BY <1>1, <1>2, <1>3, <1>4, <1>5, <1>6, <1>7, <1>8, <1>9, <1>10, <1>11, <1>12

\* A version that is met stays met.
LEMMA MetAdvances ==
    ASSUME world \in DOMAIN Manifests, NEW spec \in Spec, NEW n, NEW m, Selects(spec[1], n), Selects(spec[1], m),
           Advances(spec, n, m), NEW min, MetBy(spec[1], n, min)
    PROVE  MetBy(spec[1], m, min)
  <1> DEFINE name == spec[1]
  <1>1. CASE Pinned(name) \/ min = None \/ ~ Has(name, min)
    BY <1>1 DEF MetBy
  <1>2. CASE ~ (Pinned(name) \/ min = None \/ ~ Has(name, min))
    <2>1. /\ CompareVersions(n.scfl, min) # "lt"
          /\ CompareVersions(Manifest.baseline[name], min) = "lt" => min \in m.considered
      BY <1>2 DEF MetBy, Advances
    <2>2. min \in Version /\ n.scfl \in Version /\ m.scfl \in Version
      BY <1>2, HasExists DEF Selects, Spec
    <2>3. ASSUME CompareVersions(m.scfl, min) = "lt" PROVE FALSE
      <3>1. m.scfl # n.scfl
        BY <2>1, <2>3
      <3>2. CompareVersions(n.scfl, m.scfl) = "lt"
        BY <3>1 DEF Advances
      <3>3. CompareVersions(n.scfl, min) = "lt"
        BY <2>2, <2>3, <3>2, LtTransitive
      <3> QED
        BY <2>1, <3>3
    <2> QED
      BY <2>1, <2>3 DEF MetBy
  <1> QED
    BY <1>1, <1>2

\* The dependency d of spec holds where it is declared and asks nothing of its port that the port does not have.
Granted(spec, d) ==
    LET t == SpecOf(d, spec)
    IN  /\ t \in DOMAIN graph /\ MetBy(t[1], graph[t], d.min)
        /\ Holding(d.features, spec[2]) \subseteq graph[t].requested
        /\ d.defaults => graph[t].defaults

\* The dependency d of spec leads nowhere, to a port that fails, or to a package that has what it asks for.
Followed(spec, d) == spec[2] \notin d.on \/ d.name \in failed \/ Granted(spec, d)

InFrame(spec, d, f) == f.spec = spec /\ \E k \in 1 .. Len(f.deps) : f.deps[k] = d
Pending(spec, d) == InFrame(spec, d, frame) \/ \E i \in 1 .. Len(stack) : InFrame(spec, d, stack[i])
Covered(spec, deps) == \A k \in 1 .. Len(deps) : Followed(spec, deps[k]) \/ Pending(spec, deps[k])

\* A step that takes nothing back.
Grows ==
    /\ UNCHANGED world
    /\ failed \subseteq failed'
    /\ \A s \in DOMAIN graph : s \in DOMAIN graph' /\ Advances(s, graph[s], graph'[s])

\* Each package leads to versions that there are.
NodeShape(s) ==
    /\ s \in Spec /\ CanStart(s[1]) /\ NodeIn(s, graph[s])
    /\ s \notin AtTopLevel => graph[s].defaults

LEMMA FollowedStays ==
    ASSUME GraphInv, GraphInv', \A s \in DOMAIN graph : s \in Spec, Grows, NEW spec, NEW d, Followed(spec, d)
    PROVE  Followed(spec, d)'
  <1> DEFINE t == SpecOf(d, spec)
  <1>1. t' = t
    BY DEF SpecOf
  <1>2. CASE Granted(spec, d)
    <2>1. t \in DOMAIN graph /\ MetBy(t[1], graph[t], d.min) /\ t \in DOMAIN graph' /\ Advances(t, graph[t], graph'[t])
      BY <1>2 DEF Granted, Grows
    <2>2. Selects(t[1], graph[t]) /\ world \in DOMAIN Manifests
      BY <2>1 DEF GraphInv
    <2>3. Selects(t[1], graph[t])'
      BY <2>1, <1>1 DEF GraphInv
    <2>4. Selects(t[1], graph'[t])
      BY <2>3, <1>1, WorldFacts DEF Selects, Grows
    <2>5. MetBy(t[1], graph'[t], d.min)
      BY <2>1, <2>2, <2>4, MetAdvances
    <2>6. MetBy(t[1], graph[t], d.min)'
      BY <2>5, <1>1, WorldFacts DEF Grows
    <2>7. Granted(spec, d)'
      BY <1>2, <2>1, <2>6 DEF Granted, Advances, SpecOf
    <2> QED
      BY <2>7 DEF Followed
  <1>3. CASE spec[2] \notin d.on \/ d.name \in failed
    BY <1>3 DEF Followed, Grows
  <1> QED
    BY <1>2, <1>3 DEF Followed

\* What is pending stays so or has been followed.
Keeps == \A spec, d : Pending(spec, d) => Pending(spec, d)' \/ Followed(spec, d)'

LEMMA CoveredStays ==
    ASSUME GraphInv, GraphInv', \A s \in DOMAIN graph : s \in Spec, Grows, Keeps, NEW spec, NEW deps, Covered(spec, deps)
    PROVE  Covered(spec, deps)'
  <1>1. ASSUME NEW k \in 1 .. Len(deps)
        PROVE  (Followed(spec, deps[k]) \/ Pending(spec, deps[k]))'
    <2>1. \A d : Followed(spec, d) => Followed(spec, d)'
      BY FollowedStays
    <2>2. \A d : Pending(spec, d) => Pending(spec, d)' \/ Followed(spec, d)'
      BY DEF Keeps
    <2>3. Followed(spec, deps[k]) \/ Pending(spec, deps[k])
      BY DEF Covered
    <2> QED
      BY <2>1, <2>2, <2>3
  <1> QED
    BY <1>1 DEF Covered

(***************************************************************************)
(* The shape of the work of phase 1.                                       *)
(***************************************************************************)
FrameShape ==
    /\ frame \in FrameIn(DOMAIN graph \cup {TopLevel})
    /\ stack \in Seq(FrameIn(DOMAIN graph))
    /\ frame.spec = TopLevel => \A k \in 1 .. Len(frame.deps) : \E j \in 1 .. Len(Manifest.depends) :
                                   frame.deps[k] = Manifest.depends[j]

WantedShape ==
    /\ wanted \in Seq(FeatureRef) /\ met \in BOOLEAN
    /\ met => /\ frame.deps # <<>> /\ frame.spec[2] \in Dep.on
              /\ \A i \in 1 .. Len(wanted) : \E k \in 1 .. Len(Dep.features) : Dep.features[k] = wanted[i]

EndShape ==
    /\ pc # "resolve" => frame.deps = <<>> /\ stack = <<>> /\ ~ met
    /\ pc = "extract" \/ outcome = "plan" => failed = {}
    /\ pc = "resolve" => outcome = "none"

WorkShape ==
    /\ FrameShape
    /\ WantedShape
    /\ EndShape
    /\ \A name \in failed : ~ CanStart(name)
    /\ \A s \in DOMAIN graph : NodeShape(s)

\* The node m becomes the one of spec, and q is pushed for it.
Extends(spec, m, q) ==
    /\ UNCHANGED <<world, pc, outcome, failed>>
    /\ spec \in Spec /\ CanStart(spec[1]) /\ NodeIn(spec, m) /\ PushedFor(q, spec, m)
    /\ spec \notin AtTopLevel => m.defaults
    /\ spec \in DOMAIN graph => Advances(spec, graph[spec], m)
    /\ graph' = [s \in DOMAIN graph \cup {spec} |-> IF s = spec THEN m ELSE graph[s]]
    /\ stack' = stack \o q

LEMMA AdvancesNot ==
    ASSUME NEW spec, NEW n
    PROVE  Advances(spec, n, n)
  BY DEF Advances

LEMMA SpecOfFacts ==
    ASSUME world \in DOMAIN Manifests, NEW spec \in Spec \cup {TopLevel}, NEW d, d.name \in Port
    PROVE  SpecOf(d, spec) \in Spec /\ SpecOf(d, spec)[1] = d.name /\ spec[2] \in Triplet
  BY CallFacts, HostAssumption DEF Spec, TopLevel, SpecOf

LEMMA ExtendsFacts ==
    ASSUME world \in DOMAIN Manifests, WorkShape, NEW spec, NEW m, NEW q, Extends(spec, m, q)
    PROVE  /\ Grows
           /\ DOMAIN graph' = DOMAIN graph \cup {spec} /\ graph'[spec] = m
           /\ \A s \in DOMAIN graph \ {spec} : graph'[s] = graph[s]
           /\ stack \in Seq(FrameIn(DOMAIN graph')) /\ q \in Seq(FrameIn(DOMAIN graph'))
           /\ stack' \in Seq(FrameIn(DOMAIN graph'))
           /\ (\A name \in failed : ~ CanStart(name))'
           /\ (\A s \in DOMAIN graph : NodeShape(s))'
  <1>1. /\ DOMAIN graph' = DOMAIN graph \cup {spec} /\ graph'[spec] = m
        /\ \A s \in DOMAIN graph \ {spec} : graph'[s] = graph[s]
    BY DEF Extends
  <1>2. Grows
    <2>1. ASSUME NEW s \in DOMAIN graph
          PROVE  s \in DOMAIN graph' /\ Advances(s, graph[s], graph'[s])
      BY <1>1, AdvancesNot DEF Extends
    <2> QED
      BY <2>1 DEF Grows, Extends
  <1>3. stack \in Seq(FrameIn(DOMAIN graph)) /\ q \in Seq(FrameIn({spec}))
    BY DEF Extends, PushedFor, WorkShape, FrameShape
  <1>4. FrameIn(DOMAIN graph) \subseteq FrameIn(DOMAIN graph') /\ FrameIn({spec}) \subseteq FrameIn(DOMAIN graph')
    BY <1>1 DEF FrameIn
  <1>5. stack \in Seq(FrameIn(DOMAIN graph')) /\ q \in Seq(FrameIn(DOMAIN graph'))
    <2>1. \A i \in 1 .. Len(stack) : stack[i] \in FrameIn(DOMAIN graph')
      BY <1>3, <1>4
    <2>2. \A i \in 1 .. Len(q) : q[i] \in FrameIn(DOMAIN graph')
      <3>1. \A i \in 1 .. Len(q) : q[i] \in FrameIn({spec})
        BY <1>3
      <3> QED
        BY <3>1, <1>4
    <2>3. stack \in Seq(FrameIn(DOMAIN graph'))
      BY <1>3, <2>1, SeqWithin
    <2>4. q \in Seq(FrameIn(DOMAIN graph'))
      BY <1>3, <2>2, SeqWithin
    <2> QED
      BY <2>3, <2>4
  <1>6. stack' \in Seq(FrameIn(DOMAIN graph'))
    BY <1>5, ConcatFacts DEF Extends
  <1>7. (\A name \in failed : ~ CanStart(name))'
    BY WorldFacts DEF Extends, WorkShape
  <1>8. ASSUME NEW s \in DOMAIN graph'
        PROVE  NodeShape(s)'
    <2>1. s \in Spec /\ CanStart(s[1]) /\ NodeIn(s, graph'[s]) /\ (s \notin AtTopLevel => graph'[s].defaults)
      <3>1. CASE s = spec
        BY <1>1, <3>1 DEF Extends
      <3>2. CASE s # spec
        <4>1. s \in DOMAIN graph /\ graph'[s] = graph[s]
          BY <1>1, <3>2
        <4> QED
          BY <4>1 DEF WorkShape, NodeShape
      <3> QED
        BY <3>1, <3>2
    <2>2. UNCHANGED world
      BY DEF Extends
    <2>3. NodeIn(s, graph[s])' /\ CanStart(s[1])' /\ AtTopLevel' = AtTopLevel
      BY <2>1, <2>2, WorldFacts
    <2> QED
      BY <2>1, <2>3 DEF NodeShape
  <1> QED
    BY <1>1, <1>2, <1>5, <1>6, <1>7, <1>8

LEMMA PushedForLifts ==
    ASSUME NEW spec, NEW n, NEW m, NEW q, PushedFor(q, spec, n), Advances(spec, n, m)
    PROVE  PushedFor(q, spec, m)
  <1>1. n.considered \subseteq m.considered /\ \A v : Required(spec, n, v) \subseteq Required(spec, m, v)
    BY DEF Advances, Required
  <1> QED
    BY <1>1 DEF PushedFor

LEMMA PushedForConcat ==
    ASSUME NEW spec, NEW m, NEW q, NEW r, PushedFor(q, spec, m), PushedFor(r, spec, m)
    PROVE  PushedFor(q \o r, spec, m)
  <1> DEFINE Due(x) == \E v \in m.considered :
                          \E f \in ({Core} \cup Required(spec, m, v)) \cap FeaturesOf(spec, v) : x = FrameOf(spec, v, f)
             s == q \o r
  <1>1. q \in Seq(FrameIn({spec})) /\ r \in Seq(FrameIn({spec}))
    BY DEF PushedFor
  <1>2. (\A i \in 1 .. Len(q) : Due(q[i])) /\ (\A i \in 1 .. Len(r) : Due(r[i]))
    BY DEF PushedFor
  <1> HIDE DEF Due
  <1>3. /\ s \in Seq(FrameIn({spec}))
        /\ \A i \in 1 .. Len(s) : (i \in 1 .. Len(q) /\ s[i] = q[i]) \/ (\E j \in 1 .. Len(r) : s[i] = r[j])
    BY <1>1, ConcatFacts
  <1> HIDE DEF s
  <1>4. \A i \in 1 .. Len(s) : Due(s[i])
    BY <1>2, <1>3
  <1>5. PushedFor(s, spec, m)
    BY <1>3, <1>4 DEF PushedFor, Due
  <1> QED
    BY <1>5 DEF s

\* What require_package and the version constraint do with the node of spec, m afterwards, and push, q.
Requires(spec, min, m, q) ==
    LET old == IF spec \in DOMAIN graph THEN graph[spec].considered ELSE {}
    IN  /\ NodeIn(spec, m) /\ PushedFor(q, spec, m) /\ MetBy(spec[1], m, min)
        /\ \A v \in m.considered \ old : Pushed(q, spec, v, Core)
        /\ \A v \in m.considered \ old : v = FirstScfl(spec[1]) \/ (~ Pinned(spec[1]) /\ Has(spec[1], v) /\ v = min)
        /\ spec \in DOMAIN graph =>
              /\ Advances(spec, graph[spec], m)
              /\ m.requested = graph[spec].requested /\ m.defaults = graph[spec].defaults
              /\ m.scfl # graph[spec].scfl => PushesRequired(q, spec, m, m.scfl)
        /\ spec \notin DOMAIN graph =>
              /\ m.requested = {Core} /\ m.defaults = (frame.spec[1] # TopLevel[1])
              /\ PushesRequired(q, spec, m, FirstScfl(spec[1])) /\ PushesRequired(q, spec, m, m.scfl)

LEMMA ConstrainConsiders ==
    ASSUME world \in DOMAIN Manifests, NEW spec \in Spec, NEW n, NodeIn(spec, n), NEW min
    PROVE  Constrain(spec, n, min)[1].considered \subseteq n.considered \cup {min}
  <1>1. \A k : Node(k) => RequireScfl(spec, k, min)[1].considered = k.considered \cup {min}
    BY RequireScflConsiders
  <1> DEFINE best == [n EXCEPT !.scfl = min]
  <1>2. Node(n) /\ Node(best) /\ best.considered = n.considered
    BY DEF NodeIn, Node
  <1> HIDE DEF best
  <1>3. \/ Constrain(spec, n, min) = <<n, <<>>>>
        \/ Constrain(spec, n, min) = RequireScfl(spec, best, min)
        \/ Constrain(spec, n, min) = RequireScfl(spec, n, min)
    BY DEF Constrain, best
  <1> QED
    BY <1>1, <1>2, <1>3

LEMMA RequiresKnown ==
    ASSUME GraphInv, WorkShape, NEW spec \in DOMAIN graph, NEW min
    PROVE  LET r == Constrain(spec, graph[spec], min) IN Requires(spec, min, r[1], r[2])
  <1> DEFINE n == graph[spec]
             r == Constrain(spec, n, min)
             m == r[1]
             q == r[2]
  <1>1. world \in DOMAIN Manifests /\ spec \in Spec /\ NodeIn(spec, n) /\ Selects(spec[1], n)
    BY DEF GraphInv, WorkShape, NodeShape
  <1> HIDE DEF n
  <1>2. /\ NodeIn(spec, r[1])
        /\ Advances(spec, n, r[1]) /\ r[1].requested = n.requested /\ r[1].defaults = n.defaults
        /\ PushedFor(r[2], spec, r[1])
        /\ \A v \in r[1].considered \ n.considered : Pushed(r[2], spec, v, Core) /\ ~ Pinned(spec[1]) /\ Has(spec[1], v)
        /\ r[1].scfl # n.scfl => PushesRequired(r[2], spec, r[1], r[1].scfl)
        /\ MetBy(spec[1], r[1], min)
    BY <1>1, ConstrainFacts
  <1>3. r[1].considered \subseteq n.considered \cup {min}
    BY <1>1, ConstrainConsiders
  <1> HIDE DEF r
  <1>4. Requires(spec, min, r[1], r[2])
    BY <1>2, <1>3 DEF Requires, n
  <1> QED
    BY <1>4 DEF r, n

LEMMA RequiresNew ==
    ASSUME GraphInv, NEW spec \in Spec, spec \notin DOMAIN graph, CanStart(spec[1]), NEW min
    PROVE  LET o == RequirePackage(spec, frame.spec[1])
               r == Constrain(spec, o[1], min)
           IN  Requires(spec, min, r[1], o[2] \o r[2])
  <1> DEFINE o == RequirePackage(spec, frame.spec[1])
             n == o[1]
             r == Constrain(spec, n, min)
             first == FirstScfl(spec[1])
             q == o[2] \o r[2]
  <1>0. world \in DOMAIN Manifests
    BY DEF GraphInv
  <1>1. /\ NodeIn(spec, o[1])
        /\ o[1].considered = {first} /\ o[1].scfl = first
        /\ o[1].requested = {Core} /\ o[1].defaults = (frame.spec[1] # TopLevel[1])
        /\ PushedFor(o[2], spec, o[1])
        /\ Pushed(o[2], spec, o[1].scfl, Core) /\ PushesRequired(o[2], spec, o[1], o[1].scfl)
    BY <1>0, NewFacts
  <1>2. Selects(spec[1], o[1])
    BY <1>0, NewSelects
  <1> HIDE DEF o
  <1>3. /\ NodeIn(spec, r[1])
        /\ Advances(spec, n, r[1]) /\ r[1].requested = n.requested /\ r[1].defaults = n.defaults
        /\ PushedFor(r[2], spec, r[1])
        /\ \A v \in r[1].considered \ n.considered : Pushed(r[2], spec, v, Core) /\ ~ Pinned(spec[1]) /\ Has(spec[1], v)
        /\ r[1].scfl # n.scfl => PushesRequired(r[2], spec, r[1], r[1].scfl)
        /\ MetBy(spec[1], r[1], min)
    BY <1>0, <1>1, <1>2, ConstrainFacts
  <1>4. r[1].considered \subseteq n.considered \cup {min}
    BY <1>0, <1>1, ConstrainConsiders
  <1> HIDE DEF r
  <1>5. PushedFor(o[2], spec, r[1])
    BY <1>1, <1>3, PushedForLifts
  <1>6. PushedFor(q, spec, r[1])
    BY <1>3, <1>5, PushedForConcat
  <1>7. ASSUME NEW v, NEW f, Pushed(o[2], spec, v, f) \/ Pushed(r[2], spec, v, f)
        PROVE  Pushed(q, spec, v, f)
    BY <1>3, <1>5, <1>7, PushedConcat DEF PushedFor
  <1> HIDE DEF q
  <1>8. \A v : Required(spec, n, v) = Required(spec, r[1], v)
    BY <1>3 DEF Required
  <1>9. PushesRequired(q, spec, r[1], first)
    BY <1>1, <1>7, <1>8 DEF PushesRequired
  <1>10. PushesRequired(q, spec, r[1], r[1].scfl)
    <2>1. CASE r[1].scfl = n.scfl
      BY <1>1, <1>9, <2>1
    <2>2. CASE r[1].scfl # n.scfl
      BY <1>3, <1>7, <2>2 DEF PushesRequired
    <2> QED
      BY <2>1, <2>2
  <1>11. \A v \in r[1].considered : Pushed(q, spec, v, Core) /\ (v = first \/ (~ Pinned(spec[1]) /\ Has(spec[1], v) /\ v = min))
    <2>1. ASSUME NEW v \in r[1].considered
          PROVE  Pushed(q, spec, v, Core) /\ (v = first \/ (~ Pinned(spec[1]) /\ Has(spec[1], v) /\ v = min))
      <3>1. CASE v = first
        BY <1>1, <1>7, <3>1
      <3>2. CASE v # first
        <4>1. v \in r[1].considered \ n.considered /\ v = min
          BY <1>1, <1>4, <3>2
        <4> QED
          BY <1>3, <1>7, <4>1
      <3> QED
        BY <3>1, <3>2
    <2> QED
      BY <2>1
  <1> HIDE DEF first
  <1>12. Requires(spec, min, r[1], q)
    BY <1>1, <1>3, <1>6, <1>9, <1>10, <1>11 DEF Requires, first
  <1> QED
    BY <1>12 DEF r, o, q

LEMMA ConcatAssociates ==
    ASSUME NEW S, NEW T, NEW a \in Seq(S), NEW b \in Seq(T), NEW c \in Seq(T)
    PROVE  (a \o b) \o c = a \o (b \o c)
  <1> DEFINE U == S \cup T
  <1>1. a \in Seq(U) /\ b \in Seq(U) /\ c \in Seq(U)
    BY SeqWithin
  <1> HIDE DEF U
  <1> QED
    BY <1>1

\* The first dependency of a frame leads to a package.
LEMMA HeadFacts ==
    ASSUME GraphInv, WorkShape, frame.deps # <<>>
    PROVE  /\ Dep \in Dependency /\ DepSpec \in Spec /\ DepSpec[1] = Dep.name /\ frame.spec[2] \in Triplet
           /\ frame.deps \in Seq(Dependency) /\ Dep = frame.deps[1] /\ 1 \in 1 .. Len(frame.deps)
           /\ DepSpec \in DOMAIN graph => CanStart(Dep.name)
           /\ frame.spec[1] # TopLevel[1] <=> frame.spec # TopLevel
           /\ frame.spec = TopLevel /\ frame.spec[2] \in Dep.on => DepSpec \in AtTopLevel
  <1>1. /\ world \in DOMAIN Manifests /\ frame.spec \in DOMAIN graph \cup {TopLevel} /\ frame.deps \in Seq(Dependency)
        /\ \A s \in DOMAIN graph : s \in Spec /\ CanStart(s[1])
    BY DEF GraphInv, WorkShape, FrameShape, FrameIn, NodeShape
  <1>2. Dep = frame.deps[1] /\ 1 \in 1 .. Len(frame.deps)
    BY <1>1 DEF Dep
  <1>3. Dep \in Dependency
    BY <1>1, <1>2
  <1>4. Dep.name \in Port
    BY <1>3 DEF Dependency
  <1>5. DepSpec \in Spec /\ DepSpec[1] = Dep.name /\ frame.spec[2] \in Triplet
    BY <1>1, <1>4, SpecOfFacts DEF DepSpec
  <1>6. frame.spec[1] # TopLevel[1] <=> frame.spec # TopLevel
    BY <1>1, ManifestsAssumption DEF TopLevel, Spec
  <1>7. ASSUME frame.spec = TopLevel, frame.spec[2] \in Dep.on PROVE DepSpec \in AtTopLevel
    <2>1. PICK j \in 1 .. Len(Manifest.depends) : Dep = Manifest.depends[j]
      BY <1>2, <1>7 DEF WorkShape, FrameShape
    <2>2. TopLevel[2] = Manifest.triplet
      BY DEF TopLevel
    <2>3. [spec |-> SpecOf(Dep, TopLevel), dep |-> Dep] \in Roots
      BY <1>7, <2>1, <2>2 DEF Roots
    <2> QED
      BY <1>7, <2>3 DEF AtTopLevel, DepSpec
  <1> QED
    BY <1>1, <1>2, <1>3, <1>5, <1>6, <1>7

LEMMA RequireDependencyFacts ==
    ASSUME GraphInv, WorkShape, RequireDependency, NEW spec, spec = DepSpec
    PROVE  /\ \E m, q : Extends(spec, m, q) /\ Requires(spec, Dep.min, m, q)
           /\ frame.deps # <<>> /\ frame.spec[2] \in Dep.on /\ ~ met /\ pc = "resolve"
           /\ met' = TRUE /\ wanted' = Dep.features /\ UNCHANGED <<world, pc, outcome, failed, frame>>
  <1> DEFINE o == RequirePackage(spec, frame.spec[1])
             r == Constrain(spec, o[1], Dep.min)
  <1>1. /\ graph' = [s \in DOMAIN graph \cup {spec} |-> IF s = spec THEN r[1] ELSE graph[s]]
        /\ stack' = stack \o o[2] \o r[2]
        /\ met' = TRUE /\ wanted' = Dep.features /\ UNCHANGED <<world, pc, outcome, failed, frame>>
        /\ frame.deps # <<>> /\ frame.spec[2] \in Dep.on /\ ~ met /\ pc = "resolve"
        /\ spec \in DOMAIN graph \/ CanStart(Dep.name)
    BY DEF RequireDependency, Resolving
  <1>2. /\ spec \in Spec /\ spec[1] = Dep.name /\ CanStart(spec[1])
        /\ frame.spec[1] # TopLevel[1] <=> frame.spec # TopLevel
        /\ frame.spec = TopLevel => spec \in AtTopLevel
    BY <1>1, HeadFacts
  <1>3. stack \in Seq(FrameIn(DOMAIN graph))
    BY DEF WorkShape, FrameShape
  <1>4. CASE spec \in DOMAIN graph
    <2>1. o = <<graph[spec], <<>>>>
      BY <1>4 DEF RequirePackage
    <2>2. o[1] = graph[spec] /\ o[2] = <<>>
      BY <2>1
    <2> HIDE DEF o
    <2>3. Requires(spec, Dep.min, r[1], r[2])
      <3>1. \A min : LET x == Constrain(spec, graph[spec], min) IN Requires(spec, min, x[1], x[2])
        BY <1>4, RequiresKnown
      <3> QED
        BY <3>1, <2>2
    <2>4. stack' = stack \o r[2]
      <3>1. stack \o o[2] = stack
        BY <1>3, <2>2
      <3> QED
        BY <1>1, <3>1
    <2> HIDE DEF r
    <2>5. spec \notin AtTopLevel => r[1].defaults
      BY <1>4, <2>3 DEF Requires, WorkShape, NodeShape
    <2>6. Extends(spec, r[1], r[2])
      BY <1>1, <1>2, <1>4, <2>3, <2>4, <2>5 DEF Extends, Requires
    <2> QED
      BY <1>1, <2>3, <2>6
  <1>5. CASE spec \notin DOMAIN graph
    <2> DEFINE q == o[2] \o r[2]
    <2>1. Requires(spec, Dep.min, r[1], q)
      <3>1. \A min : LET x == Constrain(spec, o[1], min) IN Requires(spec, min, x[1], o[2] \o x[2])
        BY <1>2, <1>5, RequiresNew
      <3> QED
        BY <3>1
    <2>2. o[2] \in Seq(FrameIn({spec})) /\ r[2] \in Seq(FrameIn({spec}))
      <3>1. world \in DOMAIN Manifests
        BY DEF GraphInv
      <3>2. NodeIn(spec, o[1]) /\ o[2] \in Seq(FrameIn({spec}))
        BY <1>2, <1>5, <3>1, NewFacts DEF PushedFor
      <3>3. Selects(spec[1], o[1])
        BY <1>2, <1>5, <3>1, NewSelects
      <3> HIDE DEF o
      <3>4. r[2] \in Seq(FrameIn({spec}))
        <4>1. \A min : PushedFor(Constrain(spec, o[1], min)[2], spec, Constrain(spec, o[1], min)[1])
          BY <1>2, <3>1, <3>2, <3>3, ConstrainFacts
        <4> QED
          BY <4>1 DEF PushedFor
      <3> QED
        BY <3>2, <3>4 DEF o
    <2> HIDE DEF o, r
    <2>3. stack' = stack \o q
      <3>1. stack' = (stack \o o[2]) \o r[2]
        BY <1>1
      <3>2. (stack \o o[2]) \o r[2] = stack \o (o[2] \o r[2])
        <4>1. \A a \in Seq(FrameIn(DOMAIN graph)) : \A b, c \in Seq(FrameIn({spec})) : (a \o b) \o c = a \o (b \o c)
          BY ConcatAssociates
        <4> QED
          BY <1>3, <2>2, <4>1
      <3> QED
        BY <3>1, <3>2
    <2> HIDE DEF q
    <2>4. spec \notin AtTopLevel => r[1].defaults
      BY <1>2, <1>5, <2>1 DEF Requires
    <2>5. Extends(spec, r[1], q)
      BY <1>1, <1>2, <1>5, <2>1, <2>3, <2>4 DEF Extends, Requires
    <2> QED
      BY <1>1, <2>1, <2>5
  <1> QED
    BY <1>4, <1>5

(***************************************************************************)
(* What is pushed when more is asked of a package.                         *)
(***************************************************************************)
LEMMA FunctionIsSeq ==
    ASSUME NEW S, NEW n \in Nat, NEW g, \A i \in 1 .. n : g[i] \in S, g = [i \in 1 .. n |-> g[i]]
    PROVE  g \in Seq(S) /\ Len(g) = n
  OBVIOUS

LEMMA PushForFacts ==
    ASSUME world \in DOMAIN Manifests, NEW spec \in Spec, spec = DepSpec, NEW pairs, IsFiniteSet(pairs),
           \A p \in pairs : Exists(spec[1], p[1]), PushForConsidered(pairs)
    PROVE  \E q : /\ stack' = stack \o q
                  /\ q \in Seq(FrameIn({spec}))
                  /\ \A i \in 1 .. Len(q) : \E p \in pairs : p[2] \in FeaturesOf(spec, p[1]) /\ q[i] = FrameOf(spec, p[1], p[2])
                  /\ \A p \in pairs : p[2] \in FeaturesOf(spec, p[1]) => Pushed(q, spec, p[1], p[2])
  <1> DEFINE some == {p \in pairs : p[2] \in FeaturesOf(spec, p[1])}
  <1>1. PICK order \in SetToSeqs(some) :
            stack' = stack \o [i \in 1 .. Len(order) |-> FrameOf(spec, order[i][1], order[i][2])]
    BY DEF PushForConsidered
  <1> DEFINE q == [i \in 1 .. Len(order) |-> FrameOf(spec, order[i][1], order[i][2])]
  <1>2. some \subseteq pairs /\ \A p \in some : p[2] \in FeaturesOf(spec, p[1])
    OBVIOUS
  <1>3. \A p \in pairs : p[2] \in FeaturesOf(spec, p[1]) => p \in some
    OBVIOUS
  <1> HIDE DEF some
  <1>4. IsFiniteSet(some)
    BY <1>2, FS_Subset
  <1>5. /\ order \in Seq(some) /\ Len(order) \in Nat
        /\ \A x \in some : \E i \in 1 .. Len(order) : order[i] = x
    BY <1>1, <1>4, SetToSeqsFacts
  <1>6. \A i \in 1 .. Len(order) : order[i] \in some
    BY <1>5
  <1>7. \A i \in 1 .. Len(order) : q[i] = FrameOf(spec, order[i][1], order[i][2])
    OBVIOUS
  <1>8. \A p \in some : FrameOf(spec, p[1], p[2]) \in FrameIn({spec})
    BY <1>2, FeaturesFacts
  <1>9. q \in Seq(FrameIn({spec})) /\ Len(q) = Len(order)
    <2>1. \A i \in 1 .. Len(order) : FrameOf(spec, order[i][1], order[i][2]) \in FrameIn({spec})
      BY <1>6, <1>8
    <2>2. \A i \in 1 .. Len(order) : q[i] \in FrameIn({spec})
      BY <1>7, <2>1
    <2>3. q = [i \in 1 .. Len(order) |-> q[i]]
      OBVIOUS
    <2> HIDE DEF q
    <2> QED
      BY <1>5, <2>2, <2>3, FunctionIsSeq
  <1> HIDE DEF q
  <1>10. \A i \in 1 .. Len(q) : \E p \in pairs : p[2] \in FeaturesOf(spec, p[1]) /\ q[i] = FrameOf(spec, p[1], p[2])
    BY <1>2, <1>6, <1>7, <1>9
  <1>11. \A p \in pairs : p[2] \in FeaturesOf(spec, p[1]) => Pushed(q, spec, p[1], p[2])
    BY <1>3, <1>5, <1>7, <1>9 DEF Pushed
  <1> QED
    BY <1>1, <1>9, <1>10, <1>11 DEF q

\* Of the node of spec, which becomes m, more features are asked; q has what they need.
Asks(spec, m, q) ==
    /\ spec \in DOMAIN graph /\ m.scfl = graph[spec].scfl /\ m.considered = graph[spec].considered
    /\ \A v \in m.considered : \A f \in Required(spec, m, v) \cap FeaturesOf(spec, v) :
          f \in Required(spec, graph[spec], v) \/ Pushed(q, spec, v, f)

LEMMA AsksNothing ==
    ASSUME GraphInv, WorkShape, NEW spec \in DOMAIN graph, UNCHANGED <<world, pc, outcome, failed, graph, stack>>
    PROVE  Extends(spec, graph[spec], <<>>) /\ Asks(spec, graph[spec], <<>>)
  <1>1. graph = [s \in DOMAIN graph |-> graph[s]] /\ stack \in Seq(FrameIn(DOMAIN graph)) /\ NodeShape(spec)
    BY DEF GraphInv, WorkShape, FrameShape
  <1>2. stack' = stack \o <<>>
    BY <1>1
  <1>3. graph' = [s \in DOMAIN graph \cup {spec} |-> IF s = spec THEN graph[spec] ELSE graph[s]]
    BY <1>1
  <1>4. PushedFor(<<>>, spec, graph[spec]) /\ Advances(spec, graph[spec], graph[spec])
    BY PushesNothing, AdvancesNot
  <1> QED
    BY <1>1, <1>2, <1>3, <1>4 DEF Extends, Asks, NodeShape

\* Frames for more features, for all considered versions that have them.
LEMMA AsksMore ==
    ASSUME GraphInv, WorkShape, NEW spec \in DOMAIN graph, spec = DepSpec, UNCHANGED <<world, pc, outcome, failed>>,
           NEW m, NEW pairs, IsFiniteSet(pairs),
           NodeIn(spec, m), m.scfl = graph[spec].scfl, m.considered = graph[spec].considered,
           graph[spec].requested \subseteq m.requested, graph[spec].defaults => m.defaults,
           \A p \in pairs : p[1] \in m.considered /\ p[2] \in Required(spec, m, p[1]),
           \A v \in m.considered : \A f \in Required(spec, m, v) : f \in Required(spec, graph[spec], v) \/ <<v, f>> \in pairs,
           graph' = [s \in DOMAIN graph \cup {spec} |-> IF s = spec THEN m ELSE graph[s]],
           PushForConsidered(pairs)
    PROVE  \E q : Extends(spec, m, q) /\ Asks(spec, m, q)
  <1>1. world \in DOMAIN Manifests /\ NodeShape(spec) /\ spec \in Spec
    BY DEF GraphInv, WorkShape, NodeShape
  <1>2. \A p \in pairs : Exists(spec[1], p[1])
    BY DEF NodeIn
  <1>3. PICK q : /\ stack' = stack \o q
                 /\ q \in Seq(FrameIn({spec}))
                 /\ \A i \in 1 .. Len(q) : \E p \in pairs : p[2] \in FeaturesOf(spec, p[1]) /\ q[i] = FrameOf(spec, p[1], p[2])
                 /\ \A p \in pairs : p[2] \in FeaturesOf(spec, p[1]) => Pushed(q, spec, p[1], p[2])
    BY <1>1, <1>2, PushForFacts
  <1>4. PushedFor(q, spec, m)
    <2>1. ASSUME NEW i \in 1 .. Len(q)
          PROVE  \E v \in m.considered :
                    \E f \in ({Core} \cup Required(spec, m, v)) \cap FeaturesOf(spec, v) : q[i] = FrameOf(spec, v, f)
      <3>1. PICK p \in pairs : p[2] \in FeaturesOf(spec, p[1]) /\ q[i] = FrameOf(spec, p[1], p[2])
        BY <1>3
      <3> QED
        BY <3>1
    <2> QED
      BY <1>3, <2>1 DEF PushedFor
  <1>5. ASSUME NEW v \in m.considered, NEW f \in Required(spec, m, v) \cap FeaturesOf(spec, v)
        PROVE  f \in Required(spec, graph[spec], v) \/ Pushed(q, spec, v, f)
    <2>1. CASE <<v, f>> \in pairs
      <3>1. \A p \in pairs : p[2] \in FeaturesOf(spec, p[1]) => Pushed(q, spec, p[1], p[2])
        BY <1>3
      <3>2. <<v, f>>[1] = v /\ <<v, f>>[2] = f
        OBVIOUS
      <3>3. Pushed(q, spec, <<v, f>>[1], <<v, f>>[2])
        BY <2>1, <3>1, <3>2
      <3> QED
        BY <3>2, <3>3
    <2>2. CASE <<v, f>> \notin pairs
      BY <2>2
    <2> QED
      BY <2>1, <2>2
  <1>6. Asks(spec, m, q)
    BY <1>5 DEF Asks
  <1>7. Advances(spec, graph[spec], m)
    BY DEF Advances
  <1>8. spec \notin AtTopLevel => m.defaults
    BY <1>1 DEF NodeShape
  <1>9. Extends(spec, m, q)
    BY <1>1, <1>3, <1>4, <1>7, <1>8 DEF Extends, NodeShape
  <1> QED
    BY <1>6, <1>9

LEMMA FeatureIsFinite == IsFiniteSet(Feature)
  <1>1. Len(FeatureNames) \in Nat
    BY FeatureAssumption
  <1>2. IsFiniteSet(1 .. Len(FeatureNames))
    BY <1>1, FS_Interval
  <1>3. IsFiniteSet({FeatureNames[i] : i \in 1 .. Len(FeatureNames)})
    <2> DEFINE g == [i \in 1 .. Len(FeatureNames) |-> FeatureNames[i]]
    <2>1. g \in Surjection(1 .. Len(FeatureNames), {FeatureNames[i] : i \in 1 .. Len(FeatureNames)})
      BY DEF Surjection
    <2> HIDE DEF g
    <2> QED
      BY <1>2, <2>1, FS_Surjection
  <1> QED
    BY <1>3 DEF Feature

LEMMA RequireFeatureFacts ==
    ASSUME GraphInv, WorkShape, RequireFeature, NEW spec, spec = DepSpec, NEW f, f = Head(wanted).name
    PROVE  /\ \E m, q : /\ Extends(spec, m, q) /\ Asks(spec, m, q)
                        /\ m.requested = graph[spec].requested \cup {f} /\ m.defaults = graph[spec].defaults
           /\ spec \in DOMAIN graph /\ met /\ wanted # <<>> /\ pc = "resolve" /\ frame.spec[2] \in Head(wanted).on
           /\ wanted' = Tail(wanted) /\ UNCHANGED <<world, pc, outcome, failed, frame, met>>
  <1> DEFINE n == graph[spec]
  <1>1. /\ spec \in DOMAIN graph /\ met /\ wanted # <<>> /\ pc = "resolve" /\ frame.spec[2] \in Head(wanted).on
        /\ wanted' = Tail(wanted) /\ UNCHANGED <<world, pc, outcome, failed, frame, met>>
    BY DEF RequireFeature, Resolving, GraphInv
  <1>2. \/ f \in n.requested /\ UNCHANGED <<graph, stack>>
        \/ /\ f \notin n.requested
           /\ graph' = [graph EXCEPT ![spec].requested = @ \cup {f}]
           /\ PushForConsidered(n.considered \X {f})
    BY DEF RequireFeature
  <1>3. NodeIn(spec, n) /\ Node(n)
    BY <1>1 DEF WorkShape, NodeShape, NodeIn
  <1>4. CASE f \in n.requested /\ UNCHANGED <<graph, stack>>
    <2>1. Extends(spec, n, <<>>) /\ Asks(spec, n, <<>>)
      BY <1>1, <1>4, AsksNothing
    <2>2. n.requested = n.requested \cup {f}
      BY <1>4
    <2> QED
      BY <1>1, <2>1, <2>2
  <1>5. CASE /\ f \notin n.requested
             /\ graph' = [graph EXCEPT ![spec].requested = @ \cup {f}]
             /\ PushForConsidered(n.considered \X {f})
    <2> DEFINE m == [n EXCEPT !.requested = @ \cup {f}]
               pairs == n.considered \X {f}
    <2>1. graph' = [graph EXCEPT ![spec] = m]
      BY <1>1, <1>5
    <2>2. graph' = [s \in DOMAIN graph \cup {spec} |-> IF s = spec THEN m ELSE graph[s]]
      BY <1>1, <2>1, Updated
    <2>3. wanted \in Seq(FeatureRef)
      BY DEF WorkShape, WantedShape
    <2>4. Head(wanted) \in FeatureRef
      BY <1>1, <2>3
    <2>5. f \in Feature
      BY <2>4 DEF FeatureRef
    <2>6. /\ m.scfl = n.scfl /\ m.considered = n.considered /\ m.requested = n.requested \cup {f}
          /\ m.defaults = n.defaults /\ Node(m)
      BY <1>3 DEF Node
    <2>7. IsFiniteSet(pairs)
      BY <1>3, FS_Product, FS_Singleton DEF NodeIn
    <2>8. \A v : <<v, f>> \in pairs <=> v \in n.considered
      OBVIOUS
    <2>9. \A p \in pairs : p[1] \in n.considered /\ p[2] = f
      OBVIOUS
    <2>10. PushForConsidered(pairs)
      BY <1>5
    <2> HIDE DEF m, pairs
    <2>11. NodeIn(spec, m)
      BY <1>3, <2>5, <2>6 DEF NodeIn
    <2>12. \A v : Required(spec, m, v) = Required(spec, n, v) \cup {f}
      BY <2>6 DEF Required
    <2>13. \A v \in m.considered : \A g \in Required(spec, m, v) : g \in Required(spec, n, v) \/ <<v, g>> \in pairs
      BY <2>6, <2>8, <2>12
    <2>14. \A p \in pairs : p[1] \in m.considered /\ p[2] \in Required(spec, m, p[1])
      BY <2>6, <2>9, <2>12
    <2>15. \E q : Extends(spec, m, q) /\ Asks(spec, m, q)
      BY <1>1, <2>2, <2>6, <2>7, <2>10, <2>11, <2>13, <2>14, AsksMore
    <2> QED
      BY <1>1, <2>6, <2>15
  <1> QED
    BY <1>2, <1>4, <1>5

LEMMA RequireDefaultsFacts ==
    ASSUME GraphInv, WorkShape, RequireDefaults, NEW spec, spec = DepSpec
    PROVE  /\ \E m, q : /\ Extends(spec, m, q) /\ Asks(spec, m, q)
                        /\ m.requested = graph[spec].requested /\ m.defaults = (graph[spec].defaults \/ Dep.defaults)
           /\ spec \in DOMAIN graph /\ met /\ wanted = <<>> /\ pc = "resolve"
           /\ met' = FALSE /\ frame' = [frame EXCEPT !.deps = Tail(@)]
           /\ UNCHANGED <<world, pc, outcome, failed, wanted>>
  <1> DEFINE n == graph[spec]
  <1>1. /\ spec \in DOMAIN graph /\ met /\ wanted = <<>> /\ pc = "resolve" /\ frame.deps # <<>>
        /\ met' = FALSE /\ frame' = [frame EXCEPT !.deps = Tail(@)]
        /\ UNCHANGED <<world, pc, outcome, failed, wanted>>
    BY DEF RequireDefaults, Resolving, GraphInv
  <1>2. NodeIn(spec, n) /\ Node(n) /\ spec \in Spec /\ world \in DOMAIN Manifests
    BY <1>1 DEF WorkShape, NodeShape, NodeIn, GraphInv
  <1>3. Dep.defaults \in BOOLEAN
    <2>1. Dep \in Dependency
      BY <1>1, HeadFacts
    <2> QED
      BY <2>1 DEF Dependency
  <1>4. CASE ~ (Dep.defaults /\ ~ n.defaults)
    <2>1. UNCHANGED <<graph, stack>>
      BY <1>4 DEF RequireDefaults
    <2>2. Extends(spec, n, <<>>) /\ Asks(spec, n, <<>>)
      BY <1>1, <2>1, AsksNothing
    <2>3. n.defaults = (n.defaults \/ Dep.defaults)
      BY <1>2, <1>3, <1>4 DEF NodeIn
    <2> QED
      BY <1>1, <2>2, <2>3
  <1>5. CASE Dep.defaults /\ ~ n.defaults
    <2> DEFINE m == [n EXCEPT !.defaults = TRUE]
               pairs == UNION {{v} \X Defaults(spec, v) : v \in n.considered}
    <2>1. graph' = [graph EXCEPT ![spec].defaults = TRUE] /\ PushForConsidered(pairs)
      BY <1>5 DEF RequireDefaults
    <2>2. graph' = [graph EXCEPT ![spec] = m]
      BY <1>1, <2>1
    <2>3. graph' = [s \in DOMAIN graph \cup {spec} |-> IF s = spec THEN m ELSE graph[s]]
      BY <1>1, <2>2, Updated
    <2>4. /\ m.scfl = n.scfl /\ m.considered = n.considered /\ m.requested = n.requested
          /\ m.defaults = TRUE /\ Node(m)
      <3>1. n = [scfl |-> n.scfl, considered |-> n.considered, requested |-> n.requested, defaults |-> n.defaults]
        BY <1>2 DEF Node
      <3>2. m = [scfl |-> n.scfl, considered |-> n.considered, requested |-> n.requested, defaults |-> TRUE]
        <4>1. \A x : [n EXCEPT !.defaults = x] =
                         [scfl |-> n.scfl, considered |-> n.considered, requested |-> n.requested, defaults |-> x]
          BY <3>1
        <4> QED
          BY <4>1
      <3> HIDE DEF m
      <3> QED
        BY <3>2 DEF Node
    <2>5. \A v \in n.considered : Defaults(spec, v) \subseteq Feature
      BY <1>2, FeaturesFacts DEF NodeIn
    <2>6. pairs \in SUBSET (n.considered \X Feature)
      BY <2>5
    <2>7. IsFiniteSet(pairs)
      BY <1>2, <2>6, FeatureIsFinite, FS_Product, FS_Subset DEF NodeIn
    <2>8. \A v \in n.considered : \A f \in Defaults(spec, v) : <<v, f>> \in pairs
      OBVIOUS
    <2>9. \A p \in pairs : p[1] \in n.considered /\ p[2] \in Defaults(spec, p[1])
      OBVIOUS
    <2> HIDE DEF m, pairs
    <2>10. NodeIn(spec, m)
      BY <1>2, <2>4 DEF NodeIn
    <2>11. \A v : Required(spec, m, v) = Required(spec, n, v) \cup Defaults(spec, v)
      BY <1>5, <2>4 DEF Required
    <2>12. \A v \in m.considered : \A g \in Required(spec, m, v) : g \in Required(spec, n, v) \/ <<v, g>> \in pairs
      BY <2>4, <2>8, <2>11
    <2>13. \A p \in pairs : p[1] \in m.considered /\ p[2] \in Required(spec, m, p[1])
      BY <2>4, <2>9, <2>11
    <2>14. \E q : Extends(spec, m, q) /\ Asks(spec, m, q)
      BY <1>1, <2>1, <2>3, <2>4, <2>7, <2>10, <2>12, <2>13, AsksMore
    <2>15. m.defaults = (n.defaults \/ Dep.defaults)
      BY <1>5, <2>4
    <2> QED
      BY <1>1, <2>4, <2>14, <2>15
  <1> QED
    BY <1>4, <1>5

(***************************************************************************)
(* The steps of phase 1 keep the shape of its work and lose none of it.    *)
(***************************************************************************)
\* While a dependency is handled, its package has the version asked for, and the features that are not left.
HeadMet ==
    met => /\ MetBy(DepSpec[1], graph[DepSpec], Dep.min)
           /\ Holding(Dep.features, frame.spec[2]) \subseteq graph[DepSpec].requested \cup Holding(wanted, frame.spec[2])

LEMMA NodesStay ==
    ASSUME WorkShape, UNCHANGED <<world, graph>>
    PROVE  (\A s \in DOMAIN graph : NodeShape(s))'
  <1>1. ASSUME NEW s \in DOMAIN graph PROVE NodeShape(s)'
    <2>1. NodeShape(s)
      BY DEF WorkShape
    <2>2. NodeIn(s, graph[s])' /\ CanStart(s[1])' /\ AtTopLevel' = AtTopLevel
      BY <2>1, WorldFacts DEF NodeShape
    <2> QED
      BY <2>1, <2>2 DEF NodeShape
  <1> QED
    BY <1>1

LEMMA FailedStays ==
    ASSUME WorkShape, UNCHANGED <<world, failed>>
    PROVE  (\A name \in failed : ~ CanStart(name))'
  <1>1. \A name : CanStart(name)' = CanStart(name)
    BY WorldFacts
  <1> QED
    BY <1>1 DEF WorkShape

LEMMA QuietGrows ==
    ASSUME UNCHANGED <<world, graph>>, failed \subseteq failed'
    PROVE  Grows
  BY AdvancesNot DEF Grows

LEMMA TailFrame ==
    ASSUME NEW S, frame \in FrameIn(S), frame.deps # <<>>, frame' = [frame EXCEPT !.deps = Tail(@)]
    PROVE  /\ frame' \in FrameIn(S) /\ frame'.spec = frame.spec /\ frame'.deps = Tail(frame.deps)
           /\ \A k \in 1 .. Len(frame.deps) : frame.deps[k] = Dep \/ \E j \in 1 .. Len(frame'.deps) : frame'.deps[j] = frame.deps[k]
           /\ \A k \in 1 .. Len(frame'.deps) : \E j \in 1 .. Len(frame.deps) : frame'.deps[k] = frame.deps[j]
  <1>1. frame = [spec |-> frame.spec, deps |-> frame.deps] /\ frame.deps \in Seq(Dependency) /\ frame.spec \in S
    BY DEF FrameIn
  <1>2. frame' = [spec |-> frame.spec, deps |-> Tail(frame.deps)]
    BY <1>1
  <1>3. /\ Tail(frame.deps) \in Seq(Dependency) /\ Len(Tail(frame.deps)) = Len(frame.deps) - 1 /\ Len(frame.deps) \in Nat
        /\ \A k \in 1 .. Len(frame.deps) - 1 : Tail(frame.deps)[k] = frame.deps[k + 1]
        /\ Dep = frame.deps[1]
    BY <1>1 DEF Dep
  <1>4. ASSUME NEW k \in 1 .. Len(frame.deps)
        PROVE  frame.deps[k] = Dep \/ \E j \in 1 .. Len(Tail(frame.deps)) : Tail(frame.deps)[j] = frame.deps[k]
    <2>1. CASE k = 1
      BY <1>3, <2>1
    <2>2. CASE k # 1
      <3>1. k - 1 \in 1 .. Len(frame.deps) - 1 /\ (k - 1) + 1 = k
        BY <1>3, <2>2
      <3>2. Tail(frame.deps)[k - 1] = frame.deps[k]
        BY <1>3, <3>1
      <3> QED
        BY <1>3, <3>1, <3>2
    <2> QED
      BY <2>1, <2>2
  <1>5. ASSUME NEW k \in 1 .. Len(Tail(frame.deps))
        PROVE  \E j \in 1 .. Len(frame.deps) : Tail(frame.deps)[k] = frame.deps[j]
    <2>1. k + 1 \in 1 .. Len(frame.deps)
      BY <1>3
    <2> QED
      BY <1>3, <2>1
  <1>6. frame'.spec = frame.spec /\ frame'.deps = Tail(frame.deps)
    BY <1>2
  <1>7. frame' \in FrameIn(S)
    BY <1>1, <1>2, <1>3 DEF FrameIn
  <1> QED
    BY <1>4, <1>5, <1>6, <1>7

\* Nothing leaves the stack.
StackKept == \A i \in 1 .. Len(stack) : \E j \in 1 .. Len(stack') : stack'[j] = stack[i]

LEMMA KeepsFrame ==
    ASSUME StackKept, frame' = frame
    PROVE  Keeps
  BY DEF Keeps, StackKept, Pending, InFrame

LEMMA KeepsTail ==
    ASSUME StackKept, WorkShape, frame.deps # <<>>, frame' = [frame EXCEPT !.deps = Tail(@)],
           NEW s, s = frame.spec, NEW h, h = Dep, Followed(s, h)'
    PROVE  Keeps
  <1>1. /\ frame'.spec = frame.spec
        /\ \A k \in 1 .. Len(frame.deps) : frame.deps[k] = Dep \/ \E j \in 1 .. Len(frame'.deps) : frame'.deps[j] = frame.deps[k]
    <2>1. frame \in FrameIn(DOMAIN graph \cup {TopLevel})
      BY DEF WorkShape, FrameShape
    <2> QED
      BY <2>1, TailFrame
  <1>2. ASSUME NEW spec, NEW d, Pending(spec, d)
        PROVE  Pending(spec, d)' \/ Followed(spec, d)'
    <2>1. CASE InFrame(spec, d, frame)
      <3>1. PICK k \in 1 .. Len(frame.deps) : frame.deps[k] = d /\ frame.spec = spec
        BY <2>1 DEF InFrame
      <3>2. CASE d = Dep
        BY <3>1, <3>2
      <3>3. CASE d # Dep
        BY <1>1, <3>1, <3>3 DEF Pending, InFrame
      <3> QED
        BY <3>2, <3>3
    <2>2. CASE \E i \in 1 .. Len(stack) : InFrame(spec, d, stack[i])
      BY <2>2 DEF StackKept, Pending, InFrame
    <2> QED
      BY <1>2, <2>1, <2>2 DEF Pending
  <1> QED
    BY <1>2 DEF Keeps

LEMMA TopStays ==
    ASSUME UNCHANGED world, WorkShape, frame'.spec = frame.spec,
           \A k \in 1 .. Len(frame'.deps) : \E j \in 1 .. Len(frame.deps) : frame'.deps[k] = frame.deps[j]
    PROVE  (frame.spec = TopLevel => \A k \in 1 .. Len(frame.deps) : \E j \in 1 .. Len(Manifest.depends) :
                                         frame.deps[k] = Manifest.depends[j])'
  <1>1. Manifest' = Manifest /\ TopLevel' = TopLevel
    BY WorldFacts
  <1> QED
    BY <1>1 DEF WorkShape, FrameShape

LEMMA FrontFacts ==
    ASSUME NEW S, NEW q \in Seq(S), q # <<>>
    PROVE  /\ Front(q) \in Seq(S) /\ Len(Front(q)) = Len(q) - 1 /\ Len(q) \in Nat \ {0}
           /\ \A i \in 1 .. Len(q) - 1 : Front(q)[i] = q[i]
           /\ Last(q) = q[Len(q)]
  <1>1. Len(q) \in Nat \ {0}
    OBVIOUS
  <1>2. PICK n : n = Len(q) - 1
    OBVIOUS
  <1>3. n \in Int /\ n >= 0 /\ \A i \in 1 .. n : q[i] \in S
    BY <1>1, <1>2
  <1>4. Front(q) = SubSeq(q, 1, n)
    BY <1>2 DEF Front
  <1>5. /\ SubSeq(q, 1, n) \in Seq(S)
        /\ Len(SubSeq(q, 1, n)) = IF 1 <= n THEN n - 1 + 1 ELSE 0
        /\ \A i \in 1 .. n - 1 + 1 : SubSeq(q, 1, n)[i] = q[1 + i - 1]
    BY <1>3, SubSeqProperties
  <1> HIDE DEF Front
  <1>6. Front(q) \in Seq(S) /\ Len(Front(q)) = n
    BY <1>3, <1>4, <1>5
  <1>7. \A i \in 1 .. n : Front(q)[i] = q[i]
    BY <1>3, <1>4, <1>5
  <1> QED
    BY <1>1, <1>2, <1>6, <1>7 DEF Last

\* What a step has to show.
Step == WorkShape' /\ HeadMet' /\ Grows /\ Keeps

LEMMA PopFrameStep == GraphInv /\ WorkShape /\ HeadMet /\ PopFrame => Step
  <1> SUFFICES ASSUME GraphInv, WorkShape, HeadMet, PopFrame PROVE Step
    OBVIOUS
  <1>1. /\ frame.deps = <<>> /\ stack # <<>> /\ frame' = Last(stack) /\ stack' = Front(stack) /\ pc = "resolve"
        /\ UNCHANGED <<world, pc, outcome, graph, failed, wanted, met>>
    BY DEF PopFrame, Resolving
  <1>2. stack \in Seq(FrameIn(DOMAIN graph)) /\ frame.deps \in Seq(Dependency)
    BY DEF WorkShape, FrameShape, FrameIn
  <1>3. ~ met
    BY <1>1 DEF WorkShape, WantedShape
  <1>4. /\ stack' \in Seq(FrameIn(DOMAIN graph)) /\ Len(stack') = Len(stack) - 1 /\ Len(stack) \in Nat \ {0}
        /\ \A i \in 1 .. Len(stack) - 1 : stack'[i] = stack[i]
        /\ frame' = stack[Len(stack)]
    BY <1>1, <1>2, FrontFacts
  <1>5. frame' \in FrameIn(DOMAIN graph)
    BY <1>2, <1>4
  <1>6. TopLevel' = TopLevel /\ TopLevel \notin DOMAIN graph
    BY <1>1, WorldFacts, ManifestsAssumption DEF GraphInv, TopLevel
  <1>7. frame' \in FrameIn(DOMAIN graph \cup {TopLevel}) /\ frame'.spec # TopLevel
    BY <1>5, <1>6 DEF FrameIn
  <1>8. FrameShape'
    BY <1>1, <1>4, <1>6, <1>7 DEF FrameShape
  <1>9. WantedShape' /\ HeadMet'
    BY <1>1, <1>3 DEF WantedShape, HeadMet, WorkShape
  <1>10. EndShape'
    BY <1>1 DEF EndShape, WorkShape
  <1>11. (\A name \in failed : ~ CanStart(name))' /\ (\A s \in DOMAIN graph : NodeShape(s))' /\ Grows
    BY <1>1, NodesStay, QuietGrows, FailedStays
  <1>12. Keeps
    <2>1. ASSUME NEW spec, NEW d, Pending(spec, d)
          PROVE  Pending(spec, d)'
      <3>1. ~ InFrame(spec, d, frame)
        BY <1>1 DEF InFrame
      <3>2. PICK i \in 1 .. Len(stack) : InFrame(spec, d, stack[i])
        BY <2>1, <3>1 DEF Pending
      <3>3. CASE i = Len(stack)
        BY <1>4, <3>2, <3>3 DEF Pending, InFrame
      <3>4. CASE i # Len(stack)
        <4>1. i \in 1 .. Len(stack) - 1 /\ i \in 1 .. Len(stack')
          BY <1>4, <3>4
        <4> QED
          BY <1>4, <3>2, <4>1 DEF Pending, InFrame
      <3> QED
        BY <3>3, <3>4
    <2> QED
      BY <2>1 DEF Keeps
  <1> QED
    BY <1>8, <1>9, <1>10, <1>11, <1>12 DEF Step, WorkShape

LEMMA TailStep ==
    ASSUME GraphInv, WorkShape, frame.deps # <<>>, frame' = [frame EXCEPT !.deps = Tail(@)], pc = "resolve",
           met' = FALSE, UNCHANGED <<world, pc, outcome, graph, stack, wanted>>,
           failed \subseteq failed', \A name \in failed' : ~ CanStart(name),
           NEW s, s = frame.spec, NEW h, h = Dep, Followed(s, h)'
    PROVE  Step
  <1>1. frame \in FrameIn(DOMAIN graph \cup {TopLevel}) /\ wanted \in Seq(FeatureRef)
    BY DEF WorkShape, FrameShape, WantedShape
  <1>2. /\ frame' \in FrameIn(DOMAIN graph \cup {TopLevel}) /\ frame'.spec = frame.spec
        /\ \A k \in 1 .. Len(frame'.deps) : \E j \in 1 .. Len(frame.deps) : frame'.deps[k] = frame.deps[j]
    BY <1>1, TailFrame
  <1>3. TopLevel' = TopLevel
    BY WorldFacts
  <1>4. FrameShape'
    <2>1. stack' \in Seq(FrameIn(DOMAIN graph'))
      BY DEF WorkShape, FrameShape
    <2>2. frame' \in FrameIn(DOMAIN graph' \cup {TopLevel'})
      BY <1>2, <1>3
    <2>3. (frame.spec = TopLevel => \A k \in 1 .. Len(frame.deps) : \E j \in 1 .. Len(Manifest.depends) :
                                         frame.deps[k] = Manifest.depends[j])'
      BY <1>2, TopStays
    <2> QED
      BY <2>1, <2>2, <2>3 DEF FrameShape
  <1>5. WantedShape' /\ HeadMet'
    BY <1>1 DEF WantedShape, HeadMet
  <1>6. EndShape'
    BY DEF EndShape, WorkShape
  <1>7. (\A name \in failed : ~ CanStart(name))'
    <2>1. \A name : CanStart(name)' = CanStart(name)
      BY WorldFacts
    <2> QED
      BY <2>1
  <1>8. (\A s_1 \in DOMAIN graph : NodeShape(s_1))' /\ Grows
    BY NodesStay, QuietGrows
  <1>9. Keeps
    <2>1. StackKept
      BY DEF StackKept
    <2> QED
      BY <2>1, KeepsTail
  <1> QED
    BY <1>4, <1>5, <1>6, <1>7, <1>8, <1>9 DEF Step, WorkShape

LEMMA SkipDependencyStep == GraphInv /\ WorkShape /\ SkipDependency => Step
  <1> SUFFICES ASSUME GraphInv, WorkShape, SkipDependency PROVE Step
    OBVIOUS
  <1>1. /\ frame.deps # <<>> /\ frame' = [frame EXCEPT !.deps = Tail(@)] /\ pc = "resolve"
        /\ ~ met /\ UNCHANGED <<world, pc, outcome, graph, failed, stack, wanted, met>>
        /\ frame.spec[2] \notin Dep.on
    BY DEF SkipDependency, Resolving
  <1>2. met' = FALSE /\ \A name \in failed' : ~ CanStart(name)
    BY <1>1 DEF WorkShape, WantedShape
  <1>3. PICK s : s = frame.spec
    OBVIOUS
  <1>4. PICK h : h = Dep
    OBVIOUS
  <1>5. Followed(s, h)'
    BY <1>1, <1>3, <1>4 DEF Followed
  <1> QED
    BY <1>1, <1>2, <1>3, <1>4, <1>5, TailStep

LEMMA FailPackageStep == GraphInv /\ WorkShape /\ FailPackage => Step
  <1> SUFFICES ASSUME GraphInv, WorkShape, FailPackage PROVE Step
    OBVIOUS
  <1>1. /\ frame.deps # <<>> /\ frame' = [frame EXCEPT !.deps = Tail(@)] /\ pc = "resolve"
        /\ ~ met /\ UNCHANGED <<world, pc, outcome, graph, stack, wanted, met>>
        /\ failed' = failed \cup {Dep.name} /\ (Dep.name \in failed \/ ~ CanStart(Dep.name))
    BY DEF FailPackage, Resolving
  <1>2. met' = FALSE /\ \A name \in failed' : ~ CanStart(name)
    BY <1>1 DEF WorkShape, WantedShape
  <1>3. PICK s : s = frame.spec
    OBVIOUS
  <1>4. PICK h : h = Dep
    OBVIOUS
  <1>5. Followed(s, h)'
    BY <1>1, <1>4 DEF Followed
  <1> QED
    BY <1>1, <1>2, <1>3, <1>4, <1>5, TailStep

\* The end of phase 1, and phase 2.
LEMMA QuietStep ==
    ASSUME GraphInv, WorkShape, HeadMet, UNCHANGED <<world, resolverVars>>, EndShape'
    PROVE  Step
  <1>1. UNCHANGED <<graph, failed, stack, frame, wanted, met>>
    BY DEF resolverVars
  <1>2. Manifest' = Manifest /\ TopLevel' = TopLevel /\ DepSpec' = DepSpec /\ Dep' = Dep
    BY <1>1, WorldFacts DEF Dep, DepSpec, SpecOf
  <1>3. FrameShape'
    BY <1>1, <1>2 DEF FrameShape, WorkShape
  <1>4. WantedShape'
    BY <1>1, <1>2 DEF WantedShape, WorkShape
  <1>5. HeadMet'
    <2>1. \A name, n, min : MetBy(name, n, min)' = MetBy(name, n, min)
      BY WorldFacts
    <2> QED
      BY <1>1, <1>2, <2>1 DEF HeadMet
  <1>6. (\A name \in failed : ~ CanStart(name))' /\ (\A s \in DOMAIN graph : NodeShape(s))' /\ Grows
    BY <1>1, NodesStay, QuietGrows, FailedStays
  <1>7. Keeps
    BY <1>1 DEF Keeps, Pending, InFrame
  <1> QED
    BY <1>3, <1>4, <1>5, <1>6, <1>7 DEF Step, WorkShape

LEMMA HoldingTail ==
    ASSUME NEW features \in Seq(FeatureRef), features # <<>>, NEW triplet
    PROVE  /\ triplet \in Head(features).on =>
                 Holding(features, triplet) \subseteq {Head(features).name} \cup Holding(Tail(features), triplet)
           /\ triplet \notin Head(features).on => Holding(features, triplet) \subseteq Holding(Tail(features), triplet)
           /\ Tail(features) \in Seq(FeatureRef) /\ Head(features) = features[1] /\ 1 \in 1 .. Len(features)
           /\ \A i \in 1 .. Len(Tail(features)) : \E k \in 1 .. Len(features) : Tail(features)[i] = features[k]
           /\ Head(features) \in FeatureRef
  <1>1. /\ Tail(features) \in Seq(FeatureRef) /\ Len(Tail(features)) = Len(features) - 1 /\ Len(features) \in Nat \ {0}
        /\ \A i \in 1 .. Len(features) - 1 : Tail(features)[i] = features[i + 1]
        /\ Head(features) = features[1] /\ 1 \in 1 .. Len(features)
    OBVIOUS
  <1>2. ASSUME NEW k \in 1 .. Len(features), triplet \in features[k].on
        PROVE  \/ k = 1
               \/ features[k].name \in Holding(Tail(features), triplet)
    <2>1. CASE k # 1
      <3>1. k - 1 \in 1 .. Len(features) - 1 /\ (k - 1) + 1 = k
        BY <1>1, <2>1
      <3>2. Tail(features)[k - 1] = features[k] /\ k - 1 \in 1 .. Len(Tail(features))
        BY <1>1, <3>1
      <3>3. features[k].name \in Holding(Tail(features), triplet)
        BY <1>2, <3>2 DEF Holding
      <3> QED
        BY <3>3
    <2> QED
      BY <2>1
  <1>3. ASSUME NEW f \in Holding(features, triplet)
        PROVE  f \in Holding(Tail(features), triplet) \/ (f = Head(features).name /\ triplet \in Head(features).on)
    <2>1. PICK k \in 1 .. Len(features) : triplet \in features[k].on /\ f = features[k].name
      BY DEF Holding
    <2> QED
      BY <1>1, <1>2, <2>1
  <1>4. \A i \in 1 .. Len(Tail(features)) : \E k \in 1 .. Len(features) : Tail(features)[i] = features[k]
    <2>1. ASSUME NEW i \in 1 .. Len(Tail(features)) PROVE i + 1 \in 1 .. Len(features) /\ Tail(features)[i] = features[i + 1]
      BY <1>1
    <2> QED
      BY <2>1
  <1>5. Head(features) \in FeatureRef
    BY <1>1
  <1> QED
    BY <1>1, <1>3, <1>4, <1>5

LEMMA HoldingNothing ==
    ASSUME NEW triplet
    PROVE  Holding(<<>>, triplet) = {}
  BY DEF Holding

LEMMA StackGrows ==
    ASSUME NEW S, stack \in Seq(S), NEW q \in Seq(S), stack' = stack \o q
    PROVE  StackKept
  BY ConcatFacts DEF StackKept

\* A step that extends a node, of those that leave or drop the first dependency of the frame.
LEMMA ExtendsStep ==
    ASSUME GraphInv, WorkShape, NEW spec, NEW m, NEW q, Extends(spec, m, q), pc = "resolve",
           frame' \in FrameIn(DOMAIN graph \cup {TopLevel}), frame'.spec = frame.spec,
           \A k \in 1 .. Len(frame'.deps) : \E j \in 1 .. Len(frame.deps) : frame'.deps[k] = frame.deps[j],
           WantedShape', HeadMet', Keeps
    PROVE  Step
  <1>0. world \in DOMAIN Manifests /\ UNCHANGED <<world, pc, outcome, failed>>
    BY DEF GraphInv, Extends
  <1>1. /\ Grows
        /\ DOMAIN graph' = DOMAIN graph \cup {spec} /\ graph'[spec] = m
        /\ stack' \in Seq(FrameIn(DOMAIN graph'))
        /\ (\A name \in failed : ~ CanStart(name))'
        /\ (\A s \in DOMAIN graph : NodeShape(s))'
    BY <1>0, ExtendsFacts
  <1>2. TopLevel' = TopLevel
    BY <1>0, WorldFacts
  <1>3. frame' \in FrameIn(DOMAIN graph' \cup {TopLevel'})
    BY <1>1, <1>2 DEF FrameIn
  <1>4. FrameShape'
    <2>1. (frame.spec = TopLevel => \A k \in 1 .. Len(frame.deps) : \E j \in 1 .. Len(Manifest.depends) :
                                         frame.deps[k] = Manifest.depends[j])'
      BY <1>0, TopStays
    <2> QED
      BY <1>1, <1>3, <2>1 DEF FrameShape
  <1>5. EndShape'
    BY <1>0 DEF EndShape, WorkShape
  <1> QED
    BY <1>1, <1>4, <1>5 DEF Step, WorkShape

LEMMA ExtendsKeepsStack ==
    ASSUME GraphInv, WorkShape, NEW spec, NEW m, NEW q, Extends(spec, m, q)
    PROVE  StackKept
  <1>1. stack \in Seq(FrameIn(DOMAIN graph')) /\ q \in Seq(FrameIn(DOMAIN graph'))
    BY ExtendsFacts DEF GraphInv
  <1> QED
    BY <1>1, StackGrows DEF Extends

LEMMA RequireDependencyWork == GraphInv /\ WorkShape /\ RequireDependency => Step
  <1> SUFFICES ASSUME GraphInv, WorkShape, RequireDependency PROVE Step
    OBVIOUS
  <1>1. PICK spec : spec = DepSpec
    OBVIOUS
  <1>2. /\ \E m, q : Extends(spec, m, q) /\ Requires(spec, Dep.min, m, q)
        /\ frame.deps # <<>> /\ frame.spec[2] \in Dep.on /\ ~ met /\ pc = "resolve"
        /\ met' = TRUE /\ wanted' = Dep.features /\ UNCHANGED <<world, pc, outcome, failed, frame>>
    BY <1>1, RequireDependencyFacts
  <1>3. PICK m : \E q : Extends(spec, m, q) /\ Requires(spec, Dep.min, m, q)
    BY <1>2
  <1>4. PICK q : Extends(spec, m, q) /\ Requires(spec, Dep.min, m, q)
    BY <1>3
  <1>5. Dep \in Dependency
    BY <1>2, HeadFacts
  <1>6. Dep' = Dep /\ DepSpec' = spec /\ Dep.features \in Seq(FeatureRef)
    BY <1>1, <1>2, <1>5 DEF Dep, DepSpec, SpecOf, Dependency
  <1>7. frame \in FrameIn(DOMAIN graph \cup {TopLevel})
    BY DEF WorkShape, FrameShape
  <1>8. WantedShape'
    BY <1>2, <1>6 DEF WantedShape
  <1>9. HeadMet'
    <2>1. MetBy(spec[1], m, Dep.min) /\ graph'[spec] = m
      BY <1>4 DEF Requires, Extends
    <2>2. \A name, n, min : MetBy(name, n, min)' = MetBy(name, n, min)
      BY <1>2, WorldFacts
    <2>3. MetBy(DepSpec[1], graph[DepSpec], Dep.min)'
      BY <1>6, <2>1, <2>2
    <2>4. Holding(Dep.features, frame.spec[2])' \subseteq Holding(wanted, frame.spec[2])'
      BY <1>2, <1>6
    <2> QED
      BY <2>3, <2>4 DEF HeadMet
  <1>10. Keeps
    BY <1>2, <1>4, ExtendsKeepsStack, KeepsFrame
  <1> QED
    BY <1>2, <1>4, <1>7, <1>8, <1>9, <1>10, ExtendsStep

LEMMA SkipFeatureStep == GraphInv /\ WorkShape /\ HeadMet /\ SkipFeature => Step
  <1> SUFFICES ASSUME GraphInv, WorkShape, HeadMet, SkipFeature PROVE Step
    OBVIOUS
  <1>1. /\ met /\ wanted # <<>> /\ frame.spec[2] \notin Head(wanted).on /\ wanted' = Tail(wanted)
        /\ UNCHANGED <<world, pc, outcome, graph, failed, stack, frame, met>>
    BY DEF SkipFeature, Resolving
  <1>2. wanted \in Seq(FeatureRef)
    BY DEF WorkShape, WantedShape
  <1>3. /\ wanted' \in Seq(FeatureRef)
        /\ \A i \in 1 .. Len(wanted') : \E k \in 1 .. Len(wanted) : wanted'[i] = wanted[k]
        /\ Holding(wanted, frame.spec[2]) \subseteq Holding(wanted', frame.spec[2])
    BY <1>1, <1>2, HoldingTail
  <1>4. Manifest' = Manifest /\ TopLevel' = TopLevel /\ DepSpec' = DepSpec /\ Dep' = Dep
    BY <1>1, WorldFacts DEF Dep, DepSpec, SpecOf
  <1>5. FrameShape'
    BY <1>1, <1>4 DEF FrameShape, WorkShape
  <1>6. WantedShape'
    <2>1. \A i \in 1 .. Len(wanted') : \E k \in 1 .. Len(Dep.features) : Dep.features[k] = wanted'[i]
      BY <1>1, <1>3 DEF WorkShape, WantedShape
    <2> QED
      BY <1>1, <1>3, <1>4, <2>1 DEF WantedShape, WorkShape
  <1>7. HeadMet'
    <2>1. \A name, n, min : MetBy(name, n, min)' = MetBy(name, n, min)
      BY <1>1, WorldFacts
    <2>2. MetBy(DepSpec[1], graph[DepSpec], Dep.min)'
      BY <1>1, <1>4, <2>1 DEF HeadMet
    <2>3. (Holding(Dep.features, frame.spec[2]) \subseteq graph[DepSpec].requested \cup Holding(wanted, frame.spec[2]))'
      BY <1>1, <1>3, <1>4 DEF HeadMet
    <2> QED
      BY <2>2, <2>3 DEF HeadMet
  <1>8. (\A name \in failed : ~ CanStart(name))' /\ (\A s \in DOMAIN graph : NodeShape(s))' /\ Grows
    BY <1>1, NodesStay, QuietGrows, FailedStays
  <1>9. EndShape'
    BY <1>1 DEF EndShape, WorkShape
  <1>10. Keeps
    BY <1>1, KeepsFrame DEF StackKept
  <1> QED
    BY <1>5, <1>6, <1>7, <1>8, <1>9, <1>10 DEF Step, WorkShape

LEMMA MetSame ==
    ASSUME NEW name, NEW n, NEW m, m.scfl = n.scfl, m.considered = n.considered, NEW min, MetBy(name, n, min)
    PROVE  MetBy(name, m, min)
  BY DEF MetBy

LEMMA RequireFeatureWork == GraphInv /\ WorkShape /\ HeadMet /\ RequireFeature => Step
  <1> SUFFICES ASSUME GraphInv, WorkShape, HeadMet, RequireFeature PROVE Step
    OBVIOUS
  <1>1. PICK spec : spec = DepSpec
    OBVIOUS
  <1>2. PICK f : f = Head(wanted).name
    OBVIOUS
  <1>3. /\ \E m, q : /\ Extends(spec, m, q) /\ Asks(spec, m, q)
                     /\ m.requested = graph[spec].requested \cup {f} /\ m.defaults = graph[spec].defaults
        /\ spec \in DOMAIN graph /\ met /\ wanted # <<>> /\ pc = "resolve" /\ frame.spec[2] \in Head(wanted).on
        /\ wanted' = Tail(wanted) /\ UNCHANGED <<world, pc, outcome, failed, frame, met>>
    BY <1>1, <1>2, RequireFeatureFacts
  <1>4. PICK m : \E q : /\ Extends(spec, m, q) /\ Asks(spec, m, q)
                        /\ m.requested = graph[spec].requested \cup {f} /\ m.defaults = graph[spec].defaults
    BY <1>3
  <1>5. PICK q : /\ Extends(spec, m, q) /\ Asks(spec, m, q)
                 /\ m.requested = graph[spec].requested \cup {f} /\ m.defaults = graph[spec].defaults
    BY <1>4
  <1>6. wanted \in Seq(FeatureRef) /\ frame \in FrameIn(DOMAIN graph \cup {TopLevel})
    BY DEF WorkShape, WantedShape, FrameShape
  <1>7. /\ wanted' \in Seq(FeatureRef)
        /\ \A i \in 1 .. Len(wanted') : \E k \in 1 .. Len(wanted) : wanted'[i] = wanted[k]
        /\ Holding(wanted, frame.spec[2]) \subseteq {f} \cup Holding(wanted', frame.spec[2])
    BY <1>2, <1>3, <1>6, HoldingTail
  <1>8. Dep' = Dep /\ DepSpec' = spec
    BY <1>1, <1>3 DEF Dep, DepSpec, SpecOf
  <1>9. WantedShape'
    <2>1. \A i \in 1 .. Len(wanted') : \E k \in 1 .. Len(Dep.features) : Dep.features[k] = wanted'[i]
      BY <1>3, <1>7 DEF WorkShape, WantedShape
    <2> QED
      BY <1>3, <1>7, <1>8, <2>1 DEF WantedShape, WorkShape
  <1>10. HeadMet'
    <2>1. \A name, n, min : MetBy(name, n, min)' = MetBy(name, n, min)
      BY <1>3, WorldFacts
    <2>2. graph'[spec] = m
      BY <1>5 DEF Extends
    <2>3. MetBy(spec[1], m, Dep.min)
      BY <1>1, <1>3, <1>5, MetSame DEF HeadMet, Asks
    <2>4. MetBy(DepSpec[1], graph[DepSpec], Dep.min)'
      BY <1>8, <2>1, <2>2, <2>3
    <2>5. Holding(Dep.features, frame.spec[2]) \subseteq m.requested \cup Holding(wanted', frame.spec[2])
      BY <1>1, <1>3, <1>5, <1>7 DEF HeadMet
    <2>6. (Holding(Dep.features, frame.spec[2]) \subseteq graph[DepSpec].requested \cup Holding(wanted, frame.spec[2]))'
      BY <1>3, <1>8, <2>2, <2>5
    <2> QED
      BY <2>4, <2>6 DEF HeadMet
  <1>11. Keeps
    BY <1>3, <1>5, ExtendsKeepsStack, KeepsFrame
  <1> QED
    BY <1>3, <1>5, <1>6, <1>9, <1>10, <1>11, ExtendsStep

LEMMA RequireDefaultsWork == GraphInv /\ WorkShape /\ HeadMet /\ RequireDefaults => Step
  <1> SUFFICES ASSUME GraphInv, WorkShape, HeadMet, RequireDefaults PROVE Step
    OBVIOUS
  <1>1. PICK spec : spec = DepSpec
    OBVIOUS
  <1>2. PICK s : s = frame.spec
    OBVIOUS
  <1>3. PICK h : h = Dep
    OBVIOUS
  <1>4. /\ \E m, q : /\ Extends(spec, m, q) /\ Asks(spec, m, q)
                     /\ m.requested = graph[spec].requested /\ m.defaults = (graph[spec].defaults \/ Dep.defaults)
        /\ spec \in DOMAIN graph /\ met /\ wanted = <<>> /\ pc = "resolve"
        /\ met' = FALSE /\ frame' = [frame EXCEPT !.deps = Tail(@)]
        /\ UNCHANGED <<world, pc, outcome, failed, wanted>>
    BY <1>1, RequireDefaultsFacts
  <1>5. PICK m : \E q : /\ Extends(spec, m, q) /\ Asks(spec, m, q)
                        /\ m.requested = graph[spec].requested /\ m.defaults = (graph[spec].defaults \/ Dep.defaults)
    BY <1>4
  <1>6. PICK q : /\ Extends(spec, m, q) /\ Asks(spec, m, q)
                 /\ m.requested = graph[spec].requested /\ m.defaults = (graph[spec].defaults \/ Dep.defaults)
    BY <1>5
  <1>7. wanted \in Seq(FeatureRef) /\ frame \in FrameIn(DOMAIN graph \cup {TopLevel}) /\ frame.deps # <<>>
    BY <1>4 DEF WorkShape, WantedShape, FrameShape
  <1>8. /\ frame' \in FrameIn(DOMAIN graph \cup {TopLevel}) /\ frame'.spec = frame.spec
        /\ \A k \in 1 .. Len(frame'.deps) : \E j \in 1 .. Len(frame.deps) : frame'.deps[k] = frame.deps[j]
    BY <1>4, <1>7, TailFrame
  <1>9. WantedShape' /\ HeadMet'
    BY <1>4, <1>7 DEF WantedShape, HeadMet
  <1>10. Followed(s, h)'
    <2>1. SpecOf(h, s) = spec
      BY <1>1, <1>2, <1>3 DEF DepSpec
    <2>2. graph'[spec] = m /\ spec \in DOMAIN graph'
      BY <1>6 DEF Extends
    <2>3. MetBy(spec[1], m, h.min)
      BY <1>1, <1>3, <1>4, <1>6, MetSame DEF HeadMet, Asks
    <2>4. \A name, n, min : MetBy(name, n, min)' = MetBy(name, n, min)
      BY <1>4, WorldFacts
    <2>5. Holding(h.features, s[2]) \subseteq m.requested
      BY <1>1, <1>2, <1>3, <1>4, <1>6, HoldingNothing DEF HeadMet
    <2>6. h.defaults => m.defaults
      BY <1>3, <1>6
    <2>7. SpecOf(h, s)' = SpecOf(h, s)
      BY DEF SpecOf
    <2>8. Granted(s, h)'
      BY <2>1, <2>2, <2>3, <2>4, <2>5, <2>6, <2>7 DEF Granted
    <2> QED
      BY <2>8 DEF Followed
  <1>11. Keeps
    BY <1>2, <1>3, <1>4, <1>6, <1>7, <1>10, ExtendsKeepsStack, KeepsTail
  <1> QED
    BY <1>4, <1>6, <1>8, <1>9, <1>11, ExtendsStep

LEMMA WorkStep == GraphInv /\ WorkShape /\ HeadMet /\ [NextVersioned]_versionedVars => Step
  <1> SUFFICES ASSUME GraphInv, WorkShape, HeadMet, [NextVersioned]_versionedVars PROVE Step
    OBVIOUS
  <1>1. CASE PopFrame
    BY <1>1, PopFrameStep
  <1>2. CASE SkipDependency
    BY <1>2, SkipDependencyStep
  <1>3. CASE FailPackage
    BY <1>3, FailPackageStep
  <1>4. CASE RequireDependency
    BY <1>4, RequireDependencyWork
  <1>5. CASE SkipFeature
    BY <1>5, SkipFeatureStep
  <1>6. CASE RequireFeature
    BY <1>6, RequireFeatureWork
  <1>7. CASE RequireDefaults
    BY <1>7, RequireDefaultsWork
  <1>8. CASE Resolved
    <2>1. UNCHANGED <<world, resolverVars>> /\ UNCHANGED <<failed, frame, stack, met>>
      BY <1>8 DEF Resolved, resolverVars
    <2>2. /\ pc' \in {"extract", "done"} /\ (pc' = "extract" => failed = {}) /\ outcome' # "plan"
          /\ frame.deps = <<>> /\ stack = <<>>
      BY <1>8 DEF Resolved
    <2>3. EndShape'
      BY <2>1, <2>2 DEF EndShape, WorkShape, WantedShape
    <2> QED
      BY <2>1, <2>3, QuietStep
  <1>9. CASE WalkRoot \/ WalkDependency \/ Emit \/ Finish
    <2>1. UNCHANGED <<world, resolverVars>> /\ UNCHANGED <<failed, frame, stack, met>> /\ pc = "extract"
      BY <1>9 DEF WalkRoot, WalkDependency, Emit, Finish, Extracting, resolverVars
    <2>2. pc' \in {"extract", "done"}
      BY <1>9, <2>1 DEF WalkRoot, WalkDependency, Emit, Finish, Push
    <2>3. EndShape'
      BY <2>1, <2>2 DEF EndShape, WorkShape
    <2> QED
      BY <2>1, <2>3, QuietStep
  <1>10. CASE UNCHANGED versionedVars
    <2>1. UNCHANGED <<world, resolverVars>> /\ UNCHANGED <<failed, frame, stack, met, pc, outcome>>
      BY <1>10 DEF versionedVars, resolverVars
    <2>2. EndShape'
      BY <2>1 DEF EndShape, WorkShape
    <2> QED
      BY <2>1, <2>2, QuietStep
  <1> QED
    BY <1>1, <1>2, <1>3, <1>4, <1>5, <1>6, <1>7, <1>8, <1>9, <1>10 DEF NextVersioned

(***************************************************************************)
(* The dependencies of the manifest and of the selected versions.          *)
(***************************************************************************)
WorkInv == WorkShape /\ HeadMet /\ Covered(TopLevel, Manifest.depends)

LEMMA InitWork == InitVersioned => WorkInv
  <1> SUFFICES ASSUME InitVersioned PROVE WorkInv
    OBVIOUS
  <1>1. /\ world \in DOMAIN Manifests /\ pc = "resolve" /\ outcome = "none" /\ graph = [s \in {} |-> None]
        /\ failed = {} /\ stack = <<>> /\ frame = [spec |-> TopLevel, deps |-> Manifest.depends]
        /\ wanted = <<>> /\ met = FALSE
    BY DEF InitVersioned
  <1>2. Manifest.depends \in Seq(Dependency)
    BY <1>1, CallFacts
  <1>3. frame.spec = TopLevel /\ frame.deps = Manifest.depends /\ frame \in FrameIn(DOMAIN graph \cup {TopLevel})
    BY <1>1, <1>2 DEF FrameIn
  <1>a. DOMAIN graph = {} /\ stack \in Seq(FrameIn(DOMAIN graph)) /\ wanted \in Seq(FeatureRef)
    BY <1>1
  <1>b. FrameShape
    BY <1>3, <1>a DEF FrameShape
  <1>c. WantedShape /\ EndShape
    BY <1>1, <1>a DEF WantedShape, EndShape
  <1>4. WorkShape
    BY <1>1, <1>a, <1>b, <1>c DEF WorkShape
  <1>5. Covered(TopLevel, Manifest.depends)
    BY <1>3 DEF Covered, Pending, InFrame
  <1> QED
    BY <1>1, <1>4, <1>5 DEF WorkInv, HeadMet

LEMMA WorkInvStep == GraphInv /\ GraphInv' /\ WorkInv /\ [NextVersioned]_versionedVars => WorkInv'
  <1> SUFFICES ASSUME GraphInv, GraphInv', WorkInv, [NextVersioned]_versionedVars PROVE WorkInv'
    OBVIOUS
  <1>1. Step
    BY WorkStep DEF WorkInv
  <1>2. Manifest' = Manifest /\ TopLevel' = TopLevel
    BY <1>1, WorldFacts DEF Step, Grows
  <1>3. PICK spec : spec = TopLevel
    OBVIOUS
  <1>4. PICK deps : deps = Manifest.depends
    OBVIOUS
  <1>5. \A s \in DOMAIN graph : s \in Spec
    BY DEF WorkInv, WorkShape, NodeShape
  <1>6. Covered(spec, deps)'
    BY <1>1, <1>3, <1>4, <1>5, CoveredStays DEF Step, WorkInv
  <1> QED
    BY <1>1, <1>2, <1>3, <1>4, <1>6 DEF Step, WorkInv

LEMMA PushedCovers ==
    ASSUME NEW spec, NEW v, NEW f, Pushed(stack', spec, v, f), NEW deps, deps = PortOf(spec[1], v).needs[f]
    PROVE  Covered(spec, deps)'
  <1>1. PICK i \in 1 .. Len(stack') : stack'[i] = FrameOf(spec, v, f)
    BY DEF Pushed
  <1>2. stack'[i].spec = spec /\ stack'[i].deps = deps
    BY <1>1 DEF FrameOf
  <1> QED
    BY <1>2 DEF Covered, Pending, InFrame

LEMMA StackPushed ==
    ASSUME GraphInv, WorkShape, NEW spec, NEW m, NEW q, Extends(spec, m, q), NEW v, NEW f, Pushed(q, spec, v, f)
    PROVE  Pushed(stack', spec, v, f)
  <1>1. stack \in Seq(FrameIn(DOMAIN graph')) /\ q \in Seq(FrameIn(DOMAIN graph'))
    BY ExtendsFacts DEF GraphInv
  <1> QED
    BY <1>1, PushedConcat DEF Extends

\* No package has been asked for a feature that its best version does not have.
NothingDropped ==
    \A s \in DOMAIN graph : Required(s, graph[s], graph[s].scfl) \subseteq FeaturesOf(s, graph[s].scfl)

\* What the selected versions depend on is followed or pending.
BestCovered ==
    \A s \in DOMAIN graph : \A f \in AllFeatures(s) : Covered(s, PortOf(s[1], graph[s].scfl).needs[f])

LEMMA BestStays ==
    ASSUME GraphInv, GraphInv', WorkShape, BestCovered, Grows, Keeps,
           \A s \in DOMAIN graph' :
               \A f \in Required(s, graph'[s], graph'[s].scfl) \cap FeaturesOf(s, graph'[s].scfl) :
                   \/ s \in DOMAIN graph /\ graph'[s].scfl = graph[s].scfl /\ f \in AllFeatures(s)
                   \/ Pushed(stack', s, graph'[s].scfl, f)
    PROVE  BestCovered'
  <1>1. /\ \A s, n, v : Required(s, n, v)' = Required(s, n, v)
        /\ \A s, v : FeaturesOf(s, v)' = FeaturesOf(s, v)
        /\ \A name, v : PortOf(name, v)' = PortOf(name, v)
    BY WorldFacts DEF Grows
  <1>2. \A s : AllFeatures(s)' = Required(s, graph'[s], graph'[s].scfl) \cap FeaturesOf(s, graph'[s].scfl)
    BY <1>1 DEF AllFeatures
  <1>3. \A s \in DOMAIN graph : s \in Spec
    BY DEF WorkShape, NodeShape
  <1>4. ASSUME NEW s \in DOMAIN graph', NEW f \in AllFeatures(s)'
        PROVE  Covered(s, PortOf(s[1], graph[s].scfl).needs[f])'
    <2>1. PICK v : v = graph'[s].scfl
      OBVIOUS
    <2>2. PICK deps : deps = PortOf(s[1], v).needs[f]
      OBVIOUS
    <2>3. (PortOf(s[1], graph[s].scfl).needs[f])' = deps
      BY <1>1, <2>1, <2>2
    <2>4. Covered(s, deps)'
      <3>1. CASE s \in DOMAIN graph /\ v = graph[s].scfl /\ f \in AllFeatures(s)
        <4>1. Covered(s, deps)
          BY <2>2, <3>1 DEF BestCovered
        <4> QED
          BY <1>3, <4>1, CoveredStays
      <3>2. CASE Pushed(stack', s, v, f)
        BY <2>2, <3>2, PushedCovers
      <3> QED
        BY <1>2, <1>4, <2>1, <3>1, <3>2
    <2> QED
      BY <2>3, <2>4
  <1>5. \A s \in DOMAIN graph' : \A f \in AllFeatures(s)' : Covered(s, PortOf(s[1], graph[s].scfl).needs[f])'
    BY <1>4
  <1> QED
    BY <1>5 DEF BestCovered

LEMMA StepKinds ==
    ASSUME GraphInv, WorkShape, [NextVersioned]_versionedVars
    PROVE  \/ UNCHANGED <<world, graph>>
           \/ \E spec, m, q : Extends(spec, m, q) /\ Asks(spec, m, q)
           \/ \E spec, min, m, q : Extends(spec, m, q) /\ Requires(spec, min, m, q)
  <1>1. PICK spec : spec = DepSpec
    OBVIOUS
  <1>2. CASE RequireDependency
    BY <1>1, <1>2, RequireDependencyFacts
  <1>3. CASE RequireFeature
    <2>1. PICK f : f = Head(wanted).name
      OBVIOUS
    <2> QED
      BY <1>1, <1>3, <2>1, RequireFeatureFacts
  <1>4. CASE RequireDefaults
    BY <1>1, <1>4, RequireDefaultsFacts
  <1>5. CASE PopFrame \/ SkipDependency \/ FailPackage \/ SkipFeature
    BY <1>5 DEF PopFrame, SkipDependency, FailPackage, SkipFeature, Resolving
  <1>6. CASE Resolved \/ WalkRoot \/ WalkDependency \/ Emit \/ Finish \/ UNCHANGED versionedVars
    BY <1>6 DEF Resolved, WalkRoot, WalkDependency, Emit, Finish, Extracting, resolverVars, versionedVars
  <1> QED
    BY <1>2, <1>3, <1>4, <1>5, <1>6 DEF NextVersioned

LEMMA BestStep ==
    GraphInv /\ GraphInv' /\ WorkInv /\ BestCovered /\ NothingDropped' /\ [NextVersioned]_versionedVars => BestCovered'
  <1> SUFFICES ASSUME GraphInv, GraphInv', WorkInv, BestCovered, NothingDropped', [NextVersioned]_versionedVars
               PROVE  BestCovered'
    OBVIOUS
  <1>1. WorkShape /\ Grows /\ Keeps /\ UNCHANGED world
    BY WorkStep DEF WorkInv, Step, Grows
  <1> DEFINE Sound(s) == \A f \in Required(s, graph'[s], graph'[s].scfl) \cap FeaturesOf(s, graph'[s].scfl) :
                             \/ s \in DOMAIN graph /\ graph'[s].scfl = graph[s].scfl /\ f \in AllFeatures(s)
                             \/ Pushed(stack', s, graph'[s].scfl, f)
  <1>2. ASSUME NEW s \in DOMAIN graph, graph'[s] = graph[s] PROVE Sound(s)
    BY <1>2 DEF AllFeatures
  <1>3. CASE UNCHANGED <<world, graph>>
    <2>1. \A s \in DOMAIN graph' : Sound(s)
      BY <1>2, <1>3
    <2> QED
      BY <1>1, <2>1, BestStays
  <1>4. ASSUME NEW spec, NEW m, NEW q, Extends(spec, m, q), Sound(spec)
        PROVE  BestCovered'
    <2>1. \A s \in DOMAIN graph' : s = spec \/ (s \in DOMAIN graph /\ graph'[s] = graph[s])
      BY <1>4 DEF Extends
    <2>2. \A s \in DOMAIN graph' : Sound(s)
      BY <1>2, <1>4, <2>1
    <2> QED
      BY <1>1, <2>2, BestStays
  <1>5. ASSUME NEW spec, NEW m, NEW q, Extends(spec, m, q), Asks(spec, m, q)
        PROVE  Sound(spec)
    <2>1. graph'[spec] = m /\ spec \in DOMAIN graph /\ m.scfl = graph[spec].scfl /\ m.scfl \in m.considered
      BY <1>5 DEF Extends, Asks, NodeIn
    <2>2. ASSUME NEW f \in Required(spec, m, m.scfl) \cap FeaturesOf(spec, m.scfl)
          PROVE  f \in AllFeatures(spec) \/ Pushed(stack', spec, m.scfl, f)
      <3>1. f \in Required(spec, graph[spec], m.scfl) \/ Pushed(q, spec, m.scfl, f)
        BY <1>5, <2>1 DEF Asks
      <3>2. CASE f \in Required(spec, graph[spec], m.scfl)
        BY <2>1, <3>2 DEF AllFeatures
      <3>3. CASE Pushed(q, spec, m.scfl, f)
        BY <1>1, <1>5, <3>3, StackPushed
      <3> QED
        BY <3>1, <3>2, <3>3
    <2> QED
      BY <2>1, <2>2
  <1>6. ASSUME NEW spec, NEW min, NEW m, NEW q, Extends(spec, m, q), Requires(spec, min, m, q)
        PROVE  Sound(spec)
    <2>1. graph'[spec] = m /\ spec \in DOMAIN graph'
      BY <1>6 DEF Extends
    <2>2. Required(spec, m, m.scfl) \subseteq FeaturesOf(spec, m.scfl)
      <3>1. /\ \A s, n, v : Required(s, n, v)' = Required(s, n, v)
            /\ \A s, v : FeaturesOf(s, v)' = FeaturesOf(s, v)
        BY <1>1, WorldFacts
      <3> QED
        BY <2>1, <3>1 DEF NothingDropped
    <2>3. ASSUME NEW f \in Required(spec, m, m.scfl), ~ (spec \in DOMAIN graph /\ m.scfl = graph[spec].scfl)
          PROVE  Pushed(stack', spec, m.scfl, f)
      <3>1. PushesRequired(q, spec, m, m.scfl)
        BY <1>6, <2>3 DEF Requires
      <3>2. Pushed(q, spec, m.scfl, f)
        BY <2>2, <2>3, <3>1 DEF PushesRequired
      <3> QED
        BY <1>1, <1>6, <3>2, StackPushed
    <2>4. ASSUME NEW f \in Required(spec, m, m.scfl), spec \in DOMAIN graph, m.scfl = graph[spec].scfl
          PROVE  f \in AllFeatures(spec)
      <3>1. m.requested = graph[spec].requested /\ m.defaults = graph[spec].defaults
        BY <1>6, <2>4 DEF Requires
      <3>2. Required(spec, m, m.scfl) = Required(spec, graph[spec], m.scfl)
        BY <3>1 DEF Required
      <3> QED
        BY <2>2, <2>4, <3>2 DEF AllFeatures
    <2> QED
      BY <2>1, <2>3, <2>4
  <1> HIDE DEF Sound
  <1> QED
    BY <1>1, <1>3, <1>4, <1>5, <1>6, StepKinds

(***************************************************************************)
(* What phase 2 finds.                                                     *)
(***************************************************************************)
\* The dependencies that the manifest and the ports declare.
CallDependencies ==
    {d \in Dependency :
        \/ \E i \in 1 .. Len(Manifest.depends) : Manifest.depends[i] = d
        \/ \E name \in Port : \E v \in Version \cup {Overlay} :
              /\ Exists(name, v)
              /\ \E f \in DOMAIN PortOf(name, v).needs : \E k \in 1 .. Len(PortOf(name, v).needs[f]) :
                    PortOf(name, v).needs[f][k] = d}

\* Every minimum version is a version of its port.
MinimumsExist == \A d \in CallDependencies : d.min = None \/ Pinned(d.name) \/ Has(d.name, d.min)

LEMMA Settled ==
    ASSUME GraphInv, WorkInv, pc = "extract" \/ outcome = "plan", NEW spec, NEW deps, Covered(spec, deps),
           NEW k \in 1 .. Len(deps), spec[2] \in deps[k].on
    PROVE  Granted(spec, deps[k])
  <1>1. frame.deps = <<>> /\ stack = <<>> /\ failed = {}
    BY DEF WorkInv, WorkShape, EndShape
  <1>2. ~ Pending(spec, deps[k])
    BY <1>1 DEF Pending, InFrame
  <1> QED
    BY <1>1, <1>2 DEF Covered, Followed

LEMMA NeedFacts ==
    ASSUME GraphInv, WorkInv, BestCovered, pc = "extract" \/ outcome = "plan", NEW s \in DOMAIN graph,
           NEW f \in AllFeatures(s), NEW d \in Needs(s, f)
    PROVE  Granted(s, d) /\ d \in CallDependencies /\ d.name \in Port /\ d.features \in Seq(FeatureRef)
  <1> DEFINE v == graph[s].scfl
             deps == PortOf(s[1], v).needs[f]
  <1>1. PICK k \in 1 .. Len(deps) : deps[k] = d /\ s[2] \in d.on
    BY DEF Needs
  <1>2. world \in DOMAIN Manifests /\ s \in Spec /\ s[1] \in Port /\ Exists(s[1], v)
    BY DEF GraphInv, WorkInv, WorkShape, NodeShape, NodeIn
  <1>3. f \in FeaturesOf(s, v) /\ f \in DOMAIN PortOf(s[1], v).needs
    BY DEF AllFeatures, FeaturesOf
  <1>4. Covered(s, deps)
    BY DEF BestCovered
  <1>5. deps \in Seq(Dependency)
    BY <1>2, <1>3, FeaturesFacts
  <1>6. v \in Version \cup {Overlay}
    BY <1>2, PortFacts
  <1> HIDE DEF v
  <1>7. d \in Dependency
    BY <1>1, <1>5
  <1>8. d \in CallDependencies
    BY <1>1, <1>2, <1>3, <1>6, <1>7 DEF CallDependencies
  <1> HIDE DEF deps
  <1>9. Granted(s, deps[k])
    BY <1>1, <1>4, Settled
  <1> QED
    BY <1>1, <1>7, <1>8, <1>9 DEF Dependency

LEMMA DepSpecFacts ==
    ASSUME GraphInv, WorkInv, BestCovered, pc = "extract" \/ outcome = "plan", NEW s \in DOMAIN graph, NEW need \in DepSpecs(s)
    PROVE  need.spec = SpecOf(need.dep, s) /\ Granted(s, need.dep) /\ need.dep \in CallDependencies
  <1>1. PICK f \in AllFeatures(s) : need \in {[spec |-> SpecOf(d, s), dep |-> d] : d \in Needs(s, f)}
    BY DEF DepSpecs
  <1>2. PICK d \in Needs(s, f) : need = [spec |-> SpecOf(d, s), dep |-> d]
    BY <1>1
  <1>3. need.dep = d /\ need.spec = SpecOf(d, s)
    BY <1>2
  <1>4. Granted(s, d) /\ d \in CallDependencies
    BY NeedFacts
  <1> QED
    BY <1>3, <1>4

LEMMA RootFacts ==
    ASSUME GraphInv, WorkInv, pc = "extract" \/ outcome = "plan", NEW root \in Roots
    PROVE  root.spec = SpecOf(root.dep, TopLevel) /\ Granted(TopLevel, root.dep) /\ root.dep \in CallDependencies
  <1>1. PICK k \in 1 .. Len(Manifest.depends) :
            Manifest.triplet \in Manifest.depends[k].on
            /\ root = [spec |-> SpecOf(Manifest.depends[k], TopLevel), dep |-> Manifest.depends[k]]
    BY DEF Roots
  <1>2. Manifest.depends \in Seq(Dependency)
    BY CallFacts DEF GraphInv
  <1>3. Manifest.depends[k] \in Dependency
    BY <1>2
  <1>4. Manifest.depends[k] \in CallDependencies
    BY <1>3 DEF CallDependencies
  <1>5. TopLevel[2] = Manifest.triplet
    BY DEF TopLevel
  <1>6. Granted(TopLevel, Manifest.depends[k])
    BY <1>1, <1>5, Settled DEF WorkInv
  <1> QED
    BY <1>1, <1>4, <1>6

\* No assertion of push fails for a dependency that phase 1 has followed.
LEMMA VerdictIsReal ==
    ASSUME MinimumsExist, NEW spec, NEW need, need.spec = SpecOf(need.dep, spec), Granted(spec, need.dep),
           need.dep \in CallDependencies
    PROVE  Verdict(need) # "internal error"
  <1> DEFINE t == need.spec
             min == need.dep.min
  <1>1. t \in DOMAIN graph /\ MetBy(t[1], graph[t], min) /\ t[1] = need.dep.name
    BY DEF Granted, SpecOf
  <1>2. min = None \/ Pinned(t[1]) \/ Has(t[1], min)
    BY <1>1 DEF MinimumsExist
  <1>3. min # None /\ ~ Pinned(t[1]) => CompareVersions(graph[t].scfl, min) # "lt"
    BY <1>1, <1>2 DEF MetBy
  <1> QED
    BY <1>1, <1>2, <1>3 DEF Verdict

Real == outcome # "internal error" /\ roots \subseteq Roots

LEMMA RealStep ==
    GraphInv /\ WalkInv /\ ChainInv /\ WorkInv /\ BestCovered /\ MinimumsExist /\ Real /\ [NextVersioned]_versionedVars => Real'
  <1> SUFFICES ASSUME GraphInv, WalkInv, ChainInv, WorkInv, BestCovered, MinimumsExist, Real,
                      [NextVersioned]_versionedVars
               PROVE  Real'
    OBVIOUS
  <1>1. UNCHANGED world
    BY WorkStep DEF WorkInv, Step, Grows
  <1>2. Roots' = Roots
    BY <1>1, WorldFacts
  <1>3. CASE PopFrame \/ SkipDependency \/ FailPackage \/ RequireDependency \/ SkipFeature \/ RequireFeature \/ RequireDefaults
    BY <1>2, <1>3 DEF PopFrame, SkipDependency, FailPackage, RequireDependency, SkipFeature, RequireFeature,
                      RequireDefaults, Resolving, Real, extractVars
  <1>4. CASE Resolved \/ UNCHANGED versionedVars
    BY <1>2, <1>4 DEF Resolved, versionedVars, Real, extractVars
  <1>5. CASE WalkRoot
    <2>1. PICK root \in roots : Push(root, <<>>) /\ roots' = roots \ {root}
      BY <1>5 DEF WalkRoot
    <2>2. pc = "extract"
      BY <1>5 DEF WalkRoot, Extracting
    <2>3. Verdict(root) # "internal error"
      BY <2>1, <2>2, RootFacts, VerdictIsReal DEF Real
    <2>4. outcome' = "none" \/ outcome' = Verdict(root)
      BY <2>1 DEF Push
    <2> QED
      BY <1>2, <2>1, <2>3, <2>4 DEF Real
  <1>6. CASE WalkDependency
    <2>1. PICK need \in Last(walk).left : Push(need, [walk EXCEPT ![Len(walk)].left = @ \ {need}])
      BY <1>6 DEF WalkDependency
    <2>2. pc = "extract" /\ walk # <<>> /\ UNCHANGED roots
      BY <1>6 DEF WalkDependency, Extracting
    <2>3. walk \in Seq(WalkFrames)
      BY DEF WalkInv, WalkShape
    <2>4. Last(walk) = walk[Len(walk)] /\ Len(walk) \in 1 .. Len(walk)
      BY <2>2, <2>3 DEF Last
    <2>5. PICK s : s = Last(walk).spec
      OBVIOUS
    <2>6. Last(walk) \in WalkFrames
      BY <2>3, <2>4
    <2>7. s \in DOMAIN graph
      BY <2>5, <2>6 DEF WalkFrames
    <2>8. need \in DepSpecs(s)
      BY <2>1, <2>2, <2>4, <2>5 DEF ChainInv
    <2>9. Verdict(need) # "internal error"
      BY <2>2, <2>7, <2>8, DepSpecFacts, VerdictIsReal
    <2>10. outcome' = "none" \/ outcome' = Verdict(need)
      BY <2>1 DEF Push
    <2> QED
      BY <1>2, <2>2, <2>9, <2>10 DEF Real
  <1>7. CASE Emit
    BY <1>2, <1>7 DEF Emit, Real
  <1>8. CASE Finish
    BY <1>2, <1>8 DEF Finish, Real, extractVars
  <1> QED
    BY <1>3, <1>4, <1>5, <1>6, <1>7, <1>8 DEF NextVersioned

\* A platform lets the features asked of a host dependency through for the host only if it does so for the package
\* that has the dependency.
HostFeaturesAgree ==
    \A d \in CallDependencies :
        d.host => \A triplet \in d.on : Holding(d.features, HostTriplet) \subseteq Holding(d.features, triplet)

LEMMA CallStays ==
    ASSUME UNCHANGED world
    PROVE  CallDependencies' = CallDependencies
  <1>1. /\ Manifest' = Manifest
        /\ \A name, v : Exists(name, v)' = Exists(name, v) /\ PortOf(name, v)' = PortOf(name, v)
    BY WorldFacts
  <1>2. ASSUME NEW d PROVE d \in CallDependencies' <=> d \in CallDependencies
    BY <1>1 DEF CallDependencies
  <1> QED
    BY <1>2

LEMMA MinimumsStay == MinimumsExist /\ UNCHANGED world => MinimumsExist'
  <1> SUFFICES ASSUME MinimumsExist, UNCHANGED world PROVE MinimumsExist'
    OBVIOUS
  <1>1. CallDependencies' = CallDependencies
    BY CallStays
  <1>2. /\ \A name : Pinned(name)' = Pinned(name)
        /\ \A name, v : Has(name, v)' = Has(name, v)
    BY WorldFacts
  <1> QED
    BY <1>1, <1>2 DEF MinimumsExist

LEMMA HostStays == HostFeaturesAgree /\ UNCHANGED world => HostFeaturesAgree'
  BY CallStays DEF HostFeaturesAgree

\* A package of the plan has the features required of it.
LEMMA PlannedFeatures ==
    ASSUME GraphInv, WalkInv, WorkInv, NothingDropped, NEW j \in 1 .. Len(plan), NEW t, t = plan[j].spec,
           NEW f, f = Core \/ f \in graph[t].requested
    PROVE  f \in DOMAIN plan[j].needs
  <1>1. plan \in Seq(PlanActions)
    BY DEF WalkInv, WalkShape
  <1>2. plan[j] \in PlanActions
    BY <1>1
  <1>3. PICK s \in DOMAIN graph : plan[j] = Planned(s)
    BY <1>2 DEF PlanActions
  <1>4. s = t /\ plan[j].needs = FeatureDependencies(s)
    BY <1>3 DEF Planned
  <1>5. DOMAIN plan[j].needs = AllFeatures(t)
    BY <1>4 DEF FeatureDependencies
  <1>6. NodeIn(t, graph[t]) /\ t \in DOMAIN graph
    BY <1>3, <1>4 DEF WorkInv, WorkShape, NodeShape
  <1>7. f \in Required(t, graph[t], graph[t].scfl)
    BY <1>6 DEF NodeIn, Required
  <1>8. f \in FeaturesOf(t, graph[t].scfl)
    BY <1>6, <1>7 DEF NothingDropped
  <1> QED
    BY <1>5, <1>7, <1>8 DEF AllFeatures

LEMMA FeaturesProvided ==
    GraphInv /\ WalkInv /\ WorkInv /\ BestCovered /\ NothingDropped /\ HostFeaturesAgree /\ PlanInOrder => PlanHasFeatures
  <1> SUFFICES ASSUME GraphInv, WalkInv, WorkInv, BestCovered, NothingDropped, HostFeaturesAgree, PlanInOrder,
                      outcome = "plan"
               PROVE  /\ \A i \in 1 .. Len(plan) : \A f \in DOMAIN plan[i].needs : \A need \in plan[i].needs[f] :
                            \E j \in 1 .. i - 1 : plan[j].spec = need[1] /\ need[2] \in DOMAIN plan[j].needs
                      /\ \A root \in Roots : \A f \in {Core} \cup Holding(root.dep.features, Manifest.triplet) :
                            \E j \in 1 .. Len(plan) + 1 - 1 :
                                plan[j].spec = <<root.spec, f>>[1] /\ <<root.spec, f>>[2] \in DOMAIN plan[j].needs
    BY DEF PlanHasFeatures
  <1>1. plan \in Seq(PlanActions)
    BY DEF WalkInv, WalkShape
  <1>2. ASSUME NEW i \in 1 .. Len(plan), NEW f \in DOMAIN plan[i].needs, NEW need \in plan[i].needs[f]
        PROVE  \E j \in 1 .. i - 1 : plan[j].spec = need[1] /\ need[2] \in DOMAIN plan[j].needs
    <2>1. plan[i] \in PlanActions
      BY <1>1
    <2>2. PICK s \in DOMAIN graph : plan[i] = Planned(s)
      BY <2>1 DEF PlanActions
    <2>3. plan[i].spec = s /\ plan[i].needs = FeatureDependencies(s)
      BY <2>2 DEF Planned
    <2>4. f \in AllFeatures(s)
      BY <1>2, <2>3 DEF FeatureDependencies
    <2>5. need \in UNION {{<<SpecOf(d, s), g>> : g \in {Core} \cup Holding(d.features, SpecOf(d, s)[2])} : d \in Needs(s, f)}
      BY <1>2, <2>3, <2>4 DEF FeatureDependencies
    <2>6. PICK d \in Needs(s, f) : need \in {<<SpecOf(d, s), g>> : g \in {Core} \cup Holding(d.features, SpecOf(d, s)[2])}
      BY <2>5
    <2>7. PICK g \in {Core} \cup Holding(d.features, SpecOf(d, s)[2]) : need = <<SpecOf(d, s), g>>
      BY <2>6
    <2>8. Granted(s, d) /\ d \in CallDependencies
      BY <2>4, NeedFacts
    <2>9. [spec |-> SpecOf(d, s), dep |-> d] \in DepSpecs(s)
      BY <2>4 DEF DepSpecs
    <2>10. PICK j \in 1 .. i - 1 : plan[j].spec = SpecOf(d, s)
      BY <2>3, <2>9 DEF PlanInOrder, Provided
    <2>11. j \in 1 .. Len(plan)
      BY <1>1
    <2>12. g = Core \/ g \in Holding(d.features, s[2])
      <3>1. CASE d.host
        BY <2>7, <2>8, <3>1 DEF HostFeaturesAgree, SpecOf, Needs
      <3>2. CASE ~ d.host
        BY <2>7, <3>2 DEF SpecOf
      <3> QED
        BY <3>1, <3>2
    <2>13. g = Core \/ g \in graph[SpecOf(d, s)].requested
      BY <2>8, <2>12 DEF Granted
    <2>14. g \in DOMAIN plan[j].needs
      BY <2>10, <2>11, <2>13, PlannedFeatures
    <2> QED
      BY <2>7, <2>10, <2>14
  <1>3. ASSUME NEW root \in Roots, NEW f \in {Core} \cup Holding(root.dep.features, Manifest.triplet)
        PROVE  \E j \in 1 .. Len(plan) + 1 - 1 :
                   plan[j].spec = <<root.spec, f>>[1] /\ <<root.spec, f>>[2] \in DOMAIN plan[j].needs
    <2>1. PICK j \in 1 .. Len(plan) + 1 - 1 : plan[j].spec = root.spec
      BY DEF PlanInOrder, Provided
    <2>2. j \in 1 .. Len(plan)
      BY <1>1
    <2>3. root.spec = SpecOf(root.dep, TopLevel) /\ Granted(TopLevel, root.dep)
      BY RootFacts
    <2>4. f = Core \/ f \in graph[root.spec].requested
      BY <1>3, <2>3 DEF Granted, TopLevel
    <2>5. f \in DOMAIN plan[j].needs
      BY <2>1, <2>2, <2>4, PlannedFeatures
    <2> QED
      BY <2>1, <2>5
  <1> QED
    BY <1>2, <1>3

LEMMA InitBest == InitVersioned => BestCovered /\ Real
  <1> SUFFICES ASSUME InitVersioned PROVE BestCovered /\ Real
    OBVIOUS
  <1>1. DOMAIN graph = {} /\ outcome = "none" /\ roots = Roots
    BY DEF InitVersioned
  <1> QED
    BY <1>1 DEF BestCovered, Real

\* Phase 1 has met whatever phase 2 asks for and the errors of phase 2 are about the ports, for all ports,
\* manifests and orders in which every minimum version is one of its port, unless a package is asked for a
\* feature that its best version does not have, which makes require_scfl drop others (dependencies.cpp:1626-1658
\* and 1893-1988).
THEOREM ErrorsAreRealHolds == Versioned /\ MinimumsExist /\ []NothingDropped => []ErrorsAreReal
  <1> DEFINE Inv == GraphInv /\ WalkInv /\ ChainInv /\ WorkInv /\ BestCovered /\ MinimumsExist /\ Real
  <1>1. InitVersioned /\ MinimumsExist => Inv
    <2>1. InitVersioned => ChainInv
      BY DEF InitVersioned, ChainInv, CycleIsReal
    <2> QED
      BY <2>1, InitGraph, InitWalk, InitWork, InitBest
  <1>2. Inv /\ NothingDropped' /\ [NextVersioned]_versionedVars => Inv'
    <2> SUFFICES ASSUME Inv, NothingDropped', [NextVersioned]_versionedVars PROVE Inv'
      OBVIOUS
    <2>1. GraphInv' /\ WalkInv' /\ ChainInv'
      BY GraphStep, WalkStep, ChainStep
    <2>2. WorkInv' /\ BestCovered' /\ Real'
      BY <2>1, WorkInvStep, BestStep, RealStep
    <2>3. UNCHANGED world
      BY WorkStep DEF WorkInv, Step, Grows
    <2>4. MinimumsExist'
      BY <2>3, MinimumsStay
    <2> QED
      BY <2>1, <2>2, <2>4
  <1>3. Inv => ErrorsAreReal
    BY DEF ChainInv, Real, ErrorsAreReal
  <1> QED
    BY <1>1, <1>2, <1>3, PTL DEF Versioned

\* A plan has every feature that a feature of it is built against, before it, and those that the manifest asks for,
\* for all ports, manifests and orders in which the platforms of the features of host dependencies do not depend
\* on who asks, unless a package is asked for a feature that its best version does not have
\* (dependencies.cpp:1373, 1733-1790 and 1893-2021).
THEOREM PlanHasFeaturesHolds == Versioned /\ HostFeaturesAgree /\ []NothingDropped => []PlanHasFeatures
  <1> DEFINE Inv == GraphInv /\ WalkInv /\ WorkInv /\ BestCovered /\ HostFeaturesAgree
  <1>1. InitVersioned /\ HostFeaturesAgree => Inv
    BY InitGraph, InitWalk, InitWork, InitBest
  <1>2. Inv /\ NothingDropped' /\ [NextVersioned]_versionedVars => Inv'
    <2> SUFFICES ASSUME Inv, NothingDropped', [NextVersioned]_versionedVars PROVE Inv'
      OBVIOUS
    <2>1. GraphInv' /\ WalkInv'
      BY GraphStep, WalkStep
    <2>2. WorkInv' /\ BestCovered'
      BY <2>1, WorkInvStep, BestStep
    <2>3. UNCHANGED world
      BY WorkStep DEF WorkInv, Step, Grows
    <2>4. HostFeaturesAgree'
      BY <2>3, HostStays
    <2> QED
      BY <2>1, <2>2, <2>4
  <1>3. Inv /\ NothingDropped /\ PlanInOrder => PlanHasFeatures
    BY FeaturesProvided
  <1>4. Versioned => []PlanInOrder
    BY PlansAreInOrder
  <1> QED
    BY <1>1, <1>2, <1>3, <1>4, PTL DEF Versioned

(***************************************************************************)
(* Where the dependencies come from that phase 1 follows.                  *)
(***************************************************************************)
\* d is a dependency of the manifest, or of a feature that a considered version of spec is to have.
Sourced(spec, d) ==
    \/ spec = TopLevel /\ \E j \in 1 .. Len(Manifest.depends) : Manifest.depends[j] = d
    \/ /\ spec \in DOMAIN graph
       /\ \E v \in graph[spec].considered :
             \E f \in ({Core} \cup Required(spec, graph[spec], v)) \cap FeaturesOf(spec, v) :
                 \E k \in 1 .. Len(PortOf(spec[1], v).needs[f]) : PortOf(spec[1], v).needs[f][k] = d

SourceInv == \A spec, d : Pending(spec, d) => Sourced(spec, d)

LEMMA SourcedStays ==
    ASSUME Grows, NEW spec, NEW d, Sourced(spec, d)
    PROVE  Sourced(spec, d)'
  <1>1. /\ TopLevel' = TopLevel /\ Manifest' = Manifest
        /\ \A s, n, v : Required(s, n, v)' = Required(s, n, v)
        /\ \A s, v : FeaturesOf(s, v)' = FeaturesOf(s, v)
        /\ \A name, v : PortOf(name, v)' = PortOf(name, v)
    BY WorldFacts DEF Grows
  <1>2. CASE spec = TopLevel /\ \E j \in 1 .. Len(Manifest.depends) : Manifest.depends[j] = d
    BY <1>1, <1>2 DEF Sourced
  <1>3. CASE spec \in DOMAIN graph /\ ~ (spec = TopLevel /\ \E j \in 1 .. Len(Manifest.depends) : Manifest.depends[j] = d)
    <2>1. PICK v \in graph[spec].considered :
             \E f \in ({Core} \cup Required(spec, graph[spec], v)) \cap FeaturesOf(spec, v) :
                 \E k \in 1 .. Len(PortOf(spec[1], v).needs[f]) : PortOf(spec[1], v).needs[f][k] = d
      BY <1>3 DEF Sourced
    <2>2. PICK f \in ({Core} \cup Required(spec, graph[spec], v)) \cap FeaturesOf(spec, v) :
                 \E k \in 1 .. Len(PortOf(spec[1], v).needs[f]) : PortOf(spec[1], v).needs[f][k] = d
      BY <2>1
    <2>3. /\ spec \in DOMAIN graph' /\ v \in graph'[spec].considered
          /\ Required(spec, graph[spec], v) \subseteq Required(spec, graph'[spec], v)
      BY <1>3 DEF Grows, Advances, Required
    <2>4. f \in ({Core} \cup Required(spec, graph'[spec], v)) \cap FeaturesOf(spec, v)
      BY <2>2, <2>3
    <2>5. f \in (({Core} \cup Required(spec, graph[spec], v)) \cap FeaturesOf(spec, v))'
      BY <1>1, <2>4
    <2>6. (\E k \in 1 .. Len(PortOf(spec[1], v).needs[f]) : PortOf(spec[1], v).needs[f][k] = d)'
      BY <1>1, <2>2
    <2> QED
      BY <2>3, <2>5, <2>6 DEF Sourced
  <1> QED
    BY <1>2, <1>3 DEF Sourced

LEMMA PushedIsSourced ==
    ASSUME NEW spec, NEW m, NEW q, Extends(spec, m, q), NEW i \in 1 .. Len(q), NEW s, NEW d, InFrame(s, d, q[i])
    PROVE  Sourced(s, d)'
  <1>1. /\ \A s_1, n, v : Required(s_1, n, v)' = Required(s_1, n, v)
        /\ \A s_1, v : FeaturesOf(s_1, v)' = FeaturesOf(s_1, v)
        /\ \A name, v : PortOf(name, v)' = PortOf(name, v)
    BY WorldFacts DEF Extends
  <1>2. graph'[spec] = m /\ spec \in DOMAIN graph'
    BY DEF Extends
  <1>3. PICK v \in m.considered : \E f \in ({Core} \cup Required(spec, m, v)) \cap FeaturesOf(spec, v) : q[i] = FrameOf(spec, v, f)
    BY DEF Extends, PushedFor
  <1>4. PICK f \in ({Core} \cup Required(spec, m, v)) \cap FeaturesOf(spec, v) : q[i] = FrameOf(spec, v, f)
    BY <1>3
  <1>5. s = spec /\ \E k \in 1 .. Len(PortOf(spec[1], v).needs[f]) : PortOf(spec[1], v).needs[f][k] = d
    BY <1>4 DEF InFrame, FrameOf
  <1>6. f \in (({Core} \cup Required(spec, graph[spec], v)) \cap FeaturesOf(spec, v))'
    BY <1>1, <1>2, <1>4
  <1>7. (\E k \in 1 .. Len(PortOf(spec[1], v).needs[f]) : PortOf(spec[1], v).needs[f][k] = d)'
    BY <1>1, <1>5
  <1>8. v \in graph'[spec].considered
    BY <1>2
  <1>9. Sourced(spec, d)'
    BY <1>2, <1>6, <1>7, <1>8 DEF Sourced
  <1> QED
    BY <1>5, <1>9

\* No frame is new but those pushed.
FrameKept == \A s, d : InFrame(s, d, frame)' => Pending(s, d)

LEMMA FrameKeptTail ==
    ASSUME WorkShape, frame.deps # <<>>, frame' = [frame EXCEPT !.deps = Tail(@)]
    PROVE  FrameKept
  <1>1. frame \in FrameIn(DOMAIN graph \cup {TopLevel})
    BY DEF WorkShape, FrameShape
  <1>2. /\ frame'.spec = frame.spec
        /\ \A k \in 1 .. Len(frame'.deps) : \E j \in 1 .. Len(frame.deps) : frame'.deps[k] = frame.deps[j]
    BY <1>1, TailFrame
  <1> QED
    BY <1>2 DEF FrameKept, Pending, InFrame

LEMMA SourceQuiet ==
    ASSUME SourceInv, Grows, FrameKept, stack' = stack
    PROVE  SourceInv'
  <1>1. ASSUME NEW s, NEW d, Pending(s, d)' PROVE Sourced(s, d)'
    <2>1. Pending(s, d)
      BY <1>1 DEF Pending, FrameKept, InFrame
    <2>2. Sourced(s, d)
      BY <2>1 DEF SourceInv
    <2> QED
      BY <2>2, SourcedStays
  <1> QED
    BY <1>1 DEF SourceInv

LEMMA SourceExtends ==
    ASSUME GraphInv, WorkShape, SourceInv, Grows, FrameKept, NEW spec, NEW m, NEW q, Extends(spec, m, q)
    PROVE  SourceInv'
  <1>1. stack \in Seq(FrameIn(DOMAIN graph')) /\ q \in Seq(FrameIn(DOMAIN graph')) /\ stack' = stack \o q
    BY ExtendsFacts DEF GraphInv, Extends
  <1>2. \A i \in 1 .. Len(stack') :
            \/ i \in 1 .. Len(stack) /\ stack'[i] = stack[i]
            \/ \E j \in 1 .. Len(q) : stack'[i] = q[j]
    <2>1. PICK S : S = FrameIn(DOMAIN graph')
      OBVIOUS
    <2>2. stack \in Seq(S) /\ q \in Seq(S)
      BY <1>1, <2>1
    <2>3. \A i \in 1 .. Len(stack \o q) :
              \/ i \in 1 .. Len(stack) /\ (stack \o q)[i] = stack[i]
              \/ \E j \in 1 .. Len(q) : (stack \o q)[i] = q[j]
      BY <2>2, ConcatFacts
    <2> QED
      BY <1>1, <2>3
  <1>3. ASSUME NEW s, NEW d, Pending(s, d)' PROVE Sourced(s, d)'
    <2>1. Pending(s, d) \/ \E j \in 1 .. Len(q) : InFrame(s, d, q[j])
      <3>1. CASE InFrame(s, d, frame)'
        BY <3>1 DEF FrameKept
      <3>2. CASE (\E i \in 1 .. Len(stack) : InFrame(s, d, stack[i]))'
        BY <1>2, <3>2 DEF Pending, InFrame
      <3> QED
        BY <1>3, <3>1, <3>2 DEF Pending
    <2>2. CASE Pending(s, d)
      <3>1. Sourced(s, d)
        BY <2>2 DEF SourceInv
      <3> QED
        BY <3>1, SourcedStays
    <2>3. CASE \E j \in 1 .. Len(q) : InFrame(s, d, q[j])
      BY <2>3, PushedIsSourced
    <2> QED
      BY <2>1, <2>2, <2>3
  <1> QED
    BY <1>3 DEF SourceInv

LEMMA SourceStep == GraphInv /\ WorkInv /\ SourceInv /\ [NextVersioned]_versionedVars => SourceInv'
  <1> SUFFICES ASSUME GraphInv, WorkInv, SourceInv, [NextVersioned]_versionedVars PROVE SourceInv'
    OBVIOUS
  <1>1. Grows /\ WorkShape
    BY WorkStep DEF WorkInv, Step
  <1>2. PICK spec : spec = DepSpec
    OBVIOUS
  <1>3. ASSUME frame' = frame PROVE FrameKept
    BY <1>3 DEF FrameKept, Pending, InFrame
  <1>4. CASE PopFrame
    <2>1. /\ stack # <<>> /\ frame' = Last(stack) /\ stack' = Front(stack)
      BY <1>4 DEF PopFrame
    <2>2. stack \in Seq(FrameIn(DOMAIN graph))
      BY <1>1 DEF WorkShape, FrameShape
    <2>3. /\ Len(stack') = Len(stack) - 1 /\ Len(stack) \in Nat \ {0}
          /\ \A i \in 1 .. Len(stack) - 1 : stack'[i] = stack[i]
          /\ frame' = stack[Len(stack)]
      BY <2>1, <2>2, FrontFacts
    <2>4. ASSUME NEW s, NEW d, Pending(s, d)' PROVE Sourced(s, d)'
      <3>1. Pending(s, d)
        <4>1. CASE InFrame(s, d, frame)'
          BY <2>3, <4>1 DEF Pending, InFrame
        <4>2. CASE (\E i \in 1 .. Len(stack) : InFrame(s, d, stack[i]))'
          <5>1. PICK i \in 1 .. Len(stack') : InFrame(s, d, stack'[i])
            BY <4>2 DEF InFrame
          <5>2. i \in 1 .. Len(stack) /\ stack'[i] = stack[i]
            BY <2>3
          <5> QED
            BY <5>1, <5>2 DEF Pending
        <4> QED
          BY <2>4, <4>1, <4>2 DEF Pending
      <3>2. Sourced(s, d)
        BY <3>1 DEF SourceInv
      <3> QED
        BY <1>1, <3>2, SourcedStays
    <2> QED
      BY <2>4 DEF SourceInv
  <1>5. CASE SkipDependency \/ FailPackage
    <2>1. frame.deps # <<>> /\ frame' = [frame EXCEPT !.deps = Tail(@)] /\ stack' = stack
      BY <1>5 DEF SkipDependency, FailPackage
    <2> QED
      BY <1>1, <2>1, FrameKeptTail, SourceQuiet
  <1>6. CASE RequireDependency
    <2>1. (\E m, q : Extends(spec, m, q)) /\ frame' = frame
      BY <1>1, <1>2, <1>6, RequireDependencyFacts
    <2> QED
      BY <1>1, <1>3, <2>1, SourceExtends
  <1>7. CASE RequireFeature
    <2>1. PICK f : f = Head(wanted).name
      OBVIOUS
    <2>2. (\E m, q : Extends(spec, m, q)) /\ frame' = frame
      BY <1>1, <1>2, <1>7, <2>1, RequireFeatureFacts
    <2> QED
      BY <1>1, <1>3, <2>2, SourceExtends
  <1>8. CASE RequireDefaults
    <2>1. (\E m, q : Extends(spec, m, q)) /\ met /\ frame' = [frame EXCEPT !.deps = Tail(@)]
      BY <1>1, <1>2, <1>8, RequireDefaultsFacts
    <2>2. frame.deps # <<>>
      BY <2>1 DEF GraphInv
    <2> QED
      BY <1>1, <2>1, <2>2, FrameKeptTail, SourceExtends
  <1>9. CASE SkipFeature \/ Resolved \/ WalkRoot \/ WalkDependency \/ Emit \/ Finish \/ UNCHANGED versionedVars
    <2>1. UNCHANGED <<frame, stack>>
      BY <1>9 DEF SkipFeature, Resolved, WalkRoot, WalkDependency, Emit, Finish, Extracting, resolverVars, versionedVars
    <2> QED
      BY <1>1, <1>3, <2>1, SourceQuiet
  <1> QED
    BY <1>4, <1>5, <1>6, <1>7, <1>8, <1>9 DEF NextVersioned

LEMMA InitSource == InitVersioned => SourceInv
  <1> SUFFICES ASSUME InitVersioned PROVE SourceInv
    OBVIOUS
  <1>1. stack = <<>> /\ frame = [spec |-> TopLevel, deps |-> Manifest.depends]
    BY DEF InitVersioned
  <1>2. frame.spec = TopLevel /\ frame.deps = Manifest.depends /\ Len(stack) = 0
    BY <1>1
  <1> QED
    BY <1>2 DEF SourceInv, Pending, InFrame, Sourced

LEMMA SourcedDeclared ==
    ASSUME GraphInv, WorkShape, NEW spec, NEW d, Sourced(spec, d)
    PROVE  d \in CallDependencies
  <1>1. CASE \E j \in 1 .. Len(Manifest.depends) : Manifest.depends[j] = d
    <2>1. Manifest.depends \in Seq(Dependency)
      BY CallFacts DEF GraphInv
    <2>2. d \in Dependency
      BY <1>1, <2>1
    <2> QED
      BY <1>1, <2>2 DEF CallDependencies
  <1>2. CASE /\ spec \in DOMAIN graph
             /\ \E v \in graph[spec].considered :
                   \E f \in ({Core} \cup Required(spec, graph[spec], v)) \cap FeaturesOf(spec, v) :
                       \E k \in 1 .. Len(PortOf(spec[1], v).needs[f]) : PortOf(spec[1], v).needs[f][k] = d
    <2>1. PICK v \in graph[spec].considered :
             \E f \in ({Core} \cup Required(spec, graph[spec], v)) \cap FeaturesOf(spec, v) :
                 \E k \in 1 .. Len(PortOf(spec[1], v).needs[f]) : PortOf(spec[1], v).needs[f][k] = d
      BY <1>2
    <2>2. PICK f \in ({Core} \cup Required(spec, graph[spec], v)) \cap FeaturesOf(spec, v) :
                 \E k \in 1 .. Len(PortOf(spec[1], v).needs[f]) : PortOf(spec[1], v).needs[f][k] = d
      BY <2>1
    <2>3. world \in DOMAIN Manifests /\ spec \in Spec /\ spec[1] \in Port /\ Exists(spec[1], v)
      BY <1>2 DEF GraphInv, WorkShape, NodeShape, NodeIn
    <2>4. v \in Version \cup {Overlay}
      BY <2>3, PortFacts
    <2>5. f \in DOMAIN PortOf(spec[1], v).needs /\ PortOf(spec[1], v).needs[f] \in Seq(Dependency)
      BY <2>3, FeaturesFacts DEF FeaturesOf
    <2>6. d \in Dependency
      BY <2>2, <2>5
    <2> QED
      BY <2>2, <2>3, <2>4, <2>5, <2>6 DEF CallDependencies
  <1> QED
    BY <1>1, <1>2 DEF Sourced

\* The first dependency of the frame.
LEMMA HeadSourced ==
    ASSUME GraphInv, WorkShape, SourceInv, frame.deps # <<>>, NEW s, s = frame.spec, NEW d, d = Dep
    PROVE  Sourced(s, d) /\ d \in CallDependencies
  <1>1. Dep = frame.deps[1] /\ 1 \in 1 .. Len(frame.deps)
    BY HeadFacts
  <1>2. Pending(s, d)
    BY <1>1 DEF Pending, InFrame
  <1>3. Sourced(s, d)
    BY <1>2 DEF SourceInv
  <1> QED
    BY <1>3, SourcedDeclared

\* The default features of a port are features of it.
DefaultsExist ==
    \A name \in Port : \A v \in Version \cup {Overlay} :
        Exists(name, v) => NamesOf(PortOf(name, v).defaults) \subseteq DOMAIN PortOf(name, v).needs

\* Every version of a port has the features that a dependency asks for, too.
FeaturesExist ==
    /\ \A d \in CallDependencies : \A v \in Version \cup {Overlay} :
          Exists(d.name, v) => NamesOf(d.features) \subseteq DOMAIN PortOf(d.name, v).needs
    /\ DefaultsExist

RequestedExist ==
    \A s \in DOMAIN graph : \A v \in Version \cup {Overlay} :
        Exists(s[1], v) => graph[s].requested \subseteq FeaturesOf(s, v)

LEMMA FeaturesExistStays == FeaturesExist /\ UNCHANGED world => FeaturesExist'
  <1> SUFFICES ASSUME FeaturesExist, UNCHANGED world PROVE FeaturesExist'
    OBVIOUS
  <1>1. CallDependencies' = CallDependencies
    BY CallStays
  <1>2. \A name, v : Exists(name, v)' = Exists(name, v) /\ PortOf(name, v)' = PortOf(name, v)
    BY WorldFacts
  <1> QED
    BY <1>1, <1>2 DEF FeaturesExist, DefaultsExist

LEMMA DefaultsRequired ==
    ASSUME world \in DOMAIN Manifests, DefaultsExist, NEW s \in Spec, NEW v, Exists(s[1], v)
    PROVE  Defaults(s, v) \subseteq FeaturesOf(s, v) /\ Core \in FeaturesOf(s, v)
  <1>1. s[1] \in Port
    BY DEF Spec
  <1>2. IsPort(PortOf(s[1], v)) /\ v \in Version \cup {Overlay}
    BY <1>1, PortFacts
  <1>3. PortOf(s[1], v).defaults \in Seq(FeatureRef) /\ Core \in DOMAIN PortOf(s[1], v).needs
    BY <1>2 DEF IsPort
  <1>4. Defaults(s, v) \subseteq NamesOf(PortOf(s[1], v).defaults)
    BY <1>3, HoldingFacts DEF Defaults
  <1>5. NamesOf(PortOf(s[1], v).defaults) \subseteq DOMAIN PortOf(s[1], v).needs
    BY <1>1, <1>2 DEF DefaultsExist
  <1> QED
    BY <1>3, <1>4, <1>5 DEF FeaturesOf

LEMMA RequestedExistDropsNothing ==
    GraphInv /\ WorkInv /\ FeaturesExist /\ RequestedExist => NothingDropped
  <1> SUFFICES ASSUME GraphInv, WorkInv, FeaturesExist, RequestedExist, NEW s \in DOMAIN graph
               PROVE  Required(s, graph[s], graph[s].scfl) \subseteq FeaturesOf(s, graph[s].scfl)
    BY DEF NothingDropped
  <1>1. PICK v : v = graph[s].scfl
    OBVIOUS
  <1>2. Exists(s[1], v) /\ s[1] \in Port /\ s \in Spec /\ world \in DOMAIN Manifests
    BY <1>1 DEF GraphInv, WorkInv, WorkShape, NodeShape, NodeIn
  <1>3. v \in Version \cup {Overlay}
    BY <1>2, PortFacts
  <1>4. Defaults(s, v) \subseteq FeaturesOf(s, v)
    BY <1>2, DefaultsRequired DEF FeaturesExist
  <1>5. graph[s].requested \subseteq FeaturesOf(s, v)
    BY <1>2, <1>3 DEF RequestedExist
  <1> QED
    BY <1>1, <1>4, <1>5 DEF Required

LEMMA RequestedStays ==
    ASSUME GraphInv, WorkShape, Grows, RequestedExist, NEW spec, NEW m, NEW q, Extends(spec, m, q),
           \A v \in Version \cup {Overlay} : Exists(spec[1], v) => m.requested \subseteq FeaturesOf(spec, v)
    PROVE  RequestedExist'
  <1>1. /\ \A name, v : Exists(name, v)' = Exists(name, v)
        /\ \A s, v : FeaturesOf(s, v)' = FeaturesOf(s, v)
    BY WorldFacts DEF Grows
  <1>2. /\ \A s \in DOMAIN graph' : s = spec \/ (s \in DOMAIN graph /\ graph'[s] = graph[s])
        /\ graph'[spec] = m
    BY DEF Extends
  <1>3. \A s \in DOMAIN graph' : \A v \in Version \cup {Overlay} : Exists(s[1], v) => graph'[s].requested \subseteq FeaturesOf(s, v)
    BY <1>2 DEF RequestedExist
  <1> QED
    BY <1>1, <1>3 DEF RequestedExist

LEMMA RequestedStep ==
    GraphInv /\ WorkInv /\ SourceInv /\ FeaturesExist /\ RequestedExist /\ [NextVersioned]_versionedVars => RequestedExist'
  <1> SUFFICES ASSUME GraphInv, WorkInv, SourceInv, FeaturesExist, RequestedExist, [NextVersioned]_versionedVars
               PROVE  RequestedExist'
    OBVIOUS
  <1>1. Grows /\ WorkShape /\ UNCHANGED world /\ world \in DOMAIN Manifests
    BY WorkStep DEF WorkInv, Step, Grows, GraphInv
  <1>2. PICK spec : spec = DepSpec
    OBVIOUS
  <1>3. ASSUME UNCHANGED graph PROVE RequestedExist'
    <2>1. /\ \A name, v : Exists(name, v)' = Exists(name, v)
          /\ \A s, v : FeaturesOf(s, v)' = FeaturesOf(s, v)
      BY <1>1, WorldFacts
    <2> QED
      BY <1>3, <2>1 DEF RequestedExist
  <1>4. CASE RequireDependency
    <2>1. (\E m, q : Extends(spec, m, q) /\ Requires(spec, Dep.min, m, q)) /\ frame.deps # <<>>
      BY <1>1, <1>2, <1>4, RequireDependencyFacts
    <2>2. PICK m : \E q : Extends(spec, m, q) /\ Requires(spec, Dep.min, m, q)
      BY <2>1
    <2>3. PICK q : Extends(spec, m, q) /\ Requires(spec, Dep.min, m, q)
      BY <2>2
    <2>4. spec \in Spec
      BY <2>3 DEF Extends
    <2>5. ASSUME NEW v \in Version \cup {Overlay}, Exists(spec[1], v)
          PROVE  m.requested \subseteq FeaturesOf(spec, v)
      <3>1. CASE spec \in DOMAIN graph
        BY <2>3, <2>5, <3>1 DEF Requires, RequestedExist
      <3>2. CASE spec \notin DOMAIN graph
        BY <1>1, <2>3, <2>4, <2>5, <3>2, FeaturesFacts DEF Requires
      <3> QED
        BY <3>1, <3>2
    <2> QED
      BY <1>1, <2>3, <2>5, RequestedStays
  <1>5. CASE RequireFeature
    <2>1. PICK f : f = Head(wanted).name
      OBVIOUS
    <2>2. /\ \E m, q : Extends(spec, m, q) /\ m.requested = graph[spec].requested \cup {f}
          /\ spec \in DOMAIN graph /\ met /\ wanted # <<>>
      BY <1>1, <1>2, <1>5, <2>1, RequireFeatureFacts
    <2>3. PICK m : \E q : Extends(spec, m, q) /\ m.requested = graph[spec].requested \cup {f}
      BY <2>2
    <2>4. PICK q : Extends(spec, m, q) /\ m.requested = graph[spec].requested \cup {f}
      BY <2>3
    <2>5. PICK d : d = Dep
      OBVIOUS
    <2>6. frame.deps # <<>>
      BY <2>2 DEF GraphInv
    <2>7. d \in CallDependencies
      BY <1>1, <2>5, <2>6, HeadSourced
    <2>8. spec[1] = d.name
      BY <1>1, <1>2, <2>5, <2>6, HeadFacts
    <2>9. f \in NamesOf(d.features)
      <3>1. wanted \in Seq(FeatureRef)
        BY <1>1 DEF WorkShape, WantedShape
      <3>2. Head(wanted) = wanted[1] /\ 1 \in 1 .. Len(wanted)
        BY <2>2, <3>1
      <3>3. PICK k \in 1 .. Len(d.features) : d.features[k] = wanted[1]
        BY <1>1, <2>2, <2>5, <3>2 DEF WorkShape, WantedShape
      <3> QED
        BY <2>1, <3>2, <3>3 DEF NamesOf
    <2>10. ASSUME NEW v \in Version \cup {Overlay}, Exists(spec[1], v)
           PROVE  m.requested \subseteq FeaturesOf(spec, v)
      <3>1. f \in FeaturesOf(spec, v)
        BY <2>7, <2>8, <2>9, <2>10 DEF FeaturesExist, FeaturesOf
      <3>2. graph[spec].requested \subseteq FeaturesOf(spec, v)
        BY <2>2, <2>10 DEF RequestedExist
      <3> QED
        BY <2>4, <3>1, <3>2
    <2> QED
      BY <1>1, <2>4, <2>10, RequestedStays
  <1>6. CASE RequireDefaults
    <2>1. spec \in DOMAIN graph /\ \E m, q : Extends(spec, m, q) /\ m.requested = graph[spec].requested
      BY <1>1, <1>2, <1>6, RequireDefaultsFacts
    <2>2. PICK m : \E q : Extends(spec, m, q) /\ m.requested = graph[spec].requested
      BY <2>1
    <2>3. \A v \in Version \cup {Overlay} : Exists(spec[1], v) => m.requested \subseteq FeaturesOf(spec, v)
      BY <2>1, <2>2 DEF RequestedExist
    <2> QED
      BY <1>1, <2>2, <2>3, RequestedStays
  <1>7. CASE \/ PopFrame \/ SkipDependency \/ FailPackage \/ SkipFeature
             \/ Resolved \/ WalkRoot \/ WalkDependency \/ Emit \/ Finish \/ UNCHANGED versionedVars
    <2>1. UNCHANGED graph
      BY <1>7 DEF PopFrame, SkipDependency, FailPackage, SkipFeature, Resolved, WalkRoot, WalkDependency, Emit, Finish,
                  Extracting, resolverVars, versionedVars
    <2> QED
      BY <1>3, <2>1
  <1> QED
    BY <1>4, <1>5, <1>6, <1>7 DEF NextVersioned

\* If every version of a port has the features that are asked of it, require_scfl drops none
\* (dependencies.cpp:1626-1658): this is what the theorems that assume it need of the ports.
THEOREM NothingIsDropped == Versioned /\ FeaturesExist => []NothingDropped
  <1> DEFINE Inv == GraphInv /\ WorkInv /\ SourceInv /\ FeaturesExist /\ RequestedExist
  <1>1. InitVersioned /\ FeaturesExist => Inv
    <2>1. InitVersioned => RequestedExist
      <3> SUFFICES ASSUME InitVersioned PROVE RequestedExist
        OBVIOUS
      <3>1. DOMAIN graph = {}
        BY DEF InitVersioned
      <3> QED
        BY <3>1 DEF RequestedExist
    <2> QED
      BY <2>1, InitGraph, InitWork, InitSource
  <1>2. Inv /\ [NextVersioned]_versionedVars => Inv'
    <2> SUFFICES ASSUME Inv, [NextVersioned]_versionedVars PROVE Inv'
      OBVIOUS
    <2>1. GraphInv'
      BY GraphStep
    <2>2. WorkInv' /\ SourceInv' /\ RequestedExist'
      BY <2>1, WorkInvStep, SourceStep, RequestedStep
    <2>3. UNCHANGED world
      BY WorkStep DEF WorkInv, Step, Grows
    <2>4. FeaturesExist'
      BY <2>3, FeaturesExistStays
    <2> QED
      BY <2>1, <2>2, <2>4
  <1>3. Inv => NothingDropped
    BY RequestedExistDropsNothing
  <1> QED
    BY <1>1, <1>2, <1>3, PTL DEF Versioned

(***************************************************************************)
(* What the dependencies lead to, without the order of the work.           *)
(***************************************************************************)
Sub(d, e) == d.versions \subseteq e.versions /\ d.features \subseteq e.features /\ d.defaults \subseteq e.defaults

\* Where d comes from in a declaration e: from the manifest or from an applied feature of an applied version.
From(e, spec, d) ==
    \/ spec = TopLevel /\ \E j \in 1 .. Len(Manifest.depends) : Manifest.depends[j] = d
    \/ \E a \in e.versions : a[1] = spec /\ \E f \in FeaturesOf(spec, a[2]) :
          /\ <<spec, f>> \in e.features \/ (spec \in e.defaults /\ f \in Defaults(spec, a[2]))
          /\ \E k \in 1 .. Len(PortOf(spec[1], a[2]).needs[f]) : PortOf(spec[1], a[2]).needs[f][k] = d

Leads(e, spec, d) == From(e, spec, d) /\ spec[2] \in d.on /\ CanStart(d.name)

\* The versions that d applies.
AppliedBy(d) ==
    {FirstScfl(d.name)} \cup
    {v \in {d.min} : /\ v # None /\ ~ Pinned(d.name) /\ Has(d.name, v)
                     /\ CompareVersions(Manifest.baseline[d.name], v) = "lt"}

\* It is closed: what its dependencies lead to is in it.
Closed(e) ==
    \A spec, d : Leads(e, spec, d) =>
        LET t == SpecOf(d, spec)
        IN  /\ \A v \in AppliedBy(d) : <<t, v>> \in e.versions
            /\ \A f \in {Core} \cup Holding(d.features, spec[2]) : <<t, f>> \in e.features
            /\ d.defaults \/ t \notin AtTopLevel => t \in e.defaults

LEMMA LeadsGrows ==
    ASSUME NEW d, NEW e, Sub(d, e), NEW spec, NEW dep, Leads(d, spec, dep)
    PROVE  Leads(e, spec, dep)
  BY DEF Sub, Leads, From

LEMMA AppliedIs ==
    ASSUME world \in DOMAIN Manifests, NEW e \in Declarations
    PROVE  /\ \A spec, d : Leads(e, spec, d) => <<spec, d>> \in Applied(e)
           /\ \A r \in Applied(e) : r = <<r[1], r[2]>> /\ Leads(e, r[1], r[2])
  <1>1. \A a \in e.versions : a = <<a[1], a[2]>>
    BY DEF Declarations, Existing
  <1>2. PICK applied : applied = AppliedDependencies(e)
    OBVIOUS
  <1>3. <<TopLevel, Manifest.depends>> \in applied
    BY <1>2 DEF AppliedDependencies
  <1>4. ASSUME NEW a \in e.versions, NEW f \in FeaturesOf(a[1], a[2]),
               <<a[1], f>> \in e.features \/ (a[1] \in e.defaults /\ f \in Defaults(a[1], a[2]))
        PROVE  <<a[1], PortOf(a[1][1], a[2]).needs[f]>> \in applied
    <2>1. PICK p : p = <<a[1], a[2], f>>
      OBVIOUS
    <2>2. p[1] = a[1] /\ p[2] = a[2] /\ p[3] = f
      BY <2>1
    <2>3. p \in UNION {{<<v[1], v[2], g>> : g \in FeaturesOf(v[1], v[2])} : v \in e.versions}
      BY <2>1
    <2> QED
      BY <1>2, <1>4, <2>2, <2>3 DEF AppliedDependencies
  <1>5. ASSUME NEW o \in applied
        PROVE  \/ o = <<TopLevel, Manifest.depends>>
               \/ \E a \in e.versions : \E f \in FeaturesOf(a[1], a[2]) :
                     /\ <<a[1], f>> \in e.features \/ (a[1] \in e.defaults /\ f \in Defaults(a[1], a[2]))
                     /\ o = <<a[1], PortOf(a[1][1], a[2]).needs[f]>>
    <2>1. CASE o = <<TopLevel, Manifest.depends>>
      BY <2>1
    <2>2. CASE o # <<TopLevel, Manifest.depends>>
      <3>1. PICK p \in UNION {{<<v[1], v[2], g>> : g \in FeaturesOf(v[1], v[2])} : v \in e.versions} :
               /\ <<p[1], p[3]>> \in e.features \/ (p[1] \in e.defaults /\ p[3] \in Defaults(p[1], p[2]))
               /\ o = <<p[1], PortOf(p[1][1], p[2]).needs[p[3]]>>
        BY <1>2, <2>2 DEF AppliedDependencies
      <3>2. PICK a \in e.versions : p \in {<<a[1], a[2], g>> : g \in FeaturesOf(a[1], a[2])}
        OBVIOUS
      <3>3. PICK f \in FeaturesOf(a[1], a[2]) : p = <<a[1], a[2], f>>
        BY <3>2
      <3>4. p[1] = a[1] /\ p[2] = a[2] /\ p[3] = f
        BY <3>3
      <3> QED
        BY <3>1, <3>4
    <2> QED
      BY <2>1, <2>2
  <1>6. ASSUME NEW spec, NEW d, Leads(e, spec, d)
        PROVE  <<spec, d>> \in Applied(e)
    <2>1. ASSUME NEW o \in applied, NEW i \in 1 .. Len(o[2]), o[1] = spec, o[2][i] = d
          PROVE  <<spec, d>> \in Applied(e)
      <3>1. PICK r : r = <<spec, d>>
        OBVIOUS
      <3>2. r[1] = spec /\ r[2] = d
        BY <3>1
      <3>3. r \in UNION {{<<x[1], x[2][j]>> : j \in 1 .. Len(x[2])} : x \in applied}
        BY <2>1, <3>1
      <3>4. r[1][2] \in r[2].on /\ CanStart(r[2].name)
        BY <1>6, <3>2 DEF Leads
      <3> QED
        BY <1>2, <3>1, <3>3, <3>4 DEF Applied
    <2>2. CASE spec = TopLevel /\ \E j \in 1 .. Len(Manifest.depends) : Manifest.depends[j] = d
      <3>1. PICK j \in 1 .. Len(Manifest.depends) : Manifest.depends[j] = d
        BY <2>2
      <3>2. PICK o : o = <<TopLevel, Manifest.depends>>
        OBVIOUS
      <3>3. o[1] = TopLevel /\ o[2] = Manifest.depends
        BY <3>2
      <3> QED
        BY <1>3, <2>1, <2>2, <3>1, <3>2, <3>3
    <2>3. ASSUME NEW a \in e.versions, a[1] = spec, NEW f \in FeaturesOf(spec, a[2]),
                 <<spec, f>> \in e.features \/ (spec \in e.defaults /\ f \in Defaults(spec, a[2])),
                 NEW k \in 1 .. Len(PortOf(spec[1], a[2]).needs[f]), PortOf(spec[1], a[2]).needs[f][k] = d
          PROVE  <<spec, d>> \in Applied(e)
      <3>1. PICK o : o = <<a[1], PortOf(a[1][1], a[2]).needs[f]>>
        OBVIOUS
      <3>2. o[1] = spec /\ o[2] = PortOf(spec[1], a[2]).needs[f]
        BY <2>3, <3>1
      <3>3. o \in applied
        BY <1>4, <2>3, <3>1
      <3> QED
        BY <2>1, <2>3, <3>2, <3>3
    <2> QED
      BY <1>6, <2>2, <2>3 DEF Leads, From
  <1>7. ASSUME NEW r \in Applied(e)
        PROVE  r = <<r[1], r[2]>> /\ Leads(e, r[1], r[2])
    <2>1. /\ r \in UNION {{<<x[1], x[2][j]>> : j \in 1 .. Len(x[2])} : x \in applied}
          /\ r[1][2] \in r[2].on /\ CanStart(r[2].name)
      BY <1>2 DEF Applied
    <2>2. PICK o \in applied : r \in {<<o[1], o[2][j]>> : j \in 1 .. Len(o[2])}
      BY <2>1
    <2>3. PICK j \in 1 .. Len(o[2]) : r = <<o[1], o[2][j]>>
      BY <2>2
    <2>4. r[1] = o[1] /\ r[2] = o[2][j] /\ r = <<r[1], r[2]>>
      BY <2>3
    <2>5. From(e, r[1], r[2])
      <3>1. CASE o = <<TopLevel, Manifest.depends>>
        <4>1. o[1] = TopLevel /\ o[2] = Manifest.depends
          BY <3>1
        <4> QED
          BY <2>4, <4>1 DEF From
      <3>2. ASSUME NEW a \in e.versions, NEW f \in FeaturesOf(a[1], a[2]),
                   <<a[1], f>> \in e.features \/ (a[1] \in e.defaults /\ f \in Defaults(a[1], a[2])),
                   o = <<a[1], PortOf(a[1][1], a[2]).needs[f]>>
            PROVE  From(e, r[1], r[2])
        <4>1. o[1] = a[1] /\ o[2] = PortOf(a[1][1], a[2]).needs[f]
          BY <3>2
        <4> QED
          BY <2>4, <3>2, <4>1 DEF From
      <3> QED
        BY <1>5, <3>1, <3>2
    <2> QED
      BY <2>1, <2>4, <2>5 DEF Leads
  <1> QED
    BY <1>6, <1>7

\* The ports that dependencies lead to.
LEMMA LeadsFacts ==
    ASSUME world \in DOMAIN Manifests, NEW e \in Declarations, NEW spec, NEW d, Leads(e, spec, d)
    PROVE  /\ SpecOf(d, spec) \in Spec /\ SpecOf(d, spec)[1] = d.name
           /\ \A v \in AppliedBy(d) : <<SpecOf(d, spec), v>> \in Existing
           /\ {Core} \cup Holding(d.features, spec[2]) \subseteq Feature
  <1>1. d \in Dependency /\ (spec = TopLevel \/ spec \in Spec)
    <2>1. CASE spec = TopLevel /\ \E j \in 1 .. Len(Manifest.depends) : Manifest.depends[j] = d
      BY <2>1, CallFacts
    <2>2. ASSUME NEW a \in e.versions, a[1] = spec, NEW f \in FeaturesOf(spec, a[2]),
                 NEW k \in 1 .. Len(PortOf(spec[1], a[2]).needs[f]), PortOf(spec[1], a[2]).needs[f][k] = d
          PROVE  d \in Dependency /\ spec \in Spec
      <3>1. spec \in Spec /\ Exists(spec[1], a[2])
        BY <2>2 DEF Declarations, Existing
      <3>2. PortOf(spec[1], a[2]).needs[f] \in Seq(Dependency)
        BY <2>2, <3>1, FeaturesFacts
      <3> QED
        BY <2>2, <3>1, <3>2
    <2> QED
      BY <2>1, <2>2 DEF Leads, From
  <1>2. CanStart(d.name)
    BY DEF Leads
  <1>3. d.name \in Port /\ d.features \in Seq(FeatureRef)
    BY <1>1 DEF Dependency
  <1>4. PICK t : t = SpecOf(d, spec)
    OBVIOUS
  <1>5. t \in Spec /\ t[1] = d.name
    BY <1>1, <1>3, <1>4, SpecOfFacts
  <1>6. Holding(d.features, spec[2]) \subseteq Feature /\ Core \in Feature
    BY <1>3, HoldingFacts, FeatureAssumption
  <1>7. ASSUME NEW v \in AppliedBy(d)
        PROVE  <<t, v>> \in Existing
    <2>1. Exists(d.name, v)
      BY <1>2, <1>3, <1>7, FirstExists, HasExists DEF AppliedBy
    <2>2. v = Overlay \/ v \in DOMAIN Manifest.ports[d.name]
      BY <1>3, <2>1, PortFacts DEF Has
    <2>3. PICK a : a = <<t, v>>
      OBVIOUS
    <2>4. a[1] = t /\ a[2] = v
      BY <2>3
    <2>5. a \in Spec \X ({Overlay} \cup UNION {DOMAIN Manifest.ports[p] : p \in Port})
      BY <1>3, <1>5, <2>2, <2>3
    <2> QED
      BY <1>5, <2>1, <2>3, <2>4, <2>5 DEF Existing
  <1> QED
    BY <1>4, <1>5, <1>6, <1>7

\* What LeadTo adds, element by element.
LEMMA LeadToIs ==
    ASSUME world \in DOMAIN Manifests, NEW e \in Declarations, NEW l, l = LeadTo(e)
    PROVE  /\ l = [versions |-> l.versions, features |-> l.features, defaults |-> l.defaults]
           /\ \A a : a \in l.versions <=>
                 a \in e.versions \/ \E spec, d : Leads(e, spec, d) /\ \E v \in AppliedBy(d) : a = <<SpecOf(d, spec), v>>
           /\ \A a : a \in l.features <=>
                 \/ a \in e.features
                 \/ \E spec, d : Leads(e, spec, d) /\ \E f \in {Core} \cup Holding(d.features, spec[2]) : a = <<SpecOf(d, spec), f>>
           /\ \A a : a \in l.defaults <=>
                 \/ a \in e.defaults
                 \/ \E spec, d : Leads(e, spec, d) /\ (d.defaults \/ SpecOf(d, spec) \notin AtTopLevel) /\ a = SpecOf(d, spec)
  <1>1. PICK targets : targets = {<<SpecOf(r[2], r[1]), r[2], r[1]>> : r \in Applied(e)}
    OBVIOUS
  <1>2. ASSUME NEW spec, NEW d, Leads(e, spec, d)
        PROVE  <<SpecOf(d, spec), d, spec>> \in targets
    <2>1. PICK r \in Applied(e) : r = <<spec, d>>
      BY <1>2, AppliedIs
    <2>2. r[1] = spec /\ r[2] = d
      BY <2>1
    <2> QED
      BY <1>1, <2>2
  <1>3. ASSUME NEW t \in targets
        PROVE  Leads(e, t[3], t[2]) /\ t[1] = SpecOf(t[2], t[3])
    <2>1. PICK r \in Applied(e) : t = <<SpecOf(r[2], r[1]), r[2], r[1]>>
      BY <1>1
    <2>2. t[1] = SpecOf(r[2], r[1]) /\ t[2] = r[2] /\ t[3] = r[1]
      BY <2>1
    <2> QED
      BY <2>2, AppliedIs
  <1>4. ASSUME NEW t \in targets
        PROVE  t[1][1] = t[2].name
    BY <1>3, LeadsFacts
  <1>5. PICK versions, features, defaults :
           /\ versions = e.versions
                 \cup {<<t[1], FirstScfl(t[1][1])>> : t \in targets}
                 \cup {<<t[1], t[2].min>> : t \in {u \in targets :
                         /\ u[2].min # None /\ ~ Pinned(u[1][1]) /\ Has(u[1][1], u[2].min)
                         /\ CompareVersions(Manifest.baseline[u[1][1]], u[2].min) = "lt"}}
           /\ features = e.features
                 \cup UNION {{<<t[1], f>> : f \in {Core} \cup Holding(t[2].features, t[3][2])} : t \in targets}
           /\ defaults = e.defaults \cup {t[1] : t \in {u \in targets : u[2].defaults \/ u[1] \notin AtTopLevel}}
    OBVIOUS
  <1>6. l = [versions |-> versions, features |-> features, defaults |-> defaults]
    BY <1>1, <1>5 DEF LeadTo
  <1>7. l.versions = versions /\ l.features = features /\ l.defaults = defaults
    BY <1>6
  <1>8. ASSUME NEW a
        PROVE  a \in versions <=>
                 a \in e.versions \/ \E spec, d : Leads(e, spec, d) /\ \E v \in AppliedBy(d) : a = <<SpecOf(d, spec), v>>
    <2>1. ASSUME NEW t \in targets, a = <<t[1], FirstScfl(t[1][1])>>
          PROVE  \E spec, d : Leads(e, spec, d) /\ \E v \in AppliedBy(d) : a = <<SpecOf(d, spec), v>>
      BY <1>3, <1>4, <2>1 DEF AppliedBy
    <2>2. ASSUME NEW t \in targets, a = <<t[1], t[2].min>>,
                 /\ t[2].min # None /\ ~ Pinned(t[1][1]) /\ Has(t[1][1], t[2].min)
                 /\ CompareVersions(Manifest.baseline[t[1][1]], t[2].min) = "lt"
          PROVE  \E spec, d : Leads(e, spec, d) /\ \E v \in AppliedBy(d) : a = <<SpecOf(d, spec), v>>
      BY <1>3, <1>4, <2>2 DEF AppliedBy
    <2>3. ASSUME NEW spec, NEW d, Leads(e, spec, d), NEW v \in AppliedBy(d), a = <<SpecOf(d, spec), v>>
          PROVE  a \in versions
      <3>1. PICK t : t = <<SpecOf(d, spec), d, spec>>
        OBVIOUS
      <3>2. t[1] = SpecOf(d, spec) /\ t[2] = d /\ t[3] = spec /\ t \in targets
        BY <1>2, <2>3, <3>1
      <3>3. t[1][1] = d.name
        BY <1>4, <3>2
      <3>4. CASE v = FirstScfl(d.name)
        BY <1>5, <2>3, <3>2, <3>3, <3>4
      <3>5. CASE v # FirstScfl(d.name)
        <4>1. /\ v = d.min /\ v # None /\ ~ Pinned(d.name) /\ Has(d.name, v)
              /\ CompareVersions(Manifest.baseline[d.name], v) = "lt"
          BY <3>5, <2>3 DEF AppliedBy
        <4> QED
          BY <1>5, <2>3, <3>2, <3>3, <4>1
      <3> QED
        BY <3>4, <3>5
    <2> QED
      BY <1>5, <2>1, <2>2, <2>3
  <1>9. ASSUME NEW a
        PROVE  a \in features <=>
                 \/ a \in e.features
                 \/ \E spec, d : Leads(e, spec, d) /\ \E f \in {Core} \cup Holding(d.features, spec[2]) : a = <<SpecOf(d, spec), f>>
    <2>1. ASSUME NEW t \in targets, a \in {<<t[1], f>> : f \in {Core} \cup Holding(t[2].features, t[3][2])}
          PROVE  \E spec, d : Leads(e, spec, d) /\ \E f \in {Core} \cup Holding(d.features, spec[2]) : a = <<SpecOf(d, spec), f>>
      BY <1>3, <2>1
    <2>2. ASSUME NEW spec, NEW d, Leads(e, spec, d), NEW f \in {Core} \cup Holding(d.features, spec[2]), a = <<SpecOf(d, spec), f>>
          PROVE  a \in features
      <3>1. PICK t : t = <<SpecOf(d, spec), d, spec>>
        OBVIOUS
      <3>2. t[1] = SpecOf(d, spec) /\ t[2] = d /\ t[3] = spec /\ t \in targets
        BY <1>2, <2>2, <3>1
      <3> QED
        BY <1>5, <2>2, <3>2
    <2> QED
      BY <1>5, <2>1, <2>2
  <1>10. ASSUME NEW a
         PROVE  a \in defaults <=>
                 \/ a \in e.defaults
                 \/ \E spec, d : Leads(e, spec, d) /\ (d.defaults \/ SpecOf(d, spec) \notin AtTopLevel) /\ a = SpecOf(d, spec)
    <2>1. ASSUME NEW t \in targets, t[2].defaults \/ t[1] \notin AtTopLevel, a = t[1]
          PROVE  \E spec, d : Leads(e, spec, d) /\ (d.defaults \/ SpecOf(d, spec) \notin AtTopLevel) /\ a = SpecOf(d, spec)
      BY <1>3, <2>1
    <2>2. ASSUME NEW spec, NEW d, Leads(e, spec, d), d.defaults \/ SpecOf(d, spec) \notin AtTopLevel, a = SpecOf(d, spec)
          PROVE  a \in defaults
      <3>1. PICK t : t = <<SpecOf(d, spec), d, spec>>
        OBVIOUS
      <3>2. t[1] = SpecOf(d, spec) /\ t[2] = d /\ t[3] = spec /\ t \in targets
        BY <1>2, <2>2, <3>1
      <3> QED
        BY <1>5, <2>2, <3>2
    <2> QED
      BY <1>5, <2>1, <2>2
  <1> QED
    BY <1>6, <1>7, <1>8, <1>9, <1>10

LEMMA LeadToFacts ==
    ASSUME world \in DOMAIN Manifests, NEW e \in Declarations
    PROVE  /\ LeadTo(e) \in Declarations /\ Sub(e, LeadTo(e))
           /\ LeadTo(e) = e <=> Closed(e)
           /\ \A c \in Declarations : Sub(e, c) /\ Closed(c) => Sub(LeadTo(e), c)
  <1>1. PICK l : l = LeadTo(e)
    OBVIOUS
  <1>2. /\ l = [versions |-> l.versions, features |-> l.features, defaults |-> l.defaults]
        /\ \A a : a \in l.versions <=>
              a \in e.versions \/ \E spec, d : Leads(e, spec, d) /\ \E v \in AppliedBy(d) : a = <<SpecOf(d, spec), v>>
        /\ \A a : a \in l.features <=>
              \/ a \in e.features
              \/ \E spec, d : Leads(e, spec, d) /\ \E f \in {Core} \cup Holding(d.features, spec[2]) : a = <<SpecOf(d, spec), f>>
        /\ \A a : a \in l.defaults <=>
              \/ a \in e.defaults
              \/ \E spec, d : Leads(e, spec, d) /\ (d.defaults \/ SpecOf(d, spec) \notin AtTopLevel) /\ a = SpecOf(d, spec)
    BY <1>1, LeadToIs
  <1>3. Sub(e, l)
    BY <1>2 DEF Sub
  <1>4. /\ e = [versions |-> e.versions, features |-> e.features, defaults |-> e.defaults]
        /\ e.versions \subseteq Existing /\ e.features \subseteq Spec \X Feature /\ e.defaults \subseteq Spec
    BY DEF Declarations
  <1>5. l \in Declarations
    <2>1. l.versions \subseteq Existing
      BY <1>2, <1>4, LeadsFacts
    <2>2. l.features \subseteq Spec \X Feature
      BY <1>2, <1>4, LeadsFacts
    <2>3. l.defaults \subseteq Spec
      BY <1>2, <1>4, LeadsFacts
    <2> QED
      BY <1>2, <2>1, <2>2, <2>3 DEF Declarations
  <1>6. ASSUME l = e PROVE Closed(e)
    BY <1>2, <1>6 DEF Closed
  <1>7. ASSUME Closed(e) PROVE l = e
    <2>1. \A a : a \in l.versions <=> a \in e.versions
      BY <1>2, <1>7 DEF Closed
    <2>2. \A a : a \in l.features <=> a \in e.features
      BY <1>2, <1>7 DEF Closed
    <2>3. \A a : a \in l.defaults <=> a \in e.defaults
      BY <1>2, <1>7 DEF Closed
    <2>4. l.versions = e.versions /\ l.features = e.features /\ l.defaults = e.defaults
      BY <2>1, <2>2, <2>3
    <2>5. l = [versions |-> l.versions, features |-> l.features, defaults |-> l.defaults]
      BY <1>2
    <2>6. e = [versions |-> e.versions, features |-> e.features, defaults |-> e.defaults]
      BY <1>4
    <2> QED
      BY <2>4, <2>5, <2>6
  <1>8. ASSUME NEW c \in Declarations, Sub(e, c), Closed(c)
        PROVE  Sub(l, c)
    <2>1. \A spec, d : Leads(e, spec, d) => Leads(c, spec, d)
      BY <1>8, LeadsGrows
    <2>2. l.versions \subseteq c.versions
      BY <1>2, <1>8, <2>1 DEF Closed, Sub
    <2>3. l.features \subseteq c.features
      BY <1>2, <1>8, <2>1 DEF Closed, Sub
    <2>4. l.defaults \subseteq c.defaults
      BY <1>2, <1>8, <2>1 DEF Closed, Sub
    <2> QED
      BY <2>2, <2>3, <2>4 DEF Sub
  <1> QED
    BY <1>1, <1>3, <1>5, <1>6, <1>7, <1>8

(***************************************************************************)
(* Declared is the least closed declaration.                               *)
(***************************************************************************)
InAll(e, c) == c \in Declarations /\ Closed(c) /\ Sub(e, c)

\* What is in all closed declarations that e is in.
Bound(e) ==
    [versions |-> {a \in Existing : \A c : InAll(e, c) => a \in c.versions},
     features |-> {a \in Spec \X Feature : \A c : InAll(e, c) => a \in c.features},
     defaults |-> {a \in Spec : \A c : InAll(e, c) => a \in c.defaults}]

LEMMA BoundFacts ==
    ASSUME world \in DOMAIN Manifests, NEW e \in Declarations
    PROVE  /\ Bound(e) \in Declarations /\ Sub(e, Bound(e)) /\ Closed(Bound(e))
           /\ \A c \in Declarations : Sub(e, c) /\ Closed(c) => Sub(Bound(e), c)
           /\ Bound(LeadTo(e)) = Bound(e)
           /\ LeadTo(e) = e => Bound(e) = e
  <1>1. PICK b : b = Bound(e)
    OBVIOUS
  <1>2. /\ b = [versions |-> b.versions, features |-> b.features, defaults |-> b.defaults]
        /\ \A a : a \in b.versions <=> a \in Existing /\ \A c : InAll(e, c) => a \in c.versions
        /\ \A a : a \in b.features <=> a \in Spec \X Feature /\ \A c : InAll(e, c) => a \in c.features
        /\ \A a : a \in b.defaults <=> a \in Spec /\ \A c : InAll(e, c) => a \in c.defaults
    BY <1>1 DEF Bound
  <1>3. b \in Declarations
    <2>1. b.versions \subseteq Existing /\ b.features \subseteq Spec \X Feature /\ b.defaults \subseteq Spec
      BY <1>2
    <2> QED
      BY <1>2, <2>1 DEF Declarations
  <1>4. /\ e = [versions |-> e.versions, features |-> e.features, defaults |-> e.defaults]
        /\ e.versions \subseteq Existing /\ e.features \subseteq Spec \X Feature /\ e.defaults \subseteq Spec
    BY DEF Declarations
  <1>5. Sub(e, b)
    BY <1>2, <1>4 DEF Sub, InAll
  <1>6. \A c : InAll(e, c) => Sub(b, c)
    BY <1>2 DEF Sub
  <1>7. Closed(b)
    <2>1. SUFFICES ASSUME NEW spec, NEW d, Leads(b, spec, d), NEW t, t = SpecOf(d, spec)
                   PROVE  /\ \A v \in AppliedBy(d) : <<t, v>> \in b.versions
                          /\ \A f \in {Core} \cup Holding(d.features, spec[2]) : <<t, f>> \in b.features
                          /\ d.defaults \/ t \notin AtTopLevel => t \in b.defaults
      BY DEF Closed
    <2>2. ASSUME NEW c, InAll(e, c)
          PROVE  /\ \A v \in AppliedBy(d) : <<t, v>> \in c.versions
                 /\ \A f \in {Core} \cup Holding(d.features, spec[2]) : <<t, f>> \in c.features
                 /\ d.defaults \/ t \notin AtTopLevel => t \in c.defaults
      <3>1. Leads(c, spec, d)
        BY <1>6, <2>1, <2>2, LeadsGrows
      <3> QED
        BY <2>1, <2>2, <3>1 DEF Closed, InAll
    <2>3. /\ t \in Spec
          /\ \A v \in AppliedBy(d) : <<t, v>> \in Existing
          /\ {Core} \cup Holding(d.features, spec[2]) \subseteq Feature
      BY <1>3, <2>1, LeadsFacts
    <2>4. ASSUME NEW v \in AppliedBy(d) PROVE <<t, v>> \in b.versions
      BY <1>2, <2>2, <2>3
    <2>5. ASSUME NEW f \in {Core} \cup Holding(d.features, spec[2]) PROVE <<t, f>> \in b.features
      BY <1>2, <2>2, <2>3
    <2> QED
      BY <1>2, <2>2, <2>3, <2>4, <2>5
  <1>8. ASSUME NEW c
        PROVE  InAll(LeadTo(e), c) <=> InAll(e, c)
    <2>1. Sub(e, LeadTo(e)) /\ \A x \in Declarations : Sub(e, x) /\ Closed(x) => Sub(LeadTo(e), x)
      BY LeadToFacts
    <2> QED
      BY <2>1 DEF InAll, Sub
  <1>9. Bound(LeadTo(e)) = Bound(e)
    BY <1>8 DEF Bound
  <1>10. ASSUME LeadTo(e) = e PROVE b = e
    <2>1. InAll(e, e)
      BY <1>10, LeadToFacts DEF InAll, Sub
    <2>2. Sub(b, e)
      BY <1>6, <2>1
    <2>3. b.versions = e.versions /\ b.features = e.features /\ b.defaults = e.defaults
      BY <1>5, <2>2 DEF Sub
    <2>4. b = [versions |-> b.versions, features |-> b.features, defaults |-> b.defaults]
      BY <1>2
    <2>5. e = [versions |-> e.versions, features |-> e.features, defaults |-> e.defaults]
      BY <1>4
    <2> QED
      BY <2>3, <2>4, <2>5
  <1> QED
    BY <1>1, <1>3, <1>5, <1>6, <1>7, <1>9, <1>10 DEF InAll

\* A declaration as one set.
Flat(d) == ({1} \X d.versions) \cup ({2} \X d.features) \cup ({3} \X d.defaults)
All == ({1} \X Existing) \cup ({2} \X (Spec \X Feature)) \cup ({3} \X Spec)

LEMMA FlatFacts ==
    ASSUME NEW d \in Declarations, NEW e \in Declarations
    PROVE  /\ Flat(d) \subseteq All
           /\ Sub(d, e) => Flat(d) \subseteq Flat(e)
           /\ Flat(d) = Flat(e) => d = e
  <1>1. ASSUME NEW c \in Declarations
        PROVE  /\ c = [versions |-> c.versions, features |-> c.features, defaults |-> c.defaults]
               /\ c.versions \subseteq Existing /\ c.features \subseteq Spec \X Feature /\ c.defaults \subseteq Spec
               /\ \A a : a \in c.versions <=> <<1, a>> \in Flat(c)
               /\ \A a : a \in c.features <=> <<2, a>> \in Flat(c)
               /\ \A a : a \in c.defaults <=> <<3, a>> \in Flat(c)
    BY DEF Declarations, Flat
  <1>2. Flat(d) \subseteq All
    BY <1>1 DEF Flat, All
  <1>3. ASSUME Sub(d, e) PROVE Flat(d) \subseteq Flat(e)
    BY <1>3 DEF Sub, Flat
  <1>4. ASSUME Flat(d) = Flat(e) PROVE d = e
    <2>1. d.versions = e.versions
      BY <1>1, <1>4
    <2>2. d.features = e.features
      BY <1>1, <1>4
    <2>3. d.defaults = e.defaults
      BY <1>1, <1>4
    <2>4. d = [versions |-> d.versions, features |-> d.features, defaults |-> d.defaults]
      BY <1>1
    <2>5. e = [versions |-> e.versions, features |-> e.features, defaults |-> e.defaults]
      BY <1>1
    <2> QED
      BY <2>1, <2>2, <2>3, <2>4, <2>5
  <1> QED
    BY <1>2, <1>3, <1>4

LEMMA FiniteDeclarations ==
    ASSUME world \in DOMAIN Manifests
    PROVE  IsFiniteSet(All)
  <1>1. IsFiniteSet(Port) /\ IsFiniteSet(Triplet) /\ \A p \in Port : IsFiniteSet(DOMAIN Manifest.ports[p])
    BY ManifestsAssumption DEF Manifest
  <1>2. IsFiniteSet(Spec) /\ IsFiniteSet(Spec \X Feature)
    BY <1>1, FS_Product, FeatureIsFinite DEF Spec
  <1>3. IsFiniteSet(Existing)
    <2> DEFINE versions == {DOMAIN Manifest.ports[p] : p \in Port}
               of == [p \in Port |-> DOMAIN Manifest.ports[p]]
    <2>1. of \in Surjection(Port, versions)
      BY DEF Surjection
    <2>2. IsFiniteSet(versions)
      BY <1>1, <2>1, FS_Surjection
    <2>3. \A vs \in versions : IsFiniteSet(vs)
      BY <1>1
    <2>4. IsFiniteSet(UNION versions)
      <3> HIDE DEF versions
      <3> QED
        BY <2>2, <2>3, FS_UNION
    <2>5. IsFiniteSet({Overlay} \cup UNION versions)
      BY <2>4, FS_Singleton, FS_Union
    <2>6. IsFiniteSet(Spec \X ({Overlay} \cup UNION versions))
      BY <1>2, <2>5, FS_Product
    <2>7. Existing \subseteq Spec \X ({Overlay} \cup UNION versions)
      BY DEF Existing
    <2> QED
      BY <2>6, <2>7, FS_Subset
  <1>4. IsFiniteSet({1} \X Existing) /\ IsFiniteSet({2} \X (Spec \X Feature)) /\ IsFiniteSet({3} \X Spec)
    BY <1>2, <1>3, FS_Singleton, FS_Product
  <1>5. IsFiniteSet(({1} \X Existing) \cup ({2} \X (Spec \X Feature)))
    BY <1>4, FS_Union
  <1> QED
    BY <1>4, <1>5, FS_Union DEF All

\* No induction rule is cited: if Declared were not the bound somewhere, it would not be one step further either.
LEMMA DeclaredIsBound ==
    ASSUME world \in DOMAIN Manifests, NEW nothing, nothing = [versions |-> {}, features |-> {}, defaults |-> {}]
    PROVE  Declared = Bound(nothing) /\ nothing \in Declarations
  <1> DEFINE body(g, d) == IF LeadTo(d) = d THEN d ELSE g[LeadTo(d)]
             bound == [d \in Declarations |-> Bound(d)]
  <1>1. PICK grown : grown = CHOOSE g : g = [d \in Declarations |-> body(g, d)]
    OBVIOUS
  <1>2. Declared = grown[nothing]
    BY <1>1 DEF Declared
  <1>3. bound = [d \in Declarations |-> body(bound, d)]
    <2>1. ASSUME NEW d \in Declarations
          PROVE  Bound(d) = body(bound, d)
      <3>1. LeadTo(d) \in Declarations
        BY LeadToFacts
      <3> QED
        BY <3>1, BoundFacts
    <2> QED
      BY <2>1
  <1>4. grown = [d \in Declarations |-> body(grown, d)]
    BY <1>1, <1>3
  <1> DEFINE wrong == {Flat(d) : d \in {x \in Declarations : grown[x] # Bound(x)}}
  <1>5. wrong \in SUBSET SUBSET All
    BY FlatFacts
  <1>6. /\ \A s \in wrong : \E d \in Declarations : s = Flat(d) /\ grown[d] # Bound(d)
        /\ \A d \in Declarations : grown[d] # Bound(d) => Flat(d) \in wrong
    OBVIOUS
  <1> HIDE DEF wrong
  <1>7. ASSUME wrong # {}
        PROVE  FALSE
    <2>1. PICK s \in wrong : \A t \in wrong : s \subseteq t => s = t
      BY <1>5, <1>7, FiniteDeclarations, GreatestSubset
    <2>2. PICK d \in Declarations : s = Flat(d) /\ grown[d] # Bound(d)
      BY <1>6
    <2>3. /\ LeadTo(d) \in Declarations /\ Sub(d, LeadTo(d))
          /\ Bound(LeadTo(d)) = Bound(d) /\ (LeadTo(d) = d => Bound(d) = d)
      BY LeadToFacts, BoundFacts
    <2>4. grown[d] = body(grown, d)
      BY <1>4
    <2>5. LeadTo(d) # d /\ grown[LeadTo(d)] # Bound(LeadTo(d))
      BY <2>2, <2>3, <2>4
    <2>6. Flat(LeadTo(d)) \in wrong
      BY <1>6, <2>3, <2>5
    <2>7. Flat(d) \subseteq Flat(LeadTo(d))
      BY <2>3, FlatFacts
    <2>8. Flat(d) = Flat(LeadTo(d))
      BY <2>1, <2>2, <2>6, <2>7
    <2> QED
      BY <2>3, <2>5, <2>8, FlatFacts
  <1>8. nothing \in Declarations
    BY DEF Declarations
  <1>9. grown[nothing] = Bound(nothing)
    BY <1>6, <1>7, <1>8
  <1> QED
    BY <1>2, <1>8, <1>9

\* Declared is closed, and in whatever else is.
LEMMA DeclaredFacts ==
    ASSUME world \in DOMAIN Manifests
    PROVE  /\ Declared \in Declarations /\ Closed(Declared)
           /\ \A c \in Declarations : Closed(c) => Sub(Declared, c)
  <1>1. PICK nothing : nothing = [versions |-> {}, features |-> {}, defaults |-> {}]
    OBVIOUS
  <1>2. Declared = Bound(nothing) /\ nothing \in Declarations
    BY <1>1, DeclaredIsBound
  <1>3. \A c : Sub(nothing, c)
    BY <1>1 DEF Sub
  <1> QED
    BY <1>2, <1>3, BoundFacts

(***************************************************************************)
(* Phase 1 applies nothing that is not declared.                           *)
(***************************************************************************)
Within(e) ==
    \A s \in DOMAIN graph :
        /\ \A v \in graph[s].considered : <<s, v>> \in e.versions
        /\ \A f \in graph[s].requested : <<s, f>> \in e.features
        /\ graph[s].defaults => s \in e.defaults

AllWithin == \A e \in Declarations : Closed(e) => Within(e)

LEMMA DeclarationsStay ==
    ASSUME UNCHANGED world
    PROVE  Declarations' = Declarations /\ \A e : Closed(e)' <=> Closed(e)
  <1>1. /\ Manifest' = Manifest /\ TopLevel' = TopLevel /\ AtTopLevel' = AtTopLevel
        /\ \A name : CanStart(name)' = CanStart(name) /\ Pinned(name)' = Pinned(name)
                     /\ FirstScfl(name)' = FirstScfl(name)
        /\ \A name, v : Has(name, v)' = Has(name, v) /\ Exists(name, v)' = Exists(name, v)
                        /\ PortOf(name, v)' = PortOf(name, v)
        /\ \A s, v : FeaturesOf(s, v)' = FeaturesOf(s, v) /\ Defaults(s, v)' = Defaults(s, v)
    BY WorldFacts
  <1>2. Existing' = Existing
    BY <1>1 DEF Existing
  <1>3. \A e, spec, d : Leads(e, spec, d)' <=> Leads(e, spec, d)
    <2> SUFFICES ASSUME NEW e, NEW spec, NEW d PROVE Leads(e, spec, d)' <=> Leads(e, spec, d)
      OBVIOUS
    <2>1. (spec = TopLevel /\ \E j \in 1 .. Len(Manifest.depends) : Manifest.depends[j] = d)'
          <=> (spec = TopLevel /\ \E j \in 1 .. Len(Manifest.depends) : Manifest.depends[j] = d)
      BY <1>1
    <2>2. ASSUME NEW a \in e.versions
          PROVE  /\ FeaturesOf(spec, a[2])' = FeaturesOf(spec, a[2]) /\ Defaults(spec, a[2])' = Defaults(spec, a[2])
                 /\ PortOf(spec[1], a[2])' = PortOf(spec[1], a[2])
      BY <1>1
    <2>3. From(e, spec, d)' <=> From(e, spec, d)
      BY <2>1, <2>2 DEF From
    <2>4. CanStart(d.name)' <=> CanStart(d.name)
      BY <1>1
    <2> QED
      BY <2>3, <2>4 DEF Leads
  <1>4. \A d : AppliedBy(d)' = AppliedBy(d)
    BY <1>1 DEF AppliedBy
  <1>5. \A e : Closed(e)' <=> Closed(e)
    BY <1>1, <1>3, <1>4 DEF Closed, SpecOf
  <1> QED
    BY <1>2, <1>5 DEF Declarations

\* The first dependency of the frame, if it holds, is one of the declaration.
LEMMA HeadLeads ==
    ASSUME GraphInv, WorkShape, SourceInv, frame.deps # <<>>, NEW s, s = frame.spec, NEW d, d = Dep,
           s[2] \in d.on, CanStart(d.name), NEW e, Within(e)
    PROVE  Leads(e, s, d)
  <1>1. Sourced(s, d)
    BY HeadSourced
  <1>2. CASE s = TopLevel /\ \E j \in 1 .. Len(Manifest.depends) : Manifest.depends[j] = d
    BY <1>2 DEF Leads, From
  <1>3. ASSUME s \in DOMAIN graph, NEW v \in graph[s].considered,
               NEW f \in ({Core} \cup Required(s, graph[s], v)) \cap FeaturesOf(s, v),
               NEW k \in 1 .. Len(PortOf(s[1], v).needs[f]), PortOf(s[1], v).needs[f][k] = d
        PROVE  Leads(e, s, d)
    <2>1. <<s, v>> \in e.versions
      BY <1>3 DEF Within
    <2>2. <<s, f>> \in e.features \/ (s \in e.defaults /\ f \in Defaults(s, v))
      <3>1. Core \in graph[s].requested
        BY <1>3 DEF WorkShape, NodeShape, NodeIn
      <3> QED
        BY <1>3, <3>1 DEF Within, Required
    <2>3. PICK a : a = <<s, v>>
      OBVIOUS
    <2>4. a \in e.versions /\ a[1] = s /\ a[2] = v
      BY <2>1, <2>3
    <2> QED
      BY <1>3, <2>2, <2>4 DEF Leads, From
  <1> QED
    BY <1>1, <1>2, <1>3 DEF Sourced

\* A package that the manifest names has been met once dependencies of others are followed.
LEMMA NewIsNotAtTopLevel ==
    ASSUME GraphInv, WorkInv, frame.deps # <<>>, frame.spec # TopLevel, NEW spec, spec \notin DOMAIN graph, CanStart(spec[1])
    PROVE  spec \notin AtTopLevel
  <1>1. ASSUME spec \in AtTopLevel
        PROVE  FALSE
    <2>1. PICK i \in {k \in 1 .. Len(Manifest.depends) : Manifest.triplet \in Manifest.depends[k].on} :
             spec = SpecOf(Manifest.depends[i], TopLevel)
      BY <1>1 DEF AtTopLevel, Roots
    <2>2. PICK d : d = Manifest.depends[i]
      OBVIOUS
    <2>3. WorkShape /\ (Followed(TopLevel, d) \/ Pending(TopLevel, d))
      BY <2>1, <2>2 DEF WorkInv, Covered
    <2>4. spec = SpecOf(d, TopLevel) /\ TopLevel[2] \in d.on
      BY <2>1, <2>2 DEF TopLevel
    <2>5. spec[1] = d.name
      BY <2>4 DEF SpecOf
    <2>6. ~ Followed(TopLevel, d)
      BY <2>3, <2>4, <2>5 DEF Followed, Granted, WorkShape
    <2>7. ~ Pending(TopLevel, d)
      <3>1. \A s \in DOMAIN graph : s \in Spec
        BY <2>3 DEF WorkShape, NodeShape
      <3>2. TopLevel \notin DOMAIN graph
        <4>1. None \notin Port
          BY ManifestsAssumption
        <4> QED
          BY <3>1, <4>1 DEF TopLevel, Spec
      <3>3. \A j \in 1 .. Len(stack) : stack[j].spec \in DOMAIN graph
        <4>1. stack \in Seq(FrameIn(DOMAIN graph))
          BY <2>3 DEF WorkShape, FrameShape
        <4>2. \A j \in 1 .. Len(stack) : stack[j] \in FrameIn(DOMAIN graph)
          BY <4>1
        <4> QED
          BY <4>2 DEF FrameIn
      <3> QED
        BY <3>2, <3>3 DEF Pending, InFrame
    <2> QED
      BY <2>3, <2>6, <2>7
  <1> QED
    BY <1>1

\* The node of a dependency stays within a declaration that the dependency is of.
LEMMA WithinExtends ==
    ASSUME Grows, NEW e, Within(e), NEW spec, NEW m, NEW q, Extends(spec, m, q),
           \A v \in m.considered : <<spec, v>> \in e.versions,
           \A f \in m.requested : <<spec, f>> \in e.features,
           m.defaults => spec \in e.defaults
    PROVE  Within(e)'
  <1>1. /\ \A s \in DOMAIN graph' : s = spec \/ (s \in DOMAIN graph /\ graph'[s] = graph[s])
        /\ graph'[spec] = m
    BY DEF Extends
  <1> QED
    BY <1>1 DEF Within

LEMMA WithinStep ==
    ASSUME GraphInv, GraphInv', WorkInv, SourceInv, [NextVersioned]_versionedVars, NEW e \in Declarations, Closed(e), Within(e)
    PROVE  Within(e)'
  <1>1. Grows /\ WorkShape /\ world \in DOMAIN Manifests
    BY WorkStep DEF WorkInv, Step, GraphInv
  <1>2. PICK spec, s, d : spec = DepSpec /\ s = frame.spec /\ d = Dep
    OBVIOUS
  <1>3. spec = SpecOf(d, s)
    BY <1>2 DEF DepSpec
  <1>4. ASSUME frame.deps # <<>>, s[2] \in d.on, CanStart(d.name)
        PROVE  /\ spec[1] = d.name
               /\ \A v \in AppliedBy(d) : <<spec, v>> \in e.versions
               /\ \A f \in {Core} \cup Holding(d.features, s[2]) : <<spec, f>> \in e.features
               /\ d.defaults \/ spec \notin AtTopLevel => spec \in e.defaults
    <2>1. Leads(e, s, d)
      BY <1>1, <1>2, <1>4, HeadLeads
    <2> QED
      BY <1>1, <1>2, <1>3, <1>4, <2>1, HeadFacts DEF Closed
  <1>5. CASE RequireDependency
    <2>1. (\E m, q : Extends(spec, m, q) /\ Requires(spec, d.min, m, q)) /\ frame.deps # <<>> /\ s[2] \in d.on
      BY <1>1, <1>2, <1>5, RequireDependencyFacts
    <2>2. PICK m : \E q : Extends(spec, m, q) /\ Requires(spec, d.min, m, q)
      BY <2>1
    <2>3. PICK q : Extends(spec, m, q) /\ Requires(spec, d.min, m, q)
      BY <2>2
    <2>4. spec[1] = d.name
      BY <1>1, <1>2, <2>1, HeadFacts
    <2>5. CanStart(d.name) /\ NodeIn(spec, m) /\ spec \in Spec
      BY <2>3, <2>4 DEF Extends
    <2>6. graph'[spec] = m /\ spec \in DOMAIN graph'
      BY <2>3 DEF Extends
    <2>7. Selects(d.name, m)
      <3>1. Selects(spec[1], m)'
        BY <2>6 DEF GraphInv
      <3>2. UNCHANGED world
        BY <1>1 DEF Grows
      <3> QED
        BY <2>4, <3>1, <3>2 DEF Selects, FirstScfl, Pinned, Manifest
    <2>8. ASSUME NEW v \in m.considered
          PROVE  <<spec, v>> \in e.versions
      <3>1. CASE spec \in DOMAIN graph /\ v \in graph[spec].considered
        BY <3>1 DEF Within
      <3>2. CASE ~ (spec \in DOMAIN graph /\ v \in graph[spec].considered)
        <4>1. v = FirstScfl(d.name) \/ (~ Pinned(d.name) /\ Has(d.name, v) /\ v = d.min)
          BY <2>3, <2>4, <2>8, <3>2 DEF Requires
        <4>2. v \in AppliedBy(d)
          <5>1. CASE v = FirstScfl(d.name)
            BY <5>1 DEF AppliedBy
          <5>2. CASE v # FirstScfl(d.name)
            <6>1. CompareVersions(FirstScfl(d.name), v) = "lt"
              BY <2>7, <2>8, <5>2 DEF Selects
            <6>2. FirstScfl(d.name) = Manifest.baseline[d.name]
              BY <4>1, <5>2 DEF FirstScfl, Pinned
            <6>3. v # None
              <7>1. v \in Version
                BY <1>1, <2>4, <2>5, <4>1, <5>2, HasExists DEF Spec
              <7> QED
                BY <7>1, ManifestsAssumption
            <6> QED
              BY <4>1, <5>2, <6>1, <6>2, <6>3 DEF AppliedBy
          <5> QED
            BY <5>1, <5>2
        <4> QED
          BY <1>4, <2>1, <2>5, <4>2
      <3> QED
        BY <3>1, <3>2
    <2>9. ASSUME NEW f \in m.requested
          PROVE  <<spec, f>> \in e.features
      <3>1. CASE spec \in DOMAIN graph
        BY <2>3, <2>9, <3>1 DEF Requires, Within
      <3>2. CASE spec \notin DOMAIN graph
        <4>1. f = Core
          BY <2>3, <2>9, <3>2 DEF Requires
        <4> QED
          BY <1>4, <2>1, <2>5, <4>1
      <3> QED
        BY <3>1, <3>2
    <2>10. ASSUME m.defaults
           PROVE  spec \in e.defaults
      <3>1. CASE spec \in DOMAIN graph
        BY <2>3, <2>10, <3>1 DEF Requires, Within
      <3>2. CASE spec \notin DOMAIN graph
        <4>1. m.defaults = (frame.spec[1] # TopLevel[1])
          BY <2>3, <3>2 DEF Requires
        <4>2. frame.spec # TopLevel
          BY <2>10, <4>1
        <4>3. spec \notin AtTopLevel
          BY <2>1, <2>4, <2>5, <3>2, <4>2, NewIsNotAtTopLevel
        <4> QED
          BY <1>4, <2>1, <2>5, <4>3
      <3> QED
        BY <3>1, <3>2
    <2> QED
      BY <1>1, <2>3, <2>8, <2>9, <2>10, WithinExtends
  <1>6. CASE RequireFeature
    <2>1. PICK f : f = Head(wanted).name
      OBVIOUS
    <2>2. /\ \E m, q : Extends(spec, m, q) /\ Asks(spec, m, q) /\ m.requested = graph[spec].requested \cup {f}
                       /\ m.defaults = graph[spec].defaults
          /\ spec \in DOMAIN graph /\ met /\ wanted # <<>> /\ s[2] \in Head(wanted).on
      BY <1>1, <1>2, <1>6, <2>1, RequireFeatureFacts
    <2>3. PICK m : \E q : Extends(spec, m, q) /\ Asks(spec, m, q) /\ m.requested = graph[spec].requested \cup {f}
                       /\ m.defaults = graph[spec].defaults
      BY <2>2
    <2>4. PICK q : Extends(spec, m, q) /\ Asks(spec, m, q) /\ m.requested = graph[spec].requested \cup {f}
                       /\ m.defaults = graph[spec].defaults
      BY <2>3
    <2>5. frame.deps # <<>> /\ s[2] \in d.on
      BY <1>1, <1>2, <2>2 DEF WorkShape, WantedShape
    <2>6. CanStart(d.name)
      BY <1>1, <1>2, <2>2, <2>5, HeadFacts
    <2>7. f \in Holding(d.features, s[2])
      <3>1. wanted \in Seq(FeatureRef)
        BY <1>1 DEF WorkShape, WantedShape
      <3>2. Head(wanted) = wanted[1] /\ 1 \in 1 .. Len(wanted)
        BY <2>2, <3>1
      <3>3. PICK k \in 1 .. Len(d.features) : d.features[k] = wanted[1]
        BY <1>1, <1>2, <2>2, <3>2 DEF WorkShape, WantedShape
      <3> QED
        BY <2>1, <2>2, <3>2, <3>3 DEF Holding
    <2>8. \A v \in m.considered : <<spec, v>> \in e.versions
      BY <2>2, <2>4 DEF Asks, Within
    <2>9. \A g \in m.requested : <<spec, g>> \in e.features
      BY <1>4, <2>2, <2>4, <2>5, <2>6, <2>7 DEF Within
    <2>10. m.defaults => spec \in e.defaults
      BY <2>2, <2>4 DEF Within
    <2> QED
      BY <1>1, <2>4, <2>8, <2>9, <2>10, WithinExtends
  <1>7. CASE RequireDefaults
    <2>1. /\ \E m, q : Extends(spec, m, q) /\ Asks(spec, m, q) /\ m.requested = graph[spec].requested
                       /\ m.defaults = (graph[spec].defaults \/ d.defaults)
          /\ spec \in DOMAIN graph /\ met
      BY <1>1, <1>2, <1>7, RequireDefaultsFacts
    <2>2. PICK m : \E q : Extends(spec, m, q) /\ Asks(spec, m, q) /\ m.requested = graph[spec].requested
                       /\ m.defaults = (graph[spec].defaults \/ d.defaults)
      BY <2>1
    <2>3. PICK q : Extends(spec, m, q) /\ Asks(spec, m, q) /\ m.requested = graph[spec].requested
                       /\ m.defaults = (graph[spec].defaults \/ d.defaults)
      BY <2>2
    <2>4. frame.deps # <<>> /\ s[2] \in d.on
      BY <1>1, <1>2, <2>1 DEF WorkShape, WantedShape
    <2>5. CanStart(d.name)
      BY <1>1, <1>2, <2>1, <2>4, HeadFacts
    <2>6. \A v \in m.considered : <<spec, v>> \in e.versions
      BY <2>1, <2>3 DEF Asks, Within
    <2>7. \A g \in m.requested : <<spec, g>> \in e.features
      BY <2>1, <2>3 DEF Within
    <2>8. m.defaults => spec \in e.defaults
      BY <1>4, <2>1, <2>3, <2>4, <2>5 DEF Within
    <2> QED
      BY <1>1, <2>3, <2>6, <2>7, <2>8, WithinExtends
  <1>8. CASE \/ PopFrame \/ SkipDependency \/ FailPackage \/ SkipFeature
             \/ Resolved \/ WalkRoot \/ WalkDependency \/ Emit \/ Finish \/ UNCHANGED versionedVars
    <2>1. UNCHANGED graph
      BY <1>8 DEF PopFrame, SkipDependency, FailPackage, SkipFeature, Resolved, WalkRoot, WalkDependency, Emit, Finish,
                  Extracting, resolverVars, versionedVars
    <2> QED
      BY <2>1 DEF Within
  <1> QED
    BY <1>5, <1>6, <1>7, <1>8 DEF NextVersioned

\* In every state of phase 1 no version, feature or default feature is applied that is not declared
\* (dependencies.cpp:1359-1368, 1529-1731).
THEOREM AppliesOnlyDeclared == Versioned => [] Within(Declared)
  <1> DEFINE Inv == GraphInv /\ WorkInv /\ SourceInv /\ AllWithin
  <1>1. InitVersioned => Inv
    <2>1. InitVersioned => AllWithin
      <3> SUFFICES ASSUME InitVersioned PROVE AllWithin
        OBVIOUS
      <3>1. DOMAIN graph = {}
        BY DEF InitVersioned
      <3> QED
        BY <3>1 DEF AllWithin, Within
    <2> QED
      BY <2>1, InitGraph, InitWork, InitSource
  <1>2. Inv /\ [NextVersioned]_versionedVars => Inv'
    <2> SUFFICES ASSUME Inv, [NextVersioned]_versionedVars PROVE Inv'
      OBVIOUS
    <2>1. GraphInv'
      BY GraphStep
    <2>2. WorkInv' /\ SourceInv'
      BY <2>1, WorkInvStep, SourceStep
    <2>3. UNCHANGED world
      BY WorkStep DEF WorkInv, Step, Grows
    <2>4. \A e \in Declarations : Closed(e) => Within(e)'
      BY <2>1, WithinStep DEF AllWithin
    <2>5. AllWithin'
      BY <2>3, <2>4, DeclarationsStay DEF AllWithin
    <2> QED
      BY <2>1, <2>2, <2>5
  <1>3. Inv => Within(Declared)
    BY DeclaredFacts DEF AllWithin, GraphInv
  <1> QED
    BY <1>1, <1>2, <1>3, PTL DEF Versioned

(***************************************************************************)
(* Phase 1 applies all that is declared.                                   *)
(***************************************************************************)
\* What any considered version depends on is followed or pending.
AllCovered ==
    \A s \in DOMAIN graph : \A v \in graph[s].considered : \A f \in Required(s, graph[s], v) \cap FeaturesOf(s, v) :
        Covered(s, PortOf(s[1], v).needs[f])

LEMMA StablePortsStay ==
    ASSUME UNCHANGED world
    PROVE  (FeaturesStable' <=> FeaturesStable) /\ (DefaultsExist' <=> DefaultsExist)
  <1>1. Manifest' = Manifest /\ \A name, v : Exists(name, v)' = Exists(name, v) /\ PortOf(name, v)' = PortOf(name, v)
    BY WorldFacts
  <1>2. FeaturesStable' <=> FeaturesStable
    BY <1>1 DEF FeaturesStable
  <1>3. DefaultsExist' <=> DefaultsExist
    BY <1>1 DEF DefaultsExist
  <1> QED
    BY <1>2, <1>3

\* The same dependencies, in what version ever.
LEMMA AllStays ==
    ASSUME GraphInv, GraphInv', WorkShape, AllCovered, Grows, Keeps,
           \A s \in DOMAIN graph' : \A v \in graph'[s].considered :
               \A f \in Required(s, graph'[s], v) \cap FeaturesOf(s, v) : \E w :
                   /\ PortOf(s[1], w).needs[f] = PortOf(s[1], v).needs[f]
                   /\ \/ /\ s \in DOMAIN graph /\ w \in graph[s].considered
                         /\ f \in Required(s, graph[s], w) \cap FeaturesOf(s, w)
                      \/ Pushed(stack', s, w, f)
    PROVE  AllCovered'
  <1>1. /\ \A name, v : PortOf(name, v)' = PortOf(name, v)
        /\ \A s, v : FeaturesOf(s, v)' = FeaturesOf(s, v)
        /\ \A s, n, v : Required(s, n, v)' = Required(s, n, v)
    BY WorldFacts DEF Grows
  <1>2. \A s \in DOMAIN graph : s \in Spec
    BY DEF WorkShape, NodeShape
  <1>3. ASSUME NEW s \in DOMAIN graph', NEW n, n = graph'[s], NEW v \in n.considered,
               NEW f \in Required(s, n, v) \cap FeaturesOf(s, v), NEW deps, deps = PortOf(s[1], v).needs[f]
        PROVE  Covered(s, deps)'
    <2>1. PICK w :
             /\ PortOf(s[1], w).needs[f] = deps
             /\ \/ /\ s \in DOMAIN graph /\ w \in graph[s].considered
                   /\ f \in Required(s, graph[s], w) \cap FeaturesOf(s, w)
                \/ Pushed(stack', s, w, f)
      BY <1>3
    <2>2. CASE s \in DOMAIN graph /\ w \in graph[s].considered /\ f \in Required(s, graph[s], w) \cap FeaturesOf(s, w)
      <3>1. Covered(s, deps)
        BY <2>1, <2>2 DEF AllCovered
      <3> QED
        BY <1>2, <3>1, CoveredStays
    <2>3. CASE Pushed(stack', s, w, f)
      BY <2>1, <2>3, PushedCovers
    <2> QED
      BY <2>1, <2>2, <2>3
  <1>4. \A s \in DOMAIN graph' : \A v \in graph'[s].considered : \A f \in Required(s, graph'[s], v) \cap FeaturesOf(s, v) :
           Covered(s, PortOf(s[1], v).needs[f])'
    BY <1>1, <1>3
  <1> QED
    BY <1>1, <1>4 DEF AllCovered

\* A version other than the first one has the features of that, which need the same.
LEMMA SameNeeds ==
    ASSUME world \in DOMAIN Manifests, FeaturesStable, NEW spec \in Spec, CanStart(spec[1]), ~ Pinned(spec[1]),
           NEW v, Has(spec[1], v), NEW f \in FeaturesOf(spec, v), f # Core, NEW n, f \in Required(spec, n, v)
    PROVE  LET w == FirstScfl(spec[1])
           IN  /\ PortOf(spec[1], w).needs[f] = PortOf(spec[1], v).needs[f]
               /\ f \in FeaturesOf(spec, w) /\ f \in Required(spec, n, w)
  <1>1. PICK p : p = spec[1]
    OBVIOUS
  <1>2. PICK w : w = FirstScfl(p)
    OBVIOUS
  <1>3. p \in Port /\ Exists(p, v) /\ v # Overlay /\ v \in DOMAIN Manifest.ports[p]
    BY <1>1, HasExists DEF Spec, Has
  <1>4. f \in Feature
    BY <1>1, <1>3, FeaturesFacts
  <1>5. w \in DOMAIN Manifest.ports[p] /\ w # Overlay
    <2>1. Exists(p, w) /\ p \in Port
      BY <1>1, <1>2, FirstExists
    <2>2. w # Overlay
      BY <1>1, <1>2, <1>3, ManifestsAssumption DEF FirstScfl, Pinned, Manifest
    <2> QED
      BY <2>1, <2>2 DEF Exists, Has
  <1>6. PortOf(p, v) = Manifest.ports[p][v] /\ PortOf(p, w) = Manifest.ports[p][w]
    BY <1>3, <1>5 DEF PortOf
  <1>7. f \in DOMAIN Manifest.ports[p][v].needs
    BY <1>1, <1>6 DEF FeaturesOf
  <1>8. /\ f \in DOMAIN Manifest.ports[p][w].needs /\ Manifest.ports[p][v].needs[f] = Manifest.ports[p][w].needs[f]
        /\ Manifest.ports[p][v].defaults = Manifest.ports[p][w].defaults
    BY <1>3, <1>4, <1>5, <1>7 DEF FeaturesStable
  <1>9. Defaults(spec, v) = Defaults(spec, w)
    BY <1>1, <1>6, <1>8 DEF Defaults
  <1>10. f \in Required(spec, n, w)
    BY <1>9 DEF Required
  <1> QED
    BY <1>1, <1>2, <1>6, <1>8, <1>10 DEF FeaturesOf

LEMMA AllCoveredStep ==
    GraphInv /\ GraphInv' /\ WorkInv /\ FeaturesStable /\ DefaultsExist /\ AllCovered /\ [NextVersioned]_versionedVars => AllCovered'
  <1> SUFFICES ASSUME GraphInv, GraphInv', WorkInv, FeaturesStable, DefaultsExist, AllCovered, [NextVersioned]_versionedVars
               PROVE  AllCovered'
    OBVIOUS
  <1>1. Grows /\ Keeps /\ WorkShape /\ world \in DOMAIN Manifests
    BY WorkStep DEF WorkInv, Step, GraphInv
  <1>2. ASSUME UNCHANGED <<world, graph>> PROVE AllCovered'
    <2>1. \A s \in DOMAIN graph' : \A v \in graph'[s].considered :
             \A f \in Required(s, graph'[s], v) \cap FeaturesOf(s, v) :
                s \in DOMAIN graph /\ v \in graph[s].considered /\ f \in Required(s, graph[s], v) \cap FeaturesOf(s, v)
      BY <1>2
    <2> QED
      BY <1>1, <2>1, AllStays
  <1>3. ASSUME NEW spec, NEW m, NEW q, Extends(spec, m, q),
               \A v \in m.considered : \A f \in Required(spec, m, v) \cap FeaturesOf(spec, v) : \E w :
                  /\ PortOf(spec[1], w).needs[f] = PortOf(spec[1], v).needs[f]
                  /\ \/ /\ spec \in DOMAIN graph /\ w \in graph[spec].considered
                        /\ f \in Required(spec, graph[spec], w) \cap FeaturesOf(spec, w)
                     \/ Pushed(q, spec, w, f)
        PROVE  AllCovered'
    <2>1. /\ \A s \in DOMAIN graph' : s = spec \/ (s \in DOMAIN graph /\ graph'[s] = graph[s])
          /\ graph'[spec] = m
      BY <1>3 DEF Extends
    <2>2. \A w, f : Pushed(q, spec, w, f) => Pushed(stack', spec, w, f)
      BY <1>1, <1>3, StackPushed
    <2>3. ASSUME NEW s \in DOMAIN graph', NEW n, n = graph'[s], NEW v \in n.considered, NEW f \in Required(s, n, v) \cap FeaturesOf(s, v)
          PROVE  \E w :
                   /\ PortOf(s[1], w).needs[f] = PortOf(s[1], v).needs[f]
                   /\ \/ /\ s \in DOMAIN graph /\ w \in graph[s].considered
                         /\ f \in Required(s, graph[s], w) \cap FeaturesOf(s, w)
                      \/ Pushed(stack', s, w, f)
      <3>1. CASE s = spec
        BY <1>3, <2>1, <2>2, <2>3, <3>1
      <3>2. CASE s # spec
        BY <2>1, <2>3, <3>2
      <3> QED
        BY <3>1, <3>2
    <2> QED
      BY <1>1, <2>3, AllStays
  <1>4. ASSUME NEW spec, NEW m, NEW q, Extends(spec, m, q), Asks(spec, m, q) PROVE AllCovered'
    <2>1. ASSUME NEW v \in m.considered, NEW f \in Required(spec, m, v) \cap FeaturesOf(spec, v)
          PROVE  \E w :
                  /\ PortOf(spec[1], w).needs[f] = PortOf(spec[1], v).needs[f]
                  /\ \/ /\ spec \in DOMAIN graph /\ w \in graph[spec].considered
                        /\ f \in Required(spec, graph[spec], w) \cap FeaturesOf(spec, w)
                     \/ Pushed(q, spec, w, f)
      BY <1>4, <2>1 DEF Asks
    <2> QED
      BY <1>3, <1>4, <2>1
  <1>5. ASSUME NEW spec, NEW min, NEW m, NEW q, Extends(spec, m, q), Requires(spec, min, m, q) PROVE AllCovered'
    <2>1. spec \in Spec /\ CanStart(spec[1]) /\ NodeIn(spec, m)
      BY <1>5 DEF Extends
    <2>2. PICK first : first = FirstScfl(spec[1])
      OBVIOUS
    <2>3. ASSUME NEW v \in m.considered, NEW f \in Required(spec, m, v) \cap FeaturesOf(spec, v)
          PROVE  \E w :
                  /\ PortOf(spec[1], w).needs[f] = PortOf(spec[1], v).needs[f]
                  /\ \/ /\ spec \in DOMAIN graph /\ w \in graph[spec].considered
                        /\ f \in Required(spec, graph[spec], w) \cap FeaturesOf(spec, w)
                     \/ Pushed(q, spec, w, f)
      <3>1. CASE spec \in DOMAIN graph
        <4>1. m.requested = graph[spec].requested /\ m.defaults = graph[spec].defaults
          BY <1>5, <3>1 DEF Requires
        <4>2. first \in graph[spec].considered
          BY <2>2, <3>1 DEF GraphInv, Selects
        <4>3. \A w : Required(spec, m, w) = Required(spec, graph[spec], w)
          BY <4>1 DEF Required
        <4>4. CASE v \in graph[spec].considered
          BY <2>3, <3>1, <4>3, <4>4
        <4>5. CASE v \notin graph[spec].considered /\ f = Core
          BY <1>5, <2>3, <3>1, <4>5 DEF Requires
        <4>6. CASE v \notin graph[spec].considered /\ f # Core
          <5>1. ~ Pinned(spec[1]) /\ Has(spec[1], v)
            BY <1>5, <2>2, <2>3, <3>1, <4>2, <4>6 DEF Requires
          <5>2. /\ PortOf(spec[1], first).needs[f] = PortOf(spec[1], v).needs[f]
                /\ f \in FeaturesOf(spec, first) /\ f \in Required(spec, m, first)
            BY <1>1, <2>1, <2>2, <2>3, <4>6, <5>1, SameNeeds
          <5> QED
            BY <3>1, <4>2, <4>3, <5>2
        <4> QED
          BY <4>4, <4>5, <4>6
      <3>2. CASE spec \notin DOMAIN graph
        <4>1. m.requested = {Core} /\ PushesRequired(q, spec, m, first)
          BY <1>5, <2>2, <3>2 DEF Requires
        <4>2. Required(spec, m, first) \subseteq FeaturesOf(spec, first)
          <5>1. Exists(spec[1], first)
            BY <1>1, <2>1, <2>2, FirstExists
          <5>2. Defaults(spec, first) \subseteq FeaturesOf(spec, first) /\ Core \in FeaturesOf(spec, first)
            BY <1>1, <2>1, <5>1, DefaultsRequired
          <5> QED
            BY <4>1, <5>2 DEF Required
        <4>3. \A g \in Required(spec, m, first) : Pushed(q, spec, first, g)
          BY <4>1, <4>2 DEF PushesRequired
        <4>4. CASE v = first
          BY <2>3, <4>3, <4>4
        <4>5. CASE v # first /\ f = Core
          BY <1>5, <2>3, <3>2, <4>5 DEF Requires
        <4>6. CASE v # first /\ f # Core
          <5>1. ~ Pinned(spec[1]) /\ Has(spec[1], v)
            BY <1>5, <2>2, <2>3, <3>2, <4>6 DEF Requires
          <5>2. /\ PortOf(spec[1], first).needs[f] = PortOf(spec[1], v).needs[f]
                /\ f \in Required(spec, m, first)
            BY <1>1, <2>1, <2>2, <2>3, <4>6, <5>1, SameNeeds
          <5> QED
            BY <4>3, <5>2
        <4> QED
          BY <4>4, <4>5, <4>6
      <3> QED
        BY <3>1, <3>2
    <2> QED
      BY <1>3, <1>5, <2>3
  <1> QED
    BY <1>1, <1>2, <1>4, <1>5, StepKinds

LEMMA ApplicationsFacts ==
    ASSUME NEW c, c = Applications
    PROVE  /\ c = [versions |-> c.versions, features |-> c.features, defaults |-> c.defaults]
           /\ \A a : a \in c.versions <=> \E s \in DOMAIN graph : \E v \in graph[s].considered : a = <<s, v>>
           /\ \A a : a \in c.features <=> \E s \in DOMAIN graph : \E f \in graph[s].requested : a = <<s, f>>
           /\ \A s : s \in c.defaults <=> s \in DOMAIN graph /\ graph[s].defaults
           /\ \A s \in DOMAIN graph : \A v \in graph[s].considered : <<s, v>> \in c.versions
           /\ \A s \in DOMAIN graph : \A f \in graph[s].requested : <<s, f>> \in c.features
  <1>1. PICK versions, features, defaults :
          /\ versions = UNION {{<<s, v>> : v \in graph[s].considered} : s \in DOMAIN graph}
          /\ features = UNION {{<<s, f>> : f \in graph[s].requested} : s \in DOMAIN graph}
          /\ defaults = {s \in DOMAIN graph : graph[s].defaults}
    OBVIOUS
  <1>2. c = [versions |-> versions, features |-> features, defaults |-> defaults]
    BY <1>1 DEF Applications
  <1>3. c.versions = versions /\ c.features = features /\ c.defaults = defaults
    BY <1>2
  <1>4. \A a : a \in versions <=> \E s \in DOMAIN graph : \E v \in graph[s].considered : a = <<s, v>>
    BY <1>1
  <1>5. \A a : a \in features <=> \E s \in DOMAIN graph : \E f \in graph[s].requested : a = <<s, f>>
    BY <1>1
  <1>6. \A s : s \in defaults <=> s \in DOMAIN graph /\ graph[s].defaults
    BY <1>1
  <1> QED
    BY <1>2, <1>3, <1>4, <1>5, <1>6

\* What is applied at the end is closed.
LEMMA ApplicationsClosed ==
    ASSUME GraphInv, WorkInv, AllCovered, pc = "extract"
    PROVE  Applications \in Declarations /\ Closed(Applications)
  <1>1. PICK c : c = Applications
    OBVIOUS
  <1>2. /\ c = [versions |-> c.versions, features |-> c.features, defaults |-> c.defaults]
        /\ \A a : a \in c.versions <=> \E s \in DOMAIN graph : \E v \in graph[s].considered : a = <<s, v>>
        /\ \A a : a \in c.features <=> \E s \in DOMAIN graph : \E f \in graph[s].requested : a = <<s, f>>
        /\ \A s : s \in c.defaults <=> s \in DOMAIN graph /\ graph[s].defaults
        /\ \A s \in DOMAIN graph : \A v \in graph[s].considered : <<s, v>> \in c.versions
        /\ \A s \in DOMAIN graph : \A f \in graph[s].requested : <<s, f>> \in c.features
    BY <1>1, ApplicationsFacts
  <1>3. WorkShape /\ world \in DOMAIN Manifests
    BY DEF WorkInv, GraphInv
  <1>4. \A s \in DOMAIN graph : NodeShape(s) /\ s \in Spec /\ NodeIn(s, graph[s])
    BY <1>3 DEF WorkShape, NodeShape
  <1>5. c \in Declarations
    <2>1. c.versions \subseteq Existing
      <3>1. ASSUME NEW s \in DOMAIN graph, NEW v \in graph[s].considered, NEW a, a = <<s, v>>
            PROVE  a \in Existing
        <4>1. a[1] = s /\ a[2] = v
          BY <3>1
        <4>2. Exists(s[1], v) /\ s[1] \in Port
          BY <1>4 DEF NodeIn, Spec
        <4>3. v = Overlay \/ v \in DOMAIN Manifest.ports[s[1]]
          BY <1>3, <4>2, PortFacts DEF Has
        <4>4. a \in Spec \X ({Overlay} \cup UNION {DOMAIN Manifest.ports[p] : p \in Port})
          BY <1>4, <3>1, <4>2, <4>3
        <4> QED
          BY <4>1, <4>2, <4>4 DEF Existing
      <3> QED
        BY <1>2, <3>1
    <2>2. c.features \subseteq Spec \X Feature
      <3>1. \A s \in DOMAIN graph : graph[s].requested \subseteq Feature
        BY <1>4 DEF NodeIn
      <3> QED
        BY <1>2, <1>4, <3>1
    <2>3. c.defaults \subseteq Spec
      BY <1>2, <1>4
    <2> QED
      BY <1>2, <2>1, <2>2, <2>3 DEF Declarations
  <1>6. ASSUME NEW s, NEW d, Leads(c, s, d)
        PROVE  Granted(s, d)
    <2>1. CASE s = TopLevel /\ \E j \in 1 .. Len(Manifest.depends) : Manifest.depends[j] = d
      <3>1. PICK deps : deps = Manifest.depends
        OBVIOUS
      <3>2. PICK j \in 1 .. Len(deps) : deps[j] = d
        BY <2>1, <3>1
      <3>3. Covered(s, deps)
        BY <2>1, <3>1 DEF WorkInv
      <3>4. s[2] \in deps[j].on
        BY <1>6, <3>2 DEF Leads
      <3>5. Granted(s, deps[j])
        BY <3>3, <3>4, Settled
      <3> QED
        BY <3>2, <3>5
    <2>2. ASSUME NEW a \in c.versions, a[1] = s, NEW f \in FeaturesOf(s, a[2]),
                 <<s, f>> \in c.features \/ (s \in c.defaults /\ f \in Defaults(s, a[2])),
                 NEW k \in 1 .. Len(PortOf(s[1], a[2]).needs[f]), PortOf(s[1], a[2]).needs[f][k] = d
          PROVE  Granted(s, d)
      <3>1. PICK v : v = a[2]
        OBVIOUS
      <3>2. s \in DOMAIN graph /\ v \in graph[s].considered
        BY <1>2, <2>2, <3>1
      <3>3. <<s, f>> \in c.features => f \in graph[s].requested
        BY <1>2
      <3>4. f \in Required(s, graph[s], v)
        BY <1>2, <2>2, <3>1, <3>3 DEF Required
      <3>5. PICK deps : deps = PortOf(s[1], v).needs[f]
        OBVIOUS
      <3>6. Covered(s, deps)
        BY <2>2, <3>1, <3>2, <3>4, <3>5 DEF AllCovered
      <3>7. s[2] \in deps[k].on /\ k \in 1 .. Len(deps) /\ deps[k] = d
        BY <1>6, <2>2, <3>1, <3>5 DEF Leads
      <3>8. Granted(s, deps[k])
        BY <3>6, <3>7, Settled
      <3> QED
        BY <3>7, <3>8
    <2> QED
      BY <1>6, <2>1, <2>2 DEF Leads, From
  <1>7. ASSUME NEW s, NEW d, Leads(c, s, d), NEW t, t = SpecOf(d, s)
        PROVE  /\ \A v \in AppliedBy(d) : <<t, v>> \in c.versions
               /\ \A f \in {Core} \cup Holding(d.features, s[2]) : <<t, f>> \in c.features
               /\ d.defaults \/ t \notin AtTopLevel => t \in c.defaults
    <2>1. /\ t \in DOMAIN graph /\ MetBy(t[1], graph[t], d.min)
          /\ Holding(d.features, s[2]) \subseteq graph[t].requested
          /\ d.defaults => graph[t].defaults
      BY <1>6, <1>7 DEF Granted
    <2>2. t[1] = d.name
      BY <1>7 DEF SpecOf
    <2>3. AppliedBy(d) \subseteq graph[t].considered
      <3>1. FirstScfl(d.name) \in graph[t].considered
        BY <2>1, <2>2 DEF GraphInv, Selects
      <3> QED
        BY <2>1, <2>2, <3>1 DEF AppliedBy, MetBy
    <2>4. Core \in graph[t].requested
      BY <1>4, <2>1 DEF NodeIn
    <2>5. t \notin AtTopLevel => graph[t].defaults
      BY <1>4, <2>1 DEF NodeShape
    <2> QED
      BY <1>2, <2>1, <2>3, <2>4, <2>5
  <1> QED
    BY <1>1, <1>5, <1>7 DEF Closed

\* Where default features exist, phase 1 ends with what its description says: no more, and, where features stay what
\* they are from version to version, no less, in whatever order the versions and dependencies were met
\* (dependencies.cpp:1359-1382).
THEOREM Phase1AsDeclaredHolds == Versioned /\ DefaultsExist => []Phase1AsDeclared
  <1> DEFINE Inv == GraphInv /\ WorkInv /\ DefaultsExist /\ (FeaturesStable => AllCovered)
             End == Inv /\ Within(Declared)
  <1>1. InitVersioned /\ DefaultsExist => Inv
    <2>1. InitVersioned => AllCovered
      <3> SUFFICES ASSUME InitVersioned PROVE AllCovered
        OBVIOUS
      <3>1. DOMAIN graph = {}
        BY DEF InitVersioned
      <3> QED
        BY <3>1 DEF AllCovered
    <2> QED
      BY <2>1, InitGraph, InitWork
  <1>2. Inv /\ [NextVersioned]_versionedVars => Inv'
    <2> SUFFICES ASSUME Inv, [NextVersioned]_versionedVars PROVE Inv'
      OBVIOUS
    <2>1. GraphInv'
      BY GraphStep
    <2>2. WorkInv'
      BY <2>1, WorkInvStep
    <2>3. UNCHANGED world
      BY WorkStep DEF WorkInv, Step, Grows
    <2>4. DefaultsExist' /\ (FeaturesStable' <=> FeaturesStable)
      BY <2>3, StablePortsStay
    <2>5. FeaturesStable => AllCovered'
      BY <2>1, AllCoveredStep
    <2> QED
      BY <2>1, <2>2, <2>4, <2>5
  <1>3. End => Phase1AsDeclared
    <2> SUFFICES ASSUME End, pc = "extract" PROVE Phase1AsDeclared
      BY DEF Phase1AsDeclared
    <2> PICK c : c = Applications
      OBVIOUS
    <2>1. /\ c = [versions |-> c.versions, features |-> c.features, defaults |-> c.defaults]
          /\ \A a : a \in c.versions <=> \E s \in DOMAIN graph : \E v \in graph[s].considered : a = <<s, v>>
          /\ \A a : a \in c.features <=> \E s \in DOMAIN graph : \E f \in graph[s].requested : a = <<s, f>>
          /\ \A s : s \in c.defaults <=> s \in DOMAIN graph /\ graph[s].defaults
      BY ApplicationsFacts
    <2>2. Sub(c, Declared)
      BY <2>1 DEF Within, Sub
    <2>3. ASSUME FeaturesStable
          PROVE  Declared = [versions |-> c.versions, features |-> c.features, defaults |-> c.defaults]
      <3>1. c \in Declarations /\ Closed(c)
        BY <2>3, ApplicationsClosed
      <3>2. PICK e : e = Declared
        OBVIOUS
      <3>3. Sub(e, c) /\ e \in Declarations
        BY <3>1, <3>2, DeclaredFacts DEF GraphInv
      <3>4. e = [versions |-> e.versions, features |-> e.features, defaults |-> e.defaults]
        BY <3>3 DEF Declarations
      <3>5. e.versions = c.versions /\ e.features = c.features /\ e.defaults = c.defaults
        BY <2>2, <3>2, <3>3 DEF Sub
      <3> QED
        BY <3>2, <3>4, <3>5
    <2>4. Contained(Applications, Declared)
      <3>1. Contained(c, Declared)
        BY <2>1, <2>2 DEF Sub, Contained
      <3> QED
        BY <3>1
    <2> QED
      BY <2>1, <2>3, <2>4 DEF Phase1AsDeclared
  <1>4. Versioned /\ DefaultsExist => []Inv
    BY <1>1, <1>2, PTL DEF Versioned
  <1>5. Versioned /\ DefaultsExist => []End
    BY <1>4, AppliesOnlyDeclared, PTL
  <1> QED
    BY <1>3, <1>5, PTL

(***************************************************************************)
(* Resolutions come to an end: each step of phase 1 and of phase 2.        *)
(***************************************************************************)
\* A constraint that leads to no new version changes nothing.
LEMMA ConstrainNothing ==
    ASSUME NEW spec, NEW n, Node(n), Selects(spec[1], n), NEW min, spec[1] \in Port, world \in DOMAIN Manifests,
           Constrain(spec, n, min)[1].considered \subseteq n.considered
    PROVE  Constrain(spec, n, min) = <<n, <<>>>>
  <1> DEFINE r == Constrain(spec, n, min)
             base == Manifest.baseline[spec[1]]
  <1>1. CASE Pinned(spec[1]) \/ min = None \/ ~ Has(spec[1], min)
    BY <1>1 DEF Constrain
  <1>2. CASE ~ (Pinned(spec[1]) \/ min = None \/ ~ Has(spec[1], min))
    <2>1. min \in Version
      BY <1>2, ManifestsAssumption DEF Has, Manifest
    <2>2. n.scfl \in Version /\ n.considered \subseteq Version
      BY <1>2 DEF Selects
    <2>3. CASE CompareVersions(n.scfl, min) = "lt"
      <3>1. PICK best : best = [n EXCEPT !.scfl = min]
        OBVIOUS
      <3>2. Node(best) /\ best.considered = n.considered
        BY <3>1 DEF Node
      <3>3. r = RequireScfl(spec, best, min)
        BY <1>2, <2>3, <3>1 DEF Constrain
      <3>4. \A k : Node(k) => RequireScfl(spec, k, min)[1].considered = k.considered \cup {min}
        BY RequireScflConsiders
      <3>5. r[1].considered = n.considered \cup {min}
        <4> HIDE DEF r
        <4> QED
          BY <3>2, <3>3, <3>4
      <3>6. min = n.scfl \/ CompareVersions(min, n.scfl) = "lt"
        BY <3>5 DEF Selects
      <3>7. Below(n.scfl, min) /\ (min = n.scfl \/ Below(min, n.scfl))
        BY <2>1, <2>2, <2>3, <3>6, LtIsBelow
      <3> QED
        BY <2>1, <2>2, <3>7 DEF Below, Version
    <2>4. CASE CompareVersions(n.scfl, min) # "lt" /\ CompareVersions(base, min) = "lt"
      <3>1. r = RequireScfl(spec, n, min)
        BY <1>2, <2>4 DEF Constrain
      <3>2. RequireScfl(spec, n, min)[1].considered = n.considered \cup {min}
        BY RequireScflConsiders
      <3>3. min \in n.considered
        BY <3>1, <3>2
      <3> QED
        BY <3>1, <3>3 DEF RequireScfl
    <2>5. CASE CompareVersions(n.scfl, min) # "lt" /\ CompareVersions(base, min) # "lt"
      BY <1>2, <2>5 DEF Constrain
    <2> QED
      BY <2>3, <2>4, <2>5
  <1> QED
    BY <1>1, <1>2

\* What has been applied, in this state and, with PTL, in the next.
ApplicationsRead ==
    /\ Applications = [versions |-> Applications.versions, features |-> Applications.features,
                       defaults |-> Applications.defaults]
    /\ \A a : a \in Applications.versions <=> \E s \in DOMAIN graph : \E v \in graph[s].considered : a = <<s, v>>
    /\ \A a : a \in Applications.features <=> \E s \in DOMAIN graph : \E f \in graph[s].requested : a = <<s, f>>
    /\ \A s : s \in Applications.defaults <=> s \in DOMAIN graph /\ graph[s].defaults

LEMMA ApplicationsAreRead == ApplicationsRead
  <1>1. PICK c : c = Applications
    OBVIOUS
  <1>2. /\ c = [versions |-> c.versions, features |-> c.features, defaults |-> c.defaults]
        /\ \A a : a \in c.versions <=> \E s \in DOMAIN graph : \E v \in graph[s].considered : a = <<s, v>>
        /\ \A a : a \in c.features <=> \E s \in DOMAIN graph : \E f \in graph[s].requested : a = <<s, f>>
        /\ \A s : s \in c.defaults <=> s \in DOMAIN graph /\ graph[s].defaults
    BY <1>1, ApplicationsFacts
  <1> QED
    BY <1>1, <1>2 DEF ApplicationsRead

LEMMA ApplicationsAreReadNext == ApplicationsRead'
  BY ApplicationsAreRead, PTL

Applies == Contained(Applications, Applications') /\ Applications' # Applications

\* A step that gives a package a version, a feature or its default features applies more.
LEMMA ExtendsApplies ==
    ASSUME GraphInv, NEW spec, NEW m, NEW q, Extends(spec, m, q),
           \/ spec \notin DOMAIN graph
           \/ \E v : v \in m.considered \ graph[spec].considered
           \/ \E f : f \in m.requested \ graph[spec].requested
           \/ m.defaults /\ ~ graph[spec].defaults
    PROVE  Applies
  <1>1. PICK c : c = Applications
    OBVIOUS
  <1>2. PICK d : d = Applications'
    OBVIOUS
  <1>3. /\ c = [versions |-> c.versions, features |-> c.features, defaults |-> c.defaults]
        /\ \A a : a \in c.versions <=> \E s \in DOMAIN graph : \E v \in graph[s].considered : a = <<s, v>>
        /\ \A a : a \in c.features <=> \E s \in DOMAIN graph : \E f \in graph[s].requested : a = <<s, f>>
        /\ \A s : s \in c.defaults <=> s \in DOMAIN graph /\ graph[s].defaults
    BY <1>1, ApplicationsAreRead DEF ApplicationsRead
  <1>4. /\ d = [versions |-> d.versions, features |-> d.features, defaults |-> d.defaults]
        /\ \A a : a \in d.versions <=> \E s \in DOMAIN graph' : \E v \in graph'[s].considered : a = <<s, v>>
        /\ \A a : a \in d.features <=> \E s \in DOMAIN graph' : \E f \in graph'[s].requested : a = <<s, f>>
        /\ \A s : s \in d.defaults <=> s \in DOMAIN graph' /\ graph'[s].defaults
    BY <1>2, ApplicationsAreReadNext DEF ApplicationsRead
  <1>5. /\ DOMAIN graph' = DOMAIN graph \cup {spec} /\ graph'[spec] = m
        /\ \A s \in DOMAIN graph : s # spec => graph'[s] = graph[s]
        /\ NodeIn(spec, m)
        /\ spec \in DOMAIN graph => Advances(spec, graph[spec], m)
    BY DEF Extends
  <1>6. /\ m.scfl \in m.considered
        /\ spec \in DOMAIN graph =>
              /\ graph[spec].considered \subseteq m.considered /\ graph[spec].requested \subseteq m.requested
              /\ graph[spec].defaults => m.defaults
    BY <1>5 DEF NodeIn, Advances
  <1>7. c.versions \subseteq d.versions /\ c.features \subseteq d.features /\ c.defaults \subseteq d.defaults
    <2>1. \A s \in DOMAIN graph : /\ s \in DOMAIN graph' /\ graph[s].considered \subseteq graph'[s].considered
                                  /\ graph[s].requested \subseteq graph'[s].requested
                                  /\ graph[s].defaults => graph'[s].defaults
      BY <1>5, <1>6
    <2> QED
      BY <1>3, <1>4, <2>1
  <1>8. \/ \E v : v \in m.considered /\ (spec \notin DOMAIN graph \/ v \notin graph[spec].considered)
        \/ \E f : f \in m.requested /\ spec \in DOMAIN graph /\ f \notin graph[spec].requested
        \/ m.defaults /\ spec \in DOMAIN graph /\ ~ graph[spec].defaults
    BY <1>6
  <1>9. c # d
    <2>1. ASSUME NEW v, v \in m.considered, spec \notin DOMAIN graph \/ v \notin graph[spec].considered
          PROVE  <<spec, v>> \in d.versions \ c.versions
      BY <1>3, <1>4, <1>5, <2>1
    <2>2. ASSUME NEW f, f \in m.requested, spec \in DOMAIN graph, f \notin graph[spec].requested
          PROVE  <<spec, f>> \in d.features \ c.features
      BY <1>3, <1>4, <1>5, <2>2
    <2>3. ASSUME m.defaults, ~ graph[spec].defaults
          PROVE  spec \in d.defaults \ c.defaults
      BY <1>3, <1>4, <1>5, <2>3
    <2> QED
      BY <1>8, <2>1, <2>2, <2>3
  <1>10. Contained(c, d)
    BY <1>3, <1>7 DEF Contained
  <1> QED
    BY <1>1, <1>2, <1>9, <1>10 DEF Applies

\* Requiring the package of a dependency applies more, or it only becomes the one whose features are next.
LEMMA RequireDependencyDescends ==
    ASSUME GraphInv, WorkShape, RequireDependency
    PROVE  Applies \/ (UNCHANGED graph /\ Nearer)
  <1>1. PICK spec : spec = DepSpec
    OBVIOUS
  <1>2. /\ \E m, q : Extends(spec, m, q) /\ Requires(spec, Dep.min, m, q)
        /\ ~ met /\ met' = TRUE /\ UNCHANGED frame
    BY <1>1, RequireDependencyFacts
  <1>3. CASE spec \notin DOMAIN graph
    BY <1>2, <1>3, ExtendsApplies
  <1>4. CASE spec \in DOMAIN graph
    <2> DEFINE n == graph[spec]
               r == Constrain(spec, n, Dep.min)
    <2>1. /\ world \in DOMAIN Manifests /\ graph = [s \in DOMAIN graph |-> graph[s]]
          /\ spec[1] \in Port /\ Node(n) /\ Selects(spec[1], n) /\ stack \in Seq(FrameIn(DOMAIN graph))
      BY <1>4 DEF GraphInv, WorkShape, FrameShape
    <2>2. /\ graph' = [s \in DOMAIN graph \cup {spec} |-> IF s = spec THEN r[1] ELSE graph[s]]
          /\ stack' = stack \o <<>> \o r[2]
      <3> DEFINE o == RequirePackage(spec, frame.spec[1])
                 x == Constrain(spec, o[1], Dep.min)
      <3>1. /\ graph' = [s \in DOMAIN graph \cup {spec} |-> IF s = spec THEN x[1] ELSE graph[s]]
            /\ stack' = stack \o o[2] \o x[2]
        BY <1>1 DEF RequireDependency, Resolving
      <3>2. o = <<n, <<>>>>
        BY <1>4 DEF RequirePackage
      <3>3. o[1] = n /\ o[2] = <<>>
        BY <3>2
      <3> HIDE DEF o
      <3> QED
        BY <3>1, <3>3
    <2>3. CASE r[1].considered \subseteq n.considered
      <3>1. r = <<n, <<>>>>
        BY <2>1, <2>3, ConstrainNothing
      <3>2. r[1] = n /\ r[2] = <<>>
        BY <3>1
      <3> HIDE DEF r
      <3>3. graph' = graph
        BY <1>4, <2>1, <2>2, <3>2
      <3>4. stack' = stack
        BY <2>1, <2>2, <3>2
      <3> QED
        BY <1>2, <3>3, <3>4 DEF Nearer
    <2>4. CASE ~ (r[1].considered \subseteq n.considered)
      <3>1. PICK m, q : Extends(spec, m, q)
        BY <1>2
      <3>2. graph'[spec] = m
        BY <3>1 DEF Extends
      <3>3. graph'[spec] = r[1]
        BY <2>2
      <3>4. \E v : v \in m.considered \ graph[spec].considered
        BY <2>4, <3>2, <3>3
      <3> QED
        BY <3>1, <3>4, ExtendsApplies
    <2> QED
      BY <2>3, <2>4
  <1> QED
    BY <1>3, <1>4

\* Requiring a feature applies more, or there is one less to require.
LEMMA RequireFeatureDescends ==
    ASSUME GraphInv, WorkShape, RequireFeature
    PROVE  Applies \/ (UNCHANGED graph /\ Nearer)
  <1>1. PICK spec : spec = DepSpec
    OBVIOUS
  <1>2. PICK f : f = Head(wanted).name
    OBVIOUS
  <1>3. /\ \E m, q : Extends(spec, m, q) /\ m.requested = graph[spec].requested \cup {f}
        /\ spec \in DOMAIN graph /\ met /\ wanted # <<>> /\ wanted' = Tail(wanted) /\ UNCHANGED <<frame, met>>
    BY <1>1, <1>2, RequireFeatureFacts
  <1>4. CASE f \notin graph[spec].requested
    BY <1>3, <1>4, ExtendsApplies
  <1>5. CASE f \in graph[spec].requested
    <2>1. UNCHANGED <<graph, stack>>
      BY <1>1, <1>2, <1>5 DEF RequireFeature
    <2>2. wanted \in Seq(FeatureRef)
      BY DEF WorkShape, WantedShape
    <2>3. Len(Tail(wanted)) < Len(wanted)
      BY <1>3, <2>2
    <2> QED
      BY <1>3, <2>1, <2>3 DEF Nearer
  <1> QED
    BY <1>4, <1>5

\* Requiring the default features applies more, or the dependency is done with.
LEMMA RequireDefaultsDescends ==
    ASSUME GraphInv, WorkShape, RequireDefaults
    PROVE  Applies \/ (UNCHANGED graph /\ Nearer)
  <1>1. PICK spec : spec = DepSpec
    OBVIOUS
  <1>2. /\ \E m, q : Extends(spec, m, q) /\ m.defaults = (graph[spec].defaults \/ Dep.defaults)
        /\ spec \in DOMAIN graph /\ frame' = [frame EXCEPT !.deps = Tail(@)]
    BY <1>1, RequireDefaultsFacts
  <1>3. frame.deps # <<>>
    BY DEF RequireDefaults, GraphInv
  <1>4. CASE Dep.defaults /\ ~ graph[spec].defaults
    <2>1. PICK m, q : Extends(spec, m, q) /\ m.defaults = (graph[spec].defaults \/ Dep.defaults)
      BY <1>2
    <2>2. m.defaults
      BY <1>4, <2>1
    <2> QED
      BY <1>4, <2>1, <2>2, ExtendsApplies
  <1>5. CASE ~ (Dep.defaults /\ ~ graph[spec].defaults)
    <2>1. UNCHANGED <<graph, stack>>
      BY <1>1, <1>5 DEF RequireDefaults
    <2>2. frame \in FrameIn(DOMAIN graph \cup {TopLevel})
      BY DEF WorkShape, FrameShape
    <2>3. frame.deps \in Seq(Dependency) /\ frame'.deps = Tail(frame.deps)
      BY <1>2, <2>2 DEF FrameIn
    <2>4. Len(frame'.deps) < Len(frame.deps)
      BY <1>3, <2>3
    <2> QED
      BY <2>1, <2>4 DEF Nearer
  <1> QED
    BY <1>4, <1>5

\* The other steps of phase 1 apply nothing.
LEMMA QuietDescends ==
    ASSUME GraphInv, WorkShape, PopFrame \/ SkipDependency \/ FailPackage \/ SkipFeature
    PROVE  UNCHANGED graph /\ Nearer
  <1>1. frame \in FrameIn(DOMAIN graph \cup {TopLevel}) /\ stack \in Seq(FrameIn(DOMAIN graph)) /\ wanted \in Seq(FeatureRef)
    BY DEF WorkShape, FrameShape, WantedShape
  <1>2. CASE PopFrame
    <2>1. stack # <<>> /\ stack' = Front(stack) /\ UNCHANGED graph
      BY <1>2 DEF PopFrame
    <2>2. Len(stack') = Len(stack) - 1 /\ Len(stack) \in Nat
      BY <1>1, <2>1, FrontFacts
    <2>3. Len(stack') < Len(stack)
      BY <2>2
    <2> QED
      BY <2>1, <2>3 DEF Nearer
  <1>3. CASE SkipDependency \/ FailPackage
    <2>1. frame.deps # <<>> /\ frame' = [frame EXCEPT !.deps = Tail(@)] /\ UNCHANGED <<graph, stack>>
      BY <1>3 DEF SkipDependency, FailPackage
    <2>2. frame.deps \in Seq(Dependency) /\ frame'.deps = Tail(frame.deps)
      BY <1>1, <2>1 DEF FrameIn
    <2>3. Len(frame'.deps) < Len(frame.deps)
      BY <2>1, <2>2
    <2> QED
      BY <2>1, <2>3 DEF Nearer
  <1>4. CASE SkipFeature
    <2>1. wanted # <<>> /\ wanted' = Tail(wanted) /\ UNCHANGED <<graph, stack, frame, met>>
      BY <1>4 DEF SkipFeature
    <2>2. Len(wanted') < Len(wanted)
      BY <1>1, <2>1
    <2> QED
      BY <2>1, <2>2 DEF Nearer
  <1> QED
    BY <1>2, <1>3, <1>4

\* What phase 2 has to do, in this state and, with PTL, in the next.
WalkLeftRead ==
    /\ WalkLeft = [roots |-> WalkLeft.roots, needs |-> WalkLeft.needs, packages |-> WalkLeft.packages]
    /\ WalkLeft.roots = roots
    /\ \A a : a \in WalkLeft.needs <=>
          \/ \E s \in DOMAIN graph \ DOMAIN emitted : \E need \in DepSpecs(s) : a = <<s, need>>
          \/ \E i \in 1 .. Len(walk) : \E need \in walk[i].left : a = <<walk[i].spec, need>>
    /\ \A s : s \in WalkLeft.packages <=> s \in DOMAIN graph /\ ~ (s \in DOMAIN emitted /\ emitted[s])

LEMMA WalkLeftIsRead == WalkLeftRead
  <1> DEFINE needs == (UNION {{<<s, need>> : need \in DepSpecs(s)} : s \in DOMAIN graph \ DOMAIN emitted})
                \cup (UNION {{<<walk[i].spec, need>> : need \in walk[i].left} : i \in 1 .. Len(walk)})
             packages == DOMAIN graph \ {s \in DOMAIN emitted : emitted[s]}
  <1>2. WalkLeft = [roots |-> roots, needs |-> needs, packages |-> packages]
    BY DEF WalkLeft
  <1>3. \A a : a \in needs <=>
          \/ \E s \in DOMAIN graph \ DOMAIN emitted : \E need \in DepSpecs(s) : a = <<s, need>>
          \/ \E i \in 1 .. Len(walk) : \E need \in walk[i].left : a = <<walk[i].spec, need>>
    OBVIOUS
  <1>4. \A s : s \in packages <=> s \in DOMAIN graph /\ ~ (s \in DOMAIN emitted /\ emitted[s])
    OBVIOUS
  <1> HIDE DEF needs, packages
  <1>5. WalkLeft.roots = roots /\ WalkLeft.needs = needs /\ WalkLeft.packages = packages
    BY <1>2
  <1> QED
    BY <1>2, <1>3, <1>4, <1>5 DEF WalkLeftRead

LEMMA WalkLeftIsReadNext == WalkLeftRead'
  BY WalkLeftIsRead, PTL

Walks == Contained(WalkLeft', WalkLeft) /\ WalkLeft' # WalkLeft

\* A step walks on if it adds nothing to what is left and takes something from it.
LEMMA LessIsLeft ==
    ASSUME WalkLeft'.roots \subseteq WalkLeft.roots, WalkLeft'.needs \subseteq WalkLeft.needs,
           WalkLeft'.packages \subseteq WalkLeft.packages,
           \/ WalkLeft'.roots # WalkLeft.roots
           \/ WalkLeft'.needs # WalkLeft.needs
           \/ WalkLeft'.packages # WalkLeft.packages
    PROVE  Walks
  <1>1. PICK c : c = WalkLeft
    OBVIOUS
  <1>2. PICK d : d = WalkLeft'
    OBVIOUS
  <1>3. d = [roots |-> d.roots, needs |-> d.needs, packages |-> d.packages]
    BY <1>2, WalkLeftIsReadNext DEF WalkLeftRead
  <1>4. Contained(d, c) /\ d # c
    BY <1>1, <1>2, <1>3 DEF Contained
  <1> QED
    BY <1>1, <1>2, <1>4 DEF Walks

\* push adds nothing to what is left, and what the caller takes from the walk is gone.
LEMMA PushDescends ==
    ASSUME WalkShape, UNCHANGED <<world, graph>>, pc' = "extract",
           NEW need, NEW rest \in Seq(WalkFrames), Push(need, rest), Len(rest) = Len(walk),
           \A i \in 1 .. Len(walk) : rest[i].spec = walk[i].spec /\ rest[i].left \subseteq walk[i].left
    PROVE  /\ WalkLeft'.needs \subseteq WalkLeft.needs /\ WalkLeft'.packages \subseteq WalkLeft.packages
           /\ \A i \in 1 .. Len(walk) : \A d : d \notin rest[i].left => <<walk[i].spec, d>> \notin WalkLeft'.needs
  <1>1. Verdict(need) = "ok" /\ need.spec \in DOMAIN graph
    <2>1. Verdict(need) = "ok"
      BY DEF Push
    <2> QED
      BY <2>1, VerdictOk DEF Admitted
  <1>2. \A s : DepSpecs(s)' = DepSpecs(s)
    BY Static
  <1>3. /\ \A i \in 1 .. Len(walk) : walk[i].spec \in DOMAIN emitted
        /\ \A i, j \in 1 .. Len(walk) : walk[i].spec = walk[j].spec => i = j
        /\ Len(rest) \in Nat
    BY DEF WalkShape
  <1>4. PICK c : c = WalkLeft
    OBVIOUS
  <1>5. PICK d : d = WalkLeft'
    OBVIOUS
  <1>6. /\ \A a : a \in c.needs <=>
              \/ \E s \in DOMAIN graph \ DOMAIN emitted : \E x \in DepSpecs(s) : a = <<s, x>>
              \/ \E i \in 1 .. Len(walk) : \E x \in walk[i].left : a = <<walk[i].spec, x>>
        /\ \A s : s \in c.packages <=> s \in DOMAIN graph /\ ~ (s \in DOMAIN emitted /\ emitted[s])
    BY <1>4, WalkLeftIsRead DEF WalkLeftRead
  <1>7. /\ \A a : a \in d.needs <=>
              \/ \E s \in DOMAIN graph \ DOMAIN emitted' : \E x \in DepSpecs(s) : a = <<s, x>>
              \/ \E i \in 1 .. Len(walk') : \E x \in walk'[i].left : a = <<walk'[i].spec, x>>
        /\ \A s : s \in d.packages <=> s \in DOMAIN graph /\ ~ (s \in DOMAIN emitted' /\ emitted'[s])
    BY <1>2, <1>5, WalkLeftIsReadNext DEF WalkLeftRead
  <1>8. CASE need.spec \in DOMAIN emitted
    <2>1. walk' = rest /\ emitted' = emitted
      BY <1>1, <1>8 DEF Push
    <2>2. d.needs \subseteq c.needs /\ d.packages \subseteq c.packages
      BY <1>3, <1>6, <1>7, <2>1
    <2>3. \A i \in 1 .. Len(walk) : \A x : x \notin rest[i].left => <<walk[i].spec, x>> \notin d.needs
      BY <1>3, <1>7, <2>1
    <2> QED
      BY <1>4, <1>5, <2>2, <2>3
  <1>9. CASE need.spec \notin DOMAIN emitted
    <2> DEFINE new == [spec |-> need.spec, left |-> DepSpecs(need.spec)]
    <2>1. /\ emitted' = [s \in DOMAIN emitted \cup {need.spec} |-> s # need.spec /\ emitted[s]]
          /\ walk' = Append(rest, new)
      BY <1>1, <1>9 DEF Push
    <2>2. DOMAIN emitted' = DOMAIN emitted \cup {need.spec} /\ ~ emitted'[need.spec]
      BY <2>1
    <2>3. \A s \in DOMAIN emitted : emitted'[s] <=> emitted[s]
      BY <1>9, <2>1, Zenon
    <2>4. /\ Len(walk') = Len(walk) + 1 /\ walk'[Len(walk) + 1] = new
          /\ \A i \in 1 .. Len(walk) : walk'[i] = rest[i]
      BY <1>3, <2>1
    <2>5. new.spec = need.spec /\ new.left = DepSpecs(need.spec)
      OBVIOUS
    <2> HIDE DEF new
    <2>6. \A a : a \in d.needs <=>
              \/ \E s \in DOMAIN graph \ (DOMAIN emitted \cup {need.spec}) : \E x \in DepSpecs(s) : a = <<s, x>>
              \/ \E x \in DepSpecs(need.spec) : a = <<need.spec, x>>
              \/ \E i \in 1 .. Len(walk) : \E x \in rest[i].left : a = <<walk[i].spec, x>>
      <3>1. \A i : i \in 1 .. Len(walk') <=> i \in 1 .. Len(walk) \/ i = Len(walk) + 1
        BY <1>3, <2>4
      <3>2. \A a : (\E i \in 1 .. Len(walk') : \E x \in walk'[i].left : a = <<walk'[i].spec, x>>)
                      <=> \/ \E x \in DepSpecs(need.spec) : a = <<need.spec, x>>
                          \/ \E i \in 1 .. Len(walk) : \E x \in rest[i].left : a = <<walk[i].spec, x>>
        BY <2>4, <2>5, <3>1
      <3> QED
        BY <1>7, <2>2, <3>2
    <2>7. d.needs \subseteq c.needs
      BY <1>1, <1>6, <1>9, <2>6
    <2>8. d.packages \subseteq c.packages
      BY <1>6, <1>7, <2>2, <2>3
    <2>9. \A i \in 1 .. Len(walk) : \A x : x \notin rest[i].left => <<walk[i].spec, x>> \notin d.needs
      BY <1>3, <1>9, <2>6
    <2> QED
      BY <1>4, <1>5, <2>7, <2>8, <2>9
  <1> QED
    BY <1>8, <1>9

\* A direct dependency is walked once.
LEMMA WalkRootDescends ==
    ASSUME WalkInv, WalkRoot, pc' = "extract"
    PROVE  Walks
  <1>1. walk = <<>> /\ UNCHANGED <<world, graph>> /\ WalkShape
    BY DEF WalkRoot, Extracting, resolverVars, WalkInv
  <1>2. PICK root \in roots : Push(root, <<>>) /\ roots' = roots \ {root}
    BY DEF WalkRoot
  <1>3. PICK rest : rest = <<>>
    OBVIOUS
  <1>4. /\ rest \in Seq(WalkFrames) /\ Len(rest) = Len(walk) /\ Push(root, rest)
        /\ \A i \in 1 .. Len(walk) : rest[i].spec = walk[i].spec /\ rest[i].left \subseteq walk[i].left
    BY <1>1, <1>2, <1>3
  <1>5. WalkLeft'.needs \subseteq WalkLeft.needs /\ WalkLeft'.packages \subseteq WalkLeft.packages
    BY <1>1, <1>4, PushDescends
  <1>6. WalkLeft.roots = roots /\ WalkLeft'.roots = roots'
    BY WalkLeftIsRead, WalkLeftIsReadNext DEF WalkLeftRead
  <1>7. WalkLeft'.roots \subseteq WalkLeft.roots /\ WalkLeft'.roots # WalkLeft.roots
    BY <1>2, <1>6
  <1> QED
    BY <1>5, <1>7, LessIsLeft

\* A dependency of a package is walked once.
LEMMA WalkDependencyDescends ==
    ASSUME WalkInv, WalkDependency, pc' = "extract"
    PROVE  Walks
  <1>1. walk # <<>> /\ UNCHANGED <<world, graph, roots>> /\ WalkShape
    BY DEF WalkDependency, Extracting, resolverVars, WalkInv
  <1>2. PICK need \in Last(walk).left : Push(need, [walk EXCEPT ![Len(walk)].left = @ \ {need}])
    BY DEF WalkDependency
  <1>3. PICK rest : rest = [walk EXCEPT ![Len(walk)].left = @ \ {need}]
    OBVIOUS
  <1>4. walk \in Seq(WalkFrames) /\ Len(walk) \in 1 .. Len(walk) /\ walk[Len(walk)] \in WalkFrames
    BY <1>1 DEF WalkShape
  <1>5. need \in walk[Len(walk)].left
    BY <1>1, <1>2 DEF Last
  <1>6. /\ rest \in Seq(WalkFrames) /\ Len(rest) = Len(walk)
        /\ \A i \in 1 .. Len(walk) :
              rest[i].spec = walk[i].spec
              /\ rest[i].left = IF i = Len(walk) THEN walk[i].left \ {need} ELSE walk[i].left
    <2> DEFINE last == [walk[Len(walk)] EXCEPT !.left = @ \ {need}]
    <2>1. last \in WalkFrames /\ last.spec = walk[Len(walk)].spec /\ last.left = walk[Len(walk)].left \ {need}
      BY <1>4 DEF WalkFrames
    <2>2. rest = [walk EXCEPT ![Len(walk)] = last]
      BY <1>3
    <2> HIDE DEF last
    <2>3. rest \in Seq(WalkFrames) /\ Len(rest) = Len(walk)
      BY <1>4, <2>1, <2>2, ExceptSeq
    <2>4. \A i \in 1 .. Len(walk) : rest[i] = IF i = Len(walk) THEN last ELSE walk[i]
      BY <1>4, <2>2
    <2> QED
      BY <2>1, <2>3, <2>4
  <1>7. /\ WalkLeft'.needs \subseteq WalkLeft.needs /\ WalkLeft'.packages \subseteq WalkLeft.packages
        /\ \A i \in 1 .. Len(walk) : \A x : x \notin rest[i].left => <<walk[i].spec, x>> \notin WalkLeft'.needs
    <2>1. Push(need, rest)
      BY <1>2, <1>3
    <2>2. \A i \in 1 .. Len(walk) : rest[i].spec = walk[i].spec /\ rest[i].left \subseteq walk[i].left
      BY <1>6
    <2> QED
      BY <1>1, <1>6, <2>1, <2>2, PushDescends
  <1>8. <<walk[Len(walk)].spec, need>> \in WalkLeft.needs
    BY <1>4, <1>5, WalkLeftIsRead DEF WalkLeftRead
  <1>9. <<walk[Len(walk)].spec, need>> \notin WalkLeft'.needs
    BY <1>4, <1>6, <1>7
  <1>10. WalkLeft'.roots = WalkLeft.roots
    BY <1>1, WalkLeftIsRead, WalkLeftIsReadNext DEF WalkLeftRead
  <1> QED
    BY <1>7, <1>8, <1>9, <1>10, LessIsLeft

\* A package is emitted once.
LEMMA EmitDescends ==
    ASSUME WalkInv, Emit
    PROVE  Walks
  <1>1. walk # <<>> /\ UNCHANGED <<world, graph, roots>> /\ WalkShape
    BY DEF Emit, Extracting, resolverVars, WalkInv
  <1>2. PICK n : n = Len(walk)
    OBVIOUS
  <1>3. PICK spec : spec = walk[n].spec
    OBVIOUS
  <1>4. n \in Nat \ {0} /\ walk' = Front(walk) /\ emitted' = [emitted EXCEPT ![spec] = TRUE]
    BY <1>1, <1>2, <1>3 DEF Emit, Last, WalkShape
  <1>5. Len(walk') = n - 1 /\ \A i \in 1 .. n - 1 : walk'[i] = walk[i] /\ i \in 1 .. n
    BY <1>1, <1>2, <1>4, FrontFacts DEF WalkShape
  <1>6. spec \in DOMAIN emitted /\ ~ emitted[spec] /\ spec \in DOMAIN graph
    BY <1>1, <1>2, <1>3, <1>4 DEF WalkShape
  <1>7. DOMAIN emitted' = DOMAIN emitted /\ emitted'[spec] /\ \A s \in DOMAIN emitted : s # spec => emitted'[s] = emitted[s]
    BY <1>1, <1>4, <1>6, Zenon DEF WalkShape
  <1>8. PICK c : c = WalkLeft
    OBVIOUS
  <1>9. PICK d : d = WalkLeft'
    OBVIOUS
  <1>10. /\ c.roots = roots
         /\ \A a : a \in c.needs <=>
              \/ \E s \in DOMAIN graph \ DOMAIN emitted : \E x \in DepSpecs(s) : a = <<s, x>>
              \/ \E i \in 1 .. n : \E x \in walk[i].left : a = <<walk[i].spec, x>>
         /\ \A s : s \in c.packages <=> s \in DOMAIN graph /\ ~ (s \in DOMAIN emitted /\ emitted[s])
    BY <1>2, <1>8, WalkLeftIsRead DEF WalkLeftRead
  <1>11. /\ d.roots = roots'
         /\ \A a : a \in d.needs <=>
              \/ \E s \in DOMAIN graph' \ DOMAIN emitted' : \E x \in DepSpecs(s)' : a = <<s, x>>
              \/ \E i \in 1 .. Len(walk') : \E x \in walk'[i].left : a = <<walk'[i].spec, x>>
         /\ \A s : s \in d.packages <=> s \in DOMAIN graph' /\ ~ (s \in DOMAIN emitted' /\ emitted'[s])
    BY <1>9, WalkLeftIsReadNext DEF WalkLeftRead
  <1>12. \A s : DepSpecs(s)' = DepSpecs(s)
    BY <1>1, Static
  <1>13. d.needs \subseteq c.needs
    BY <1>1, <1>5, <1>7, <1>10, <1>11, <1>12
  <1>14. d.packages \subseteq c.packages /\ spec \in c.packages /\ spec \notin d.packages
    BY <1>1, <1>6, <1>7, <1>10, <1>11
  <1>15. d.roots = c.roots
    BY <1>1, <1>10, <1>11
  <1> QED
    BY <1>8, <1>9, <1>13, <1>14, <1>15, LessIsLeft

\* Each step of phase 1 applies a version, a feature or default features, of which there are finitely many,
\* or leaves less to do with what has been applied; each of phase 2 walks a dependency or emits a package
\* that is not walked or emitted again: for all ports and manifests, also those whose ports need each other
\* (dependencies.cpp:1529-1564, 1626-1731 and 1886-2021).
THEOREM ResolutionDescendsHolds == Versioned => ResolutionDescends
  <1>1. GraphInv /\ WalkInv /\ WorkInv /\ [NextVersioned]_versionedVars
            => [/\ pc = "resolve" /\ pc' = "resolve" =>
                       \/ Contained(Applications, Applications') /\ Applications' # Applications
                       \/ UNCHANGED graph /\ Nearer
                /\ pc = "extract" /\ pc' = "extract" => Contained(WalkLeft', WalkLeft) /\ WalkLeft' # WalkLeft
                /\ pc' # pc =>
                       <<pc, pc'>> \in {<<"resolve", "extract">>, <<"resolve", "done">>, <<"extract", "done">>}
               ]_versionedVars
    <2> SUFFICES ASSUME GraphInv, WalkInv, WorkInv, NextVersioned
                 PROVE  /\ pc = "resolve" /\ pc' = "resolve" => Applies \/ (UNCHANGED graph /\ Nearer)
                        /\ pc = "extract" /\ pc' = "extract" => Walks
                        /\ pc' # pc =>
                              <<pc, pc'>> \in {<<"resolve", "extract">>, <<"resolve", "done">>, <<"extract", "done">>}
      BY DEF Applies, Walks
    <2>1. WorkShape
      BY DEF WorkInv
    <2>2. CASE RequireDependency
      <3>1. pc = "resolve" /\ pc' = pc
        BY <2>2 DEF RequireDependency, Resolving
      <3> QED
        BY <2>1, <2>2, <3>1, RequireDependencyDescends
    <2>3. CASE RequireFeature
      <3>1. pc = "resolve" /\ pc' = pc
        BY <2>3 DEF RequireFeature, Resolving
      <3> QED
        BY <2>1, <2>3, <3>1, RequireFeatureDescends
    <2>4. CASE RequireDefaults
      <3>1. pc = "resolve" /\ pc' = pc
        BY <2>4 DEF RequireDefaults, Resolving
      <3> QED
        BY <2>1, <2>4, <3>1, RequireDefaultsDescends
    <2>5. CASE PopFrame \/ SkipDependency \/ FailPackage \/ SkipFeature
      <3>1. pc = "resolve" /\ pc' = pc
        BY <2>5 DEF PopFrame, SkipDependency, FailPackage, SkipFeature, Resolving
      <3> QED
        BY <2>1, <2>5, <3>1, QuietDescends
    <2>6. CASE Resolved
      BY <2>6 DEF Resolved
    <2>7. CASE WalkRoot
      <3>1. pc = "extract" /\ pc' \in {"extract", "done"}
        BY <2>7 DEF WalkRoot, Extracting, Push
      <3> QED
        BY <2>7, <3>1, WalkRootDescends
    <2>8. CASE WalkDependency
      <3>1. pc = "extract" /\ pc' \in {"extract", "done"}
        BY <2>8 DEF WalkDependency, Extracting, Push
      <3> QED
        BY <2>8, <3>1, WalkDependencyDescends
    <2>9. CASE Emit
      <3>1. pc = "extract" /\ pc' = pc
        BY <2>9 DEF Emit, Extracting
      <3> QED
        BY <2>9, <3>1, EmitDescends
    <2>10. CASE Finish
      BY <2>10 DEF Finish, Extracting
    <2> QED
      BY <2>2, <2>3, <2>4, <2>5, <2>6, <2>7, <2>8, <2>9, <2>10 DEF NextVersioned
  <1>2. GraphInv /\ GraphInv' /\ WorkInv /\ [NextVersioned]_versionedVars => WorkInv'
    BY WorkInvStep
  <1> QED
    BY <1>1, <1>2, InitWork, Inductive, PTL DEF Versioned, ResolutionDescends
================================================================================

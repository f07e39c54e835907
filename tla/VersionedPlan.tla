----------------------------- MODULE VersionedPlan -----------------------------
(***************************************************************************)
(* The resolver of manifest mode (VersionedPackageGraph in                 *)
(* dependencies.cpp).  Phase 1 follows the dependencies of every version   *)
(* that a constraint leads to, from a stack of frames, and keeps for each  *)
(* package the greatest version and all features asked for.  Phase 2 walks *)
(* the graph from the direct dependencies and checks, for every dependency *)
(* of a selected version, that phase 1 has met it.                         *)
(*                                                                         *)
(* The code is sequential.  The choices here are the order of the versions *)
(* in PackageNodeData::considered, a set of addresses, and the order in    *)
(* which phase 2 takes the dependencies of a package, from the back of a   *)
(* vector in the code.  A platform expression is the set of triplets that  *)
(* satisfy it.                                                             *)
(***************************************************************************)
EXTENDS Integers, SequencesExt

CONSTANTS Port,          \* the names of ports that occur, whether there is such a port or not
          Triplet,
          HostTriplet,
          Core,          \* "core"
          FeatureNames,  \* "core" and the names of features, in the order of std::string
          None,          \* no minimum version, no port, no version
          Overlay,       \* the port of an overlay, where a version identifies the others
          Manifests      \* what the resolver may be called with, a function to records

Spec == Port \X Triplet
Feature == {FeatureNames[i] : i \in 1 .. Len(FeatureNames)}

ASSUME HostAssumption == HostTriplet \in Triplet
ASSUME FeatureAssumption == FeatureNames \in Seq(Feature) /\ Core \in Feature

VARIABLES
    world,      \* the call, of Manifests
    pc,         \* "resolve", "extract", "done"
    graph,      \* m_graph
    failed,     \* m_failed_nodes; m_errors has an entry for each
    stack,      \* m_resolve_stack
    frame,      \* the frame that resolve_stack handles, with the dependencies left
    wanted,     \* the features left of its first dependency, if that is met
    met,        \* the package of its first dependency is required, its features are not
    roots,      \* the direct dependencies not yet walked
    emitted,    \* of finalize_extract_plan: FALSE is in progress
    walk,       \* the stack of finalize_extract_plan: packages and the dependencies left
    plan,       \* the install actions
    outcome     \* "none" yet, "plan", "unsupported", or why there is none

resolverVars == <<graph, failed, stack, frame, wanted, met>>
extractVars == <<roots, emitted, walk, plan>>
versionedVars == <<world, pc, resolverVars, extractVars, outcome>>

(***************************************************************************)
(* A call:                                                                 *)
(*   triplet    the triplet of the manifest;                               *)
(*   depends    its direct dependencies;                                   *)
(*   ports      for each name, its versions and the port of each;          *)
(*   baseline, override   a version for each name, or None;                *)
(*   overlay    a port for each name, or None.                             *)
(* A port has for "core" and each of its features the dependencies, its    *)
(* default features, and the features and triplets that its supports       *)
(* expressions exclude.                                                    *)
(***************************************************************************)
Version == [scheme : STRING, text : Int, port : Int]
FeatureRef == [name : Feature, on : SUBSET Triplet]
Dependency == [name : Port, host : BOOLEAN, on : SUBSET Triplet, min : Version \cup {None},
               features : Seq(FeatureRef), defaults : BOOLEAN]
IsPort(file) ==
    /\ DOMAIN file.needs \subseteq Feature /\ Core \in DOMAIN file.needs
    /\ \A f \in DOMAIN file.needs : file.needs[f] \in Seq(Dependency)
    /\ file.defaults \in Seq(FeatureRef)

ASSUME ManifestsAssumption ==
    /\ None \notin Version /\ Overlay \notin Version /\ Overlay # None
    /\ None \notin Port /\ IsFiniteSet(Port) /\ IsFiniteSet(Triplet)
    /\ \A m \in DOMAIN Manifests :
          /\ Manifests[m].triplet \in Triplet
          /\ Manifests[m].depends \in Seq(Dependency)
          /\ \A p \in Port :
                LET port == Manifests[m].ports[p]
                IN  /\ DOMAIN port \subseteq Version /\ IsFiniteSet(DOMAIN port)
                    /\ \A v \in DOMAIN port : IsPort(port[v])
                    /\ Manifests[m].baseline[p] \in Version \cup {None}
                    /\ Manifests[m].override[p] \in Version \cup {None}
                    /\ Manifests[m].overlay[p] # None => IsPort(Manifests[m].overlay[p])

Manifest == Manifests[world]
TopLevel == <<None, Manifest.triplet>>

\* get_control_file
Has(name, version) == version \in DOMAIN Manifest.ports[name]
Exists(name, scfl) == IF scfl = Overlay THEN Manifest.overlay[name] # None ELSE Has(name, scfl)
PortOf(name, scfl) == IF scfl = Overlay THEN Manifest.overlay[name] ELSE Manifest.ports[name][scfl]

Integer(a, b) == IF a < b THEN "lt" ELSE IF a = b THEN "eq" ELSE "gt"

\* compare_version_texts; relaxed and semver versions are of one scheme here.
CompareTexts(v, w) ==
    IF v.scheme # w.scheme THEN "unk"
    ELSE IF v.scheme = "string" THEN IF v.text = w.text THEN "eq" ELSE "unk"
    ELSE Integer(v.text, w.text)

CompareVersions(v, w) ==
    IF CompareTexts(v, w) = "eq" THEN Integer(v.port, w.port) ELSE CompareTexts(v, w)

SpecOf(dep, spec) == <<dep.name, IF dep.host THEN HostTriplet ELSE spec[2]>>

NamesOf(features) == {features[i].name : i \in 1 .. Len(features)}

\* The names of those that a platform lets through.
Holding(features, triplet) == {features[i].name : i \in {k \in 1 .. Len(features) : triplet \in features[k].on}}
Defaults(spec, scfl) == Holding(PortOf(spec[1], scfl).defaults, spec[2])
FeaturesOf(spec, scfl) == DOMAIN PortOf(spec[1], scfl).needs

\* A frame for the dependencies of a feature, and of each of some features in their order.
FrameOf(spec, scfl, f) == [spec |-> spec, deps |-> PortOf(spec[1], scfl).needs[f]]

Frames(spec, scfl, features) ==
    LET upTo[i \in 0 .. Len(FeatureNames)] ==
            IF i = 0 THEN <<>>
            ELSE IF FeatureNames[i] \in features THEN Append(upTo[i - 1], FrameOf(spec, scfl, FeatureNames[i]))
            ELSE upTo[i - 1]
    IN  upTo[Len(FeatureNames)]

\* m_roots: a dependency and the package that it leads to.
Roots ==
    {[spec |-> SpecOf(d, TopLevel), dep |-> d] :
        d \in {Manifest.depends[i] : i \in {k \in 1 .. Len(Manifest.depends) : Manifest.triplet \in Manifest.depends[k].on}}}

InitVersioned ==
    /\ world \in DOMAIN Manifests
    /\ pc = "resolve"
    /\ graph = [s \in {} |-> None]
    /\ failed = {}
    /\ stack = <<>>
    /\ frame = [spec |-> TopLevel, deps |-> Manifest.depends]
    /\ wanted = <<>>
    /\ met = FALSE
    /\ roots = Roots
    /\ emitted = [s \in {} |-> FALSE]
    /\ walk = <<>>
    /\ plan = <<>>
    /\ outcome = "none"

(***************************************************************************)
(* Phase 1.                                                                *)
(***************************************************************************)
\* The features required of a node whose best version is scfl.
Required(spec, n, scfl) == n.requested \cup IF n.defaults THEN Defaults(spec, scfl) ELSE {}

\* Those of them up to the first one, in their order, that the version does not have.
Before(spec, scfl, features) ==
    {FeatureNames[i] : i \in {k \in 1 .. Len(FeatureNames) :
        /\ FeatureNames[k] \in features
        /\ \A j \in 1 .. k : FeatureNames[j] \in features => FeatureNames[j] \in FeaturesOf(spec, scfl)}}

\* Fault: the features that were required before are not required of this version.
FaultyRequireScfl(spec, n, scfl) ==
    IF scfl \in n.considered THEN <<n, <<>>>>
    ELSE <<[n EXCEPT !.considered = @ \cup {scfl}], Frames(spec, scfl, {Core})>>

\* require_scfl on the node n: the node and what is pushed.
RequireScfl(spec, n, scfl) ==
    IF scfl \in n.considered THEN <<n, <<>>>>
    ELSE <<[n EXCEPT !.considered = @ \cup {scfl}],
           Frames(spec, scfl, {Core})
               \o Frames(spec, n.scfl, Before(spec, n.scfl, Required(spec, n, n.scfl)))>>

\* The version that require_package starts with.
FirstScfl(name) ==
    IF Manifest.overlay[name] # None THEN Overlay
    ELSE IF Manifest.override[name] # None THEN Manifest.override[name] ELSE Manifest.baseline[name]

Pinned(name) == Manifest.overlay[name] # None \/ Manifest.override[name] # None

\* Baseline, override and overlay: there is such a port.
CanStart(name) ==
    name \in Port /\ (FirstScfl(name) = Overlay \/ (FirstScfl(name) # None /\ Has(name, FirstScfl(name))))

\* Fault: implicit default features are on for every package.
FaultyRequirePackage(spec, origin) ==
    IF spec \in DOMAIN graph THEN <<graph[spec], <<>>>>
    ELSE RequireScfl(spec,
                     [scfl |-> FirstScfl(spec[1]), considered |-> {}, requested |-> {Core}, defaults |-> TRUE],
                     FirstScfl(spec[1]))

\* require_package: the node and what is pushed.
RequirePackage(spec, origin) ==
    IF spec \in DOMAIN graph THEN <<graph[spec], <<>>>>
    ELSE RequireScfl(spec,
                     [scfl |-> FirstScfl(spec[1]), considered |-> {}, requested |-> {Core},
                      defaults |-> origin # TopLevel[1]],
                     FirstScfl(spec[1]))

\* Fault: every version above the baseline becomes the best.
FaultyConstrain(spec, n, min) ==
    IF Pinned(spec[1]) \/ min = None \/ ~ Has(spec[1], min) THEN <<n, <<>>>>
    ELSE IF CompareVersions(Manifest.baseline[spec[1]], min) = "lt"
         THEN RequireScfl(spec, [n EXCEPT !.scfl = min], min)
         ELSE <<n, <<>>>>

\* The minimum version of a dependency on the node n: the node and what is pushed.
Constrain(spec, n, min) ==
    IF Pinned(spec[1]) \/ min = None \/ ~ Has(spec[1], min) THEN <<n, <<>>>>
    ELSE IF CompareVersions(n.scfl, min) = "lt" THEN RequireScfl(spec, [n EXCEPT !.scfl = min], min)
    ELSE IF CompareVersions(Manifest.baseline[spec[1]], min) = "lt" THEN RequireScfl(spec, n, min)
    ELSE <<n, <<>>>>

Dep == Head(frame.deps)
DepSpec == SpecOf(Dep, frame.spec)
Resolving == pc = "resolve" /\ UNCHANGED <<world, pc, extractVars, outcome>>

\* Fault: the frame stays on the stack.
FaultyPopFrame ==
    /\ Resolving
    /\ frame.deps = <<>>
    /\ stack # <<>>
    /\ frame' = Last(stack)
    /\ UNCHANGED <<graph, failed, stack, wanted, met>>

PopFrame ==
    /\ Resolving
    /\ frame.deps = <<>>
    /\ stack # <<>>
    /\ frame' = Last(stack)
    /\ stack' = Front(stack)
    /\ UNCHANGED <<graph, failed, wanted, met>>

\* Its platform expression does not hold.
SkipDependency ==
    /\ Resolving
    /\ frame.deps # <<>> /\ ~ met
    /\ frame.spec[2] \notin Dep.on
    /\ frame' = [frame EXCEPT !.deps = Tail(@)]
    /\ UNCHANGED <<graph, failed, stack, wanted, met>>

\* require_package returns nullptr.
FailPackage ==
    /\ Resolving
    /\ frame.deps # <<>> /\ ~ met
    /\ frame.spec[2] \in Dep.on
    /\ DepSpec \notin DOMAIN graph
    /\ Dep.name \in failed \/ ~ CanStart(Dep.name)
    /\ failed' = failed \cup {Dep.name}
    /\ frame' = [frame EXCEPT !.deps = Tail(@)]
    /\ UNCHANGED <<graph, stack, wanted, met>>

\* require_package and the version constraint.
RequireDependency ==
    /\ Resolving
    /\ frame.deps # <<>> /\ ~ met
    /\ frame.spec[2] \in Dep.on
    /\ DepSpec \in DOMAIN graph \/ (Dep.name \notin failed /\ CanStart(Dep.name))
    /\ \E required \in {RequirePackage(DepSpec, frame.spec[1])} :
       \E constrained \in {Constrain(DepSpec, required[1], Dep.min)} :
           /\ graph' = [s \in DOMAIN graph \cup {DepSpec} |-> IF s = DepSpec THEN constrained[1] ELSE graph[s]]
           /\ stack' = stack \o required[2] \o constrained[2]
    /\ met' = TRUE
    /\ wanted' = Dep.features
    /\ UNCHANGED <<failed, frame>>

\* Frames for pairs of a considered version and one of its features, in any order.
PushForConsidered(pairs) ==
    \E order \in SetToSeqs({p \in pairs : p[2] \in FeaturesOf(DepSpec, p[1])}) :
        stack' = stack \o [i \in 1 .. Len(order) |-> FrameOf(DepSpec, order[i][1], order[i][2])]

\* Its platform expression does not hold.
SkipFeature ==
    /\ Resolving
    /\ met /\ wanted # <<>>
    /\ frame.spec[2] \notin Head(wanted).on
    /\ wanted' = Tail(wanted)
    /\ UNCHANGED <<graph, failed, stack, frame, met>>

\* Fault: only the first version considered is asked what the feature needs.
FaultyRequireFeature ==
    /\ Resolving
    /\ met /\ wanted # <<>>
    /\ frame.spec[2] \in Head(wanted).on
    /\ LET f == Head(wanted).name IN
         \/ f \in graph[DepSpec].requested /\ UNCHANGED <<graph, stack>>
         \/ /\ f \notin graph[DepSpec].requested
            /\ graph' = [graph EXCEPT ![DepSpec].requested = @ \cup {f}]
            /\ PushForConsidered({<<FirstScfl(Dep.name), f>>})
    /\ wanted' = Tail(wanted)
    /\ UNCHANGED <<failed, frame, met>>

\* require_port_feature
RequireFeature ==
    /\ Resolving
    /\ met /\ wanted # <<>>
    /\ frame.spec[2] \in Head(wanted).on
    /\ LET f == Head(wanted).name IN
         \/ f \in graph[DepSpec].requested /\ UNCHANGED <<graph, stack>>
         \/ /\ f \notin graph[DepSpec].requested
            /\ graph' = [graph EXCEPT ![DepSpec].requested = @ \cup {f}]
            /\ PushForConsidered(graph[DepSpec].considered \X {f})
    /\ wanted' = Tail(wanted)
    /\ UNCHANGED <<failed, frame, met>>

\* require_port_defaults, if the dependency has default features, and the end of it.
RequireDefaults ==
    /\ Resolving
    /\ met /\ wanted = <<>>
    /\ IF Dep.defaults /\ ~ graph[DepSpec].defaults
       THEN /\ graph' = [graph EXCEPT ![DepSpec].defaults = TRUE]
            /\ PushForConsidered(UNION {{scfl} \X Defaults(DepSpec, scfl) : scfl \in graph[DepSpec].considered})
       ELSE UNCHANGED <<graph, stack>>
    /\ met' = FALSE
    /\ frame' = [frame EXCEPT !.deps = Tail(@)]
    /\ UNCHANGED <<failed, wanted>>

Resolved ==
    /\ pc = "resolve"
    /\ frame.deps = <<>> /\ stack = <<>>
    /\ pc' = IF failed = {} THEN "extract" ELSE "done"
    /\ outcome' = IF failed = {} THEN "none" ELSE "errors"
    /\ UNCHANGED <<world, resolverVars, extractVars>>

(***************************************************************************)
(* Phase 2, finalize_extract_plan.                                         *)
(***************************************************************************)
AllFeatures(spec) == Required(spec, graph[spec], graph[spec].scfl) \cap FeaturesOf(spec, graph[spec].scfl)

\* The dependencies of a feature of spec that compute_feature_dependencies keeps.
Needs(spec, f) ==
    LET deps == PortOf(spec[1], graph[spec].scfl).needs[f]
    IN  {d \in {deps[i] : i \in 1 .. Len(deps)} : SpecOf(d, spec) # spec /\ spec[2] \in d.on}

\* out_dep_specs of compute_feature_dependencies: the dependencies and where they lead.
DepSpecs(spec) == UNION {{[spec |-> SpecOf(d, spec), dep |-> d] : d \in Needs(spec, f)} : f \in AllFeatures(spec)}

\* Its result: the feature specs that each feature is built against.
FeatureDependencies(spec) ==
    [f \in AllFeatures(spec) |->
        UNION {{<<SpecOf(d, spec), g>> : g \in {Core} \cup Holding(d.features, SpecOf(d, spec)[2])}
               : d \in Needs(spec, f)}]

\* Fault: a package in progress is taken for an emitted one.
FaultyVerdict(need) ==
    LET n == graph[need.spec]
        min == need.dep.min
        checked == ~ Pinned(need.spec[1]) /\ min # None
    IN  IF need.spec \notin DOMAIN graph THEN "internal error"
        ELSE IF checked /\ ~ Has(need.spec[1], min) THEN "internal error"
        ELSE IF checked /\ CompareVersions(n.scfl, min) = "unk" THEN "incomparable"
        ELSE IF checked /\ CompareVersions(n.scfl, min) = "lt" THEN "internal error"
        ELSE IF ~ NamesOf(need.dep.features) \subseteq FeaturesOf(need.spec, n.scfl) THEN "missing feature"
        ELSE "ok"

\* What push checks, in its order.
Verdict(need) ==
    LET n == graph[need.spec]
        min == need.dep.min
        checked == ~ Pinned(need.spec[1]) /\ min # None
    IN  IF need.spec \notin DOMAIN graph THEN "internal error"
        ELSE IF checked /\ ~ Has(need.spec[1], min) THEN "internal error"
        ELSE IF checked /\ CompareVersions(n.scfl, min) = "unk" THEN "incomparable"
        ELSE IF checked /\ CompareVersions(n.scfl, min) = "lt" THEN "internal error"
        ELSE IF ~ NamesOf(need.dep.features) \subseteq FeaturesOf(need.spec, n.scfl) THEN "missing feature"
        ELSE IF need.spec \in DOMAIN emitted /\ ~ emitted[need.spec] THEN "cycle"
        ELSE "ok"

Extracting == pc = "extract" /\ UNCHANGED <<world, resolverVars>>

\* push; rest is the stack below.
Push(need, rest) ==
    LET verdict == Verdict(need) IN
    /\ pc' = IF verdict = "ok" THEN "extract" ELSE "done"
    /\ outcome' = IF verdict = "ok" THEN "none" ELSE verdict
    /\ IF verdict = "ok" /\ need.spec \notin DOMAIN emitted
       THEN /\ emitted' = [s \in DOMAIN emitted \cup {need.spec} |-> s # need.spec /\ emitted[s]]
            /\ walk' = Append(rest, [spec |-> need.spec, left |-> DepSpecs(need.spec)])
       ELSE /\ walk' = rest
            /\ UNCHANGED emitted
    /\ UNCHANGED plan

WalkRoot ==
    /\ Extracting
    /\ walk = <<>>
    /\ \E root \in roots :
          /\ Push(root, <<>>)
          /\ roots' = roots \ {root}

WalkDependency ==
    /\ Extracting
    /\ walk # <<>>
    /\ \E need \in Last(walk).left : Push(need, [walk EXCEPT ![Len(walk)].left = @ \ {need}])
    /\ UNCHANGED roots

Emit ==
    /\ Extracting
    /\ walk # <<>> /\ Last(walk).left = {}
    /\ LET spec == Last(walk).spec IN
         /\ emitted' = [emitted EXCEPT ![spec] = TRUE]
         /\ plan' = Append(plan, [spec |-> spec, scfl |-> graph[spec].scfl, needs |-> FeatureDependencies(spec)])
    /\ walk' = Front(walk)
    /\ UNCHANGED <<pc, roots, outcome>>

\* unsupported_features
Unsupported ==
    {u \in Spec \X Feature : \E i \in 1 .. Len(plan) :
        /\ plan[i].spec = u[1] /\ u[2] \in DOMAIN plan[i].needs
        /\ <<u[2], u[1][2]>> \in PortOf(u[1][1], plan[i].scfl).excludes}

\* With UnsupportedPortAction::Warn there is a plan anyway.
Finish ==
    /\ Extracting
    /\ walk = <<>> /\ roots = {}
    /\ pc' = "done"
    /\ outcome' \in IF Unsupported = {} THEN {"plan"} ELSE {"plan", "unsupported"}
    /\ UNCHANGED extractVars

NextVersioned ==
    \/ PopFrame
    \/ SkipDependency
    \/ FailPackage
    \/ RequireDependency
    \/ SkipFeature
    \/ RequireFeature
    \/ RequireDefaults
    \/ Resolved
    \/ WalkRoot
    \/ WalkDependency
    \/ Emit
    \/ Finish

Versioned == InitVersioned /\ [][NextVersioned]_versionedVars

\* One sequential thread.
FairVersioned == Versioned /\ WF_versionedVars(NextVersioned)
--------------------------------------------------------------------------------
Node(n) ==
    n = [scfl |-> n.scfl, considered |-> n.considered, requested |-> n.requested, defaults |-> n.defaults]

\* What phase 1 keeps of a package.
Selects(name, n) ==
    /\ n.scfl \in n.considered /\ FirstScfl(name) \in n.considered
    /\ Pinned(name) => n.considered = {FirstScfl(name)}
    /\ ~ Pinned(name) => n.considered \subseteq Version
    /\ \A v \in n.considered \ {n.scfl} : CompareVersions(v, n.scfl) = "lt"
    /\ \A v \in n.considered \ {FirstScfl(name)} : CompareVersions(FirstScfl(name), v) = "lt"

\* Whatever the order in which constraints are met, the version selected for a package has been considered,
\* it is the greatest of those that have, none of which is below the one to start with, and a pinned version
\* stays alone (dependencies.cpp:1536-1564 and 1626-1731); the packages in progress in phase 2 are those on
\* its stack.
VersionedInv ==
    /\ pc \in {"resolve", "extract", "done"}
    /\ \A s \in DOMAIN graph : s[1] \in Port /\ Node(graph[s]) /\ Selects(s[1], graph[s])
    /\ met => DepSpec \in DOMAIN graph
    /\ walk \in Seq([spec : DOMAIN graph, left : SUBSET UNION {DepSpecs(s) : s \in DOMAIN graph}])
    /\ emitted \in [DOMAIN emitted -> BOOLEAN] /\ DOMAIN emitted \subseteq DOMAIN graph
    /\ {s \in DOMAIN emitted : ~ emitted[s]} = {walk[i].spec : i \in 1 .. Len(walk)}

\* The minimum version of a dependency on spec.
Satisfied(spec, min) == min = None \/ Pinned(spec[1]) \/ CompareVersions(graph[spec].scfl, min) \in {"eq", "gt"}

\* The version selected for a dependency satisfies it and has the features asked for.
Admitted(need) ==
    /\ need.spec \in DOMAIN graph /\ Satisfied(need.spec, need.dep.min)
    /\ NamesOf(need.dep.features) \subseteq FeaturesOf(need.spec, graph[need.spec].scfl)

\* It is in the plan before the i-th action.
Provided(need, i) == Admitted(need) /\ \E j \in 1 .. i - 1 : plan[j].spec = need.spec

\* A plan that is returned can be executed in its order: each package is in it once, after all packages
\* that its features depend on, in versions that they allow: "Validate that every version constraint from
\* the selected version is satisfied or pinned" (dependencies.cpp:1372).
PlanInOrder ==
    outcome = "plan" =>
        /\ \A i \in 1 .. Len(plan) : \A need \in DepSpecs(plan[i].spec) : Provided(need, i)
        /\ \A root \in Roots : Provided(root, Len(plan) + 1)
        /\ \A i, j \in 1 .. Len(plan) : plan[i].spec = plan[j].spec => i = j

\* Every feature is built after the features that it is built against, and the plan has the features that
\* the manifest asks for: "Validate that every feature constraint from the selected version is satisfied"
\* (dependencies.cpp:1373).
PlanHasFeatures ==
    outcome = "plan" =>
        LET has(need, i) == \E j \in 1 .. i - 1 : plan[j].spec = need[1] /\ need[2] \in DOMAIN plan[j].needs
        IN  /\ \A i \in 1 .. Len(plan) : \A f \in DOMAIN plan[i].needs : \A need \in plan[i].needs[f] : has(need, i)
            /\ \A root \in Roots : \A f \in {Core} \cup Holding(root.dep.features, Manifest.triplet) :
                  has(<<root.spec, f>>, Len(plan) + 1)

\* A cycle is reported only if the selected versions depend on each other in one (dependencies.cpp:1981-1988).
CycleIsReal ==
    outcome = "cycle" =>
        \E S \in SUBSET DOMAIN graph : S # {} /\ \A s \in S : \E need \in DepSpecs(s) : need.spec \in S

\* The errors of phase 2 are about the ports: a cycle is real, and phase 1 has met whatever phase 2 asks for,
\* so that no assertion of push fails: "Dependency resolution should have ensured that either every node
\* exists OR an error should have been logged to m_errors" (dependencies.cpp:1896-1897, 1905, 1918-1921).
ErrorsAreReal == outcome # "internal error" /\ CycleIsReal

(***************************************************************************)
(* What the comment at dependencies.cpp:1359-1382 says of phase 1, without *)
(* the order of the work: the least applied versions, features and default *)
(* features that the dependencies of all applied versions lead to.         *)
(***************************************************************************)
\* The dependencies of the applied versions, and of the manifest, and where they come from.
AppliedDependencies(d) ==
    {<<TopLevel, Manifest.depends>>} \cup
    {<<p[1], PortOf(p[1][1], p[2]).needs[p[3]]>> :
        p \in {q \in UNION {{<<v[1], v[2], f>> : f \in FeaturesOf(v[1], v[2])} : v \in d.versions} :
                  <<q[1], q[3]>> \in d.features \/ (q[1] \in d.defaults /\ q[3] \in Defaults(q[1], q[2]))}}

\* The dependencies among them whose platform expression holds, and that lead to a port.
Applied(d) ==
    {r \in UNION {{<<o[1], o[2][i]>> : i \in 1 .. Len(o[2])} : o \in AppliedDependencies(d)} :
        r[1][2] \in r[2].on /\ CanStart(r[2].name)}

AtTopLevel == {root.spec : root \in Roots}

LeadTo(d) ==
    LET targets == {<<SpecOf(r[2], r[1]), r[2], r[1]>> : r \in Applied(d)}
    IN  [versions |-> d.versions
            \cup {<<t[1], FirstScfl(t[1][1])>> : t \in targets}
            \cup {<<t[1], t[2].min>> : t \in {u \in targets :
                    /\ u[2].min # None /\ ~ Pinned(u[1][1]) /\ Has(u[1][1], u[2].min)
                    /\ CompareVersions(Manifest.baseline[u[1][1]], u[2].min) = "lt"}},
         features |-> d.features
            \cup UNION {{<<t[1], f>> : f \in {Core} \cup Holding(t[2].features, t[3][2])} : t \in targets},
         defaults |-> d.defaults \cup {t[1] : t \in {u \in targets : u[2].defaults \/ u[1] \notin AtTopLevel}}]

\* The versions that there are.
Existing ==
    {a \in Spec \X ({Overlay} \cup UNION {DOMAIN Manifest.ports[p] : p \in Port}) : Exists(a[1][1], a[2])}

Declarations == [versions : SUBSET Existing, features : SUBSET (Spec \X Feature), defaults : SUBSET Spec]

Declared ==
    LET grown[d \in Declarations] == IF LeadTo(d) = d THEN d ELSE grown[LeadTo(d)]
    IN  grown[[versions |-> {}, features |-> {}, defaults |-> {}]]

\* What phase 1 has applied.
Applications ==
    [versions |-> UNION {{<<s, v>> : v \in graph[s].considered} : s \in DOMAIN graph},
     features |-> UNION {{<<s, f>> : f \in graph[s].requested} : s \in DOMAIN graph},
     defaults |-> {s \in DOMAIN graph : graph[s].defaults}]

\* Part by part.
Contained(r, s) == \A part \in DOMAIN r : r[part] \subseteq s[part]

\* Every version of a port has the features of the others, which need the same.
FeaturesStable ==
    \A p \in Port : \A v, w \in DOMAIN Manifest.ports[p] :
        \A f \in Feature \ {Core} :
            LET needs(u) == Manifest.ports[p][u].needs
            IN  /\ f \in DOMAIN needs(v) => f \in DOMAIN needs(w) /\ needs(v)[f] = needs(w)[f]
                /\ Manifest.ports[p][v].defaults = Manifest.ports[p][w].defaults

\* When phase 1 has ended without an error it has applied no version, feature or default feature that its
\* description does not lead to; and, where features stay what they are from version to version, all of
\* them, in whatever order the versions of a package were met: "Phase 1 does not depend on the order of
\* evaluation" (dependencies.cpp:1379).
Phase1AsDeclared ==
    pc = "extract" /\ emitted = <<>> => Contained(Applications, Declared) /\ (FeaturesStable => Applications = Declared)

\* What phase 2 still has to do: the direct dependencies, the dependencies of the packages not met yet or in
\* progress, and the packages not emitted.
WalkLeft ==
    [roots |-> roots,
     needs |-> (UNION {{<<s, need>> : need \in DepSpecs(s)} : s \in DOMAIN graph \ DOMAIN emitted})
        \cup (UNION {{<<walk[i].spec, need>> : need \in walk[i].left} : i \in 1 .. Len(walk)}),
     packages |-> DOMAIN graph \ {s \in DOMAIN emitted : emitted[s]}]

\* A step of phase 1 that leaves less to do with what has been applied: a frame less, or a dependency of
\* the frame, or the package of it is required, or a feature of it.
Nearer ==
    \/ Len(stack') < Len(stack)
    \/ UNCHANGED stack /\ Len(frame'.deps) < Len(frame.deps)
    \/ UNCHANGED <<stack, frame>> /\ ~ met /\ met'
    \/ UNCHANGED <<stack, frame, met>> /\ Len(wanted') < Len(wanted)

\* Each step brings the end nearer: phase 1 applies something more, or has less to do with what it has
\* applied, and phase 2 has less to do.
ResolutionDescends ==
    [][/\ pc = "resolve" /\ pc' = "resolve" =>
             \/ Contained(Applications, Applications') /\ Applications' # Applications
             \/ UNCHANGED graph /\ Nearer
       /\ pc = "extract" /\ pc' = "extract" => Contained(WalkLeft', WalkLeft) /\ WalkLeft' # WalkLeft
       /\ pc' # pc => <<pc, pc'>> \in {<<"resolve", "extract">>, <<"resolve", "done">>, <<"extract", "done">>}
      ]_versionedVars

\* A resolution ends, with a plan or with an error, whatever the ports need of each other.
ResolutionEnds == ResolutionDescends /\ <>(pc = "done")
================================================================================

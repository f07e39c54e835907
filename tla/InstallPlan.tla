------------------------------ MODULE InstallPlan ------------------------------
(***************************************************************************)
(* The resolver of classic mode (PackageGraph in dependencies.cpp) and     *)
(* what "vcpkg install", "upgrade", "remove" and "export" do with it, one  *)
(* command after the other, while the ports are updated in between.  A     *)
(* plan is solved feature by feature, serialized with TopologicalSort, and *)
(* executed; what an installed package records of its port is what the     *)
(* next command starts from.                                               *)
(*                                                                         *)
(* next_dependencies is a stack in the code and a set here: the entries    *)
(* are handled in any order, which covers the unordered sets whose         *)
(* elements the code pushes.  Execution is one step; PackageTree and       *)
(* SetInstalled have it in detail.  The binary cache holds what commands   *)
(* of classic mode have built.  A spec is a name: the triplet and the      *)
(* host triplet only make it another spec.                                 *)
(***************************************************************************)
EXTENDS TopologicalSort, FiniteSets

CONSTANTS Feat,              \* feature names
          Core, Default, Star,  \* "core", "default" and "*"
          History,           \* the states of the ports that updates lead through, a sequence of records
          Requests,          \* what a user may ask to install: sets of FeatureSpecs
          MaxCommands        \* bound: commands per behaviour

Pkg == Vertex
Key == Pkg \X (Feat \cup {Core})
FeatureSpec == Pkg \X (Feat \cup {Core, Default, Star})

(***************************************************************************)
(* A state of the ports:                                                   *)
(*   ports        the packages that have one;                              *)
(*   version      of each;                                                 *)
(*   feats        the features of each;                                    *)
(*   defaults     the default features of each, those that hold for the    *)
(*                triplet;                                                 *)
(*   qualified    the packages whose default features have platform        *)
(*                expressions;                                             *)
(*   needs        what each feature needs without a platform expression;   *)
(*   needsIf      what the others add where they hold for the triplet;     *)
(*   conditional  the features with dependencies that have expressions;    *)
(*   supports     the features with a supports expression;                 *)
(*   unsupported  those whose expression does not hold for the triplet.    *)
(***************************************************************************)
ASSUME NamesAssumption ==
    {Core, Default, Star} \cap Feat = {} /\ Core # Default /\ Core # Star /\ Default # Star

ASSUME FiniteAssumption == IsFiniteSet(Pkg) /\ IsFiniteSet(Feat)

ASSUME RequestsAssumption == Requests \subseteq SUBSET FeatureSpec

\* internalize_feature_list adds core to every request and every dependency.
WithCore(specs) == \A s \in specs : <<s[1], Core>> \in specs

ASSUME CoreAssumption ==
    /\ \A specs \in Requests : WithCore(specs)
    /\ \A i \in 1 .. Len(History) : \A k \in Key : WithCore(History[i].needs[k] \cup History[i].needsIf[k])

ASSUME HistoryAssumption ==
    /\ Len(History) \in Nat \ {0}
    /\ \A i \in 1 .. Len(History) : LET t == History[i] IN
        /\ t.ports \subseteq Pkg /\ t.qualified \subseteq Pkg
        /\ t.feats \in [Pkg -> SUBSET Feat]
        /\ \A p \in Pkg : t.defaults[p] \subseteq t.feats[p]
        /\ t.needs \in [Key -> SUBSET FeatureSpec] /\ t.needsIf \in [Key -> SUBSET FeatureSpec]
        /\ \A k \in Key : t.needsIf[k] # {} => k \in t.conditional
        /\ t.unsupported \subseteq t.supports /\ t.supports \subseteq Key

VARIABLES
    at,          \* the index in History of the ports as they are now
    db,          \* what is installed, with what its paragraphs record; lacks is no field of theirs but history:
                 \* what a package that a run which kept going restored from the cache had to do without
    commands,    \* commands run so far
    pc,          \* "idle", "solve", "sortRemoves", "sortInstalls", "planned", "sortRemoval", "sortExport"
    user,        \* the clusters whose request_type is USER_REQUESTED
    warn,        \* UnsupportedPortAction::Warn
    todo,        \* next_dependencies
    batch,       \* qualified_dependencies
    vars,        \* the packages whose dependency info variables are loaded
    info,        \* m_install_info, of the clusters that have one
    asked,       \* the clusters with m_installed->defaults_requested
    unsupported, \* m_unsupported_features
    goal,        \* what the command was asked for
    removes,     \* plan.remove_actions
    installs     \* the packages of plan.install_actions

solver == <<user, warn, todo, batch, vars, info, asked, unsupported, goal>>
planVars == <<at, db, commands, pc, solver, removes, installs, sortVars>>

Tree == History[at]
Installed == DOMAIN db
HasInfo(p) == p \in DOMAIN info
NoInfo == [p \in {} |-> {}]
NoGoal == [specs |-> {}, upgrade |-> {}]

\* InstalledPackageView::dependencies, reversed: remove_edges of a cluster.
RemoveEdges == {e \in Pkg \X Pkg : e[1] \in Installed /\ e[2] \in Installed /\ e[1] \in db[e[2]].deps}

\* rev_edges of create_remove_plan: also of what is missing.
RevEdges == {e \in Pkg \X Pkg : e[2] \in Installed /\ e[1] \in db[e[2]].deps}

\* The packages that edges lead to from S, and S: those in every set that has S and is closed.
Closed(edges, T) == \A e \in edges : e[1] \in T => e[2] \in T
Reached(edges, S) ==
    LET closed == {T \in SUBSET Pkg : S \subseteq T /\ Closed(edges, T)}
    IN  {p \in Pkg : \A T \in closed : p \in T}

\* The function that has one more argument.
Extended(function, x, value) ==
    [y \in DOMAIN function \cup {x} |-> IF y = x THEN value ELSE function[y]]

\* An installed package without one that it depends on: msgCorruptedDatabase for PackageGraph, not for
\* the plans of "remove" and "export".
Corrupted == \E p \in Installed : ~ db[p].deps \subseteq Installed

InitPlan ==
    /\ at = 1 /\ db = NoInfo /\ commands = 0 /\ pc = "idle"
    /\ user = {} /\ warn = FALSE /\ todo = {} /\ batch = {} /\ vars = {} /\ info = NoInfo /\ asked = {}
    /\ unsupported = {} /\ removes = {} /\ installs = {} /\ goal = NoGoal
    /\ graph = {} /\ starts = {} /\ pending = {} /\ Fresh

(***************************************************************************)
(* Clusters.                                                               *)
(***************************************************************************)
\* requested: the clusters with m_installed->defaults_requested.
NewInfo(p, requested) ==
    [edges |-> NoInfo, requested |-> FALSE, defaults |-> {}, reduced |-> p \notin requested \cup user]

\* create_install_info: what is to be installed again, and the default features.
ReinstallRequirements(p, requested) ==
    LET again == IF p \in Installed THEN {Core} \cup (db[p].feats \cap Tree.feats[p]) ELSE {}
    IN  {<<p, f>> : f \in again} \cup (IF p \in requested \/ p \notin user THEN {<<p, Default>>} ELSE {})

\* Fault: what depends on a package stays as it is.
FaultyReinstalled(p) == {p} \ DOMAIN info

\* mark_for_reinstall: the clusters that get an install info, p and what depends on it.
Reinstalled(p) == Reached(RemoveEdges, {p}) \ DOMAIN info

\* has_defaults_installed compares with the default features that the paragraph records.
HasDefaultsInstalled(p) == db[p].defaults \subseteq db[p].feats

\* Fault: a feature that is planned is added again.
FaultyAddFeature(i, p, f) ==
    LET k == <<p, f>>
        deps == Tree.needs[k] \cup (IF p \in vars THEN Tree.needsIf[k] ELSE {})
    IN  IF f = Default
        THEN <<[i EXCEPT !.requested = TRUE, !.defaults = Tree.defaults[p], !.reduced = FALSE],
               IF i.requested THEN {} ELSE {<<p, d>> : d \in Tree.defaults[p]}>>
        ELSE <<[i EXCEPT !.edges = Extended(@, f, deps)], deps>>

\* Cluster::add_feature on the install info i of p: the new info and out_new_dependencies.
AddFeature(i, p, f) ==
    LET k == <<p, f>>
        known == f # Default /\ (p \in vars \/ k \notin Tree.conditional)
        deps == Tree.needs[k] \cup (IF p \in vars THEN Tree.needsIf[k] ELSE {})
        defaults == IF p \in vars \/ p \notin Tree.qualified THEN Tree.defaults[p] ELSE {}
        old == IF i.reduced /\ p \in Installed THEN db[p].defaults ELSE {}
    IN  CASE f = Default /\ i.requested -> <<i, {}>>
          [] f = Default /\ ~ i.requested ->
                <<[i EXCEPT !.requested = (p \in vars \/ p \notin Tree.qualified),
                            !.defaults = defaults, !.reduced = FALSE],
                  {<<p, d>> : d \in defaults \ old}>>
          [] f # Default /\ f \in DOMAIN i.edges -> <<i, {}>>
          [] known /\ f \notin DOMAIN i.edges -> <<[i EXCEPT !.edges = Extended(@, f, deps)], deps>>
          [] OTHER -> <<i, {s \in deps : s[1] # p}>>

(***************************************************************************)
(* Commands.                                                               *)
(***************************************************************************)
Run(next) ==
    /\ pc = "idle"
    /\ commands < MaxCommands
    /\ commands' = commands + 1
    /\ pc' = next
    /\ UNCHANGED <<at, db, removes, installs>>

\* "install" or "upgrade": PackageGraph exits.
Refuse ==
    /\ Run("idle")
    /\ Corrupted
    /\ UNCHANGED <<solver, sortVars>>

\* The process ends.
End ==
    /\ pc' = "idle"
    /\ user' = {} /\ warn' = FALSE /\ todo' = {} /\ batch' = {} /\ vars' = {} /\ info' = NoInfo
    /\ asked' = {} /\ unsupported' = {} /\ removes' = {} /\ installs' = {} /\ goal' = NoGoal
    /\ StartSort({}, {})
    /\ UNCHANGED <<at, commands>>

\* git pull.
UpdatePorts ==
    /\ pc = "idle"
    /\ at < Len(History)
    /\ at' = at + 1
    /\ UNCHANGED <<db, commands, pc, solver, removes, installs, sortVars>>

\* create_feature_install_plan up to PackageGraph::install.
Install(specs, action) ==
    /\ Run("solve")
    /\ ~ Corrupted
    /\ {s[1] : s \in specs} \subseteq Tree.ports
    /\ user' = {s[1] : s \in specs}
    /\ todo' = specs
    /\ goal' = [specs |-> specs, upgrade |-> {}]
    /\ warn' = action
    /\ UNCHANGED <<batch, vars, info, asked, unsupported, sortVars>>

Outdated(p) == p \in Installed \cap Tree.ports /\ Tree.version[p] # History[db[p].at].version[p]

\* create_upgrade_plan up to PackageGraph::install: of some outdated packages.  A dependent without
\* a port ends it (get_scfl_or_exit).
Upgrade(specs, action) ==
    /\ Run("solve")
    /\ ~ Corrupted
    /\ specs # {} /\ \A p \in specs : Outdated(p)
    /\ LET again == Reached(RemoveEdges, specs) IN
         /\ again \subseteq Tree.ports
         /\ info' = [p \in again |-> NewInfo(p, asked)]
         /\ todo' = UNION {ReinstallRequirements(p, asked) : p \in again}
         /\ goal' = [specs |-> {}, upgrade |-> specs]
    /\ warn' = action
    /\ UNCHANGED <<user, batch, vars, asked, unsupported, sortVars>>

\* create_remove_plan.
Remove(specs) ==
    /\ Run("sortRemoval")
    /\ specs # {}
    /\ StartSort(RevEdges, specs)
    /\ UNCHANGED solver

\* create_export_plan; what is not installed has no dependencies.
Export(specs) ==
    /\ Run("sortExport")
    /\ specs # {}
    /\ StartSort({e \in Pkg \X Pkg : e[1] \in Installed /\ e[2] \in db[e[1]].deps}, specs)
    /\ UNCHANGED solver
(***************************************************************************)
(* PackageGraph::install, one entry of next_dependencies after the other.  *)
(***************************************************************************)
\* The platform expressions of s, if it has any, cannot be evaluated yet.
NeedsVars(s) ==
    /\ s[1] \notin vars
    /\ IF s[2] = Default THEN s[1] \in Tree.qualified ELSE s \in Tree.conditional \cup Tree.supports

IsUnsupported(s) == s[1] \in vars /\ s \in Tree.unsupported

\* The cluster is installed, not yet planned, and s asks for more than it has.
MustReinstall(s) ==
    /\ s[1] \in Installed /\ ~ HasInfo(s[1])
    /\ IF s[2] = Default THEN s[1] \notin asked /\ ~ HasDefaultsInstalled(s[1])
                         ELSE s[2] \notin db[s[1]].feats \cup {Core, Star}

\* No port or no such feature, a feature that is not supported, or a dependent without a port.
Fails(s) ==
    \/ s[1] \notin Tree.ports
    \/ s[2] \notin Tree.feats[s[1]] \cup {Core, Default, Star}
    \/ IsUnsupported(s) /\ ~ warn
    \/ MustReinstall(s) /\ ~ Reinstalled(s[1]) \subseteq Tree.ports

Exit(s) ==
    /\ pc = "solve"
    /\ s \in todo
    /\ Fails(s)
    /\ End
    /\ UNCHANGED db

\* The part of an iteration before the cluster is looked at.
Take(s) ==
    /\ pc = "solve"
    /\ s \in todo
    /\ ~ Fails(s)
    /\ batch' = IF NeedsVars(s) THEN batch \cup {s} ELSE batch
    /\ unsupported' = IF IsUnsupported(s) THEN unsupported \cup {s} ELSE unsupported
    /\ UNCHANGED <<at, db, commands, pc, user, warn, vars, goal, removes, installs, sortVars>>

ExpandStar(s) ==
    /\ s[2] = Star
    /\ Take(s)
    /\ todo' = (todo \ {s}) \cup {<<s[1], f>> : f \in Tree.feats[s[1]]}
    /\ UNCHANGED <<info, asked>>

\* The cluster has an install info.
AddToPlanned(s) ==
    /\ s[2] # Star
    /\ HasInfo(s[1])
    /\ Take(s)
    /\ LET added == AddFeature(info[s[1]], s[1], s[2]) IN
         /\ info' = [info EXCEPT ![s[1]] = added[1]]
         /\ todo' = (todo \ {s}) \cup added[2]
    /\ UNCHANGED asked

\* It is not installed.
AddNew(s) ==
    /\ s[2] # Star
    /\ ~ HasInfo(s[1]) /\ s[1] \notin Installed
    /\ Take(s)
    /\ LET added == AddFeature(NewInfo(s[1], asked), s[1], s[2]) IN
         /\ info' = Extended(info, s[1], added[1])
         /\ todo' = (todo \ {s}) \cup ReinstallRequirements(s[1], asked) \cup added[2]
    /\ UNCHANGED asked

\* It is installed with all that s asks for.
Keep(s) ==
    /\ s[2] # Star
    /\ ~ HasInfo(s[1]) /\ s[1] \in Installed
    /\ ~ MustReinstall(s)
    /\ Take(s)
    /\ todo' = todo \ {s}
    /\ asked' = IF s[2] = Default THEN asked \cup {s[1]} ELSE asked
    /\ UNCHANGED info

\* It is installed without a feature that s asks for: it is planned with what depends on it.
Reinstall(s) ==
    /\ s[2] # Star
    /\ MustReinstall(s)
    /\ Take(s)
    /\ asked' = IF s[2] = Default THEN asked \cup {s[1]} ELSE asked
    /\ LET p == s[1]
           new == NewInfo(p, asked')
           added == IF s[2] = Default THEN <<new, {}>> ELSE AddFeature(new, p, s[2])
       IN  /\ info' = [q \in DOMAIN info \cup Reinstalled(p) |->
                         IF q = p THEN added[1] ELSE IF HasInfo(q) THEN info[q] ELSE NewInfo(q, asked')]
           /\ todo' = (todo \ {s}) \cup added[2]
                        \cup UNION {ReinstallRequirements(q, asked') : q \in Reinstalled(p)}

\* load_dep_info_vars, and all over again for the features that waited for it.
LoadVars ==
    /\ pc = "solve"
    /\ todo = {}
    /\ batch # {}
    /\ vars' = vars \cup {s[1] : s \in batch}
    /\ todo' = batch
    /\ batch' = {}
    /\ UNCHANGED <<at, db, commands, pc, user, warn, info, asked, unsupported, goal, removes, installs, sortVars>>

(***************************************************************************)
(* PackageGraph::serialize, and the execution of the plan.                 *)
(***************************************************************************)
\* Fault: it always stands for the defaults of the port.
FaultyComputed(s) ==
    IF s[2] # Default THEN {s} ELSE {<<s[1], d>> : d \in Tree.defaults[s[1]]}

\* A default feature that is needed stands for the defaults of the package.
Computed(s) ==
    IF s[2] # Default THEN {s}
    ELSE {<<s[1], d>> : d \in IF HasInfo(s[1]) THEN info[s[1]].defaults ELSE db[s[1]].defaults}

\* feature_dependencies of the install action of p.
FeatureDependencies(p) ==
    UNION {Computed(s) : s \in UNION {info[p].edges[f] : f \in DOMAIN info[p].edges}}

InstallEdges ==
    {e \in Pkg \X Pkg : /\ e[1] # e[2] /\ HasInfo(e[1])
                        /\ \E f \in DOMAIN info[e[1]].edges : \E s \in info[e[1]].edges[f] : s[1] = e[2]}

Serialize ==
    /\ pc = "solve"
    /\ todo = {} /\ batch = {}
    /\ pc' = "sortRemoves"
    /\ StartSort(RemoveEdges, DOMAIN info \cap Installed)
    /\ UNCHANGED <<at, db, commands, solver, removes, installs>>

Elements == {sorted[i] : i \in 1 .. Len(sorted)}

SerializeInstalls ==
    /\ pc = "sortRemoves"
    /\ SortDone
    /\ pc' = "sortInstalls"
    /\ removes' = Elements
    /\ StartSort(InstallEdges, DOMAIN info \cup user)
    /\ UNCHANGED <<at, db, commands, solver, installs>>

Serialized ==
    /\ pc = "sortInstalls"
    /\ SortDone
    /\ pc' = "planned"
    /\ installs' = {p \in Elements : HasInfo(p)}
    /\ UNCHANGED <<at, db, commands, solver, removes, sortVars>>

Sorting ==
    /\ pc \in {"sortRemoves", "sortInstalls", "sortRemoval", "sortExport"}
    /\ SortStep
    /\ UNCHANGED <<at, db, commands, pc, solver, removes, installs>>

CycleExit == cyclic /\ End /\ UNCHANGED db

\* Fault: what the plan installs counts as installed.
FaultyPresent(s, done) ==
    IF s[1] \in installs THEN s[2] \in DOMAIN info[s[1]].edges
    ELSE s[1] \in Installed \ removes /\ s[2] \in db[s[1]].feats \cup {Core}

\* There is s once the packages in done are installed and those in removes that are not are gone.
Present(s, done) ==
    IF s[1] \in done THEN s[2] \in DOMAIN info[s[1]].edges
    ELSE s[1] \in Installed \ removes /\ s[2] \in db[s[1]].feats \cup {Core}

\* create_binary_control_file: what the paragraphs of p record.
Paragraphs(p) ==
    [feats |-> DOMAIN info[p].edges \ {Core}, defaults |-> info[p].defaults, at |-> at,
     deps |-> {s[1] : s \in FeatureDependencies(p)} \ {p}, lacks |-> {}]

\* The ABI has no part of the default features: a package in the cache may have been built for a command
\* that asked for them where this one does not, or the other way round.
OtherDefaults(p) ==
    IF info[p].defaults = {} /\ Tree.defaults[p] \subseteq DOMAIN info[p].edges THEN Tree.defaults[p] ELSE {}

\* try_load_cached_package.
CachedParagraphs(p, defaults, lacks) == [Paragraphs(p) EXCEPT !.defaults = defaults, !.lacks = lacks]

\* Without --keep-going the first failure is the end.
IsPrefix(done) ==
    \A i, j \in 1 .. Len(sorted) : i < j /\ sorted[j] \in done /\ sorted[i] \in installs => sorted[i] \in done

\* The actions in done succeed.  A build without a dependency is not attempted; a package restored from
\* the cache is installed without it.  Those in others record other default features.
Execute(done, restored, others, keepGoing) ==
    LET present == (Installed \ removes) \cup done
    IN  /\ pc = "planned"
        /\ \A p \in done \ restored : \A s \in FeatureDependencies(p) : s[1] # p => Present(s, done)
        /\ keepGoing \/ IsPrefix(done)
        /\ db' = [p \in present |->
                     IF p \notin done THEN db[p]
                     ELSE IF p \notin restored THEN Paragraphs(p)
                     ELSE LET defaults == IF p \in others THEN OtherDefaults(p) ELSE info[p].defaults
                              lacks == IF keepGoing THEN Paragraphs(p).deps \ present ELSE {}
                          IN  CachedParagraphs(p, defaults, lacks)]
        /\ End

\* --dry-run, which "upgrade" does by itself, or an exit for want of --recurse.
DryRun == pc = "planned" /\ End /\ UNCHANGED db

\* create_remove_plan takes what something installed depends on for installed; remove_package exits if it
\* is not.
IsMissing(p) == p \notin Installed /\ \E e \in RevEdges : e[1] = p
Removed == {sorted[i] : i \in {j \in 1 .. Len(sorted) : \A k \in 1 .. j : ~ IsMissing(sorted[k])}}

\* remove_package for each action, dependents first; or --dry-run, or an exit for want of --recurse.
RemoveSorted ==
    /\ pc = "sortRemoval"
    /\ SortDone
    /\ \/ db' = [p \in Installed \ Removed |-> db[p]]
       \/ UNCHANGED db
    /\ End

ExportSorted == pc = "sortExport" /\ SortDone /\ End /\ UNCHANGED db

NextPlan ==
    \/ UpdatePorts
    \/ Refuse
    \/ \E specs \in Requests, action \in BOOLEAN : Install(specs, action)
    \/ \E specs \in SUBSET Pkg : Remove(specs) \/ Export(specs) \/ \E action \in BOOLEAN : Upgrade(specs, action)
    \/ \E s \in todo : Exit(s) \/ ExpandStar(s) \/ AddToPlanned(s) \/ AddNew(s) \/ Keep(s) \/ Reinstall(s)
    \/ LoadVars
    \/ Serialize
    \/ Sorting
    \/ SerializeInstalls
    \/ Serialized
    \/ CycleExit
    \/ \E done \in SUBSET installs, keepGoing \in BOOLEAN :
          \E restored \in SUBSET done : \E others \in SUBSET restored : Execute(done, restored, others, keepGoing)
    \/ DryRun
    \/ RemoveSorted
    \/ ExportSorted

Plans == InitPlan /\ [][NextPlan]_planVars

\* One sequential thread: a plan once begun goes on.
FairPlans == Plans /\ WF_planVars(NextPlan /\ pc # "idle")
--------------------------------------------------------------------------------
PlanTypeOK ==
    /\ at \in 1 .. Len(History)
    /\ Installed \subseteq Pkg
    /\ \A p \in Installed : db[p] \in [feats : SUBSET Feat, defaults : SUBSET Feat, deps : SUBSET Pkg,
                                         lacks : SUBSET Pkg, at : 1 .. Len(History)]
    /\ user \subseteq Pkg /\ vars \subseteq Pkg /\ asked \subseteq Installed
    /\ todo \subseteq FeatureSpec /\ batch \subseteq FeatureSpec /\ unsupported \subseteq Key
    /\ DOMAIN info \subseteq Pkg
    /\ \A p \in DOMAIN info : DOMAIN info[p].edges \subseteq Feat \cup {Core}
    /\ removes \subseteq Installed /\ installs \subseteq DOMAIN info

\* Whatever sequence of commands has run: what an installed package needs and is not installed is just
\* what it lacked when a run that kept going restored it from the binary cache (commands.install.cpp:
\* 533-537).  So msgCorruptedDatabase (dependencies.cpp:1187-1195) is reported after such a run only, and
\* until the packages it restored so have been removed: no build, no run that stops at the first failure,
\* and no removal, of what is missing either, takes away what stays needed.  The default features that a
\* paragraph records are installed, so that has_defaults_installed never fails (78-89): an installed
\* package is not reinstalled for its default features.  Each plan is sorted as topological_sort
\* promises, on the graph of its caller.
DbInv ==
    /\ PlanTypeOK
    /\ \A p \in Installed : db[p].deps \ Installed = db[p].lacks
    /\ \A p \in Installed : HasDefaultsInstalled(p)
    /\ SortInv
    /\ pc \in {"sortRemoves", "sortInstalls", "sortRemoval", "sortExport"} => SortedAll

\* Every feature in a plan is built against features that are in the plan or stay installed, and what
\* stays installed has its dependencies: no build of the plan is skipped for a missing dependency.
\* A feature that is not supported on the triplet is in no plan, or is warned of: its supports
\* expression is evaluated although the variables it needs are loaded after it is first met
\* (dependencies.cpp:847-971).
PlanBuilds ==
    pc = "planned" =>
        /\ \A p \in installs : \A s \in FeatureDependencies(p) : Present(s, installs)
        /\ \A p \in Installed \ removes : db[p].deps \subseteq (Installed \ removes) \cup installs
        /\ \A p \in installs : \A f \in DOMAIN info[p].edges :
              <<p, f>> \in Tree.unsupported => warn /\ <<p, f>> \in unsupported

(***************************************************************************)
(* What the plan should be, without the order of the work: the least set   *)
(* of feature specs that holds what is asked for and what it leads to.     *)
(***************************************************************************)
\* The installed packages to install again: those that lack something, and what depends on them.
Again(specs) ==
    Reached(RemoveEdges, goal.upgrade \cup
        {p \in Installed : \E s \in specs : s[1] = p /\ s[2] \notin db[p].feats \cup {Core, Default, Star}})

Anew(specs) == Again(specs) \cup {p \in Pkg \ Installed : \E s \in specs : s[1] = p}

LeadsTo(specs) ==
    LET again == Again(specs)
        anew == Anew(specs)
    IN  specs
        \cup (UNION {{<<p, f>> : f \in {Core} \cup (db[p].feats \cap Tree.feats[p])} : p \in again})
        \cup {<<p, Default>> : p \in anew \ user}
        \cup {s \in Key : <<s[1], Default>> \in specs /\ s[1] \in anew /\ s[2] \in Tree.defaults[s[1]]}
        \cup {s \in Key : <<s[1], Star>> \in specs /\ s[2] \in Tree.feats[s[1]]}
        \cup (UNION {Tree.needs[s] \cup Tree.needsIf[s] : s \in {t \in specs \cap Key : t[1] \in anew}})

Grown[specs \in SUBSET FeatureSpec] ==
    LET more == LeadsTo(specs)
    IN  IF more = specs THEN specs ELSE Grown[more]

LeastPlan == Grown[goal.specs]

\* Whatever the order of the work and of the unordered sets, the plan is the least one: it removes what
\* must be built again and nothing else, it loses no installed feature that its port still has, and it
\* adds no feature that nothing asks for (mark_for_reinstall and install, dependencies.cpp:791-971).
PlanIsLeast ==
    pc = "planned" =>
        /\ removes = Again(LeastPlan)
        /\ installs = Anew(LeastPlan)
        /\ \A p \in installs : {<<p, f>> : f \in DOMAIN info[p].edges} = {s \in LeastPlan \cap Key : s[1] = p}

\* For each state of the ports, the pairs of packages of which a feature of the first needs one of the second.
Successors ==
    [i \in DOMAIN History |->
        {e \in Pkg \X Pkg : \E f \in Feat \cup {Core} :
            \E s \in History[i].needs[<<e[1], f>>] \cup History[i].needsIf[<<e[1], f>>] : s[1] = e[2]}]

\* The packages that a package leads to, and itself.
Behind == [i \in DOMAIN History |-> [p \in Pkg |-> Reached(Successors[i], {p})]]

\* A package with qualified dependencies leads back to itself.
QualifiedCycle == \E k \in Tree.conditional : \E e \in Successors[at] : e[1] = k[1] /\ k[1] \in Behind[at][e[2]]

\* What the solver has learnt and decided.
Solved ==
    [vars |-> vars, asked |-> asked, planned |-> DOMAIN info,
     requested |-> {p \in DOMAIN info : info[p].requested},
     features |-> {k \in Key : HasInfo(k[1]) /\ k[2] \in DOMAIN info[k[1]].edges}]

\* t may take the place of s: it is of a package that the one of s needs and that does not lead back to
\* it, or it is one of the features that * stands for.
Lower(t, s) ==
    \/ t[1] = s[1] /\ t[2] # Star /\ s[2] = Star
    \/ <<s[1], t[1]>> \in Successors[at] /\ s[1] \notin Behind[at][t[1]]

\* Each step brings the end nearer: nothing learnt or decided is taken back, and a step that adds nothing
\* to it only replaces an entry of next_dependencies by lower ones, or packages with platform expressions
\* lead back to themselves; and a sort follows no edge twice.
PlanDescends ==
    [][/\ Sorting => Below(SortLeft', SortLeft)
       /\ pc = "solve" /\ pc' = "solve" =>
             \/ Below(Solved, Solved')
             \/ /\ Solved' = Solved
                /\ \/ \E s \in todo \ todo' : \A t \in todo' \ todo : Lower(t, s)
                   \/ QualifiedCycle
      ]_planVars

\* Every command comes to an end, also where ports need each other, as long as the dependencies with
\* platform expressions are not on such a cycle: those are pushed again whenever their package is met
\* (dependencies.cpp:181-210 and 828-943).
PlanEnds == PlanDescends /\ (pc # "idle" /\ ~ (pc = "solve" /\ QualifiedCycle) ~> pc = "idle")
================================================================================

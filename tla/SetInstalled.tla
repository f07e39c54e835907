------------------------------ MODULE SetInstalled ------------------------------
(***************************************************************************)
(* "vcpkg x-set-installed", and "vcpkg install" with a manifest: make the  *)
(* installed tree exactly what is requested                                *)
(* (command_set_installed_and_exit_ex and adjust_action_plan_to_status_db  *)
(* in commands.set-installed.cpp, create_remove_plan in dependencies.cpp,  *)
(* install_execute_plan in commands.install.cpp).  What has another ABI    *)
(* than the plan's is removed with everything that depends on it, what is  *)
(* missing is restored from a binary cache or built, and each package is   *)
(* removed and installed by the steps of PackageTree.                      *)
(*                                                                         *)
(* The request is a set of packages and features, closed under needs.  An  *)
(* ABI tag is modelled by what it hashes here: the features of the package *)
(* and of all it is built against.                                         *)
(***************************************************************************)
EXTENDS PackageTree

CONSTANTS Needs,      \* the packages and features that each package and feature is built against
          Requests,   \* the sets of packages and features that may be asked for
          KeepGoing   \* what --keep-going may be

VARIABLES
    abi,        \* the ABI tag of each package, written with its paragraph
    want,       \* what this process is asked for
    keepGoing,  \* --keep-going
    removals,   \* action_plan.remove_actions not yet executed
    installs,   \* action_plan.install_actions not yet executed
    restored,   \* the packages restored from the binary cache
    failed,     \* summary.failed
    past        \* history: a process was "killed" half way, or "keptGoing" after a failure

plan == <<want, keepGoing, removals, installs, restored, failed>>
setVars == <<vars, abi, plan>>

KeysOf(p, keys) == {k \in keys : k[1] = p}
Packages(keys) == {k[1] : k \in keys}
FeaturesOf(p, keys) == {k[2] : k \in KeysOf(p, keys)} \ {Core}
Recorded(m) == {k \in Key : m[k] = Installed}

\* InstalledPackageView::dependencies: what the installed paragraphs of p say it depends on.
Dependencies(p, keys) == Packages(UNION {Needs[k] : k \in KeysOf(p, keys)}) \ {p}

\* The packages reached from S along the pairs of R: those in every set that has S and is closed.
ClosedUnder(R, T) == \A e \in R : e[1] \in T => e[2] \in T
Reachable(R, S) == {p \in Pkg : \A T \in SUBSET Pkg : S \subseteq T /\ ClosedUnder(R, T) => p \in T}

ASSUME RequestsAssumption ==
    /\ KeepGoing \subseteq BOOLEAN
    /\ Needs \in [Key -> SUBSET Key]
    /\ \A w \in Requests : w \subseteq Key /\ \A k \in w : <<k[1], Core>> \in w /\ Needs[k] \subseteq w

BuiltAgainst(w) == {e \in Pkg \X Pkg : e[2] \in Dependencies(e[1], w)}

\* compute_all_abis: the tag of p covers everything that p is built against.
AbiTag(p, w) == {k \in w : k[1] \in Reachable(BuiltAgainst(w), {p})}

InitSet ==
    /\ Init
    /\ abi = [p \in Pkg |-> {}]
    /\ want = {} /\ removals = {} /\ installs = {} /\ restored = {} /\ failed = FALSE
    /\ keepGoing = FALSE

(***************************************************************************)
(* The plan.                                                               *)
(***************************************************************************)
\* Fault: the edges are followed the wrong way.
FaultyRemovePlan(stale, keys) == Reachable(BuiltAgainst(keys), stale)

\* create_remove_plan: the packages and everything installed that depends on them.
Dependents(keys) == {e \in Pkg \X Pkg : <<e[2], Core>> \in keys /\ e[1] \in Dependencies(e[2], keys)}
RemovePlan(stale, keys) == Reachable(Dependents(keys), stale)

\* specs_installed: the install actions that become entries of already_installed.
AlreadyInstalled(w, remove) == {p \in Packages(w) : IsInstalled(mem, p)} \ remove

\* Fault: the packages that are already installed stay in the plan.
FaultyAdjustPlan(w) ==
    /\ pc = "loaded"
    /\ ~ Corrupted(mem)
    /\ removals' = RemovePlan({p \in Pkg : IsInstalled(mem, p) /\ \A q \in Packages(w) : abi[p] # AbiTag(q, w)},
                              Recorded(mem))
    /\ installs' = Packages(w)
    /\ restored' \in SUBSET installs'
    /\ want' = w
    /\ keepGoing' \in KeepGoing
    /\ failed' = FALSE
    /\ pc' = "ready"
    /\ UNCHANGED <<disk, mem, op, todo, abi>>

\* adjust_action_plan_to_status_db, and the restored packages that binary_cache.fetch leaves.
AdjustPlan(w) ==
    /\ pc = "loaded"
    /\ ~ Corrupted(mem)
    /\ LET stale == {p \in Pkg : IsInstalled(mem, p) /\ \A q \in Packages(w) : abi[p] # AbiTag(q, w)}
       IN  removals' = RemovePlan(stale, Recorded(mem))
    /\ installs' = Packages(w) \ AlreadyInstalled(w, removals')
    /\ restored' \in SUBSET installs'
    /\ want' = w
    /\ keepGoing' \in KeepGoing
    /\ failed' = FALSE
    /\ pc' = "ready"
    /\ UNCHANGED <<disk, mem, op, todo, abi>>

Refuse ==
    /\ Corrupted(mem)
    /\ GetInstalledPorts
    /\ UNCHANGED <<abi, plan>>

(***************************************************************************)
(* install_execute_plan.                                                   *)
(***************************************************************************)
\* Fault: packages are removed in any order.
FaultyRemoveNext(p) ==
    /\ p \in removals
    /\ BeginRemove(p)
    /\ removals' = removals \ {p}
    /\ UNCHANGED <<abi, want, keepGoing, installs, restored, failed>>

\* The plan is sorted: what depends on a package is removed before it.
RemoveNext(p) ==
    /\ p \in removals
    /\ \A q \in removals : p \notin Dependencies(q, Recorded(mem))
    /\ BeginRemove(p)
    /\ removals' = removals \ {p}
    /\ UNCHANGED <<abi, want, keepGoing, installs, restored, failed>>

\* Fault: a package waits until what it is built against is installed.
FaultyIsNext(p) ==
    /\ pc = "ready"
    /\ removals = {}
    /\ p \in installs
    /\ Dependencies(p, want) \subseteq Packages(Recorded(mem))

\* The plan is sorted: a package comes after what it is built against.
IsNext(p) ==
    /\ pc = "ready"
    /\ removals = {}
    /\ p \in installs
    /\ Dependencies(p, want) \cap installs = {}

\* build_package compares the features needed with the database, and only for a package it builds.
DependenciesSatisfied(p) == (UNION {Needs[k] : k \in KeysOf(p, want)}) \ KeysOf(p, want) \subseteq Recorded(mem)

InstallNext(p, content) ==
    /\ IsNext(p)
    /\ p \in restored \/ DependenciesSatisfied(p)
    /\ BeginInstall(p, FeaturesOf(p, want), content)
    /\ installs' = installs \ {p}
    /\ UNCHANGED <<abi, want, keepGoing, removals, restored, failed>>

\* A build fails, or misses a dependency, or the files conflict.  Without --keep-going the
\* process exits.
FailNext(p, content) ==
    /\ IsNext(p)
    /\ p \in restored => Conflict(content)
    /\ installs' = installs \ {p}
    /\ failed' = TRUE
    /\ pc' = IF keepGoing THEN "ready" ELSE "failed"
    /\ UNCHANGED <<disk, mem, op, todo, abi, want, keepGoing, removals, restored>>

Done ==
    /\ pc = "ready"
    /\ removals = {}
    /\ installs = {}
    /\ pc' = "done"
    /\ UNCHANGED <<disk, mem, op, todo, abi, plan>>

\* The steps inside one package.  The core paragraph carries the ABI tag.
PackageStep ==
    /\ InstallStep \/ RemoveStep
    /\ abi' = IF pc = "installCore" THEN [abi EXCEPT ![op.pkg] = AbiTag(op.pkg, want)] ELSE abi
    /\ UNCHANGED plan

End ==
    /\ Stop
    /\ want' = {} /\ removals' = {} /\ installs' = {} /\ restored' = {} /\ failed' = FALSE
    /\ keepGoing' = FALSE
    /\ UNCHANGED abi

NextSet ==
    \/ Start /\ UNCHANGED <<abi, plan>>
    \/ Refuse
    \/ \E w \in Requests : AdjustPlan(w)
    \/ \E p \in Pkg : RemoveNext(p)
    \/ \E p \in Pkg : \E content \in Contents[p] : InstallNext(p, content) \/ FailNext(p, content)
    \/ PackageStep
    \/ Done
    \/ End

SetInstalled == InitSet /\ [][NextSet]_setVars

(***************************************************************************)
(* The history of the tree.                                                *)
(***************************************************************************)
pastVars == <<setVars, past>>

InitPast == InitSet /\ past = {}

NextPast ==
    /\ NextSet
    /\ past' = past \cup (IF pc # "off" /\ pc' = "off" /\ pc \notin {"refused", "failed", "done"}
                         THEN {"killed"} ELSE {})
                    \cup (IF failed' /\ keepGoing THEN {"keptGoing"} ELSE {})

SetInstalledPast == InitPast /\ [][NextPast]_pastVars

--------------------------------------------------------------------------------
SetTypeOK ==
    /\ abi \in [Pkg -> SUBSET Key]
    /\ want \in SUBSET Key
    /\ removals \subseteq Pkg
    /\ installs \subseteq Packages(want)
    /\ restored \subseteq Packages(want)
    /\ failed \in BOOLEAN /\ keepGoing \in BOOLEAN

\* The plan agrees with the paragraphs in memory until it is executed, whatever the tree was left
\* in: remove_package and install_package need not look again; no two installed packages own a file,
\* at any time; and when a run ends well the installed packages are those requested, with the ABI of
\* the request.
SetInv ==
    /\ SetTypeOK
    /\ InstalledOwnFiles
    /\ pc = "ready" => \A p \in removals : IsInstalled(mem, p)
    /\ pc = "ready" /\ removals = {} => \A p \in installs : ~ IsInstalled(mem, p)
    /\ pc = "done" /\ ~ failed =>
          /\ {p \in Pkg : IsInstalled(store, p)} = Packages(want)
          /\ \A p \in Packages(want) : abi[p] = AbiTag(p, want)

\* Every run only ever installs and removes packages as PackageTree says, so that its invariants
\* hold here too.
Packaging == INSTANCE PackageTree WITH pc <- IF pc \in {"done", "failed"} THEN "ready" ELSE pc
OnlyTreeSteps == Packaging!Tree

\* Whatever an installed package says it depends on is installed.
DependenciesInstalled ==
    \A p \in Pkg : IsInstalled(store, p) =>
        \A q \in Dependencies(p, Recorded(store)) : IsInstalled(store, q)

\* create_feature_install_graph exits with msgCorruptedDatabase and msgMissingDependency on an installed
\* package without what it depends on.  Only a run that keeps going after a failure leaves one: it
\* installs restored packages without looking for what they need.
DependenciesStay == "keptGoing" \notin past => DependenciesInstalled

\* "... such that that installed matches exactly those supplied" (CmdSetInstalledSynopsis,
\* message-data.inc.h:862): also the features.
MatchesRequest == pc = "done" /\ ~ failed => Recorded(store) = want

\* As long as no process is killed a run that ends well leaves exactly what was asked for, features
\* included, no process finds a corrupted database, and no file is left behind.
ExactUnlessKilled == "killed" \notin past => MatchesRequest /\ NeverRefused /\ EveryFileOwned

\* A package that is installed and requested with the ABI it has is left as it is.
KeepsWhatMatches ==
    [][\A p \in Pkg : pc \notin {"off", "loaded"} /\ IsInstalled(store, p) /\ ~ IsInstalled(store', p)
           => abi[p] # AbiTag(p, want)]_setVars

\* A run that is not killed ends.
Ends == pc = "loaded" ~> pc \in {"refused", "failed", "done", "off"}
================================================================================

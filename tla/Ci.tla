----------------------------------- MODULE Ci -----------------------------------
(***************************************************************************)
(* `vcpkg ci` (commands.ci.cpp, ci-baseline.cpp): which ports of a tree    *)
(* build for a triplet, and does that agree with the baseline?  A run      *)
(* leaves out what is unsupported or skipped, asks the binary caches about *)
(* the rest, prunes the plan to what it does not know and what that needs, *)
(* builds it, and compares every outcome with the baseline.                *)
(*                                                                         *)
(* Runs follow one another, on one cache.  The ports stay as they are, so  *)
(* that the ABI of a package stands for the package and a build is         *)
(* deterministic.  A spec is a pair of a name and a triplet.               *)
(***************************************************************************)
EXTENDS CacheRead

CONSTANTS Target, Host,     \* the triplets, which may be one
          Needs,            \* the packages each package is built against
          Orders,           \* the orders the plan may be in, dependencies first (CiRandomizer)
          Behaviours,       \* what becomes of each package that is built
          Inputs,           \* the arguments and files a run may be given
          MaxRuns

VARIABLES
    behaviour,
    installed,
    input,          \* [mark, supported, known_failures, parent_hashes, skip_failures,
                    \*  allow_unexpected_passing, dry_run]
    skipped,        \* ci_specs.skipped: the reason for each spec left out, or "no"
    order,          \* the order of the plan
    plan,           \* action_plan.install_actions
    known,          \* pre_build_status.known, "none" for a spec that has no entry
    results,        \* ci_full_results
    failed,         \* any_regressions
    to_keep,
    pc,
    todo,           \* the actions of the plan the loop at hand has not come to
    runs            \* the runs so far, at most MaxRuns

ciVars == <<behaviour, installed, input, skipped, order, plan, known, results, failed, to_keep, pc, todo, runs>>
vars == <<cacheVars, ciVars>>

Spec == ABI
Ports == {s \in Spec : s[2] = Target}

ASSUME CiAssumption ==
    /\ Dir = Spec
    /\ \A s \in Spec : s[2] \in {Target, Host}
    /\ Needs \in [Spec -> SUBSET Spec]
    /\ \A o \in Orders :
          /\ o \in Seq(Spec)
          /\ \A s \in Spec : \E i \in DOMAIN o : o[i] = s
          /\ \A i, j \in DOMAIN o : o[i] = o[j] => i = j
          /\ \A i, j \in DOMAIN o : o[i] \in Needs[o[j]] => i < j
    /\ Behaviours \subseteq [Spec -> {"Succeeded", "BuildFailed", "FileConflicts"}]
    /\ Inputs \subseteq [mark : [Spec -> {"none", "fail", "skip", "pass"}], supported : SUBSET Spec,
                         known_failures : SUBSET Spec, parent_hashes : SUBSET Spec, skip_failures : BOOLEAN,
                         allow_unexpected_passing : BOOLEAN, dry_run : BOOLEAN]

\* The packages that the installation of a set of packages takes.
Closed(S) == \A s \in S : Needs[s] \subseteq S
ClosedSets == {S \in SUBSET Spec : Closed(S)}
Closure(S) == {s \in Spec : \A C \in ClosedSets : S \subseteq C => s \in C}

ClosureOf == [s \in Spec |-> Closure({s})]

\* What a port does when it is built where everything it needs builds.
Truth(s) ==
    CASE \E r \in ClosureOf[s] \ {s} : behaviour[r] # "Succeeded" -> "cascades"
      [] OTHER -> IF behaviour[s] = "Succeeded" THEN "builds" ELSE "fails"

Action(s) == [abi |-> s, dir |-> s]
Positions(specs) == {i \in DOMAIN order : order[i] \in specs}
Actions(specs) == [i \in Positions(specs) |-> Action(order[i])]

\* The action of a part of the plan that is first, and the one that is last.
FirstOf(specs) == order[CHOOSE i \in Positions(specs) : \A j \in Positions(specs) : i <= j]
LastOf(specs) == order[CHOOSE i \in Positions(specs) : \A j \in Positions(specs) : j <= i]

InitCi ==
    /\ InitCache
    /\ behaviour \in Behaviours
    /\ \A p \in Provider : \A s \in stored[p] : Truth(s) = "builds"
    /\ installed = {}
    /\ input \in Inputs
    /\ \A s \in input.known_failures : Truth(s) = "fails" /\ behaviour[s] = "BuildFailed"
    /\ skipped = [s \in Spec |-> "no"]
    /\ order \in Orders
    /\ plan = {}
    /\ known = [s \in Spec |-> "none"]
    /\ results = known
    /\ failed = FALSE
    /\ to_keep = {}
    /\ pc = "start"
    /\ todo = {}
    /\ runs = 1

--------------------------------------------------------------------------------
Skips(t) == {s[1] : s \in {r \in Spec : r[2] = t /\ input.mark[r] = "skip"}}

\* Fault: only the skips of the host cascade.
FaultyCascadeForTriplet(specs) == \E s \in specs : s[2] = Host /\ s[2] # Target /\ s[1] \in Skips(Host)

\* cascade_for_triplet.
CascadeForTriplet(specs) ==
    \E s \in specs : \/ s[2] = Target /\ s[1] \in Skips(Target)
                     \/ s[2] = Host /\ s[2] # Target /\ s[1] \in Skips(Host)

\* calculate_ci_specs: why a port is left out.  A port that is unsupported for the host counts as
\* unsupported itself.
SkipReason(p) ==
    LET unsupported == ClosureOf[p] \ input.supported
    IN  CASE \E s \in unsupported : s[1] = p[1] -> "Supports"
          [] unsupported # {} /\ ~ \E s \in unsupported : s[1] = p[1] -> "SupportsCascade"
          [] unsupported = {} /\ p[1] \in Skips(Target) -> "Baseline"
          [] unsupported = {} /\ p[1] \notin Skips(Target) /\ CascadeForTriplet(ClosureOf[p]) -> "BaselineCascade"
          [] OTHER -> "no"

Requested(reasons) == {p \in Ports : reasons[p] = "no"}

\* calculate_ci_specs and compute_full_plan.
CalculateCiSpecs ==
    /\ pc = "start"
    /\ skipped' = [s \in Spec |-> IF s \in Ports THEN SkipReason(s) ELSE "no"]
    /\ order' \in Orders
    /\ plan' = Closure(Requested(skipped'))
    /\ pc' = "precheck"
    /\ UNCHANGED <<cacheVars, behaviour, installed, input, known, results, failed, to_keep, todo, runs>>

Precheck ==
    /\ pc = "precheck"
    /\ BeginCall("precheck", Actions(plan))
    /\ pc' = "prechecking"
    /\ UNCHANGED <<status, content, queue, stored,
                   behaviour, installed, input, skipped, order, plan, known, results, failed, to_keep, todo, runs>>

\* What is known of an action of the plan, "from most known to least known information".
KnownResult(s) ==
    CASE s \in input.known_failures -> "BuildFailed"
      [] s \notin input.known_failures /\ IsAvailable(s) -> "Cached"
      [] OTHER -> IF input.skip_failures /\ input.mark[s] = "fail" THEN "SkippedBySkipFailures"
                  ELSE IF s \in input.parent_hashes THEN "SkippedByParentHashes" ELSE "SkippedByDryRun"

\* ... and of a port that was left out.
SkippedResult(reason) ==
    CASE reason = "Baseline" -> "Skipped"
      [] reason = "BaselineCascade" -> "CascadedDueToBaseline"
      [] reason = "Supports" -> "Unsupported"
      [] reason = "SupportsCascade" -> "CascadedDueToSupports"

\* compute_pre_build_statuses.
PreBuildStatuses ==
    /\ pc = "prechecking"
    /\ Returned("precheck")
    /\ known' = [s \in Spec |-> IF skipped[s] # "no" THEN SkippedResult(skipped[s])
                                ELSE IF s \in plan THEN KnownResult(s) ELSE "none"]
    /\ results' = known'
    /\ call' = NoCall
    /\ to_keep' = {}
    /\ todo' = plan
    /\ pc' = "prune"
    /\ UNCHANGED <<status, content, queue, stored, behaviour, installed, input, skipped, order, plan, failed, runs>>

ToBuild == {"BuildFailed", "SkippedByDryRun"}
LeftOut == {"Skipped", "CascadedDueToSupports", "CascadedDueToBaseline", "Unsupported"}

\* Fault: the dependencies of a package that is restored for another one are forgotten.
FaultyKeeps(s) == IF known[s] \in ToBuild THEN {s} \cup Needs[s] ELSE {}

\* What is to be kept for a spec, once everything that needs it has been seen.
Keeps(s) == IF known[s] \in ToBuild THEN {s} \cup Needs[s] ELSE IF s \in to_keep THEN Needs[s] ELSE {}

\* Checks::unreachable: "A spec is in the action plan that should have been skipped earlier".
Unreachable == pc = "prune" /\ todo # {} /\ known[LastOf(todo)] \in LeftOut /\ LastOf(todo) \in to_keep

\* prune_entirely_known_action_branches goes through the plan backwards, dependents before what they
\* need, ...
PruneNext ==
    /\ pc = "prune"
    /\ todo # {}
    /\ ~ Unreachable
    /\ to_keep' = to_keep \cup Keeps(LastOf(todo))
    /\ todo' = todo \ {LastOf(todo)}
    /\ UNCHANGED <<cacheVars, behaviour, installed, input, skipped, order, plan, known, results, failed, pc, runs>>

\* ... and erases what it need not keep.
Prune ==
    /\ pc = "prune"
    /\ todo = {}
    /\ plan' = plan \cap to_keep
    /\ pc' = IF input.dry_run THEN "join" ELSE "adjust"
    /\ UNCHANGED <<cacheVars, behaviour, installed, input, skipped, order, known, results, failed, to_keep, todo, runs>>

\* adjust_action_plan_to_status_db, and the removals that execute first; the directories of what
\* is left to install are cleared and then filled by fetch.
Adjust ==
    /\ pc = "adjust"
    /\ installed' = installed \cap plan
    /\ todo' = plan \ installed
    /\ ClearPackages(Actions(todo'))
    /\ pc' = "fetch"
    /\ UNCHANGED <<status, call, queue, stored,
                   behaviour, input, skipped, order, plan, known, results, failed, to_keep, runs>>

Fetch ==
    /\ pc = "fetch"
    /\ BeginCall("fetch", Actions(todo))
    /\ pc' = "fetching"
    /\ UNCHANGED <<status, content, queue, stored,
                   behaviour, installed, input, skipped, order, plan, known, results, failed, to_keep, todo, runs>>

FetchedPlan ==
    /\ pc = "fetching"
    /\ Returned("fetch")
    /\ call' = NoCall
    /\ pc' = "install"
    /\ UNCHANGED <<status, content, queue, stored,
                   behaviour, installed, input, skipped, order, plan, known, results, failed, to_keep, todo, runs>>

\* perform_install_plan_action.
Outcome(s) ==
    IF IsRestored(s) THEN IF behaviour[s] = "FileConflicts" THEN "FileConflicts" ELSE "Succeeded"
    ELSE IF Needs[s] \subseteq installed THEN behaviour[s] ELSE "CascadedDueToMissingDependencies"

\* The next action of the plan; what was built or restored is pushed, also if its files conflict.
Install ==
    /\ pc = "install"
    /\ todo # {}
    /\ LET s == FirstOf(todo)
       IN  /\ results' = [results EXCEPT ![s] = Outcome(s)]
           /\ installed' = IF Outcome(s) = "Succeeded" THEN installed \cup {s} ELSE installed
           /\ IF Outcome(s) \in {"Succeeded", "FileConflicts"}
              THEN PushSuccess(Action(s))
              ELSE UNCHANGED <<status, content, queue>>
           /\ todo' = todo \ {s}
    /\ UNCHANGED <<call, stored, behaviour, input, skipped, order, plan, known, failed, to_keep, pc, runs>>

Executed ==
    /\ pc = "install"
    /\ todo = {}
    /\ pc' = "join"
    /\ UNCHANGED <<cacheVars, behaviour, installed, input, skipped, order, plan, known, results, failed, to_keep, todo, runs>>

\* Fault: a port that has to pass is not reported when it fails.
FaultyRegression(result, mark) ==
    CASE result \in {"Succeeded", "Cached"} -> mark = "fail" /\ ~ input.allow_unexpected_passing
      [] result \in {"BuildFailed", "FileConflicts"} -> mark \notin {"fail", "pass"}
      [] result = "CascadedDueToSupports" -> mark \in {"fail", "pass"}
      [] result \in {"CascadedDueToMissingDependencies", "CascadedDueToBaseline"} -> mark = "pass"
      [] result = "Unsupported" -> mark \in {"fail", "pass"}
      [] OTHER -> FALSE

\* format_ci_result returns a message.
Regression(result, mark) ==
    CASE result \in {"Succeeded", "Cached"} -> mark = "fail" /\ ~ input.allow_unexpected_passing
      [] result \in {"BuildFailed", "FileConflicts"} -> mark # "fail"
      [] result = "CascadedDueToSupports" -> mark \in {"fail", "pass"}
      [] result \in {"CascadedDueToMissingDependencies", "CascadedDueToBaseline"} -> mark = "pass"
      [] result = "Unsupported" -> mark \in {"fail", "pass"}
      [] OTHER -> FALSE

\* wait_for_async_complete_and_join and print_regressions.
Report ==
    /\ pc = "join"
    /\ queue = <<>>
    /\ failed' = \E s \in Spec : results[s] # "none" /\ Regression(results[s], input.mark[s])
    /\ pc' = "done"
    /\ UNCHANGED <<cacheVars, behaviour, installed, input, skipped, order, plan, known, results, to_keep, todo, runs>>

\* Another process does the same again, in the same tree or in a new one.
Again ==
    /\ pc = "done"
    /\ runs < MaxRuns
    /\ runs' = runs + 1
    /\ installed' \in {installed, {}}
    /\ status' = [s \in ABI |-> Unknown]
    /\ skipped' = [s \in Spec |-> "no"]
    /\ plan' = {}
    /\ known' = [s \in Spec |-> "none"]
    /\ results' = known'
    /\ failed' = FALSE
    /\ pc' = "start"
    /\ UNCHANGED <<call, content, queue, stored, behaviour, input, order, to_keep, todo>>

CiStep ==
    \/ CalculateCiSpecs \/ Precheck \/ PreBuildStatuses \/ PruneNext \/ Prune \/ Adjust \/ Fetch \/ FetchedPlan
    \/ Install \/ Executed \/ Report \/ Again

NextCi == (CacheStep /\ UNCHANGED ciVars) \/ CiStep

CiRuns == InitCi /\ [][NextCi]_vars

--------------------------------------------------------------------------------
\* The pruned plan is exactly what nothing is known of and everything that needs: a build never
\* misses a dependency because of the pruning, and nothing else is built.  The files of what is not
\* built are where they should be, and Checks::unreachable is not reached.
CiInv ==
    /\ CacheTypeOK
    /\ installed \subseteq Spec
    /\ todo \subseteq plan
    /\ pc \in {"adjust", "join"} => plan = Closure({s \in Spec : known[s] \in ToBuild})
    /\ PackagesAreThere(Actions(todo))
    /\ ~ Unreachable

Selected(s) == ClosureOf[s] \subseteq input.supported /\ ~ CascadeForTriplet(ClosureOf[s])

\* A package whose files conflict is cached like any other.
ConflictCached == \E p \in Provider : \E s \in stored[p] : behaviour[s] = "FileConflicts"

\* A run that is not a dry run and reports nothing has tried every selected port that its arguments
\* do not except: what fails is marked so, however much was cached, pruned, or in use.
CatchesBreakage ==
    pc = "done" /\ ~ failed /\ ~ input.dry_run /\ (runs = 1 \/ ~ ConflictCached) =>
        \A p \in Ports : Selected(p) /\ Truth(p) = "fails" => input.mark[p] = "fail" \/ p \in input.parent_hashes

MarkIsRight(s) ==
    CASE input.mark[s] = "fail" -> ClosureOf[s] \subseteq input.supported /\ Truth(s) = "fails"
      [] input.mark[s] = "pass" -> Selected(s) /\ Truth(s) = "builds"
      [] input.mark[s] = "skip" -> TRUE
      [] OTHER -> Truth(s) # "fails"

BaselineIsRight == \A s \in Spec : MarkIsRight(s)

\* A run whose baseline is right reports nothing, the first time and when it is repeated.
NoFalseAlarm == pc = "done" /\ failed /\ BaselineIsRight => runs > 1 /\ ConflictCached

\* ... also where a package could not be installed: what is cached is "positively known not
\* broken" (commands.ci.cpp:150).
NoFalseAlarmAtAll == pc = "done" /\ failed => ~ BaselineIsRight
================================================================================

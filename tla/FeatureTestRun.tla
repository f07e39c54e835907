----------------------------- MODULE FeatureTestRun -----------------------------
(***************************************************************************)
(* How `vcpkg x-test-features` runs the tests FeatureTests chose           *)
(* (commands.test-features.cpp from 737 on): shortest plan first, in one   *)
(* installed tree, with one binary cache, each test installing as little   *)
(* as it can.  A test is a cascade, passes or fails.                       *)
(*                                                                         *)
(* A plan is a sequence of actions, the dependencies first, each with a    *)
(* spec, an ABI and a package directory of its own (PackagesDirAssigner).  *)
(* Builds are deterministic: an ABI either builds and installs or does     *)
(* not.                                                                    *)
(***************************************************************************)
EXTENDS CacheRead

CONSTANTS Tests,        \* the tests as they are chosen: a sequence of plans, with whether they are supported
          Behaviours,   \* the results the packages may have: functions from ABI
          Needs,        \* the ABIs that each package is built against
          Leftovers,    \* what may be installed when the command starts
          Expectations  \* the outcomes the baseline may expect of the tests

VARIABLES
    specs_to_test,  \* the indexes of the tests in the order in which they run
    expected,       \* what the baseline expects of each test (FeatureTests!ExpectedOutcome)
    all_ports,      \* --all
    behaviour,      \* what becomes of each package that is built or installed
    installed,      \* status_db: the installed actions
    known_failures,
    test,           \* the index of the test at hand in specs_to_test
    pc,             \* the step of the test at hand
    todo,           \* the positions in the plan of the actions not yet executed
    code,           \* last_build_result
    results,        \* the outcome of each test so far
    diagnostics     \* the tests that something is reported of

inputs == <<specs_to_test, expected, all_ports, behaviour>>
report == <<results, diagnostics>>
runVars == <<inputs, report, installed, known_failures, test, pc, todo, code>>
vars == <<cacheVars, runVars>>

\* The packages a package is built against, directly or not: the least set that holds what it needs
\* and, with a package, what that needs.
Closed(S) == \A a \in S : Needs[a] \subseteq S
Against == [a \in ABI |-> {b \in ABI : \A S \in SUBSET ABI : Needs[a] \subseteq S /\ Closed(S) => b \in S}]

ASSUME BuildsAssumption ==
    /\ Needs \in [ABI -> SUBSET ABI]
    /\ Behaviours \subseteq [ABI -> {"Succeeded", "BuildFailed", "FileConflicts"}]
    /\ \A left \in Leftovers : \A x \in left : x.abi \in ABI

\* The plan of a test holds what its last action needs, dependencies first, each in a directory of its
\* own (PackagesDirAssigner), and nothing else; so the test of a package is shorter than those that
\* install it on the way.
Own(t) == t.plan[Len(t.plan)]
ASSUME TestsAssumption ==
    /\ DOMAIN Tests = 1 .. Len(Tests) /\ Len(Tests) \in Nat
    /\ \A k \in DOMAIN Tests : LET t == Tests[k] IN
        /\ t.unsupported \in BOOLEAN /\ Len(t.plan) \in Nat \ {0} /\ DOMAIN t.plan = 1 .. Len(t.plan)
        /\ \A i \in DOMAIN t.plan : t.plan[i].abi \in ABI /\ t.plan[i].dir \in Dir
        /\ ~ t.unsupported => \A i \in DOMAIN t.plan :
              /\ Needs[t.plan[i].abi] \subseteq {t.plan[j].abi : j \in 1 .. i - 1}
              /\ i # Len(t.plan) => t.plan[i].abi \in Against[Own(t).abi]
    /\ \A k, l \in DOMAIN Tests : \A i \in DOMAIN Tests[k].plan, j \in DOMAIN Tests[l].plan :
        /\ Tests[k].plan[i].dir = Tests[l].plan[j].dir => k = l /\ i = j
        /\ ~ Tests[k].unsupported /\ ~ Tests[l].unsupported /\ k # l /\ Tests[l].plan[j].abi = Own(Tests[k]).abi
             => Len(Tests[k].plan) < Len(Tests[l].plan)

Good(a) == \A b \in Against[a] \cup {a} : behaviour[b] = "Succeeded"

\* Util::stable_sort: shortest plan first, and as they were where the plans are of one length.
Sorted ==
    {s \in [DOMAIN Tests -> DOMAIN Tests] : \A i, j \in DOMAIN Tests : i < j =>
        \/ Len(Tests[s[i]].plan) < Len(Tests[s[j]].plan)
        \/ Len(Tests[s[i]].plan) = Len(Tests[s[j]].plan) /\ s[i] < s[j]}

InitRun ==
    /\ InitCache
    /\ specs_to_test \in Sorted
    /\ expected \in Expectations
    /\ all_ports \in BOOLEAN
    /\ behaviour \in Behaviours
    /\ \A p \in Provider : \A a \in stored[p] : Good(a)
    /\ installed \in Leftovers
    /\ \A x \in installed : Good(x.abi)
    /\ known_failures = {}
    /\ test = 1
    /\ pc = "precheckAll"
    /\ todo = {}
    /\ code = "none"
    /\ results = <<>>
    /\ diagnostics = {}

TestAt(i) == Tests[specs_to_test[i]]
Plan == TestAt(test).plan
LastAction == Own(TestAt(test))
HasPlan(t) == ~ t.unsupported

First(positions) == CHOOSE i \in positions : \A j \in positions : i <= j
Last(positions) == CHOOSE i \in positions : \A j \in positions : j <= i

\* Fault: what is installed with another ABI will do.
FaultyIsInstalled(x) == \E y \in installed : y.spec = x.spec

\* adjust_action_plan_to_status_db: what is installed with the ABI of the plan leaves the plan.
IsInstalled(x) == \E y \in installed : y.spec = x.spec /\ y.abi = x.abi
Adjusted == {i \in DOMAIN Plan : ~ IsInstalled(Plan[i])}
Actions(positions) == [i \in positions |-> Plan[i]]

\* ... and what is installed otherwise is removed when the plan is executed.
Kept == {y \in installed : \E i \in DOMAIN Plan : Plan[i].spec = y.spec /\ Plan[i].abi = y.abi}

--------------------------------------------------------------------------------
\* The precheck of the last action of every supported test, in the order of the list.
PrecheckAll ==
    /\ pc = "precheckAll"
    /\ BeginCall("precheck", [i \in {j \in DOMAIN Tests : HasPlan(Tests[j])} |-> Own(Tests[i])])
    /\ pc' = "prechecked"
    /\ UNCHANGED <<status, content, queue, stored,
                   inputs, report, installed, known_failures, test, todo, code>>

PrecheckedAll ==
    /\ pc = "prechecked"
    /\ Returned("precheck")
    /\ call' = NoCall
    /\ pc' = IF DOMAIN Tests = {} THEN "join" ELSE "test"
    /\ UNCHANGED <<status, content, queue, stored,
                   inputs, report, installed, known_failures, test, todo, code>>

\* Fault: a failing configuration that is not even built counts as expected.
FaultyReported(outcome, mark) ==
    CASE outcome = "Pass" -> mark \notin {"ImplicitPass", "ExplicitPass"}
      [] outcome = "Fail" -> mark \notin {"PortMarkedFail", "FeatureFail", "ConfigurationFail"}
      [] OTHER -> mark \notin {"PortMarkedCascade", "FeatureCascade", "ConfigurationFail"}
                    /\ (mark = "ImplicitPass" => all_ports)

\* handle_pass_, handle_fail_ and handle_cascade_feature_test_result: whether something is reported.
Reported(outcome, mark) ==
    CASE outcome = "Pass" -> mark \notin {"ImplicitPass", "ExplicitPass"}
      [] outcome = "Fail" -> mark \notin {"PortMarkedFail", "FeatureFail", "ConfigurationFail"}
      [] OTHER -> mark \notin {"PortMarkedCascade", "FeatureCascade"} /\ (mark = "ImplicitPass" => all_ports)

\* The outcome of the test at hand, and the next test.
Result(outcome) ==
    /\ results' = Append(results, outcome)
    /\ diagnostics' = IF Reported(outcome, expected[specs_to_test[test]]) THEN diagnostics \cup {test} ELSE diagnostics
    /\ test' = test + 1
    /\ pc' = IF test = Len(Tests) THEN "join" ELSE "test"

Unsupported ==
    /\ pc = "test"
    /\ TestAt(test).unsupported
    /\ Result("Cascade")
    /\ UNCHANGED <<cacheVars, inputs, installed, known_failures, todo, code>>

\* A package that the test is built against has failed before.
WillFail == \E i \in DOMAIN Plan : Plan[i].spec # LastAction.spec /\ Plan[i].abi \in known_failures

DependencyWillFail ==
    /\ pc = "test"
    /\ ~ TestAt(test).unsupported
    /\ WillFail
    /\ Result("Cascade")
    /\ UNCHANGED <<cacheVars, inputs, installed, known_failures, todo, code>>

\* Nothing is removed here, whatever else is installed.
AlreadyInstalled ==
    /\ pc = "test"
    /\ ~ TestAt(test).unsupported
    /\ ~ WillFail
    /\ Adjusted = {}
    /\ Result("Pass")
    /\ UNCHANGED <<cacheVars, inputs, installed, known_failures, todo, code>>

PrecheckTest ==
    /\ pc = "test"
    /\ ~ TestAt(test).unsupported
    /\ ~ WillFail
    /\ Adjusted # {}
    /\ BeginCall("precheck", Actions({Last(Adjusted)}))
    /\ pc' = "precheckTest"
    /\ UNCHANGED <<status, content, queue, stored,
                   inputs, report, installed, known_failures, test, todo, code>>

AlreadyInBinaryCache ==
    /\ pc = "precheckTest"
    /\ Returned("precheck")
    /\ IsAvailable(Plan[Last(Adjusted)].abi)
    /\ call' = NoCall
    /\ Result("Pass")
    /\ UNCHANGED <<status, content, queue, stored, inputs, installed, known_failures, todo, code>>

Clear ==
    /\ pc = "precheckTest"
    /\ Returned("precheck")
    /\ ~ IsAvailable(Plan[Last(Adjusted)].abi)
    /\ ClearPackages(Actions(Adjusted))
    /\ call' = NoCall
    /\ pc' = "fetch"
    /\ UNCHANGED <<status, queue, stored,
                   inputs, report, installed, known_failures, test, todo, code>>

Fetch ==
    /\ pc = "fetch"
    /\ BeginCall("fetch", Actions(Adjusted))
    /\ pc' = "fetching"
    /\ UNCHANGED <<status, content, queue, stored,
                   inputs, report, installed, known_failures, test, todo, code>>

\* install_execute_plan removes first.
RemoveOthers ==
    /\ pc = "fetching"
    /\ Returned("fetch")
    /\ call' = NoCall
    /\ todo' = Adjusted
    /\ installed' = Kept
    /\ pc' = "install"
    /\ UNCHANGED <<status, content, queue, stored, inputs, report, known_failures, test, code>>

\* The packages an action is built against are installed.
Satisfied(x) == \A a \in Needs[x.abi] : \E y \in installed : y.abi = a

\* What perform_install_plan_action makes of the next action.
Outcome(x) ==
    IF IsRestored(x.abi) THEN IF behaviour[x.abi] = "FileConflicts" THEN "FileConflicts" ELSE "Succeeded"
    ELSE IF Satisfied(x) THEN behaviour[x.abi] ELSE "Cascaded"

\* What the loop over install_results adds to known_failures, and the switch on the last one.
Remember(x) ==
    IF Outcome(x) = "BuildFailed" \/ (Outcome(x) = "FileConflicts" /\ Cardinality(todo) = 1) THEN {x.abi} ELSE {}

\* The package is built or was restored, is installed unless its files conflict, and is pushed.
Install ==
    /\ pc = "install"
    /\ todo # {}
    /\ LET x == Plan[First(todo)]
       IN  /\ code' = Outcome(x)
           /\ known_failures' = known_failures \cup Remember(x)
           /\ IF Outcome(x) \in {"Succeeded", "FileConflicts"}
              THEN /\ installed' = installed \cup (IF Outcome(x) = "Succeeded"
                                                   THEN {[spec |-> x.spec, abi |-> x.abi]} ELSE {})
                   /\ PushSuccess(x)
              ELSE UNCHANGED <<installed, status, queue, content>>
    /\ todo' = todo \ {First(todo)}
    /\ UNCHANGED <<call, stored, inputs, report, test, pc>>

TestEnds ==
    /\ pc = "install"
    /\ todo = {}
    /\ MarkAllUnrestored
    /\ Result(CASE code = "Succeeded" -> "Pass" [] code = "Cascaded" -> "Cascade" [] OTHER -> "Fail")
    /\ UNCHANGED <<call, content, queue, stored, inputs, installed, known_failures, todo, code>>

\* wait_for_async_complete_and_join.
Join ==
    /\ pc = "join"
    /\ queue = <<>>
    /\ pc' = "done"
    /\ UNCHANGED <<cacheVars, inputs, report, installed, known_failures, test, todo, code>>

TestStep ==
    \/ PrecheckAll \/ PrecheckedAll \/ Unsupported \/ DependencyWillFail \/ AlreadyInstalled
    \/ PrecheckTest \/ AlreadyInBinaryCache \/ Clear \/ Fetch \/ RemoveOthers \/ Install \/ TestEnds \/ Join

NextRun == (CacheStep /\ UNCHANGED runVars) \/ TestStep

Run == InitRun /\ [][NextRun]_vars

\* Neither the command nor the background thread stops.
FairRun ==
    /\ Run
    /\ WF_vars(TestStep \/ ((FetchFrom \/ PrecheckFrom) /\ UNCHANGED runVars))
    /\ WF_vars(Upload /\ UNCHANGED runVars)

--------------------------------------------------------------------------------
\* The outcome of a test run by itself, in an empty tree, without a cache.
TrueOutcome(t) ==
    CASE t.unsupported \/ \E b \in Against[Own(t).abi] : ~ Good(b) -> "Cascade"
      [] OTHER -> IF behaviour[Own(t).abi] = "Succeeded" THEN "Pass" ELSE "Fail"

\* The type invariant, and: what counts as restored or waits to be stored is in its directory.
RunInv ==
    /\ CacheTypeOK
    /\ Len(results) < test
    /\ PackagesAreThere(Actions(todo))

\* No test is judged by another one: whatever ran before, failed, was restored or is left over in
\* the installed tree or the caches, its outcome is the one it has by itself.
VerdictIsOwn == \A i \in DOMAIN results : results[i] = TrueOutcome(TestAt(i))

\* The command ends well only if every mark is right: what is expected to pass passes, or cascades
\* where nobody asked about that, and what is marked as failing or cascading does just that.
MarksAreRight ==
    pc = "done" /\ diagnostics = {} =>
        \A i \in DOMAIN Tests :
            LET t == TestAt(i)
                mark == expected[specs_to_test[i]]
            IN  TrueOutcome(t) \in
                    CASE mark = "ExplicitPass" -> {"Pass"}
                      [] mark = "ImplicitPass" -> IF all_ports THEN {"Pass"} ELSE {"Pass", "Cascade"}
                      [] mark \in {"PortMarkedFail", "FeatureFail", "ConfigurationFail"} -> {"Fail"}
                      [] OTHER -> {"Cascade"}

\* "Checks whether the `actions` are present in the cache" (binarycaching.h): what precheck calls
\* available is in a cache.
PrecheckTells ==
    \A a \in ABI : IsAvailable(a) => \E p \in Provider : a \in stored[p]

\* Every test gets its outcome, and every package is stored before the command ends.
RunEnds == <>[](pc = "done" /\ queue = <<>> /\ Len(results) = Len(Tests))
================================================================================

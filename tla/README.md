# Formal models of vcpkg-tool

TLA+ models of the stateful parts of vcpkg, TLC configurations that check them on small
instances, and proofs checked by TLAPS. Source paths are relative to the repository
(`src/vcpkg/...` is code, `include/vcpkg/...` its headers).

Contents: [the system](#1-the-system) · [hard behaviours](#2-what-is-hard-about-it) ·
[modules](#3-the-modules) · [runs](#4-the-runs) · [findings](#5-disagreements-found) ·
[observations](#6-observations) · [fairness](#7-fairness) · [proofs](#8-proofs) ·
[limits](#9-what-is-not-modelled) · [plan](#10-plan)

## 1. The system

vcpkg is a command line program. A run is one process: it parses its arguments, takes the lock of
the installed tree, reads the tree's database, computes a plan and executes it, one package after
the other, on the main thread. A second thread uploads finished packages to binary caches; short
bursts of threads copy, hash and scan files; on Windows the console starts one more thread for
Ctrl-C. Several vcpkg processes may share an installed tree, and any may be killed at any moment:
the next run goes on from what it finds on disk.

| Component | State it keeps | Operations | Correct when |
|---|---|---|---|
| Installed database (`installeddatabase.cpp`, `statusparagraphs.cpp`) | `status`, `status-new`, `updates/*`, `vcpkg-running.lock`; in memory `status_db` | `database_load`, `database_sync`, `database_write_update`, the lock | it is one durable map, whatever process is killed where |
| Installing and removing one package (`commands.install.cpp`, `commands.remove.cpp`) | the files of the triplet, the list files, the paragraphs | `install_package`, `remove_package`, conflict check | an installed package has all its files and shares none; memory agrees with disk |
| set-installed, plan execution (`commands.set-installed.cpp`, `install_execute_plan`) | the action plan, the summary | `adjust_action_plan_to_status_db`, `create_remove_plan`, the two loops of the execution | a successful run leaves what was asked for; what matches is not touched; dependencies are there |
| Background work queue (`background-work-queue.h`) | a vector, a flag, a condition variable | `push`, `get_work`, `stop` | no wake-up is lost; nothing is dropped at the end |
| Binary cache synchronizer (`binarycaching.cpp`) | two counters and a flag packed in one atomic word | `add_submitted`, `fetch_add_completed`, `fetch_incomplete_mark_submission_complete` | it behaves as the struct of its comment |
| Background message sink (`message_sinks.cpp`) | published lines, a flag | `println`, `print_published`, `publish_directly_to_out_sink` | each line once, in order |
| Upload pipeline (`BinaryCache`) | the three above, the package directories | constructor, `install_providers`, `push_success`, `wait_for_async_complete_and_join`, destructor, `push_thread_main` | what is uploaded is what was built, and joining means done |
| Binary cache, read side | a `CacheStatus` per ABI, providers | `fetch`, `precheck`, `is_restored` | a package is restored at most once, from a provider that has it |
| Ctrl-C and child processes (`system.process.cpp`) | a counter of processes with a flag, the job object, a counter of interactive shells | `transition_to_spawn_process`, `transition_from_spawn_process`, `transition_handle_ctrl_c`, `enter_interactive` | nothing starts after Ctrl-C, nothing is orphaned, vcpkg ends |
| Parallel execution (`parallel-algorithms.h`) | an atomic offset | `execute_in_parallel` | each piece of work once, all done at the return |
| x-test-features (`commands.test-features.cpp`, `ci-feature-baseline.cpp`) | the tests to run, the baseline, known failures | choice of the tests, execution, comparison | each feature is tested, a known failure hides no other |
| Install plan (`dependencies.cpp`, `graphs.h`) | `PackageGraph` of clusters | `create_feature_install_plan`, `create_upgrade_plan`, `create_remove_plan`, `create_export_plan`, `topological_sort` | closed under dependencies, sorted, minimal |
| Versioned resolver (`dependencies.cpp`, `versions.cpp`) | `VersionedPackageGraph` | constraint propagation, version comparison, extraction of the plan | what is selected satisfies all constraints; phase 2 needs nothing that phase 1 has not met |
| ci (`commands.ci.cpp`, `ci-baseline.cpp`) | what is known of each package before the build | skip, precheck, prune, install, compare | breakage is reported, nothing else is |
| File locks (`files.cpp`, `installeddatabase.cpp`) | lock files | take, try, release | one holder, no deadlock |
| Downloads and asset cache (`base/downloads.cpp`, `AttemptDiagnosticContext`) | a part file per process, the download, what the asset cache has, lines not yet printed | `download_file_asset_cached`, `try_download_file`, the asset cache's script, `store_to_asset_cache` | only verified bytes arrive; no source that has the file is passed over; what is printed fits what happened |
| Tools (`tools.cpp`, `archives.cpp`, `rename_or_delete`) | tool directories, a partial directory per process | `get_path`, `download_tool`, `extract_archive_to_temp_subdirectory` | processes that want the same tool all get it, and none breaks another's |
| Build and ABI, registries, manifests, other commands, metrics, vcpkg-artifacts | see `PROJECT.json` | | |

How they interact. The commands call *set-installed* with a plan from a resolver; it calls
*installing and removing*, which write the *installed database* and run builds through *child
processes*; each built package goes to the *upload pipeline*, whose thread reads the package
directory later; copying goes through *parallel execution*. All commands that change a tree share
one lock, so that processes meet only on disk; threads meet in the queue, the synchronizer, the
sink, the process counter and the offset counter. Downloads and tools are shared by all processes of a
machine and have no lock: processes write files with their id in the name and rename them.

## 2. What is hard about it

`PROJECT.json` lists the hazards at their lines with the properties that cover them. The groups:

* **Crashes.** A package is installed or removed by a dozen writes of separate files. The database
  is a log of updates merged at the next start, whose file names start at 0 in each process.
* **Threads without locks.** A packed atomic word, a counter that doubles as a flag, an offset that
  every thread pushes past its end, a thread that starts before what it uses.
* **Stale state.** The database in memory is edited beside the files for a whole run; the upload
  thread reads directories after the foreground thread has moved on.
* **Partial failure.** With `--keep-going` some packages fail, some are skipped, some come from a
  cache, and the run goes on.
* **Sequences of decisions.** What `x-test-features` tests depends on four sets of marks, sets of
  options and the tests chosen before; each test starts from the tree, the caches and the failures
  that the tests before it left.
* **Orders.** The resolvers go through unordered sets and sets of addresses; phase 1 of the versioned
  one meets versions and features in any order and must still end with the same graph.
* **Answers instead of builds.** A cached package, a known failure or a parent hash stands for a
  build that is not done.
* **Races without a lock.** Processes download, extract and rename the same tool at once; what a
  killed one leaves may carry the process id of a later one.
* **Fallbacks.** A download has up to three kinds of sources, each may be busy, refuse, or send
  wrong bytes, and errors are printed only once it is known whether they matter.
* **Waiting.** Processes poll for several lock files, one after the other, and are killed with some
  of them in hand.

## 3. The modules

Names of variables and actions follow the code. Definitions named `Faulty...` are plausible bugs;
they exist only to show that each property can fail.

### The installed tree

* **StatusStore** is the abstract specification: a map from specs to install states, one exclusive
  lock, atomic writes, and loads that return the map.
* **InstalledDatabase** is the code. A process takes the lock, reads `status`, inserts the updates
  in the order of their names, writes `status-new`, renames it, deletes the updates one by one, and
  then writes updates through `updates/incomplete` and a rename; each file operation is one action.
  `Stop` ends a process between any two, and releases its lock. A file being written is `Torn`.
  `Abstract` is the refinement mapping: the durable map is
  `Replay(status, updates)`, the status file with the last update of each spec.
* **RunningLocks** replaces the one-step lock by the lock files: a process opens and locks
  `vcpkg-running.lock` in the installed tree, then in `buildtrees` and `packages`, polls with or
  without a limit, gives up, or is killed with some of them taken. A lock belongs to the file that
  was opened and is inherited by child processes (the descriptors have no `O_CLOEXEC`), so it may
  outlive its process. `Others` are processes with another installed tree.
* **PackageTree** is `install_package` and `remove_package`: one action per paragraph written, per
  file copied or deleted, for the creation and the completion of the list file, over the durable map
  that InstalledDatabase is shown to implement. `Next` picks any package, any of the contents its
  build may have, and any features; `Stop` kills.
* **SetInstalled** extends PackageTree with the plan: `AdjustPlan` compares ABI tags and computes
  the removals with their dependents, `RemoveNext` and `InstallNext` start the steps of PackageTree,
  `FailNext` is a failed build or a conflict, `Done`/`End` the ends of a run. A request is a set of
  packages and features closed under what they need; an ABI tag is the set of what it hashes.
  `SetInstalledPast` adds the history variable `past`: whether a process was killed or a run went on
  after a failure, so that one run checks what holds always and what holds without these.

### Plans

* **TopologicalSort** is the depth-first search of `base/graphs.h`, one action per call, neighbour
  and return, with neighbours in any order. The plans below use it step by step.
* **InstallPlan** is the resolver of classic mode: `Run` loads the status database,
  `Install`, `Upgrade`, `Remove` and `Export` are the four commands, and `Refuse` is the end of the
  first two when the database is corrupted; the other two work on such a database as well. `Take`
  handles one entry of `next_dependencies` (with `ExpandStar`, `AddToPlanned`, `AddNew`, `Keep`,
  `Reinstall` as its branches), `LoadVars` is the second pass with the platform expressions,
  `Serialize` starts the sorts. `Execute` installs what succeeds, any part of the plan with
  `--keep-going`, what stands before the first failure without. A package that is built needs its
  dependencies; one in `restored` comes from the binary cache and is not tested for them, and it may
  record the default features of another command (`others`). `DryRun` leaves the plan unused.
  `RemoveSorted` removes in order up to a package that is not there. Commands follow one another while
  `History` leads the ports through several states; a paragraph records what its port was. The field
  `lacks` is a history variable: the dependencies that a package was restored without.
* **VersionedPlan** is the resolver of manifest mode. Phase 1: `resolve_stack` frame by frame, with
  `RequireDependency` (node, constraint, baseline, override, overlay), then one step for each of the
  dependency's features (`RequireFeature`, or `SkipFeature` where its platform expression does not
  hold) and `RequireDefaults`, which go through all considered versions in any order. Phase 2: the
  walk of `finalize_extract_plan` with `WalkRoot`, `WalkDependency`, `Emit`, `Unsupported`, `Finish`. A
  version is a scheme, a number for its text and a port version; a platform expression is the set of
  triplets it holds for. `Declared` is the reference: the closure that phase 1 describes, a recursive
  function on the sets of versions, features and default features that there are (`Declarations`).

### Binary caches

* **BackgroundWorkQueue** models the mutex by atomic actions and the condition variable by the set
  of waiting consumers; `NotifyOne` wakes any one, `Wake` is a spurious wake-up.
* **SubmissionCounts** is the struct that the header's comment says the synchronizer "morally" is;
  **BinaryCacheSynchronizer** is the word itself, with loads, weak compare-exchanges that may fail
  for no reason, and the overflow checks; `BehavesAsStruct` is the refinement. A counter holds
  up to `MaxCount` (2^31 - 1, or 2^15 - 1 on 32-bit systems).
* **BGMessageSink** is the sink; printing of swapped lines is outside its lock, as in the code.
* **UploadPipeline** composes the three. The foreground thread installs a fixed sequence of actions,
  some of the same port, and submits, waits twice (the call and the destructor) while the push
  thread zips, uploads, cleans, counts and prints. Its initial state is the one the constructor
  leaves: the thread runs, the providers are not set.
* **CacheRead** is the read side: `CacheStatus` per ABI, `fetch` and `precheck` with one provider
  per step, `push_success`, and the thread that stores packages in between. A list of actions is a
  function on positions; `Place` counts along it, so that `Prechecked` is the entry `precheck` marks. It is not checked by
  itself but in the two commands that use it:
* **FeatureTestRun**, the loop of `x-test-features` that runs the tests (below), and **Ci**.

### Commands that test

* **FeatureTests** walks through the ports and their features as the loop of
  `command_test_features_and_exit` does, for every baseline entry, supported set and choice of
  switches, which are picked in the initial state; `ExpectedOutcome` is `expected_outcome`. A list of
  features is a bag, because the code compares lists with `std::is_permutation`, and a failing
  configuration is a set, as the parser leaves it.
* **FeatureTestRun** runs chosen tests, shortest plan first: precheck of all, then for each test
  cascade or not, removal, `fetch`, builds, known failures, comparison with the baseline, all in one
  tree and one cache. `specs_to_test` is the sorted list, as indexes of `Tests`; a part of a plan is the
  set of its positions. A build is a function of the ABI.
* **Ci** is `vcpkg ci`: `CalculateCiSpecs`, `Precheck`, `PreBuildStatuses`, `PruneNext` (one round of
  the loop that goes backwards through the plan and grows `to_keep`), `Prune` (the erasure), `Adjust`,
  `Fetch`, `Install`, `Report`, and `Again` for the next run on the same cache. A plan is a set of
  specs, in the `order` that the run has chosen; `todo` is what the loop at hand has not come to. A
  spec stands for its ABI because the ports do not change.

### Processes and threads

* **CtrlC** is the Windows machine: the counter `m_number_of_external_processes`, from which Ctrl-C
  takes `INT_MIN`, with threads that count in, start a process, wait and count out, the handler
  thread, the job object, the interactive shell of `vcpkg env` and the final cleanup, which is
  entered by one thread only.
* **ExecuteInParallel** is `execute_in_parallel` of both platforms: threads that were never created
  (POSIX) or were cancelled (Windows) are `NeverBegin`; the counter wraps at `SizeMax`.
* **ParallelChildren** composes the two as the binary cache does when it unpacks what it has found
  (`ZipReadBinaryProvider::fetch`): `WorkStarts` begins a program for a piece of work (or none, if the
  directory cannot be prepared), `WorkReturns` waits until it is counted out. `OtherSpawn` is a thread
  beside the workers, and the caller once execute_in_parallel has returned. A worker that Ctrl-C has
  put to sleep is never joined; only the end of the process ends its caller.

### Downloads and tools

* **Downloads** is `download_file_asset_cached`: `Begin` has the guards on arguments and settings,
  `Connect`, `Transfer` and `Check` are `try_download_file` for the asset cache and for a URL (the
  transfer writes the part file, the hash decides, a rename ends it), `AttemptFails` goes on to what
  comes next, `Script` is the asset cache's script, `Missed` and `Exhausted` are the ways to fail,
  `Arrived`, `Store` and `StoreEnds` what follows success. The file's content is right, wrong or torn;
  a server sends bytes, is busy, or refuses. `fetch[p]` has the local variables, with the lines that
  both `AttemptDiagnosticContext`s hold back and those that are printed.
* **ToolCache** extends it with `get_path` and `download_tool` in several processes: `Look` at the
  candidates, `HashDownload`, the download, `Prepare` and `Extract` into a directory of their own,
  `rename_or_delete` (`Rename`, `RenameFails`, `TargetExists`, `RenameAgain`), `SetExecutable`,
  `GetVersion`. `Kill` ends a process anywhere and starts another with the same id.

A module `X_proofs` holds the theorems about `X` and what `X` extends; `MCX` gives its constants values for TLC.

## 4. The runs

| Run | Question | Bounds | States |
|---|---|---|---|
| `installed_database` | Is the database a durable map, and do the lock files exclude without deadlock, if processes are killed anywhere? | 2 processes, 2 specs, 2 states, 2 updates per process; a third process for the build locks | 284,192 |
| `set_installed` | Kills, failures, `--keep-going`, conflicts: dependencies, ABIs, nothing touched without need; exact without kills | 2 packages, 1 depends on the other, a feature; 1 file in conflict; every closed request | 255,697 |
| `install_plan` | Is every plan least, ordered and buildable, and does every command end? | 3 packages, 2 features, 5 states of the ports, 8 requests, 3 commands | 423,680 |
| `versioned_plan` | Does phase 1 reach what it describes in any order, and is phase 2's plan in order or its error real? | 3 ports with 2, 3 and 2 versions, 2 features, 2 triplets, 2560 calls (4 sets of direct dependencies, 5 kinds of pins) | 122,992 |
| `versioned_plan_dropped` | ... also if a version drops a feature? (violated, see 5) | the same | |
| `upload_pipeline` | Counters, uploads, joins | 4 actions, 3 of one port, counters up to 3 | 23,850 |
| `feature_test_run` | Is each test judged by itself, and a clean report right? | 5 tests, 7 ABIs, 1 bad package, 2 providers, 3 contents of the caches, 2 leftovers, 5 baselines | 303,220 |
| `feature_test_precheck` | Is what precheck reports true with two providers? (violated) | the same | |
| `ci` | Are pruned plans closed, breakage caught, alarms true, run after run? | 4 specs, 1 bad package, 1 mark, 1 unsupported, 4 flags, 2 runs | 2,513,716 |
| `feature_tests` | Is each feature tested, and the combined test clean? | 1 port, 3 features, every marking of them, 5 families of options | 204,800 |
| `parallel_children` | Ctrl-C while threads run programs: nothing orphaned, killed wrongly or left behind; the caller or vcpkg ends | 2 pieces of work, counter of 2 bits, 2 threads and a third, Ctrl-C twice | 52,685 |
| `tool_cache` | Do downloads and tools arrive whole, for every process, whatever fails, and is the right thing printed? | 1 process with every choice of settings and answers and up to 3 URLs, or 2 processes with one tool; 1 kill, 2 renames | 831,947 |

Why the bounds are enough to meet the interesting cases:

* *installed_database.* Two updates of the same spec are the only case in which order matters, and
  one of them is left after a partial removal; longer suffixes are covered by the proofs, which are
  for every number of updates. A process that has used its ids up can only stop. The second process
  meets every state the first one leaves. The third has another installed tree and meets the others
  at `buildtrees`; `packages` is one more lock of the same kind. With the two locks of a process
  swapped TLC finds the deadlock.
* *set_installed.* Removal order, dependents and ABI changes through a dependency need two packages
  and an edge; the feature edge gives plans that change a dependency's features only. Each process
  starts over with another request, so that all histories of requests are covered. A tree sees kills
  or runs that keep going, not both.
* *install_plan.* The states of the ports change the default features, qualify them, make a feature
  unsupported, remove a port, and close a cycle with and without platform expressions; three
  commands are two updates and what they leave for the third. One run that keeps going corrupts the
  database; the commands after it are refused, or remove something, the missing package included.
* *versioned_plan.* Constraints of three schemes that are equal, greater, or not comparable; a
  package that is met before and after its version rises; default features on and off; a host
  dependency; a cycle; a dependency that only one of the versions has.
* *feature_test_run, ci.* The packages form a chain with a shared dependency, so that one bad package
  is below, at, or above what is tested; two providers hold different parts. One provider can be
  asked for `precheck`, the other answers nothing (see the finding). Two `ci` runs let the second
  find what the first has stored.
* *upload_pipeline.* With four actions and counters up to three the overflow checks are reached;
  three packages of one port give two numbered directories.
* *parallel_children.* Two workers and a thread of its own are the last one that runs a program, one
  before it, and one that Ctrl-C puts to sleep; a second Ctrl-C is the "repeat call". `INT_MIN` is
  -9. Of the four bounds of `max_threads` the one against overflow counts: 3 - 2 + 1 = 2.
* *tool_cache.* What a download prints depends on its own sources only, so these vary with one
  process; what processes do to each other's files needs two, with one URL and a cache. Three URLs
  are the first, the last, and one between. A rename is tried twice (five times in the code): the last
  attempt differs from the others in what follows it. One kill leaves what the next one finds.
* *feature_tests.* The families of options include a set that begins with the core and two sets in
  one entry.

`CHECK_DEADLOCK FALSE` stands where the program ends: after the last join, after vcpkg's exit, when
all work is done, when all tests are chosen or run, when every process has its tool, when the bound on commands or runs is reached,
and in the run that checks one violated invariant only.

Properties, briefly (their comments in the modules say which code they are about):

* `InstalledDatabase`: `DurableMap` (refines StatusStore); `ReplayIsInsertInOrder` compares `Replay`,
  which says what the update files come to, with `Inserted`, the loop of the code over their names.
  `RunningLocks`: `LockedInv` (InstalledDatabase's inductive `Inv`, who holds which lock, and
  `NoCircularWait`), `CommandsProceed` (no deadlock of polling processes, syncs end).
* `SetInstalled`: `SetInv` (memory, plan and disk fit together, and with `InstalledOwnFiles` no two
  installed packages own a file), `DependenciesStay`, `KeepsWhatMatches`, `Ends`, and `ExactUnlessKilled`: as long as nothing was
  killed a successful run leaves just what was asked for, no process finds a corrupted database, and
  every file is owned.
* `InstallPlan`: `DbInv` (what installed packages need and is not installed is exactly what runs that
  kept going restored them without, so only such a run corrupts the database; plans are sorted),
  `PlanBuilds`, `PlanIsLeast` (the plan is `LeastPlan`, a fixed point computed without the solver),
  `PlanEnds` (every command ends; its `PlanDescends` says of each step what it brings to an end).
* `VersionedPlan`: `VersionedInv` (the selection), `PlanInOrder`, `PlanHasFeatures`, `ErrorsAreReal`,
  `Phase1AsDeclared`, `ResolutionEnds` (with `ResolutionDescends`, which says what each step ends).
* `UploadPipeline`: `PipelineInv` (with `SyncInv` and `CountersMatchQueue`), `BehavesAsStruct`,
  `DoneWhenJoined` (all is uploaded, each as it was built, and printed), `WaitEnds`.
* `FeatureTestRun`: `VerdictIsOwn`, `MarksAreRight`, `RunEnds`; `PrecheckTells`.
* `Ci`: `CiInv` (with: a pruned plan is the closure of what must be built), `CatchesBreakage`,
  `NoFalseAlarm`.
* `FeatureTests`: `EachFeatureTested`, `CombinedIsClean`.
* `CtrlC`: `Inv` (with `NoOrphan`), `ShellSurvives`, `CtrlCEnds`. `ParallelChildren`:
  `NoneLeftBehind` (with `AllDone` of ExecuteInParallel), `ReturnsOrEnds`.
* `ToolCache`: `OnlyVerified` (what a step may put in a shared place), `FailsForAReason` (downloads
  and tools), `ReportIsRight`, `Ends`.

## 5. Disagreements found

Each is a run that TLC finds violated; `PROJECT.json` quotes the lines.

1. **`precheck` records answers for the wrong packages** (`feature_test_precheck`). It asks each
   provider only about the actions that still need it, collects their positions in `indexes`, and
   then marks `statuses[i]` instead of `statuses[indexes[i]]` (`binarycaching.cpp:2550-2560`). With
   the second provider a package in no cache may be taken for available, against
   `binarycaching.h:231`. One provider, or providers that answer nothing, hide it.
2. **A version that lost a feature hides the dependencies of other features**
   (`versioned_plan_dropped`). `require_scfl` returns at the first requested feature that the best
   version does not have (`dependencies.cpp:1654`) and leaves the features after it; phase 2 then
   walks to a package that was never met, and the `check_exit` at 1899 ends vcpkg, where the comment
   above it says that cannot happen.

## 6. Observations

Found while modelling; the properties above except them by name, and no run is kept for them.

* A kill inside `remove_package`, after the core's paragraph and before its features'
  (`commands.remove.cpp:35`), leaves an installed feature of no installed package, and
  `get_installed_ports` ends every later command that plans with "corrupted database".
  `ExactUnlessKilled` holds only without kills.
* A kill inside `install_package` between the core's and a feature's last update
  (`commands.install.cpp:485-494`) is never repaired: the ABI matches, so `x-set-installed` keeps the
  package (`commands.set-installed.cpp:152-165`).
* With `--keep-going` a restored package is installed although its dependency failed
  (`commands.install.cpp:533-537`), and `upgrade` keeps going unless told otherwise
  (`commands.upgrade.cpp:57-58`). From then on `create_feature_install_graph` ends every "install" and
  "upgrade" with the corrupted database (`dependencies.cpp:1187-1195`). `DependenciesStay` excepts such
  runs; InstallPlan models them, and `DbInv` says that they are the only cause and that the database
  lacks what they lacked, until the restored packages are removed.
* `create_remove_plan` takes a missing package that something installed depends on for an installed
  one (`dependencies.cpp:699, 708`). To remove it with `--recurse` removes its dependents and then
  ends with `msgPackageAlreadyRemoved` (`commands.remove.cpp:29`); what has been removed stays removed.
* A package that a manifest has built records all default features of its port, also those that were
  not built (`dependencies.cpp:1945-1952`, `commands.build.cpp:748-776`), and the ABI tag does not tell it
  from one that classic mode has built. Restored in classic mode it has default features that
  `has_defaults_installed` misses. This was read, not run: InstallPlan has a cache that commands of
  classic mode have filled.
* `x-test-features` for several ports leaves tests out: a list of features that was chosen for one
  port counts as chosen for all (`commands.test-features.cpp:708-713, 720-723`). `TwoPorts` in
  MCFeatureTests reproduces it.
* A package whose files conflict with another's has been pushed to the cache
  (`commands.install.cpp:576-583`), so the next `ci` takes it for not broken
  (`commands.ci.cpp:150`). `NoFalseAlarm` and `CatchesBreakage` except it; `NoFalseAlarmAtAll` does
  not.
* The classic solver does not end where ports need each other and one of them has a dependency with
  a platform expression: such a package is pushed again whenever it is met
  (`dependencies.cpp:181-210, 828-943`). `PlanEnds` excepts it.
* `upgrade` adds default features that the user has left out (`commands.build.cpp:748-776`,
  `dependencies.cpp:93-151`; the tests in `plan.cpp:840, 910` expect it).
* `require_scfl` asks for the dependencies of the best version's features only, so what a lower
  considered version needs depends on the order (`dependencies.cpp:1365, 1379`). `Phase1AsDeclared`
  claims no more than inclusion there.
* A minimum version that is not in the version database is no error in phase 1 (1547), and
  `value_or_exit` ends vcpkg in phase 2 (1905), where the comment says that errors "should have
  already" been logged. `MinimumsExist` excepts it from the proof of `ErrorsAreReal`.
* The platform expression of a feature that a dependency asks for is evaluated for the depending
  package in phase 1 (1574) and for the package depended on in `compute_feature_dependencies` (1853).
  They differ for a host dependency: with `{"name": "x", "platform": ...}` that holds on the host only,
  the plan is returned, its action is said to need the feature, and no action builds it, so the build
  ends with missing dependencies (`commands.build.cpp:1639-1647`). The proof of `PlanHasFeatures` found
  this, and TLC confirms it; the calls of MCVersionedPlan have no such dependency, and
  `HostFeaturesAgree` excepts it from the proof.
* On POSIX the lock files are opened without `O_CLOEXEC`: a program that a build leaves running
  holds the lock of the tree for as long as it lives (`files.cpp:601-609, 4243`). Two of the three
  directories being the same makes a process wait for itself (`installeddatabase.cpp:104-113`), and two
  processes with `--x-wait-for-lock` whose `buildtrees` and `packages` are exchanged can wait for each
  other for ever: the order of the locks goes by role.
* `push_success` forgets that providers lack a package when it is queued, not when it is stored: a
  `fetch` in between remembers the miss again, without harm in the two commands modelled.
* `binarycaching.h:287` says tools are provided "before the background thread is started", but the
  constructor starts it before `install_providers` (harmless: the thread reads nothing before it gets
  work, `PipelineInv`); `commands.test-features.cpp:674` says the combined test "always chooses the
  first option of each 'options set'", but it leaves the set out when that option is skipped,
  unsupported or marked.
* `try_download_file` announces "attempt 1 of 3" but makes two: after the second it announces another,
  sleeps for 2 s, and gives up (`downloads.cpp:613-640`).
* The design goals in `downloads.cpp:973-987` hold for the first URL only. Its failure prints the
  asset cache's errors (1134), although a later URL may succeed; and since they are printed then, the
  attempt to "reorder the proxy warning up to the asset cache prognosis" (1163) comes too late: the note
  stands between the first URL's errors and the others'. `ReportIsRight` says what does hold.
* The asset cache's script is asked if the cache's URL sends wrong bytes or is not configured, not if
  it answers that it has not got the file (`downloads.cpp:895-908`). `FailsForAReason` says so.
* Without a SHA a script's success is judged by the existence of the part file (866), which may be one
  that a killed process with the same id has left.
* A tool in a single file is renamed to its place before it is made executable (`tools.cpp:1043-1049`).
  A process that looks in between downloads it again, and its copy may replace one that is in use;
  `FailsForAReason` excepts such tools. An extracted tool is safe: the rename does not replace it.
* `files.h` says `rename_or_delete` returns "whether the rename actually happened"; if the last retry
  succeeds it returns false (`files.cpp:2232-2235`), and if it fails because the target exists by then
  it is an error, unlike before. Callers only look at the error.

## 7. Fairness

* `FairDatabase` (RunningLocks): weak fairness of polling, giving up and going on with the next lock
  for each process that has begun, and of the steps of a sync. The process is not suspended for ever;
  it may still be killed. Nothing is assumed of starting a process, of commands ending, or of
  children ending. Polling does not promise a particular process its lock, and no property does.
* `MCSpec` (set_installed): weak fairness of all steps but the start of a new process: the code is
  one sequential thread. A kill is never forced, only allowed.
* `FairPlans`, `FairVersioned`: weak fairness of the solver's steps, for the same reason; a user need
  not give another command.
* `FairRun`: weak fairness of the command's steps and of the thread that stores packages.
* `Ci` states safety only; `FeatureTests` also.
* `FairPipeline`: weak fairness of each of the two threads, not counting a weak exchange that fails
  though the word is as expected: C++ permits it, no processor does it for ever. Nothing is assumed
  of spurious wake-ups.
* `FairAll` (ParallelChildren): weak fairness of each thread, of the caller's return and of the
  handler; children end (a build, an archive tool ends); strong fairness of the successful exchanges
  of the handler and of a worker that counts in. Those loops are lock-free: an exchange fails only if
  another thread has counted in or out meanwhile. Strong fairness says that none is overtaken for
  ever, which the finite number of processes a run starts justifies; the model has no bound on it.
  Nothing is assumed of the thread that runs programs of its own, or of the user.
* `FairSpec` (ToolCache): weak fairness of each process's steps: processes run, servers answer or end
  the connection (vcpkg sets no time limit of its own on a transfer), programs end. A kill is never forced.

## 8. Proofs

All are for arbitrary constants under the ASSUMEs of the modules, which say no more than the
comments there: the markers differ from the values they mark, counts are natural numbers, a packed counter holds at least one, ports are a sequence, the set
of threads is finite and smaller than `-INT_MIN`, requests are closed, the lock files of a process
are distinct and begin with that of its tree, the versions a manifest names are versions, which the marker of an overlay is not,
and there are finitely many ports and features. What InstallPlan, FeatureTestRun and Ci assume of their inputs is said below.

The theorems about UploadPipeline and ParallelChildren share a module, `Threads_proofs`, and those about
Ci and FeatureTests another, `TestCommands_proofs`; the others are in the module named after theirs.

**InstalledDatabase.** `InvHolds`: `TypeOK`, `LockInv` (only the lock's holder is past the lock),
`MergeInv` (what a sync has read is still on disk), `RemoveInv` (while updates are deleted,
`Replay(status, updates) = status`, whichever are left), `FreshIdInv` (the id of the next update is
above all that exist). The last two are what makes the invariant inductive: deleting one update
keeps `RemoveInv` only because the status file already holds the *last* update of each spec, and a
write appends only because a sync has emptied the directory before ids start at 0. From it:
`NoUpdateIsReplaced`, `SyncLeavesNoUpdate`, `ReplayIsTheLoop` (the loop of `apply_database_updates`
leaves `Replay`, for any number of updates; the loop is a recursive function and no induction rule is
cited: the first round after which the two differ would follow one after which they agree), and `ImplementsDurableMap`, whose step part maps
`WriteRename` to the abstract write, the end of a load or a sync to a read, and every other step,
the kills included, to a stutter or a release of the lock.

**RunningLocks.** `LocksInv`: who has taken a lock holds the lock of the file that has the name, and
who works on the database has taken all. From it `LastLock`: the last lock is taken only while no
other process is past its own. Hence `LocksImplementTakeLock` (all behaviours are behaviours of
InstalledDatabase, so its theorems hold of them) and `LocksExclude`. `OwnInv` is the other half: a lock
is held only by a process that counts it in `m_locks`. With it `LockedInvHolds`: there is no circle of
processes, of whatever length, each of which polls for a lock that the next one has. Its hypothesis is
`LocksInOneOrder`, that the lock files can be ranked so that every process takes them upwards. In each
process the order is fixed, installed tree, buildtrees, packages; but it is by role, not by path, so the
hypothesis excludes two processes that use the same two directories in exchanged roles (section 6). The
proof takes, of the processes in the circle, one that waits for a lock of the greatest rank: who has that
lock has taken it on its way to a lock of a higher rank.

**PackageTree.** `InvHolds` adds to the two promises `InstallInv` and `RemoveInv`: while a package
is being installed or removed it is not recorded as installed, no installed package's list has a
file it copies or has yet to delete, and the files copied so far are its own.
`InstalledPackagesOwnTheirFiles`, `InstalledPackagesShareNoFile`, `MemoryFollowsDisk`,
`FeaturesFollowTheirPackage` follow.

**SetInstalled.** `RunsArePackageSteps`: each step of a run is a PackageTree step or leaves its
variables alone, so the theorems above hold of every run, for every dependency graph. `RunInv` then
says, beside PackageTree's invariant: what is installed and not to be removed is requested and not to
be installed (`PlanInv`); every installed package carries the tag of some request and, in a run, of
this one unless it is to be removed (`TagInv`); the tags of two installed packages, one built against
the other, agree (`RemovalInv`). From it `RunsEndAsRequested` (`SetInv`) and `RunsKeepWhatMatches`. The
latter needs that tags identify packages (`TagIdentifies`) and that a tag contains the tags of what its
package is built against (`TagWithinTag`): a package whose own tag matches depends on nothing that is
removed. With the history, `DependencyInv` (what depends on a package to be removed is to be removed;
what a package needs is installed before it starts) gives `DependenciesStayInstalled`, and `WholeInv`
(an installed package has all features of its tag, every file and list has a package that is installed
or in work) gives `RunsAreExactUnlessKilled`.

**TopologicalSort.** `SortInvHolds`, on every graph: what is sorted is closed under neighbours and in
order; the calls in progress are a path; a frame's missing neighbours are those not yet visited.
`SortsAll`: at the return the result is what the starting vertices lead to, each once, after all it
needs. `NoFalseCycle`: if the vertices can be ranked so that edges go down, no cycle is reported;
ranks fall along the path of calls, so a vertex met again would be below itself. `SortDescendsHolds`:
each step takes something from `SortLeft`, the vertices yet to be returned from and the edges yet to be
followed, and adds nothing, cycle or not.

**InstallPlan** extends the sort and its theorems. `PlanInv` holds while a plan is solved and after:
of each planned package, what is installed stays planned (`Kept`), what its planned features are
built against is in the plan, stays installed, or is still to be looked at (`Needed`, with `Met`), and
what is installed and built against it is planned, too (`SolveInv`). `RunInv` says that no plan is made
from a corrupted database and that it is executed in the order of its edges; with it comes
`PlanBuildsHolds`. `DbInvHolds` is about what the database lacks (`LackInv`): in a run that stops at the
first failure what a restored package needs stands before it in the plan or stays installed
(`ActionFacts`), in one that keeps going it is recorded in `lacks`, and a removal takes away what
depends on a package before the package. That an action's dependencies are in the plan or installed
takes `DoneInv`, below.
`PlanIsLeastHolds` is about both directions. `LeastInv`: nothing is planned that is not in every set of specs that holds what was asked for
and all that this leads to (`Grounded`). `DoneInv`: whatever was asked for or is needed is planned, or is
still to be looked at, so that at the end the plan is such a set itself. `LeastPlan` is a recursive function on sets of specs. No induction rule is cited for
it: `LeastNatural` (every nonempty set of naturals has a least element, from the library's `WFMin`)
gives `GreatestSubset`, a maximal one among subsets of a finite set, and this a counterexample that
would be the largest one, whose next step is a counterexample, too (`GrownFacts`).
The hypotheses: names of features in a dependency go through `internalize_feature_list`, which adds
the core (`CoreAssumption`, `packagespec.cpp:126-148`), and the states in `History` do the same
(`HistoryAssumption`). `PlanBuildsHolds` needs `NamesFeatures` besides: no port depends on the
pseudo feature `*` of another. vcpkg.json cannot say that, CONTROL files can (`zlib[*]` parses,
`packagespec.cpp:32-35`), and such a dependency is never satisfied, since no paragraph has that name
(`commands.build.cpp:1639-1647`). The other two theorems do without it.

`PlanDescendsHolds` says why the solver does not go on for ever, by the two measures that
`PlanDescends` names. A step that has something new to say adds to `Solved`: to the paragraphs looked
up, the features asked for, the packages planned. `BatchInv` (what waits
for variables is of packages whose variables are not loaded) makes loading them such a step. A step that adds nothing replaces an entry of
`next_dependencies` by lower ones: the features that `*` stands for, or entries of packages that the
package needs and that do not lead back to it. `LowerIsBeneath` shows that `Lower` lies in a strict
partial order, for any ports, with cycles too, so in finitely many ports this cannot go on. Only a package with platform expressions that needs itself is excepted.

**FeatureTestRun.** `VerdictIsOwnHolds` and `MarksAreRightHolds`, for any tests, packages, caches and
any number of providers. `StoredInv`, `QueueInv`, `InstalledInv`: only packages whose dependencies
all build are stored, queued or installed; one that is stored builds, unless its files conflict and
an action that built it has had its turn (`Spent`). This is the crux: a package whose
files conflict is stored like any other, and a test that found its own package in a cache would pass. It
cannot: the tests are sorted by the length of their plans, and a test that installs another
test's package on the way is longer, so that none has been there before (`OwnFacts`). `InstallInv`:
what the part of the plan behind the loop installs is there, so that "cascaded" means that a dependency
fails. The assumptions are that builds are a function of the ABI (`BuildsAssumption`), and that a plan
holds what its last action needs, in order, each in a directory of its own (`TestsAssumption`). The
hypothesis `OneAnswers` (at most one provider answers `precheck`) is what finding 1 takes away: with
two, an answer is noted for another package and a test passes that has not been built.

**Ci.** `CiInvHolds`, for any ports, marks, orders, arguments, caches and providers, and
`CatchesBreakageHolds` and `NoFalseAlarmHolds` under `OneAnswers`, as above. Two invariants. `RunInv`
needs no hypothesis: what is known of a spec is what the marks and the cache say (`KnownInv`); in the
backward loop `to_keep` is what the loop has met so far that must be built, with what they need
(`PlanInv`), where a spec is met after all that need it because the order is topological, so at the
end `to_keep` is closed; and the directories that the steps of an installation read are filled or
empty as they expect (`FilesInv`). A spec that is to be skipped is never in the plan since the plan
is the closure of specs none of whose dependencies is skipped: hence Checks::unreachable is not
reached. `JudgedInv` adds what a result means: only packages whose dependencies all build are stored
or installed, and one that is stored builds unless its files conflict (`CacheInv`, `TruthInv`), so
each result of a finished run is what the port does, or is one of the exceptions that the two
properties name (`ResultsInv`). In the first run the cache has what builds, which is the assumption in
`InitCi`; afterwards it may have packages whose files conflict, which is why both properties speak of
`ConflictCached`. The closure of a set of specs is the least closed set that has it (`Closure`), with
`ClosureFacts` for what the proofs need of it. The assumptions are that orders are topological and
complete, and that a spec's triplet is the target or the host (`CiAssumption`).

**FeatureTests.** `CombinedIsCleanHolds`, for any ports and entries: `CombinedInv` says that what has been
combined for the port at hand, and for every port before, are features that may be combined; two of
them in one set of options would both be its first one. The assumption is what the parsers make sure:
the core is not marked (`ci-feature-baseline.cpp:195-209`) and is no name of a feature, and no set of
options is empty.
`EachFeatureTestedHolds` has two hypotheses. `OwnNames` (no feature of a port is a feature or an option
of another) is the observation of section 6 on several ports, turned around; with one port it is
true. `OptionsDisjoint` says that sets of options do not overlap, which nothing checks: with options
`a,b` and `b,c` the test of `a` takes `b` for the second set, so two features of the first are on. `NamesInv` (a test has only features that its port and its entry name) is what
finds the port of a test that has been chosen before, and `TestedInv` is the property for what the loops
have passed.

**VersionedPlan.** Comparison of versions is a strict partial order within a scheme (`LtIsBelow` and
the lemmas after it). `GraphInv`: each node's selected version is the greatest considered, none is
below the one to start with, and a pinned one is alone: `SelectionHolds`. `WalkInv`: phase 2's stack
and the map of packages in progress agree, and every package emitted has been preceded by what its
features depend on, in versions that were checked: `PlansAreInOrder`. `ChainInv`: each package on the
stack depends on the one above it, so that meeting one of them again gives a set of packages each of
which depends on a member: `CyclesAreReal`.

That phase 2 finds what it asks for needs the other half, `WorkInv`: every dependency of the manifest is
followed (`Followed`: its platform does not hold, its port fails, or its package has the version,
features and default features it asks for) or still in a frame (`Pending`). Each step is one of three
(`StepKinds`): nothing changes in the graph, a node gets a version (`Requires`), or more is asked of it
(`Asks`); nothing asked before is taken back (`Grows`), and what is taken from a frame has been followed
(`Keeps`). `BestCovered` says the same of the dependencies of the selected versions, so at the end of
phase 1, with no frame left, they are all followed. From this come `ErrorsAreRealHolds` and
`PlanHasFeaturesHolds`. They need that nothing is dropped (`NothingDropped`: no selected version lacks a
requested feature), which is disagreement 2 turned around; `NothingIsDropped` shows that it is so where
all versions of a port have the features that dependencies name (`FeaturesExist`), with `SourceInv`:
whatever is in a frame comes from the manifest or from a feature required of a considered version.
The other hypotheses, `MinimumsExist` and `HostFeaturesAgree`, are two observations of section 6.

`Phase1AsDeclaredHolds` is about `Declared`, which is shown to be the least closed declaration
(`DeclaredFacts`) as `LeastPlan` is in InstallPlan. No more than it is applied, in every state
(`AppliesOnlyDeclared`, without hypotheses): each new version, feature or default feature belongs
to the dependency that is being handled, which comes from something applied (`HeadLeads`); a package
gets its default features for not being named by the manifest only when the dependencies of the
manifest are all followed or have failed, because their frame is the first one (`NewIsNotAtTopLevel`).
No less at the end: if versions of a port differ in nothing but their core's dependencies
(`FeaturesStable`, in the property), `AllCovered`, the counterpart of `BestCovered` for all considered
versions, is invariant, so what has been applied is closed. The hypothesis `DefaultsExist` says that a
port's default features are features of it: nothing in the parsers checks it, and a missing one hides
those after it, as in disagreement 2.

`ResolutionDescendsHolds` says why both phases end. A step of phase 1 that changes the graph adds to what is
applied (`ExtendsApplies`), and every other one takes a frame, a dependency, or a feature off the work, or goes
on from a package to its features. The case that needs the invariant is a constraint: a node that gets no new
version keeps its selected one and nothing is pushed, since all others considered are below it
(`ConstrainNothing`). In phase 2 a dependency of a package is walked once, because a package is on the stack
once and never again after it is emitted.

**UploadPipeline** and the modules it extends. The queue: `QueueInvHolds`, for any number of
consumers: with work in the queue some consumer is neither waiting nor ended; `QueueDrained` follows.
The synchronizer, for counters of any width: `SyncIInv` says that the word and both threads' copies
of it consist of two counts and a flag with the bit between them clear (`PackedParts` shows that the
masks find them again), so each successful exchange is one step of the struct
(`SynchronizerBehavesAsStruct`), and the step from a full counter is the one that ends the process.
The pipeline, for any sequence of install actions: each of its steps is one of the synchronizer
(`PipelineBehavesAsStruct`), and `PipeIInv` follows every package from its action to its line:
what was submitted has its line (printed, swapped out or published), is in the push thread's hands or
is queued, in this order (`SplitInv`); submitted packages not yet cleaned up after are in their
directories, and with `--clean-packages-after-build` nothing else is (`DirInv`, which needs that no two
actions share a directory: `DirectoriesDiffer`); the phases of the foreground thread decide whether
more may be submitted, so that a line that says "(x/y)" tells what is left (`PhaseInv`, `CountInv`).
`PipelineInvHolds` and `JoinedMeansDone` follow. (That the wait ends is model-checked.)

**ParallelChildren.** Of the Ctrl-C machine, `InvHolds`: the counter is the number of threads counted
in, less `INT_MIN` once Ctrl-C was accepted (so its sign decides), and a thread or the handler enters
the cleanup only with nobody counted in. `NoProgramIsOrphaned`, `TheShellSurvives`,
`NothingIsStarted`. Of execute_in_parallel, `ParallelInvHolds`: `next_offset` plus the number of
threads that may still add to it stays within `SizeMax` (`RoomInv`), so no fetch_add wraps early;
what was handed out was begun or is held by exactly one thread. `WorkIsGivenOnce`,
`ReturnsWithAllDone`. (The code's precondition "at most SIZE_MAX - work_count" is stricter by one
thread than its bound; the proof shows the bound to be right.) The composition implements each
(`ImplementsBoth`), so these hold of it, and with `BusyInv` (a worker whose program is not counted out
is at work) `NoneIsLeftBehind` follows from `ReturnsWithAllDone`.

**ToolCache.** `OnlyVerifiedHolds`. `VerifiedInv`: once a process has seen that the download is right
(`Seen`: it has checked the hash of its own transfer or of what was there, and not yet looked again),
the download is right or gone, because nothing else is ever renamed there; what is being uploaded was
read then; and a directory about to be renamed is whole, because its name is the process's own. The
action property follows step by step. `ReportIsRightHolds`: `CallsInv` says for each step of a download
what the lines held back and printed so far may be, and which sources are behind it.
`FailsForAReasonHolds` is the action property that a process gives up (on the download, or on a tool
it could not get) only when the sources it may ask have failed; `UnpackInv` says that an archive and its
tool stay where they are, and that what was extracted is whole.

Only model-checked: every liveness property (and `ENABLED`), which is out of the prover's reach. Every
invariant and every action property of the passing runs is stated by a theorem. Of `PlanEnds` and
`ResolutionEnds` the half that is safety is proved: no step leads away from the end. That a finite number of such
steps is possible (well-founded induction) and that there is always one to take (`ENABLED`) is not.

## 9. What is not modelled

* `--x-ignore-lock-failures` and the completion of arguments, under which processes go on without
  the lock. On Windows opening a lock file is taking it; the model has the POSIX form.
* Errors of single file operations in copying and deleting, which the code reports and passes over;
  directories; symbolic links.
* The content of packages: an ABI tag changes with features and dependencies only.
* What a provider of a binary cache does to fetch, check or store a package, which is one step, and
  its failure a miss.
* The parsers of versions, manifests, platform expressions and baselines: the models start from what
  they return. Duplicate or overlapping marks in a feature baseline are reported by its parser.
* In InstallPlan: head versions, editable ports, warnings about minimum versions, packages in the cache
  that manifest mode has built. In VersionedPlan:
  the port providers. In Ci: reports and NuGet descriptions.
* In Downloads: errors in opening or renaming the part file (the latter ends vcpkg), progress output,
  and how the asset source string is parsed. In ToolCache: the fixed path to which Windows extracts a
  self-extracting 7-Zip, which processes share; the search in `PATH`; versions that are too low.
* A Ctrl-C that arrives while the handler is busy has no effect in the model.
* `execute_in_parallel` with a concurrency of 0, which no caller passes, and with no or one piece
  of work, which starts no thread.
* Components with the status `not_modelled` in `PROJECT.json`, with the reason. Most of the
  repository's lines are the vendored test framework, the tests, message texts, sequential parsers
  and printers, and wrappers of system calls and external programs: they have no states that a model
  could tell apart.

## 10. Plan

Done: the installed tree with its locks; plans of both resolvers with the sort; uploading and the
read side of the caches; the test commands and `ci`; Ctrl-C and parallel execution; downloads and tools.

Left, in this order:

1. Processes without the lock, over RunningLocks: what a reader may see.
2. The registries' lock file and git trees.

To check: `tlc -config <cfg> <module>` with the pairs in `PROJECT.json`; to prove: `tlapm
<module>_proofs.tla`.

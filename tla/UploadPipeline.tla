----------------------------- MODULE UploadPipeline -----------------------------
(***************************************************************************)
(* BinaryCache (binarycaching.h and .cpp): packages are installed by the   *)
(* foreground thread and stored in the binary caches by a background       *)
(* thread.  The two share the queue, the synchronizer and the message sink *)
(* of the modules extended here, and the directories of the packages.      *)
(*                                                                         *)
(* The foreground thread is install_execute_plan: for each action it       *)
(* prints the lines published meanwhile, builds or restores the package    *)
(* and submits it (push_success); at the end it waits                      *)
(* (wait_for_async_complete_and_join), once or, with the destructor,       *)
(* twice.  What a provider uploads is what it finds in the directory.      *)
(***************************************************************************)
EXTENDS BackgroundWorkQueue, BinaryCacheSynchronizer, BGMessageSink, FiniteSets

CONSTANTS Ports,           \* the port of each install action, in order
          CleanPackages,   \* --clean-packages-after-build
          Background       \* the push thread

ASSUME PipelineAssumption ==
    /\ Consumer = {Background}
    /\ Ports \in Seq({Ports[i] : i \in DOMAIN Ports})
    /\ Item = 1 .. Len(Ports)
    /\ CleanPackages \in BOOLEAN

VARIABLES
    fg,         \* what the foreground thread is doing
    after,      \* where print_published returns to
    round,      \* 1: the call of wait_for_async_complete_and_join, 2: the destructor's
    begun,      \* the install actions begun
    providers,  \* m_config.write: "unset", "none" or "some"
    dirs,       \* which action's package is in each package directory, 0 for none
    bgStep,     \* what the push thread is doing for the task at hand
    submitted,  \* the actions pushed, in order
    uploads     \* what was uploaded: the task and the package found in its directory

fgVars == <<fg, after, round, begun, providers, submitted>>
pipeVars == <<queueVars, syncVars, sinkVars, fgVars, dirs, bgStep, uploads>>

\* PackagesDirAssigner::generate: a further package of the same port gets a numbered directory.
PackageDir(i) == <<Ports[i], Cardinality({j \in 1 .. i - 1 : Ports[j] = Ports[i]})>>

Dirs == {PackageDir(i) : i \in Item}

\* BinaryCache::BinaryCache has started the push thread, before the providers are set up.
InitPipeline ==
    /\ InitQueue /\ InitSync /\ InitSink
    /\ fg = "setup" /\ after = "ready" /\ round = 1 /\ begun = 0
    /\ providers = "unset"
    /\ dirs = [d \in Dirs |-> 0]
    /\ bgStep = "upload"
    /\ submitted = <<>> /\ uploads = <<>>

Goto(label) == fg' = label /\ UNCHANGED <<after, round, begun, providers, submitted>>

(***************************************************************************)
(* The foreground thread.                                                  *)
(***************************************************************************)
InstallProviders ==
    /\ fg = "setup"
    /\ providers' \in {"none", "some"}
    /\ fg' = "ready"
    /\ UNCHANGED <<queueVars, syncVars, sinkVars, after, round, begun, submitted, dirs, bgStep, uploads>>

BeginAction ==
    /\ fg = "ready"
    /\ begun < Len(Ports)
    /\ begun' = begun + 1
    /\ fg' = "print" /\ after' = "build"
    /\ UNCHANGED <<queueVars, syncVars, sinkVars, round, providers, submitted, dirs, bgStep, uploads>>

\* print_published, called by print_updates and by wait_for_async_complete_and_join.
PrintPublished ==
    \/ /\ fg = "print"
       /\ SwapPublished
       /\ Goto(IF m_published = <<>> THEN after ELSE "printing")
       /\ UNCHANGED <<queueVars, syncVars, dirs, bgStep, uploads>>
    \/ /\ fg = "printing"
       /\ PrintSwapped
       /\ Goto("print")
       /\ UNCHANGED <<queueVars, syncVars, dirs, bgStep, uploads>>

\* The package is built, or restored from a cache, into its directory; or the build fails.
BuildPackage ==
    /\ fg = "build"
    /\ \/ dirs' = [dirs EXCEPT ![PackageDir(begun)] = begun] /\ Goto("push_success")
       \/ dirs' = [dirs EXCEPT ![PackageDir(begun)] = begun] /\ Goto("push_restored")
       \/ dirs' = [dirs EXCEPT ![PackageDir(begun)] = 0] /\ Goto("ready")
    /\ UNCHANGED <<queueVars, syncVars, sinkVars, bgStep, uploads>>

\* push_success of a package that was restored, or with no provider to write to.
CleanUnsubmitted ==
    /\ fg = "push_restored" \/ (fg = "push_success" /\ providers = "none")
    /\ dirs' = IF CleanPackages THEN [dirs EXCEPT ![PackageDir(begun)] = 0] ELSE dirs
    /\ Goto("ready")
    /\ UNCHANGED <<queueVars, syncVars, sinkVars, bgStep, uploads>>

Submit ==
    /\ fg = "push_success" /\ providers = "some"
    /\ AddSubmitted
    /\ Goto("push")
    /\ UNCHANGED <<queueVars, sinkVars, dirs, bgStep, uploads>>

PushTask ==
    /\ fg = "push" /\ Alive
    /\ Push(begun)
    /\ submitted' = Append(submitted, begun)
    /\ fg' = "ready"
    /\ UNCHANGED <<syncVars, sinkVars, after, round, begun, providers, dirs, bgStep, uploads>>

\* wait_for_async_complete_and_join, when the plan is executed or a build fails for good.
BeginWait ==
    /\ fg = "ready"
    /\ fg' = "print" /\ after' = "mark"
    /\ UNCHANGED <<queueVars, syncVars, sinkVars, round, begun, providers, submitted, dirs, bgStep, uploads>>

MarkSubmissionComplete ==
    /\ fg = "mark"
    /\ \/ LoadForMark /\ UNCHANGED fgVars
       \/ CasMark /\ UNCHANGED fgVars
       \/ CasMarkFails /\ UNCHANGED fgVars
       \/ OrMark /\ Goto("publish")
    /\ UNCHANGED <<queueVars, sinkVars, dirs, bgStep, uploads>>

PublishStep ==
    /\ fg = "publish"
    /\ PublishDirectly
    /\ Goto("stop")
    /\ UNCHANGED <<queueVars, syncVars, dirs, bgStep, uploads>>

StopStep ==
    /\ fg = "stop"
    /\ StopQueue
    /\ Goto("join")
    /\ UNCHANGED <<syncVars, sinkVars, dirs, bgStep, uploads>>

\* Fault: the thread is not waited for.
FaultyJoin ==
    /\ fg = "join"
    /\ Goto("joined")
    /\ UNCHANGED <<queueVars, syncVars, sinkVars, dirs, bgStep, uploads>>

Join ==
    /\ fg = "join"
    /\ at[Background] = "ended"
    /\ Goto("joined")
    /\ UNCHANGED <<queueVars, syncVars, sinkVars, dirs, bgStep, uploads>>

\* BinaryCache::~BinaryCache waits again; a command that exits first never comes here.
Destroy ==
    /\ fg = "joined" /\ round = 1
    /\ round' = 2
    /\ fg' = "print" /\ after' = "mark"
    /\ UNCHANGED <<queueVars, syncVars, sinkVars, begun, providers, submitted, dirs, bgStep, uploads>>

(***************************************************************************)
(* The push thread.                                                        *)
(***************************************************************************)
Task == Head(out[Background])

Upload ==
    /\ at[Background] = "working" /\ bgStep = "upload"
    /\ uploads' = Append(uploads, <<Task, dirs[PackageDir(Task)]>>)
    /\ bgStep' = "clean"
    /\ UNCHANGED <<queueVars, syncVars, sinkVars, fgVars, dirs>>

CleanAfterPush ==
    /\ at[Background] = "working" /\ bgStep = "clean"
    /\ dirs' = IF CleanPackages THEN [dirs EXCEPT ![PackageDir(Task)] = 0] ELSE dirs
    /\ bgStep' = "count"
    /\ UNCHANGED <<queueVars, syncVars, sinkVars, fgVars, uploads>>

CountCompleted ==
    /\ at[Background] = "working" /\ bgStep = "count"
    /\ \/ (LoadForCompleted \/ CompletedExceeded \/ CasCompletedFails) /\ UNCHANGED bgStep
       \/ CasCompleted /\ bgStep' = "line"
    /\ UNCHANGED <<queueVars, sinkVars, fgVars, dirs, uploads>>

\* The line says " (completed/submitted)" once the submission is complete.
PrintLine ==
    /\ at[Background] = "working" /\ bgStep = "line"
    /\ Println([task |-> Task, progress |-> progress])
    /\ DoItem(Background)
    /\ bgStep' = "upload"
    /\ UNCHANGED <<syncVars, fgVars, dirs, uploads>>

BackgroundGetWork ==
    /\ GetWork(Background)
    /\ UNCHANGED <<syncVars, sinkVars, fgVars, dirs, bgStep, uploads>>

SpuriousWake ==
    /\ Wake(Background)
    /\ UNCHANGED <<syncVars, sinkVars, fgVars, dirs, bgStep, uploads>>

\* The steps that make progress, for each thread; a weak exchange may also fail though the word is
\* the one expected, and a wait may end unasked.
CasRetry == (CasMarkFails /\ m_state = fgOld) \/ (CasCompletedFails /\ m_state = bgOld)

Foreground ==
    /\ fgAt # "abort" /\ bgAt # "abort"
    /\ \/ InstallProviders \/ BeginAction \/ PrintPublished \/ BuildPackage
       \/ CleanUnsubmitted \/ Submit \/ PushTask \/ BeginWait \/ MarkSubmissionComplete
       \/ PublishStep \/ StopStep \/ Join \/ Destroy

PushThread ==
    /\ fgAt # "abort" /\ bgAt # "abort"
    /\ Upload \/ CleanAfterPush \/ CountCompleted \/ PrintLine \/ BackgroundGetWork

NextPipeline == Foreground \/ PushThread \/ SpuriousWake

Pipeline == InitPipeline /\ [][NextPipeline]_pipeVars

\* Both threads run, and the weak exchange does not fail for ever without a reason.
FairPipeline ==
    /\ Pipeline
    /\ WF_pipeVars(Foreground /\ ~ CasRetry)
    /\ WF_pipeVars(PushThread /\ ~ CasRetry)

--------------------------------------------------------------------------------
\* The work submitted whose completion is not counted yet.
Pending ==
    (IF fg = "push" THEN 1 ELSE 0) + Len(m_tasks) + Len(out[Background])
        - (IF bgStep = "line" THEN 1 ELSE 0)

\* The word agrees with the queue: the difference of its counters is the work that is pending.
CountersMatchQueue == Alive => Submitted(m_state) - Completed(m_state) = Pending

\* The push thread, which is started before the providers are set up, has providers to write to
\* whenever it works (binarycaching.h, condition 4, lines 280-289).
PipelineInv ==
    /\ fg \in {"setup", "ready", "print", "printing", "build", "push_success",
               "push_restored", "push", "mark", "publish", "stop", "join", "joined"}
    /\ dirs \in [Dirs -> 0 .. Len(Ports)]
    /\ SyncInv
    /\ CountersMatchQueue
    /\ at[Background] = "working" => providers = "some"

\* Whoever has waited finds everything done: all submitted packages uploaded in order, every line
\* printed in that order, the "(x/y)" of the last saying that nothing is left, and with
\* --clean-packages-after-build no package directory left.  What was uploaded for an action is the
\* package that action built, though a port may be built more than once ("5. Ensuring that work is
\* not submitted to the background thread until the corresponding packages directory to upload is no
\* longer being actively written").
DoneWhenJoined ==
    fg = "joined" =>
        /\ uploads = [i \in DOMAIN submitted |-> <<submitted[i], submitted[i]>>]
        /\ [i \in DOMAIN console |-> console[i].task] = submitted
        /\ \A i \in DOMAIN console :
              LET p == console[i].progress
              IN  p.submission_complete /\ i = Len(submitted) => p.jobs_completed = p.jobs_submitted
        /\ CleanPackages => \A d \in Dirs : dirs[d] = 0

\* wait_for_async_complete_and_join returns.
WaitEnds == fg = "mark" ~> fg = "joined"
================================================================================

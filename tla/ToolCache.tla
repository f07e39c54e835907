------------------------------- MODULE ToolCache -------------------------------
(***************************************************************************)
(* ToolCacheImpl::get_path and download_tool (tools.cpp): a tool is taken  *)
(* from where an earlier run has put it or from the system, or downloaded  *)
(* and, if it is an archive, extracted.  Processes take no lock for that:  *)
(* each extracts into a directory with its id in the name, and renames     *)
(* it (rename_or_delete, base/files.cpp); whoever comes second deletes its *)
(* own.  A process may be killed anywhere, and another may start with the  *)
(* same id.  Processes of the command x-download only download.            *)
(***************************************************************************)
EXTENDS Downloads

CONSTANTS RenameAttempts,    \* in rename_or_delete: the first one and the length of its list of delays
          MaxKills           \* bound: how many processes are killed

\* The user may force the system's copy of the tool, or forbid it; "never" is a tool that is not
\* looked for in the system.
ASSUME ToolsAssumption ==
    /\ RenameAttempts \in Nat \ {0}
    /\ MaxKills \in Nat
    /\ \A case \in Cases :
        /\ case.exe \in {"absent", "bad", "good"}
        /\ \A p \in Process :
            LET c == case.command[p] IN
            /\ c.for \in {"x-download", "archive", "file"}
            /\ c.for # "x-download" => c.sha = "given"
            /\ c.system \in {"never", "none", "old", "good"}
            /\ c.force \in {"neither", "system", "downloads"}
        \* The processes need the same tool.
        /\ \A p, q \in Process :
            {case.command[p].for, case.command[q].for} # {"archive", "file"}

VARIABLES
    exe,        \* exe_path: absent, bad (it does not run, or says nothing good), plain (not executable), good
    partial,    \* partial[p]: tool_dir_path.partial.<pid of p>
    step,       \* where in get_path and download_tool a process is
    renames,    \* how often rename_or_delete has tried
    kills

vars == <<downloadVars, exe, partial, step, renames, kills>>

IsTool(p) == command[p].for # "x-download"

Init ==
    \E case \in Cases :
        /\ DownloadInit(case)
        /\ exe = case.exe
        /\ pc = [p \in Process |-> IF IsTool(p) THEN "idle" ELSE "begin"]
        /\ partial = [p \in Process |-> "absent"]
        /\ step = [p \in Process |-> IF IsTool(p) THEN "look" ELSE "none"]
        /\ renames = [p \in Process |-> 0]
        /\ kills = 0

StepTo(p, label) == step' = [step EXCEPT ![p] = label]

DownloadAvailable(p) == command[p].urls > 0
ConsiderSystem(p) ==
    /\ command[p].system # "never"
    /\ ~(command[p].force = "downloads" /\ DownloadAvailable(p))
ConsiderDownloads(p) == command[p].force # "system" \/ ~ConsiderSystem(p)

\* Candidates are run and asked for their version, unless the system's copy is forced.
Usable(p, candidate) ==
    IF command[p].force = "system" THEN candidate \notin {"absent", "none"} ELSE candidate = "good"

Found(p) ==
    \/ ConsiderDownloads(p) /\ DownloadAvailable(p) /\ Usable(p, exe)
    \/ ConsiderSystem(p) /\ Usable(p, command[p].system)

\* get_path takes the first candidate that will do, or downloads the tool if it may.
Look(p) ==
    /\ step[p] = "look"
    /\ \/ Found(p) /\ StepTo(p, "found")
       \/ ~Found(p) /\ ConsiderDownloads(p) /\ DownloadAvailable(p) /\ StepTo(p, "hash")
       \/ ~Found(p) /\ ~(ConsiderDownloads(p) /\ DownloadAvailable(p)) /\ StepTo(p, "missing")
    /\ UNCHANGED <<downloadVars, exe, partial, renames, kills>>

\* download_tool: the download may be there.
HashDownload(p) ==
    /\ step[p] = "hash"
    /\ \/ file = "right" /\ StepTo(p, "got") /\ UNCHANGED pc
       \/ file \notin {"right", "absent"} /\ StepTo(p, "missing") /\ UNCHANGED pc
       \/ file = "absent" /\ StepTo(p, "download") /\ GoTo(p, "begin")
    /\ UNCHANGED <<command, net, cache, file, part, fetch, exe, partial, renames, kills>>

Downloaded(p) ==
    /\ step[p] = "download"
    /\ \/ pc[p] = "succeeded" /\ StepTo(p, "got")
       \/ pc[p] = "failed" /\ StepTo(p, "missing")
    /\ UNCHANGED <<downloadVars, exe, partial, renames, kills>>

\* Fault: the directory's name has no process id, so that everybody's is removed.
FaultyPrepare(p) ==
    /\ step[p] = "got"
    /\ partial' = [q \in Process |-> "torn"]
    /\ StepTo(p, IF command[p].for = "archive" THEN "extract" ELSE "rename")
    /\ renames' = [renames EXCEPT ![p] = 0]
    /\ UNCHANGED <<downloadVars, exe, kills>>

\* extract_archive_to_temp_subdirectory makes a fresh directory; a single file is renamed as it is.
Prepare(p) ==
    /\ step[p] = "got"
    /\ \/ /\ command[p].for = "archive"
          /\ partial' = [partial EXCEPT ![p] = "torn"]
          /\ StepTo(p, "extract")
       \/ /\ command[p].for = "file"
          /\ UNCHANGED partial
          /\ StepTo(p, "rename")
    /\ renames' = [renames EXCEPT ![p] = 0]
    /\ UNCHANGED <<downloadVars, exe, kills>>

\* The program that extracts ends.  It does what it should with the right archive.
Extract(p) ==
    /\ step[p] = "extract"
    /\ \/ /\ file = "right"
          /\ partial' = [partial EXCEPT ![p] = "whole"]
          /\ StepTo(p, "rename")
       \/ /\ file # "right"
          /\ UNCHANGED partial
          /\ StepTo(p, "missing")
    /\ UNCHANGED <<downloadVars, exe, renames, kills>>

\* rename replaces a file, and does not replace a directory with something in it.
Rename(p) ==
    /\ step[p] = "rename"
    /\ \/ /\ command[p].for = "archive" /\ exe = "absent"
          /\ exe' = IF partial[p] = "whole" THEN "plain" ELSE "bad"
          /\ partial' = [partial EXCEPT ![p] = "absent"]
          /\ UNCHANGED file
       \/ /\ command[p].for = "file" /\ file # "absent"
          /\ exe' = IF file = "right" THEN "plain" ELSE "bad"
          /\ file' = "absent"
          /\ UNCHANGED partial
    /\ StepTo(p, "check")
    /\ UNCHANGED <<command, net, cache, part, pc, fetch, renames, kills>>

\* Fault: it is tried again for ever.
FaultyRenameFails(p) ==
    /\ step[p] = "rename"
    /\ StepTo(p, "refused")
    /\ UNCHANGED <<downloadVars, exe, partial, renames, kills>>

\* The rename fails, because of what is there, or because a file is open.  After the last attempt
\* nothing else is tried.
RenameFails(p) ==
    /\ step[p] = "rename"
    /\ renames' = [renames EXCEPT ![p] = @ + 1]
    /\ StepTo(p, IF renames[p] + 1 = RenameAttempts THEN "missing" ELSE "refused")
    /\ UNCHANGED <<downloadVars, exe, partial, kills>>

\* Another process has won: the own copy is deleted.
TargetExists(p) ==
    /\ step[p] = "refused"
    /\ exe # "absent"
    /\ \/ /\ command[p].for = "archive"
          /\ partial' = [partial EXCEPT ![p] = "absent"]
          /\ UNCHANGED file
       \/ /\ command[p].for = "file"
          /\ file' = "absent"
          /\ UNCHANGED partial
    /\ StepTo(p, "check")
    /\ UNCHANGED <<command, net, cache, part, pc, fetch, exe, renames, kills>>

RenameAgain(p) ==
    /\ step[p] = "refused"
    /\ exe = "absent"
    /\ StepTo(p, "rename")
    /\ UNCHANGED <<downloadVars, exe, partial, renames, kills>>

\* "Expected path to exist after extracting".
CheckExists(p) ==
    /\ step[p] = "check"
    /\ StepTo(p, IF command[p].for = "archive" /\ exe = "absent" THEN "missing" ELSE "chmod")
    /\ UNCHANGED <<downloadVars, exe, partial, renames, kills>>

SetExecutable(p) ==
    /\ step[p] = "chmod"
    /\ exe' = IF exe = "plain" THEN "good" ELSE exe
    /\ StepTo(p, "version")
    /\ UNCHANGED <<downloadVars, partial, renames, kills>>

GetVersion(p) ==
    /\ step[p] = "version"
    /\ StepTo(p, IF exe = "good" THEN "found" ELSE "missing")
    /\ UNCHANGED <<downloadVars, exe, partial, renames, kills>>

Returned(p) == IF IsTool(p) THEN step[p] \in {"found", "missing"} ELSE pc[p] \in {"succeeded", "failed"}

\* The process is killed, and what it leaves on disk meets another one with the same id.
Kill(p) ==
    /\ kills < MaxKills
    /\ ~Returned(p)
    /\ kills' = kills + 1
    /\ IF IsTool(p) THEN StepTo(p, "look") /\ GoTo(p, "idle") ELSE UNCHANGED step /\ GoTo(p, "begin")
    /\ UNCHANGED <<command, net, cache, file, part, fetch, exe, partial, renames>>

ToolStep(p) ==
    \/ DownloadStep(p) /\ UNCHANGED <<exe, partial, step, renames, kills>>
    \/ Look(p) \/ HashDownload(p) \/ Downloaded(p) \/ Prepare(p) \/ Extract(p)
    \/ Rename(p) \/ RenameFails(p) \/ TargetExists(p) \/ RenameAgain(p)
    \/ CheckExists(p) \/ SetExecutable(p) \/ GetVersion(p)

Next == \E p \in Process : ToolStep(p) \/ Kill(p)

Spec == Init /\ [][Next]_vars

\* Processes run, servers answer or end the connection, and programs end.
FairSpec == Spec /\ \A p \in Process : WF_vars(ToolStep(p))

--------------------------------------------------------------------------------
\* Only verified bytes get to where others look for them: the download, the tool, and (but for an
\* upload in work) the asset cache; and a tool that was unpacked and works is not touched again,
\* whoever else unpacks it and whoever is killed.
OnlyVerified ==
    [][(\A p \in Process : HasSha(p)) =>
        /\ file' # file => file' \in {"right", "absent"}
        /\ cache' # cache => cache' \in {"right", "torn"}
        /\ exe' # exe => exe' \in {"plain", "good"}
        /\ exe = "good" /\ (\A p \in Process : command[p].for = "archive") => exe' = "good"]_vars

\* The bytes a source sends, if any, however often it must be asked.
Sent(answer) == IF answer = "blip" THEN "right" ELSE answer

Gives(p, answer) == Sent(answer) \in {"right", "wrong"} /\ Acceptable(p, Sent(answer))

\* The download fails only if no source that it may use has the file: no URL unless the origin is
\* blocked, not the asset cache when it was asked, and not its script, unless the asset cache
\* failed as no script could mend (the script is asked when the cache sends wrong bytes, or when
\* there is none).
DownloadFailsForAReason(p) ==
    pc[p] = "failed" /\ command[p].sha # "zero" =>
        /\ ~command[p].block =>
                \A u \in 1 .. command[p].urls : ~Gives(p, net.url[u])
        /\ ReadsUrlCache(p) => "azurl" \in ToSet(fetch[p].printed)
        /\ command[p].script /\ (HasSha(p) \/ command[p].urls > 0) =>
                \/ ~Gives(p, net.script)
                \/ fetch[p].asset_cache_prognosis # OtherError

\* The process ends without a tool that it may download.
GivesUp(p) ==
    /\ IsTool(p) /\ step[p] # "missing" /\ step'[p] = "missing"
    /\ ConsiderDownloads(p) /\ DownloadAvailable(p)

\* A tool that may be downloaded is found, unless the download fails or what lies in its place is
\* bad, or renaming it fails again and again.  It does not matter what others do at the same time,
\* nor where earlier processes were killed.  Except a tool in a single file: another process may
\* replace it by its own copy before that is executable.
FailsForAReason ==
    [][\A p \in Process :
        /\ DownloadFailsForAReason(p)'
        /\ GivesUp(p) =>
                \/ pc[p] = "failed"
                \/ file \notin {"right", "absent"}
                \/ exe = "bad"
                \/ renames'[p] = RenameAttempts
                \/ command[p].for = "file"]_vars

\* When a download returns, both attempts' lines are printed or forgotten (the destructor ends a
\* debug build otherwise).  Success from the first URL says nothing of the asset cache's failures.
\* The note about proxies is given just if the download fails and some source failed in a way that
\* a proxy might mend, once, and below the last such failure: no URL of those that are still
\* printed below it was one.
ReportIsRight ==
    \A p \in Process :
        LET printed == fetch[p].printed
            notes == {i \in DOMAIN printed : printed[i] = "proxy"}
        IN  pc[p] \in {"succeeded", "failed"} =>
                /\ fetch[p].assetLines = <<>> /\ fetch[p].lines = <<>>
                /\ pc[p] = "succeeded" => notes = {}
                /\ pc[p] = "succeeded" /\ fetch[p].url = 1 => ToSet(printed) \subseteq {"warning"}
                /\ pc[p] = "failed" /\ "zero" \notin ToSet(printed) =>
                        /\ \A i \in notes : \A j \in i + 1 .. Len(printed) :
                                /\ printed[j] = "url"
                                /\ net.url[fetch[p].url + j - Len(printed)] # "refused"
                        /\ notes # {} <=>
                                \/ fetch[p].asset_cache_prognosis = NetworkErrorProxyMightHelp
                                \/ \E u \in 1 .. fetch[p].url : net.url[u] = "refused"

\* Every process returns.
Ends == <>[](\A p \in Process : Returned(p))
================================================================================

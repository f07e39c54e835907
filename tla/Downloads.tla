------------------------------- MODULE Downloads -------------------------------
(***************************************************************************)
(* download_file_asset_cached (base/downloads.cpp): a file is looked for   *)
(* in the asset cache by its SHA-512, then by the asset cache's script,    *)
(* then at the authoritative URLs, until one source gives bytes with the   *)
(* right hash.  Errors are collected in two AttemptDiagnosticContexts,     *)
(* which are printed (commit) or forgotten (handle) once it is known       *)
(* whether the download as a whole fails.  What was downloaded from a URL  *)
(* is stored back to the asset cache.                                      *)
(*                                                                         *)
(* Several processes may download the same file.  A transfer writes        *)
(* download_path.<pid>.part, which is renamed when its hash is right.  The *)
(* bytes of a file are "right" or "wrong" (by the hash that is expected),  *)
(* "torn" as long as they are being written, or the file is "absent".      *)
(***************************************************************************)
EXTENDS Naturals, Sequences, SequencesExt

CONSTANTS Process,
          Cases    \* how processes may be called, and what they find: see CasesAssumption

Bytes == {"absent", "torn", "wrong", "right"}

\* A SHA is given, not given, or all zeros, which asks for the SHA of what is there.  A server
\* refuses (an error that a proxy might mend), is busy (a transient error), is busy once, or sends
\* bytes; the asset cache's server, if it is up, sends what is stored.
ASSUME CasesAssumption ==
    \A case \in Cases :
        /\ \A p \in Process :
            LET c == case.command[p] IN
            /\ c.sha \in {"given", "none", "zero"}
            /\ c.urls \in Nat
            /\ {c.azurl, c.script, c.write, c.block} \subseteq BOOLEAN
            /\ \A u \in 1 .. c.urls : case.net.url[u] \in {"right", "wrong", "blip", "busy", "refused"}
        /\ case.net.azurl \in {"up", "busy", "refused"}
        /\ case.net.script \in {"right", "wrong", "nothing", "fails"}
        /\ {case.cache, case.file} \subseteq Bytes

VARIABLES
    command,    \* command[p]: the arguments, and m_read_url_template, m_script, ... of its settings
    net,
    cache,      \* what is stored in the asset cache under the SHA
    file,       \* download_path
    part,       \* part[p]: download_path.<pid of p>.part
    pc,
    fetch       \* the local variables of the call, with the lines it has printed

downloadVars == <<command, net, cache, file, part, pc, fetch>>

\* enum DownloadPrognosis, in the order in which check_combine_download_prognosis prefers them.
Success == 0
TransientNetworkError == 1
OtherError == 2
NetworkErrorProxyMightHelp == 3

Combine(target, individual_call) == IF individual_call > target THEN individual_call ELSE target

ProxyNote(prognosis) == IF prognosis = NetworkErrorProxyMightHelp THEN <<"proxy">> ELSE <<>>

\* Fault: the last delay is not followed by an attempt.
FaultyAttempts == 1

\* try_download_file has two delays, and so makes two attempts.
Attempts == 2

NoFetch == [asking |-> "nothing", url |-> 0, attempt |-> 0, sent |-> "absent",
            asset_cache_prognosis |-> Success, authoritative_prognosis |-> Success,
            assetLines |-> <<>>, lines |-> <<>>, printed |-> <<>>]

DownloadInit(case) ==
    /\ command = case.command
    /\ net = case.net
    /\ cache = case.cache
    /\ file = case.file
    /\ part = [p \in Process |-> "absent"]
    /\ fetch = [p \in Process |-> NoFetch]

HasSha(p) == command[p].sha = "given"
ReadsUrlCache(p) == command[p].azurl /\ HasSha(p)
CanReadAssetCache(p) ==
    \/ ReadsUrlCache(p)
    \/ command[p].script /\ (HasSha(p) \/ command[p].urls > 0)

\* check_downloaded_file_hash: without a SHA all bytes will do.
Acceptable(p, bytes) == HasSha(p) => bytes = "right"

GoTo(p, label) == pc' = [pc EXCEPT ![p] = label]

\* commit() and handle() of the two AttemptDiagnosticContexts, and what is printed at once.
CommitAssetLines(f) == [f EXCEPT !.printed = @ \o f.assetLines, !.assetLines = <<>>]
CommitLines(f) == [f EXCEPT !.printed = @ \o f.lines, !.lines = <<>>]
Handle(f) == [f EXCEPT !.assetLines = <<>>, !.lines = <<>>]
Report(f, lines) == [f EXCEPT !.printed = @ \o lines]

\* What an attempt in the asset cache and one at a URL leave when they fail, and going on.
AssetFails(f, line) == [f EXCEPT !.assetLines = Append(@, line)]
NotInCache(f, prognosis) == [f EXCEPT !.asset_cache_prognosis = Combine(@, prognosis)]
NotAtUrl(f, prognosis) ==
    [f EXCEPT !.lines = Append(@, "url"),
              !.authoritative_prognosis = Combine(@, prognosis)]
AtUrl(f, url) == [f EXCEPT !.asking = "url", !.url = url, !.attempt = 0]
AgainAt(f) == [f EXCEPT !.attempt = @ + 1]
Sending(f, bytes) == [f EXCEPT !.sent = bytes]

FetchBecomes(p, f) == fetch' = [fetch EXCEPT ![p] = f]

\* The call returns.  For a zero SHA the SHA of what was downloaded is reported as an error.
Succeeds(p, f) ==
    IF command[p].sha = "zero"
    THEN GoTo(p, "failed") /\ FetchBecomes(p, Report(f, <<"zero">>))
    ELSE GoTo(p, "succeeded") /\ FetchBecomes(p, f)

Fails(p, f) == GoTo(p, "failed") /\ FetchBecomes(p, f)

\* The guards at the beginning: without URLs there must be an asset cache to read.
Begin(p) ==
    /\ pc[p] = "begin"
    /\ \/ /\ command[p].urls = 0 /\ ~CanReadAssetCache(p)
          /\ Fails(p, Report(NoFetch, <<"nowhere">>))
       \/ /\ command[p].urls > 0 \/ CanReadAssetCache(p)
          /\ GoTo(p, IF ReadsUrlCache(p) THEN "connect" ELSE "script")
          /\ FetchBecomes(p, [NoFetch EXCEPT !.asking = "azurl"])
    /\ UNCHANGED <<command, net, cache, file, part>>

\* perform_download opens the part file and truncates it.
Connect(p) ==
    /\ pc[p] = "connect"
    /\ GoTo(p, "transfer")
    /\ part' = [part EXCEPT ![p] = "torn"]
    /\ UNCHANGED <<command, net, cache, file, fetch>>

Answer(p) ==
    LET url == net.url[fetch[p].url] IN
    CASE fetch[p].asking = "url" ->
            IF url = "blip" THEN IF fetch[p].attempt = 0 THEN "busy" ELSE "right" ELSE url
      [] fetch[p].asking # "url" /\ net.azurl # "up" -> net.azurl
      [] OTHER -> IF cache = "absent" THEN "refused" ELSE cache

\* The asset cache has not got the file.
NotCached(p, f, prognosis) == GoTo(p, "missed") /\ FetchBecomes(p, NotInCache(f, prognosis))

\* The authoritative attempt fails: the first failure prints what was collected up to then.
UrlFails(p, prognosis) ==
    LET f == NotAtUrl(fetch[p], prognosis)
        g == IF fetch[p].url = 1 THEN CommitLines(CommitAssetLines(f)) ELSE f
    IN  \/ /\ fetch[p].url = command[p].urls
           /\ GoTo(p, "exhausted")
           /\ FetchBecomes(p, g)
        \/ /\ fetch[p].url # command[p].urls
           /\ GoTo(p, "connect")
           /\ FetchBecomes(p, AtUrl(g, fetch[p].url + 1))

\* try_download_file fails.  Only after an OtherError of the URL cache the script is asked.
AttemptFails(p, prognosis) ==
    \/ fetch[p].asking = "url" /\ UrlFails(p, prognosis)
    \/ /\ fetch[p].asking # "url" /\ prognosis = OtherError
       /\ GoTo(p, "script")
       /\ FetchBecomes(p, AssetFails(fetch[p], "azurl"))
    \/ /\ fetch[p].asking # "url" /\ prognosis # OtherError
       /\ NotCached(p, AssetFails(fetch[p], "azurl"), prognosis)

\* The server has answered: it was busy, and is asked once more if this was the first attempt; it
\* has refused; or it has sent all its bytes.
Transfer(p) ==
    /\ pc[p] = "transfer"
    /\ UNCHANGED <<command, net, cache, file>>
    /\ \/ /\ Answer(p) = "busy"
          /\ UNCHANGED part
          /\ \/ /\ fetch[p].attempt + 1 < Attempts
                /\ GoTo(p, "connect")
                /\ FetchBecomes(p, AgainAt(fetch[p]))
             \/ /\ fetch[p].attempt + 1 >= Attempts
                /\ AttemptFails(p, TransientNetworkError)
       \/ /\ Answer(p) = "refused"
          /\ UNCHANGED part
          /\ AttemptFails(p, NetworkErrorProxyMightHelp)
       \/ /\ Answer(p) \in {"right", "wrong", "torn"}
          /\ part' = [part EXCEPT ![p] = Answer(p)]
          /\ GoTo(p, "check")
          /\ UNCHANGED fetch

\* check_downloaded_file_hash, and the rename.
Check(p) ==
    /\ pc[p] = "check"
    /\ \/ /\ Acceptable(p, part[p])
          /\ file' = part[p]
          /\ part' = [part EXCEPT ![p] = "absent"]
          /\ GoTo(p, "arrived")
          /\ UNCHANGED fetch
       \/ /\ ~Acceptable(p, part[p])
          /\ AttemptFails(p, OtherError)
          /\ UNCHANGED <<file, part>>
    /\ UNCHANGED <<command, net, cache>>

\* The script ends, and has written its destination or not; what a killed process with the same
\* id has left there counts.  Its hash is compared only if one is expected.
Script(p) ==
    LET dst == IF net.script \in {"right", "wrong"} THEN net.script ELSE part[p]
    IN  /\ pc[p] = "script"
        /\ UNCHANGED <<command, net, cache>>
        /\ \/ /\ ~command[p].script
              /\ NotCached(p, fetch[p], OtherError)
              /\ UNCHANGED <<file, part>>
           \/ /\ command[p].script
              /\ net.script = "fails" \/ dst = "absent" \/ ~Acceptable(p, dst)
              /\ part' = [part EXCEPT ![p] = dst]
              /\ NotCached(p, AssetFails(fetch[p], "script"), OtherError)
              /\ UNCHANGED file
           \/ /\ command[p].script
              /\ net.script # "fails" /\ dst # "absent" /\ Acceptable(p, dst)
              /\ file' = dst
              /\ part' = [part EXCEPT ![p] = "absent"]
              /\ GoTo(p, "arrived")
              /\ UNCHANGED fetch

\* The asset cache has missed.
Missed(p) ==
    LET f == CommitAssetLines(fetch[p])
        note == ProxyNote(fetch[p].asset_cache_prognosis)
    IN  /\ pc[p] = "missed"
        /\ \/ command[p].urls = 0 /\ Fails(p, Report(f, <<"miss">> \o note))
           \/ /\ command[p].urls > 0 /\ command[p].block
              /\ Fails(p, Report(f, <<"blocked">> \o note))
           \/ /\ command[p].urls > 0 /\ ~command[p].block
              /\ GoTo(p, "connect")
              /\ FetchBecomes(p, AtUrl(fetch[p], 1))
        /\ UNCHANGED <<command, net, cache, file, part>>

\* Fault: the note about proxies is given for the asset cache and for the URLs.
FaultyExhausted(p) ==
    LET f == fetch[p] IN
    /\ pc[p] = "exhausted"
    /\ Fails(p, Report(CommitLines(CommitAssetLines(f)),
                       ProxyNote(f.asset_cache_prognosis) \o ProxyNote(f.authoritative_prognosis)))
    /\ UNCHANGED <<command, net, cache, file, part>>

\* No URL has given the file.
Exhausted(p) ==
    LET f == fetch[p] IN
    /\ pc[p] = "exhausted"
    /\ IF /\ f.asset_cache_prognosis = NetworkErrorProxyMightHelp
          /\ f.authoritative_prognosis # NetworkErrorProxyMightHelp
       THEN Fails(p, CommitLines(Report(CommitAssetLines(f), <<"proxy">>)))
       ELSE Fails(p, Report(CommitLines(CommitAssetLines(f)),
                        ProxyNote(Combine(f.authoritative_prognosis, f.asset_cache_prognosis))))
    /\ UNCHANGED <<command, net, cache, file, part>>

\* The file has come from the asset cache, or from a URL, and then may have to be stored.
Arrived(p) ==
    LET f == fetch[p] IN
    /\ pc[p] = "arrived"
    /\ \/ f.asking = "azurl" /\ Succeeds(p, CommitAssetLines(f))
       \/ f.asking = "url" /\ ~(command[p].write /\ HasSha(p)) /\ Succeeds(p, Handle(f))
       \/ /\ f.asking = "url" /\ command[p].write /\ HasSha(p)
          /\ GoTo(p, "store")
          /\ FetchBecomes(p, Handle(f))
    /\ UNCHANGED <<command, net, cache, file, part>>

\* store_to_asset_cache opens the file, if it is still there.  Some servers (a file:// URL) write
\* in place.
Store(p) ==
    /\ pc[p] = "store"
    /\ \/ /\ file = "absent"
          /\ Succeeds(p, Report(fetch[p], <<"warning">>))
          /\ UNCHANGED cache
       \/ /\ file # "absent"
          /\ GoTo(p, "storing")
          /\ FetchBecomes(p, Sending(fetch[p], file))
          /\ cache' \in {cache, "torn"}
    /\ UNCHANGED <<command, net, file, part>>

\* The upload ends, or fails, which is only worth a warning.
StoreEnds(p) ==
    /\ pc[p] = "storing"
    /\ \/ cache' = fetch[p].sent /\ Succeeds(p, fetch[p])
       \/ UNCHANGED cache /\ Succeeds(p, Report(fetch[p], <<"warning">>))
    /\ UNCHANGED <<command, net, file, part>>

DownloadStep(p) ==
    \/ Begin(p) \/ Connect(p) \/ Transfer(p) \/ Check(p) \/ Script(p)
    \/ Missed(p) \/ Exhausted(p) \/ Arrived(p) \/ Store(p) \/ StoreEnds(p)
================================================================================

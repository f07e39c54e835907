---------------------------- MODULE ToolCache_proofs ----------------------------
(***************************************************************************)
(* What gets to a place where others look for it was verified, and a tool  *)
(* that works stays (OnlyVerified); a process that gives up has a reason   *)
(* (FailsForAReason), and what it prints fits what happened                *)
(* (ReportIsRight): for any number of processes, URLs, attempts to rename  *)
(* and killed processes.                                                   *)
(***************************************************************************)
EXTENDS ToolCache, SequenceTheorems, TLAPS

TypeInv ==
    /\ DOMAIN pc = Process
    /\ DOMAIN part = Process
    /\ DOMAIN fetch = Process
    /\ DOMAIN partial = Process
    /\ DOMAIN step = Process
    /\ \A p \in Process : "sent" \in DOMAIN fetch[p]

AllSha == \A p \in Process : HasSha(p)

\* Where a process has seen that the download is right.
Seen(p) ==
    \/ pc[p] \in {"arrived", "store", "storing", "succeeded"}
    \/ step[p] \in {"got", "extract", "rename", "refused"}

SendsVerified(p) == pc[p] = "storing" => fetch[p].sent = "right"

RenamesWhole(p) ==
    step[p] \in {"rename", "refused"} /\ command[p].for = "archive" => partial[p] = "whole"

\* Nobody puts other bytes there later; what is uploaded, extracted or renamed is right.
VerifiedInv ==
    /\ \A p \in Process : Seen(p) => file \in {"right", "absent"}
    /\ \A p \in Process : SendsVerified(p)
    /\ \A p \in Process : RenamesWhole(p)

IInv == AllSha => TypeInv /\ VerifiedInv

\* What OnlyVerified says of a step.
Verified ==
    /\ file' # file => file' \in {"right", "absent"}
    /\ cache' # cache => cache' \in {"right", "torn"}
    /\ exe' # exe => exe' \in {"plain", "good"}
    /\ exe = "good" /\ (\A p \in Process : command[p].for = "archive") => exe' = "good"

\* A step of one process, and where it goes on.
MovesTo(p, labels) ==
    /\ pc'[p] \in labels
    /\ \A q \in Process : q # p => pc'[q] = pc[q] /\ fetch'[q] = fetch[q]
    /\ DOMAIN pc' = Process
    /\ DOMAIN fetch' = Process
    /\ "sent" \in DOMAIN fetch'[p]

--------------------------------------------------------------------------------
\* The local variables keep their fields, whatever an attempt does to them.
LEMMA FetchFields ==
    /\ "sent" \in DOMAIN NoFetch
    /\ \A f : "sent" \in DOMAIN f =>
        /\ "sent" \in DOMAIN CommitAssetLines(f)
        /\ "sent" \in DOMAIN CommitLines(f)
        /\ "sent" \in DOMAIN Handle(f)
        /\ \A lines : "sent" \in DOMAIN Report(f, lines)
        /\ \A line : "sent" \in DOMAIN AssetFails(f, line)
        /\ \A prognosis : /\ "sent" \in DOMAIN NotInCache(f, prognosis)
                          /\ "sent" \in DOMAIN NotAtUrl(f, prognosis)
        /\ \A url : "sent" \in DOMAIN AtUrl(f, url)
        /\ "sent" \in DOMAIN AgainAt(f)
        /\ \A bytes : "sent" \in DOMAIN Sending(f, bytes) /\ Sending(f, bytes).sent = bytes
<1>1. "sent" \in DOMAIN NoFetch
  BY DEF NoFetch
<1>2. ASSUME NEW f, "sent" \in DOMAIN f
      PROVE  /\ "sent" \in DOMAIN CommitAssetLines(f)
             /\ "sent" \in DOMAIN CommitLines(f)
             /\ "sent" \in DOMAIN Handle(f)
             /\ \A lines : "sent" \in DOMAIN Report(f, lines)
             /\ \A line : "sent" \in DOMAIN AssetFails(f, line)
  BY <1>2 DEF CommitAssetLines, CommitLines, Handle, Report, AssetFails
<1>3. ASSUME NEW f, "sent" \in DOMAIN f
      PROVE  /\ \A prognosis : /\ "sent" \in DOMAIN NotInCache(f, prognosis)
                               /\ "sent" \in DOMAIN NotAtUrl(f, prognosis)
             /\ \A url : "sent" \in DOMAIN AtUrl(f, url)
             /\ "sent" \in DOMAIN AgainAt(f)
             /\ \A bytes : "sent" \in DOMAIN Sending(f, bytes) /\ Sending(f, bytes).sent = bytes
  BY <1>3 DEF NotInCache, NotAtUrl, AtUrl, AgainAt, Sending
<1>. QED
  BY <1>1, <1>2, <1>3

\* A step that goes on to one place with new local variables.
LEMMA Going ==
    ASSUME TypeInv, NEW p \in Process, NEW label, NEW f, "sent" \in DOMAIN f,
           GoTo(p, label), FetchBecomes(p, f)
    PROVE  MovesTo(p, {label}) /\ fetch'[p] = f
  BY DEF TypeInv, GoTo, FetchBecomes, MovesTo

LEMMA GoingOn ==
    ASSUME TypeInv, NEW p \in Process, NEW label, GoTo(p, label), UNCHANGED fetch
    PROVE  MovesTo(p, {label})
  BY DEF TypeInv, GoTo, MovesTo

LEMMA Ending ==
    ASSUME TypeInv, NEW p \in Process, NEW f, "sent" \in DOMAIN f
    PROVE  /\ Succeeds(p, f) => MovesTo(p, {"succeeded", "failed"})
           /\ Fails(p, f) => MovesTo(p, {"failed"})
<1>1. ASSUME Fails(p, f)
      PROVE  MovesTo(p, {"failed"})
  BY <1>1, Going DEF Fails
<1>2. ASSUME Succeeds(p, f)
      PROVE  MovesTo(p, {"succeeded", "failed"})
  <2>1. CASE command[p].sha = "zero"
    <3>. DEFINE g == Report(f, <<"zero">>)
    <3>1. "sent" \in DOMAIN g
      BY FetchFields
    <3>2. GoTo(p, "failed") /\ FetchBecomes(p, g)
      BY <1>2, <2>1 DEF Succeeds
    <3>. HIDE DEF g
    <3>. QED
      BY <3>1, <3>2, Going DEF MovesTo
  <2>2. CASE command[p].sha # "zero"
    <3>1. GoTo(p, "succeeded") /\ FetchBecomes(p, f)
      BY <1>2, <2>2 DEF Succeeds
    <3>. QED
      BY <3>1, Going DEF MovesTo
  <2>. QED
    BY <2>1, <2>2
<1>. QED
  BY <1>1, <1>2

LEMMA Failing ==
    ASSUME TypeInv, NEW p \in Process, NEW prognosis, AttemptFails(p, prognosis)
    PROVE  MovesTo(p, {"exhausted", "connect", "script", "missed"})
<1>0. "sent" \in DOMAIN fetch[p]
  BY DEF TypeInv
<1>1. CASE UrlFails(p, prognosis)
  <2>. DEFINE f == NotAtUrl(fetch[p], prognosis)
              g == IF fetch[p].url = 1 THEN CommitLines(CommitAssetLines(f)) ELSE f
              h == AtUrl(g, fetch[p].url + 1)
  <2>1. "sent" \in DOMAIN f
    BY <1>0, FetchFields
  <2>2. "sent" \in DOMAIN CommitAssetLines(f)
    BY <2>1, FetchFields
  <2>3. "sent" \in DOMAIN CommitLines(CommitAssetLines(f))
    BY <2>2, FetchFields
  <2>4. "sent" \in DOMAIN g
    BY <2>1, <2>3
  <2>5. "sent" \in DOMAIN h
    BY <2>4, FetchFields
  <2>6. \/ GoTo(p, "exhausted") /\ FetchBecomes(p, g)
        \/ GoTo(p, "connect") /\ FetchBecomes(p, h)
    BY <1>1 DEF UrlFails
  <2>. HIDE DEF g, h
  <2>. QED
    BY <2>4, <2>5, <2>6, Going DEF MovesTo
<1>2. CASE GoTo(p, "script") /\ FetchBecomes(p, AssetFails(fetch[p], "azurl"))
  <2>. DEFINE f == AssetFails(fetch[p], "azurl")
  <2>1. "sent" \in DOMAIN f
    BY <1>0, FetchFields
  <2>. HIDE DEF f
  <2>. QED
    BY <1>2, <2>1, Going DEF MovesTo, f
<1>3. CASE NotCached(p, AssetFails(fetch[p], "azurl"), prognosis)
  <2>. DEFINE f == NotInCache(AssetFails(fetch[p], "azurl"), prognosis)
  <2>1. "sent" \in DOMAIN f
    BY <1>0, FetchFields
  <2>2. GoTo(p, "missed") /\ FetchBecomes(p, f)
    BY <1>3 DEF NotCached
  <2>. HIDE DEF f
  <2>. QED
    BY <2>1, <2>2, Going DEF MovesTo
<1>. QED
  BY <1>1, <1>2, <1>3 DEF AttemptFails

--------------------------------------------------------------------------------
\* A step of a process that is not in a place where more is known of it afterwards, and which puts
\* only verified bytes there.
LEMMA DownloadKeeps ==
    ASSUME IInv, AllSha, NEW p \in Process, NEW labels, MovesTo(p, labels),
           UNCHANGED <<command, net, exe, partial, step>>,
           DOMAIN part' = Process,
           file' = file \/ file' = "right",
           cache' # cache => cache' \in {"right", "torn"},
           pc'[p] \in {"arrived", "store", "storing", "succeeded"} => Seen(p) \/ file' = "right",
           pc'[p] = "storing" => fetch'[p].sent = "right"
    PROVE  IInv' /\ Verified
<1>1. TypeInv'
  BY DEF IInv, TypeInv, MovesTo
<1>2. ASSUME NEW q \in Process, Seen(q)'
      PROVE  file' \in {"right", "absent"}
  <2>1. Seen(q) \/ file' = "right"
    BY <1>2 DEF Seen, MovesTo
  <2>. QED
    BY <2>1 DEF IInv, VerifiedInv
<1>3. ASSUME NEW q \in Process
      PROVE  SendsVerified(q)' /\ RenamesWhole(q)'
  BY DEF IInv, VerifiedInv, SendsVerified, RenamesWhole, MovesTo
<1>4. Verified
  BY DEF Verified
<1>. QED
  BY <1>1, <1>2, <1>3, <1>4 DEF IInv, VerifiedInv

LEMMA DownloadStepKeeps ==
    ASSUME IInv, AllSha, NEW p \in Process, DownloadStep(p), UNCHANGED <<exe, partial, step>>
    PROVE  IInv' /\ Verified
<1>. USE DEF IInv
<1>0. /\ "sent" \in DOMAIN fetch[p]
      /\ DOMAIN part = Process
      /\ \A bytes : Acceptable(p, bytes) => bytes = "right"
  BY DEF TypeInv, Acceptable, AllSha
<1>1. CASE Begin(p)
  <2>1. "sent" \in DOMAIN Report(NoFetch, <<"nowhere">>)
    BY FetchFields
  <2>2. "sent" \in DOMAIN [NoFetch EXCEPT !.asking = "azurl"]
    BY DEF NoFetch
  <2>3. MovesTo(p, {"failed", "connect", "script"})
    <3>1. CASE Fails(p, Report(NoFetch, <<"nowhere">>))
      BY <2>1, <3>1, Ending DEF MovesTo
    <3>2. CASE /\ GoTo(p, IF ReadsUrlCache(p) THEN "connect" ELSE "script")
               /\ FetchBecomes(p, [NoFetch EXCEPT !.asking = "azurl"])
      BY <2>2, <3>2, Going DEF MovesTo
    <3>. QED
      BY <1>1, <3>1, <3>2 DEF Begin
  <2>. QED
    BY <1>0, <1>1, <2>3, DownloadKeeps DEF Begin, MovesTo
<1>2. CASE Connect(p)
  <2>1. MovesTo(p, {"transfer"})
    BY <1>2, GoingOn DEF Connect
  <2>2. DOMAIN part' = Process
    BY <1>0, <1>2 DEF Connect
  <2>. QED
    BY <1>2, <2>1, <2>2, DownloadKeeps DEF Connect, MovesTo
<1>3. CASE Transfer(p)
  <2>1. DOMAIN part' = Process
    BY <1>0, <1>3 DEF Transfer
  <2>2. MovesTo(p, {"connect", "check", "exhausted", "script", "missed"})
    <3>1. CASE GoTo(p, "connect") /\ FetchBecomes(p, AgainAt(fetch[p]))
      <4>1. "sent" \in DOMAIN AgainAt(fetch[p])
        BY <1>0, FetchFields
      <4>. QED
        BY <3>1, <4>1, Going DEF MovesTo
    <3>2. CASE \E prognosis : AttemptFails(p, prognosis)
      BY <3>2, Failing DEF MovesTo
    <3>3. CASE GoTo(p, "check") /\ UNCHANGED fetch
      BY <3>3, GoingOn DEF MovesTo
    <3>. QED
      BY <1>3, <3>1, <3>2, <3>3 DEF Transfer
  <2>. QED
    BY <1>3, <2>1, <2>2, DownloadKeeps DEF Transfer, MovesTo
<1>4. CASE Check(p)
  <2>1. DOMAIN part' = Process
    BY <1>0, <1>4 DEF Check
  <2>2. CASE Acceptable(p, part[p])
    <3>1. MovesTo(p, {"arrived"}) /\ file' = "right"
      BY <1>0, <1>4, <2>2, GoingOn DEF Check
    <3>. QED
      BY <1>4, <2>1, <3>1, DownloadKeeps DEF Check, MovesTo
  <2>3. CASE ~Acceptable(p, part[p])
    <3>1. MovesTo(p, {"exhausted", "connect", "script", "missed"}) /\ file' = file
      BY <1>4, <2>3, Failing DEF Check
    <3>. QED
      BY <1>4, <2>1, <3>1, DownloadKeeps DEF Check, MovesTo
  <2>. QED
    BY <2>2, <2>3
<1>5. CASE Script(p)
  <2>1. DOMAIN part' = Process
    BY <1>0, <1>5 DEF Script
  <2>2. CASE file' # file
    <3>1. MovesTo(p, {"arrived"}) /\ file' = "right"
      BY <1>0, <1>5, <2>2, GoingOn DEF Script
    <3>. QED
      BY <1>5, <2>1, <3>1, DownloadKeeps DEF Script, MovesTo
  <2>3. CASE file' = file
    <3>1. "sent" \in DOMAIN AssetFails(fetch[p], "script")
      BY <1>0, FetchFields
    <3>2. /\ "sent" \in DOMAIN NotInCache(fetch[p], OtherError)
          /\ "sent" \in DOMAIN NotInCache(AssetFails(fetch[p], "script"), OtherError)
      BY <1>0, <3>1, FetchFields
    <3>3. \/ MovesTo(p, {"missed"})
          \/ MovesTo(p, {"arrived"}) /\ file' = "right"
      <4>1. CASE NotCached(p, fetch[p], OtherError)
        BY <3>2, <4>1, Going DEF NotCached
      <4>2. CASE NotCached(p, AssetFails(fetch[p], "script"), OtherError)
        BY <3>2, <4>2, Going DEF NotCached
      <4>3. CASE GoTo(p, "arrived") /\ UNCHANGED fetch /\ file' = "right"
        BY <4>3, GoingOn
      <4>. QED
        BY <1>0, <1>5, <4>1, <4>2, <4>3 DEF Script
    <3>. QED
      BY <1>5, <2>1, <2>3, <3>3, DownloadKeeps DEF Script, MovesTo
  <2>. QED
    BY <2>2, <2>3
<1>6. CASE Missed(p)
  <2>. DEFINE f == CommitAssetLines(fetch[p])
              note == ProxyNote(fetch[p].asset_cache_prognosis)
  <2>1. "sent" \in DOMAIN f
    BY <1>0, FetchFields
  <2>2. /\ "sent" \in DOMAIN Report(f, <<"miss">> \o note)
        /\ "sent" \in DOMAIN Report(f, <<"blocked">> \o note)
        /\ "sent" \in DOMAIN AtUrl(fetch[p], 1) /\ "sent" \in DOMAIN AtUrl(f, 1)
    BY <1>0, <2>1, FetchFields
  <2>3. \/ Fails(p, Report(f, <<"miss">> \o note))
        \/ Fails(p, Report(f, <<"blocked">> \o note))
        \/ GoTo(p, "connect") /\ FetchBecomes(p, AtUrl(fetch[p], 1))
    BY <1>6 DEF Missed
  <2>. HIDE DEF f, note
  <2>4. MovesTo(p, {"failed", "connect"})
    BY <2>2, <2>3, Ending, Going DEF MovesTo
  <2>. QED
    BY <1>0, <1>6, <2>4, DownloadKeeps DEF Missed, MovesTo
<1>7. CASE Exhausted(p)
  <2>. DEFINE f == CommitLines(Report(CommitAssetLines(fetch[p]), <<"proxy">>))
              g == Report(CommitLines(CommitAssetLines(fetch[p])),
                          ProxyNote(Combine(fetch[p].authoritative_prognosis,
                                            fetch[p].asset_cache_prognosis)))
  <2>1. "sent" \in DOMAIN CommitAssetLines(fetch[p])
    BY <1>0, FetchFields
  <2>2. /\ "sent" \in DOMAIN Report(CommitAssetLines(fetch[p]), <<"proxy">>)
        /\ "sent" \in DOMAIN CommitLines(CommitAssetLines(fetch[p]))
    BY <2>1, FetchFields
  <2>3. "sent" \in DOMAIN f /\ "sent" \in DOMAIN g
    BY <2>2, FetchFields
  <2>4. Fails(p, f) \/ Fails(p, g)
    BY <1>7 DEF Exhausted
  <2>. HIDE DEF f, g
  <2>5. MovesTo(p, {"failed"})
    BY <2>3, <2>4, Ending
  <2>. QED
    BY <1>0, <1>7, <2>5, DownloadKeeps DEF Exhausted, MovesTo
<1>8. CASE Arrived(p)
  <2>1. "sent" \in DOMAIN CommitAssetLines(fetch[p]) /\ "sent" \in DOMAIN Handle(fetch[p])
    BY <1>0, FetchFields
  <2>2. MovesTo(p, {"succeeded", "failed", "store"})
    <3>1. CASE Succeeds(p, CommitAssetLines(fetch[p]))
      BY <2>1, <3>1, Ending DEF MovesTo
    <3>2. CASE Succeeds(p, Handle(fetch[p]))
      BY <2>1, <3>2, Ending DEF MovesTo
    <3>3. CASE GoTo(p, "store") /\ FetchBecomes(p, Handle(fetch[p]))
      BY <2>1, <3>3, Going DEF MovesTo
    <3>. QED
      BY <1>8, <3>1, <3>2, <3>3 DEF Arrived
  <2>3. Seen(p)
    BY <1>8 DEF Arrived, Seen
  <2>. QED
    BY <1>0, <1>8, <2>2, <2>3, DownloadKeeps DEF Arrived, MovesTo
<1>9. CASE Store(p)
  <2>1. Seen(p)
    BY <1>9 DEF Store, Seen
  <2>2. /\ "sent" \in DOMAIN Report(fetch[p], <<"warning">>)
        /\ "sent" \in DOMAIN Sending(fetch[p], file)
        /\ Sending(fetch[p], file).sent = file
    BY <1>0, FetchFields
  <2>3. CASE Succeeds(p, Report(fetch[p], <<"warning">>)) /\ UNCHANGED cache
    <3>1. MovesTo(p, {"succeeded", "failed"})
      BY <2>2, <2>3, Ending
    <3>. QED
      BY <1>0, <1>9, <2>1, <2>3, <3>1, DownloadKeeps DEF Store, MovesTo
  <2>4. CASE /\ file # "absent" /\ GoTo(p, "storing") /\ FetchBecomes(p, Sending(fetch[p], file))
             /\ cache' \in {cache, "torn"}
    <3>1. MovesTo(p, {"storing"}) /\ fetch'[p] = Sending(fetch[p], file)
      BY <2>2, <2>4, Going
    <3>2. file = "right"
      BY <2>1, <2>4 DEF VerifiedInv
    <3>. QED
      BY <1>0, <1>9, <2>1, <2>2, <2>4, <3>1, <3>2, DownloadKeeps DEF Store, MovesTo
  <2>. QED
    BY <1>9, <2>3, <2>4 DEF Store
<1>10. CASE StoreEnds(p)
  <2>1. Seen(p) /\ fetch[p].sent = "right"
    BY <1>10 DEF StoreEnds, Seen, VerifiedInv, SendsVerified
  <2>2. "sent" \in DOMAIN Report(fetch[p], <<"warning">>)
    BY FetchFields, <1>0
  <2>3. MovesTo(p, {"succeeded", "failed"})
    BY <1>0, <1>10, <2>2, Ending DEF StoreEnds
  <2>. QED
    BY <1>0, <1>10, <2>1, <2>3, DownloadKeeps DEF StoreEnds, MovesTo
<1>. QED
  BY <1>1, <1>2, <1>3, <1>4, <1>5, <1>6, <1>7, <1>8, <1>9, <1>10 DEF DownloadStep

--------------------------------------------------------------------------------
\* A step of get_path or download_tool.
LEMMA ToolKeeps ==
    ASSUME IInv, AllSha, NEW p \in Process, NEW label, StepTo(p, label),
           UNCHANGED <<command, cache, part, fetch>>,
           pc' = pc \/ (\E place \in {"begin", "idle"} : GoTo(p, place)),
           file' = file \/ file' = "absent",
           DOMAIN partial' = Process,
           \A q \in Process : q # p => partial'[q] = partial[q],
           label \in {"got", "extract", "rename", "refused"} => file' \in {"right", "absent"},
           label \in {"rename", "refused"} /\ command[p].for = "archive" => partial'[p] = "whole"
    PROVE  IInv'
<1>. USE DEF IInv
<1>0. \A q \in Process : pc'[q] = pc[q] \/ pc'[q] \in {"begin", "idle"}
  BY DEF TypeInv, GoTo
<1>1. TypeInv'
  BY DEF TypeInv, GoTo, StepTo
<1>2. step'[p] = label /\ \A q \in Process : q # p => step'[q] = step[q]
  BY DEF TypeInv, StepTo
<1>3. ASSUME NEW q \in Process, Seen(q)'
      PROVE  file' \in {"right", "absent"}
  <2>1. Seen(q) \/ file' \in {"right", "absent"}
    BY <1>0, <1>2, <1>3 DEF Seen
  <2>. QED
    BY <2>1 DEF VerifiedInv
<1>4. ASSUME NEW q \in Process
      PROVE  SendsVerified(q)' /\ RenamesWhole(q)'
  <2>1. SendsVerified(q)'
    BY <1>0 DEF VerifiedInv, SendsVerified
  <2>2. RenamesWhole(q)'
    BY <1>2 DEF VerifiedInv, RenamesWhole
  <2>. QED
    BY <2>1, <2>2
<1>. QED
  BY <1>1, <1>3, <1>4 DEF VerifiedInv

\* Each step of a tool's installation, and the end of a process.
LEMMA ToolStepKeeps ==
    ASSUME IInv, AllSha, NEW p \in Process,
           \/ Look(p) \/ HashDownload(p) \/ Downloaded(p) \/ Prepare(p) \/ Extract(p)
           \/ Rename(p) \/ RenameFails(p) \/ TargetExists(p) \/ RenameAgain(p)
           \/ CheckExists(p) \/ SetExecutable(p) \/ GetVersion(p) \/ Kill(p)
    PROVE  IInv' /\ Verified
<1>. USE DEF IInv, TypeInv
<1>1. CASE Look(p)
  <2>1. \E label \in {"found", "hash", "missing"} : StepTo(p, label)
    BY <1>1 DEF Look
  <2>2. IInv'
    BY <1>1, <2>1, ToolKeeps DEF Look, downloadVars
  <2>. QED
    BY <1>1, <2>2 DEF Look, downloadVars, Verified
<1>2. CASE HashDownload(p)
  <2>1. \/ StepTo(p, "got") /\ file = "right"
        \/ StepTo(p, "missing")
        \/ StepTo(p, "download")
    BY <1>2 DEF HashDownload
  <2>2. IInv'
    BY <1>2, <2>1, ToolKeeps DEF HashDownload
  <2>. QED
    BY <1>2, <2>2 DEF HashDownload, Verified
<1>3. CASE Downloaded(p)
  <2>1. \/ StepTo(p, "got") /\ Seen(p)
        \/ StepTo(p, "missing")
    BY <1>3 DEF Downloaded, Seen
  <2>2. IInv'
    BY <1>3, <2>1, ToolKeeps DEF Downloaded, downloadVars, VerifiedInv
  <2>. QED
    BY <1>3, <2>2 DEF Downloaded, downloadVars, Verified
<1>4. CASE Prepare(p)
  <2>1. Seen(p)
    BY <1>4 DEF Prepare, Seen
  <2>2. file \in {"right", "absent"}
    BY <2>1 DEF VerifiedInv
  <2>3. \/ command[p].for = "archive" /\ StepTo(p, "extract")
        \/ command[p].for = "file" /\ StepTo(p, "rename")
    BY <1>4 DEF Prepare
  <2>4. DOMAIN partial' = Process /\ \A q \in Process : q # p => partial'[q] = partial[q]
    BY <1>4 DEF Prepare
  <2>5. IInv'
    BY <1>4, <2>2, <2>3, <2>4, ToolKeeps DEF Prepare, downloadVars
  <2>. QED
    BY <1>4, <2>5 DEF Prepare, downloadVars, Verified
<1>5. CASE Extract(p)
  <2>1. \/ StepTo(p, "rename") /\ file = "right" /\ partial'[p] = "whole"
        \/ StepTo(p, "missing")
    BY <1>5 DEF Extract
  <2>2. DOMAIN partial' = Process /\ \A q \in Process : q # p => partial'[q] = partial[q]
    BY <1>5 DEF Extract
  <2>3. IInv'
    BY <1>5, <2>1, <2>2, ToolKeeps DEF Extract, downloadVars
  <2>. QED
    BY <1>5, <2>3 DEF Extract, downloadVars, Verified
<1>6. CASE Rename(p)
  <2>1. DOMAIN partial' = Process /\ \A q \in Process : q # p => partial'[q] = partial[q]
    BY <1>6 DEF Rename
  <2>2. StepTo(p, "check") /\ (file' = file \/ file' = "absent")
    BY <1>6 DEF Rename
  <2>3. IInv'
    BY <1>6, <2>1, <2>2, ToolKeeps DEF Rename
  <2>4. exe' = "plain"
    <3>1. CASE command[p].for = "archive"
      BY <1>6, <3>1 DEF Rename, VerifiedInv, RenamesWhole
    <3>2. CASE command[p].for # "archive"
      BY <1>6, <3>2 DEF Rename, VerifiedInv, Seen
    <3>. QED
      BY <3>1, <3>2
  <2>5. exe = "good" => command[p].for # "archive"
    BY <1>6 DEF Rename
  <2>. QED
    BY <1>6, <2>2, <2>3, <2>4, <2>5 DEF Rename, Verified
<1>7. CASE RenameFails(p)
  <2>1. Seen(p) /\ (command[p].for = "archive" => partial[p] = "whole")
    BY <1>7 DEF RenameFails, Seen, VerifiedInv, RenamesWhole
  <2>2. StepTo(p, "missing") \/ StepTo(p, "refused")
    BY <1>7 DEF RenameFails
  <2>3. IInv'
    BY <1>7, <2>1, <2>2, ToolKeeps DEF RenameFails, downloadVars, VerifiedInv
  <2>. QED
    BY <1>7, <2>3 DEF RenameFails, downloadVars, Verified
<1>8. CASE TargetExists(p)
  <2>1. DOMAIN partial' = Process /\ \A q \in Process : q # p => partial'[q] = partial[q]
    BY <1>8 DEF TargetExists
  <2>2. StepTo(p, "check") /\ (file' = file \/ file' = "absent")
    BY <1>8 DEF TargetExists
  <2>3. IInv'
    BY <1>8, <2>1, <2>2, ToolKeeps DEF TargetExists
  <2>. QED
    BY <1>8, <2>2, <2>3 DEF TargetExists, Verified
<1>9. CASE RenameAgain(p)
  <2>1. Seen(p) /\ (command[p].for = "archive" => partial[p] = "whole")
    BY <1>9 DEF RenameAgain, Seen, VerifiedInv, RenamesWhole
  <2>2. IInv'
    BY <1>9, <2>1, ToolKeeps DEF RenameAgain, downloadVars, VerifiedInv
  <2>. QED
    BY <1>9, <2>2 DEF RenameAgain, downloadVars, Verified
<1>10. CASE CheckExists(p)
  <2>1. StepTo(p, "missing") \/ StepTo(p, "chmod")
    BY <1>10 DEF CheckExists
  <2>2. IInv'
    BY <1>10, <2>1, ToolKeeps DEF CheckExists, downloadVars
  <2>. QED
    BY <1>10, <2>2 DEF CheckExists, downloadVars, Verified
<1>11. CASE SetExecutable(p)
  <2>1. IInv'
    BY <1>11, ToolKeeps DEF SetExecutable, downloadVars
  <2>. QED
    BY <1>11, <2>1 DEF SetExecutable, downloadVars, Verified
<1>12. CASE GetVersion(p)
  <2>1. StepTo(p, "found") \/ StepTo(p, "missing")
    BY <1>12 DEF GetVersion
  <2>2. IInv'
    BY <1>12, <2>1, ToolKeeps DEF GetVersion, downloadVars
  <2>. QED
    BY <1>12, <2>2 DEF GetVersion, downloadVars, Verified
<1>13. CASE Kill(p)
  <2>1. IInv'
    <3>1. CASE IsTool(p)
      BY <1>13, <3>1, ToolKeeps DEF Kill
    <3>2. CASE ~IsTool(p)
      <4>1. TypeInv' /\ step' = step /\ pc'[p] = "begin"
        BY <1>13, <3>2 DEF Kill, GoTo
      <4>2. \A q \in Process : q # p => pc'[q] = pc[q]
        BY <1>13, <3>2 DEF Kill, GoTo
      <4>3. MovesTo(p, {"begin"})
        BY <1>13, <4>1, <4>2 DEF Kill, MovesTo
      <4>4. \A q \in Process : Seen(q)' => Seen(q)
        BY <4>1, <4>2 DEF Seen
      <4>5. \A q \in Process : SendsVerified(q)' /\ RenamesWhole(q)'
        BY <1>13, <4>1, <4>2 DEF Kill, VerifiedInv, SendsVerified, RenamesWhole
      <4>. QED
        BY <1>13, <4>1, <4>4, <4>5 DEF Kill, VerifiedInv
    <3>. QED
      BY <3>1, <3>2
  <2>. QED
    BY <1>13, <2>1 DEF Kill, Verified
<1>. QED
  BY <1>1, <1>2, <1>3, <1>4, <1>5, <1>6, <1>7, <1>8, <1>9, <1>10, <1>11, <1>12, <1>13

LEMMA InitVerified ==
    Init => IInv
<1>. SUFFICES ASSUME Init, AllSha
              PROVE  TypeInv /\ VerifiedInv
  BY DEF IInv
<1>1. TypeInv
  BY FetchFields DEF Init, DownloadInit, TypeInv
<1>2. \A p \in Process : pc[p] \in {"idle", "begin"} /\ step[p] \in {"look", "none"}
  BY DEF Init
<1>. QED
  BY <1>1, <1>2 DEF VerifiedInv, Seen, SendsVerified, RenamesWhole

LEMMA StepVerified ==
    ASSUME IInv, [Next]_vars
    PROVE  IInv' /\ (AllSha => Verified)
<1>1. CASE UNCHANGED vars
  BY <1>1 DEF vars, downloadVars, IInv, AllSha, HasSha, TypeInv, VerifiedInv, Seen, SendsVerified,
              RenamesWhole, Verified
<1>2. CASE Next
  <2>1. command' = command
    BY <1>2 DEF Next, ToolStep, DownloadStep, Begin, Connect, Transfer, Check, Script, Missed,
                Exhausted, Arrived, Store, StoreEnds, Look, HashDownload, Downloaded, Prepare,
                Extract, Rename, RenameFails, TargetExists, RenameAgain, CheckExists,
                SetExecutable, GetVersion, Kill, downloadVars
  <2>2. AllSha' = AllSha
    BY <2>1 DEF AllSha, HasSha
  <2>3. ASSUME AllSha
        PROVE  IInv' /\ Verified
    <3>1. PICK p \in Process : ToolStep(p) \/ Kill(p)
      BY <1>2 DEF Next
    <3>. QED
      BY <2>3, <3>1, DownloadStepKeeps, ToolStepKeeps DEF ToolStep
  <2>. QED
    BY <2>2, <2>3 DEF IInv
<1>. QED
  BY <1>1, <1>2

\* Whatever the number of processes, URLs, attempts and kills: only verified bytes get to the
\* download, the asset cache and the tool, and an unpacked tool that works is not touched again.
THEOREM OnlyVerifiedHolds ==
    Spec => OnlyVerified
<1>1. Init => IInv
  BY InitVerified
<1>2. IInv /\ [Next]_vars => IInv'
  BY StepVerified
<1>3. ASSUME IInv, [Next]_vars
      PROVE  [(\A p \in Process : HasSha(p)) =>
                /\ file' # file => file' \in {"right", "absent"}
                /\ cache' # cache => cache' \in {"right", "torn"}
                /\ exe' # exe => exe' \in {"plain", "good"}
                /\ exe = "good" /\ (\A p \in Process : command[p].for = "archive")
                        => exe' = "good"]_vars
  BY <1>3, StepVerified DEF AllSha, Verified
<1>. QED
  BY <1>1, <1>2, <1>3, PTL DEF Spec, OnlyVerified

--------------------------------------------------------------------------------
(***************************************************************************)
(* Why a download fails, and what is printed of it.  CallInv follows one   *)
(* call through the asset cache, its script and the URLs: the sources that *)
(* have failed, their lines, and where those are.                          *)
(***************************************************************************)
Line == {"azurl", "script", "url", "proxy", "nowhere", "miss", "blocked", "warning", "zero"}
Prognosis == 0 .. 3

\* The local variables of a call have their types.
IsLocals(f) ==
    /\ DOMAIN f = {"asking", "url", "attempt", "sent", "asset_cache_prognosis",
                   "authoritative_prognosis", "assetLines", "lines", "printed"}
    /\ f.asking \in {"nothing", "azurl", "url"}
    /\ f.url \in Nat /\ f.attempt \in Nat /\ f.sent \in Bytes
    /\ f.asset_cache_prognosis \in Prognosis /\ f.authoritative_prognosis \in Prognosis
    /\ f.assetLines \in Seq(Line) /\ f.lines \in Seq(Line) /\ f.printed \in Seq(Line)

Called == \E case \in Cases : command = case.command /\ net = case.net

CallTypeInv ==
    /\ Called
    /\ DOMAIN pc = Process
    /\ part \in [Process -> Bytes]
    /\ DOMAIN fetch = Process
    /\ \A p \in Process : IsLocals(fetch[p])
    /\ file \in Bytes
    /\ cache \in Bytes

(***************************************************************************)
(* What is true of a call that is at the place label, with the arguments   *)
(* c, the answers n, the local variables f and the bytes b in its part     *)
(* file.                                                                   *)
(***************************************************************************)
ShaGiven(c) == c.sha = "given"
AsksUrlCache(c) == c.azurl /\ ShaGiven(c)
GivenBy(c, answer) == Sent(answer) \in {"right", "wrong"} /\ (ShaGiven(c) => Sent(answer) = "right")

\* The second and third reasons of DownloadFailsForAReason.
CacheAsked(c, f) == AsksUrlCache(c) => "azurl" \in ToSet(f.assetLines) \cup ToSet(f.printed)
ScriptAsked(c, n, f) ==
    c.script /\ (ShaGiven(c) \/ c.urls > 0) =>
        ~GivenBy(c, n.script) \/ f.asset_cache_prognosis # OtherError

\* The asset cache is asked, and nothing is printed yet.
InCache(label, f) == label \in {"connect", "transfer", "check", "script", "missed"} /\ f.asking # "url"
InCacheOk(c, n, label, f) ==
    /\ f.url = 0 /\ f.printed = <<>> /\ f.lines = <<>> /\ f.authoritative_prognosis = Success
    /\ ToSet(f.assetLines) \subseteq {"azurl", "script"}
    /\ label # "missed" => f.asset_cache_prognosis = Success
    /\ label \in {"script", "missed"} => CacheAsked(c, f)
    /\ label = "missed" => ScriptAsked(c, n, f)

\* The URLs are asked; those up to the last one that failed.
AtUrls(label, f) == label \in {"connect", "transfer", "check", "exhausted"} /\ f.asking = "url"
FailedUrls(label, f) == IF label = "exhausted" THEN f.url ELSE f.url - 1
AtUrlsOk(c, n, label, f, b) ==
    /\ f.url \in 1 .. c.urls /\ ~c.block
    /\ label = "exhausted" => f.url = c.urls
    /\ label = "check" => b = Sent(n.url[f.url])
    /\ CacheAsked(c, f) /\ ScriptAsked(c, n, f)
    /\ ToSet(f.assetLines) \subseteq {"azurl", "script"}
    /\ \A u \in 1 .. FailedUrls(label, f) : ~GivenBy(c, n.url[u])
    /\ f.authoritative_prognosis = NetworkErrorProxyMightHelp <=>
            \E u \in 1 .. FailedUrls(label, f) : n.url[u] = "refused"
    /\ ToSet(f.printed) \subseteq {"azurl", "script", "url"} /\ ToSet(f.lines) \subseteq {"url"}
    /\ FailedUrls(label, f) = 0 => f.printed = <<>> /\ f.lines = <<>>
    /\ FailedUrls(label, f) > 0 => f.assetLines = <<>> /\ Len(f.lines) = FailedUrls(label, f) - 1

\* The file has come.
HasArrivedOk(label, f) ==
    /\ "proxy" \notin ToSet(f.printed)
    /\ f.asking # "url" => f.url = 0 /\ f.lines = <<>> /\ "proxy" \notin ToSet(f.assetLines)
    /\ f.url = 1 => f.printed = <<>>
    /\ label \in {"store", "storing"} => f.assetLines = <<>> /\ f.lines = <<>>

SucceededOk(f) ==
    /\ f.assetLines = <<>> /\ f.lines = <<>>
    /\ "proxy" \notin ToSet(f.printed)
    /\ f.url = 1 => ToSet(f.printed) \subseteq {"warning"}

\* The notes about proxies in what is printed.
Notes(printed) == {i \in DOMAIN printed : printed[i] = "proxy"}
NotesOk(n, f) ==
    /\ \A i \in Notes(f.printed) : \A j \in i + 1 .. Len(f.printed) :
            /\ f.printed[j] = "url"
            /\ n.url[f.url + j - Len(f.printed)] # "refused"
    /\ Notes(f.printed) # {} <=>
            \/ f.asset_cache_prognosis = NetworkErrorProxyMightHelp
            \/ \E u \in 1 .. f.url : n.url[u] = "refused"

FailedOk(c, n, f) ==
    /\ f.assetLines = <<>> /\ f.lines = <<>>
    /\ c.sha # "zero" =>
            /\ ~c.block => \A u \in 1 .. c.urls : ~GivenBy(c, n.url[u])
            /\ AsksUrlCache(c) => "azurl" \in ToSet(f.printed)
            /\ ScriptAsked(c, n, f)
    /\ "zero" \notin ToSet(f.printed) => NotesOk(n, f)

CallOk(c, n, label, f, b) ==
    /\ InCache(label, f) => InCacheOk(c, n, label, f)
    /\ AtUrls(label, f) => AtUrlsOk(c, n, label, f, b)
    /\ label \in {"script", "missed"} => f.asking # "url"
    /\ label = "exhausted" => f.asking = "url"
    /\ label \in {"arrived", "store", "storing"} => HasArrivedOk(label, f)
    /\ label = "succeeded" => SucceededOk(f)
    /\ label = "failed" => FailedOk(c, n, f)

CallsInv == CallTypeInv /\ \A p \in Process : CallOk(command[p], net, pc[p], fetch[p], part[p])

\* Sequences of lines.
LEMMA LinesOf ==
    /\ ToSet(<<>>) = {}
    /\ \A l \in Line : ToSet(<<l>>) = {l} /\ <<l>> \in Seq(Line)
    /\ \A s \in Seq(Line), l \in Line :
        /\ Append(s, l) \in Seq(Line)
        /\ ToSet(Append(s, l)) = ToSet(s) \cup {l}
        /\ Len(Append(s, l)) = Len(s) + 1
    /\ \A s, t \in Seq(Line) :
        /\ s \o t \in Seq(Line)
        /\ ToSet(s \o t) = ToSet(s) \cup ToSet(t)
        /\ Len(s \o t) = Len(s) + Len(t)
<1>1. \A l \in Line : ToSet(<<l>>) = {l} /\ <<l>> \in Seq(Line)
  BY DEF ToSet
<1>2. ASSUME NEW s \in Seq(Line), NEW l \in Line
      PROVE  /\ Append(s, l) \in Seq(Line)
             /\ ToSet(Append(s, l)) = ToSet(s) \cup {l}
             /\ Len(Append(s, l)) = Len(s) + 1
  <2>1. /\ Append(s, l) \in Seq(Line) /\ Len(Append(s, l)) = Len(s) + 1
        /\ DOMAIN Append(s, l) = 1 .. Len(s) + 1 /\ DOMAIN s = 1 .. Len(s) /\ Len(s) \in Nat
        /\ Append(s, l)[Len(s) + 1] = l
        /\ \A i \in 1 .. Len(s) : Append(s, l)[i] = s[i]
    OBVIOUS
  <2>2. ASSUME NEW x \in ToSet(s) \cup {l}
        PROVE  x \in ToSet(Append(s, l))
    <3>1. CASE x = l
      BY <2>1, <3>1 DEF ToSet
    <3>2. CASE x \in ToSet(s)
      BY <2>1, <3>2 DEF ToSet
    <3>. QED
      BY <3>1, <3>2
  <2>3. ASSUME NEW x \in ToSet(Append(s, l))
        PROVE  x \in ToSet(s) \cup {l}
    BY <2>1 DEF ToSet
  <2>. QED
    BY <2>1, <2>2, <2>3
<1>3. ASSUME NEW s \in Seq(Line), NEW t \in Seq(Line)
      PROVE  /\ s \o t \in Seq(Line)
             /\ ToSet(s \o t) = ToSet(s) \cup ToSet(t)
             /\ Len(s \o t) = Len(s) + Len(t)
  <2>1. /\ s \o t \in Seq(Line) /\ Len(s \o t) = Len(s) + Len(t)
        /\ DOMAIN (s \o t) = 1 .. Len(s) + Len(t)
        /\ DOMAIN s = 1 .. Len(s) /\ DOMAIN t = 1 .. Len(t) /\ Len(s) \in Nat /\ Len(t) \in Nat
        /\ \A i \in 1 .. Len(s) : (s \o t)[i] = s[i]
        /\ \A i \in 1 .. Len(t) : (s \o t)[Len(s) + i] = t[i]
    OBVIOUS
  <2>2. \A i \in DOMAIN (s \o t) : i \in DOMAIN s \/ (i - Len(s) \in DOMAIN t /\ (s \o t)[i] = t[i - Len(s)])
    BY <2>1
  <2>3. ASSUME NEW x \in ToSet(s \o t)
        PROVE  x \in ToSet(s) \cup ToSet(t)
    BY <2>1, <2>2 DEF ToSet
  <2>4. ASSUME NEW x \in ToSet(s)
        PROVE  x \in ToSet(s \o t)
    BY <2>1 DEF ToSet
  <2>5. ASSUME NEW x \in ToSet(t)
        PROVE  x \in ToSet(s \o t)
    <3>1. PICK i \in 1 .. Len(t) : x = t[i]
      BY <2>1 DEF ToSet
    <3>2. Len(s) + i \in DOMAIN (s \o t) /\ (s \o t)[Len(s) + i] = x
      BY <2>1, <3>1
    <3>. QED
      BY <3>2 DEF ToSet
  <2>. QED
    BY <2>1, <2>3, <2>4, <2>5
<1>4. ToSet(<<>>) = {}
  BY DEF ToSet
<1>. QED
  BY <1>1, <1>2, <1>3, <1>4

\* What each helper does to the local variables.
Same(f, g, changed) == \A x \in DOMAIN f \ changed : g[x] = f[x]

LEMMA Committed ==
    ASSUME NEW f, IsLocals(f)
    PROVE  /\ IsLocals(CommitAssetLines(f))
           /\ CommitAssetLines(f).printed = f.printed \o f.assetLines
           /\ CommitAssetLines(f).assetLines = <<>>
           /\ Same(f, CommitAssetLines(f), {"printed", "assetLines"})
           /\ IsLocals(CommitLines(f))
           /\ CommitLines(f).printed = f.printed \o f.lines
           /\ CommitLines(f).lines = <<>>
           /\ Same(f, CommitLines(f), {"printed", "lines"})
           /\ IsLocals(Handle(f))
           /\ Handle(f).assetLines = <<>> /\ Handle(f).lines = <<>>
           /\ Same(f, Handle(f), {"assetLines", "lines"})
<1>1. \A q, r \in Seq(Line) : q \o r \in Seq(Line)
  BY LinesOf
<1>2. <<>> \in Seq(Line)
  OBVIOUS
<1>3. /\ IsLocals(CommitAssetLines(f))
      /\ CommitAssetLines(f).printed = f.printed \o f.assetLines
      /\ CommitAssetLines(f).assetLines = <<>>
      /\ Same(f, CommitAssetLines(f), {"printed", "assetLines"})
  BY <1>1, <1>2 DEF IsLocals, CommitAssetLines, Same
<1>4. /\ IsLocals(CommitLines(f))
      /\ CommitLines(f).printed = f.printed \o f.lines
      /\ CommitLines(f).lines = <<>>
      /\ Same(f, CommitLines(f), {"printed", "lines"})
  BY <1>1, <1>2 DEF IsLocals, CommitLines, Same
<1>5. /\ IsLocals(Handle(f))
      /\ Handle(f).assetLines = <<>> /\ Handle(f).lines = <<>>
      /\ Same(f, Handle(f), {"assetLines", "lines"})
  BY <1>2 DEF IsLocals, Handle, Same
<1>. QED
  BY <1>3, <1>4, <1>5

LEMMA Reported ==
    ASSUME NEW f, IsLocals(f), NEW lines \in Seq(Line), NEW line \in Line
    PROVE  /\ IsLocals(Report(f, lines))
           /\ Report(f, lines).printed = f.printed \o lines
           /\ Same(f, Report(f, lines), {"printed"})
           /\ IsLocals(AssetFails(f, line))
           /\ AssetFails(f, line).assetLines = Append(f.assetLines, line)
           /\ Same(f, AssetFails(f, line), {"assetLines"})
  BY DEF IsLocals, Report, AssetFails, Same

LEMMA Judged ==
    ASSUME NEW f, IsLocals(f), NEW prognosis \in Prognosis
    PROVE  /\ IsLocals(NotInCache(f, prognosis))
           /\ NotInCache(f, prognosis).asset_cache_prognosis = Combine(f.asset_cache_prognosis, prognosis)
           /\ Same(f, NotInCache(f, prognosis), {"asset_cache_prognosis"})
           /\ IsLocals(NotAtUrl(f, prognosis))
           /\ NotAtUrl(f, prognosis).authoritative_prognosis = Combine(f.authoritative_prognosis, prognosis)
           /\ NotAtUrl(f, prognosis).lines = Append(f.lines, "url")
           /\ Same(f, NotAtUrl(f, prognosis), {"lines", "authoritative_prognosis"})
<1>1. "url" \in Line
  BY DEF Line
<1>2. \A p, q \in Prognosis : Combine(p, q) \in Prognosis
  BY DEF Combine, Prognosis
<1>3. \A q \in Seq(Line) : Append(q, "url") \in Seq(Line)
  BY <1>1, LinesOf
<1>4. /\ IsLocals(NotInCache(f, prognosis))
      /\ NotInCache(f, prognosis).asset_cache_prognosis = Combine(f.asset_cache_prognosis, prognosis)
      /\ Same(f, NotInCache(f, prognosis), {"asset_cache_prognosis"})
  BY <1>2 DEF IsLocals, NotInCache, Same
<1>5. /\ IsLocals(NotAtUrl(f, prognosis))
      /\ NotAtUrl(f, prognosis).authoritative_prognosis = Combine(f.authoritative_prognosis, prognosis)
      /\ NotAtUrl(f, prognosis).lines = Append(f.lines, "url")
      /\ Same(f, NotAtUrl(f, prognosis), {"lines", "authoritative_prognosis"})
  BY <1>2, <1>3 DEF IsLocals, NotAtUrl, Same
<1>. QED
  BY <1>4, <1>5

LEMMA Moved ==
    ASSUME NEW f, IsLocals(f), NEW url \in Nat
    PROVE  /\ IsLocals(AtUrl(f, url))
           /\ AtUrl(f, url).asking = "url" /\ AtUrl(f, url).url = url /\ AtUrl(f, url).attempt = 0
           /\ Same(f, AtUrl(f, url), {"asking", "url", "attempt"})
  BY DEF IsLocals, AtUrl, Same

LEMMA Continued ==
    ASSUME NEW f, IsLocals(f), NEW bytes \in Bytes
    PROVE  /\ IsLocals(AgainAt(f)) /\ Same(f, AgainAt(f), {"attempt"})
           /\ IsLocals(Sending(f, bytes)) /\ Same(f, Sending(f, bytes), {"sent"})
<1>1. IsLocals(AgainAt(f)) /\ Same(f, AgainAt(f), {"attempt"})
  BY DEF IsLocals, AgainAt, Same
<1>2. IsLocals(Sending(f, bytes)) /\ Same(f, Sending(f, bytes), {"sent"})
  BY DEF IsLocals, Sending, Same
<1>. QED
  BY <1>1, <1>2

\* A step of p's call.
OthersStay(p) ==
    /\ DOMAIN pc' = Process /\ DOMAIN fetch' = Process
    /\ \A q \in Process : q # p => pc'[q] = pc[q] /\ fetch'[q] = fetch[q]

LEMMA CallStep ==
    ASSUME CallsInv, NEW p \in Process, OthersStay(p), UNCHANGED <<command, net>>,
           CallOk(command[p], net, pc'[p], fetch'[p], part'[p]), IsLocals(fetch'[p]),
           part' \in [Process -> Bytes], \A q \in Process : q # p => part'[q] = part[q],
           file' \in Bytes, cache' \in Bytes
    PROVE  CallsInv'
<1>1. CallTypeInv'
  BY DEF CallsInv, CallTypeInv, Called, OthersStay
<1>2. \A q \in Process : CallOk(command'[q], net', pc'[q], fetch'[q], part'[q])
  BY DEF CallsInv, OthersStay
<1>. QED
  BY <1>1, <1>2 DEF CallsInv

\* The arguments and the answers of servers.
LEMMA CaseFacts ==
    ASSUME CallsInv, NEW p \in Process
    PROVE  /\ command[p].sha \in {"given", "none", "zero"}
           /\ command[p].urls \in Nat
           /\ {command[p].azurl, command[p].script, command[p].write, command[p].block} \subseteq BOOLEAN
           /\ \A u \in 1 .. command[p].urls : net.url[u] \in {"right", "wrong", "blip", "busy", "refused"}
           /\ net.azurl \in {"up", "busy", "refused"}
           /\ net.script \in {"right", "wrong", "nothing", "fails"}
           /\ IsLocals(fetch[p]) /\ part[p] \in Bytes /\ file \in Bytes /\ cache \in Bytes
           /\ CallOk(command[p], net, pc[p], fetch[p], part[p])
  BY CasesAssumption DEF CallsInv, CallTypeInv, Called

\* A step that goes on to a place, perhaps with new local variables.
LEMMA CallGoes ==
    ASSUME CallsInv, NEW p \in Process, NEW label, GoTo(p, label)
    PROVE  /\ pc'[p] = label
           /\ UNCHANGED fetch => OthersStay(p) /\ fetch'[p] = fetch[p]
           /\ \A f : FetchBecomes(p, f) => OthersStay(p) /\ fetch'[p] = f
  BY DEF CallsInv, CallTypeInv, GoTo, FetchBecomes, OthersStay

\* An attempt in the asset cache fails.
LEMMA CacheAttemptFails ==
    ASSUME CallsInv, NEW p \in Process, NEW prognosis \in Prognosis \ {Success}, NEW b,
           pc[p] \in {"transfer", "check"}, fetch[p].asking # "url", AttemptFails(p, prognosis)
    PROVE  /\ OthersStay(p) /\ IsLocals(fetch'[p])
           /\ CallOk(command[p], net, pc'[p], fetch'[p], b)
<1>. DEFINE f == fetch[p]
            g == AssetFails(f, "azurl")
            h == NotInCache(g, prognosis)
<1>1. IsLocals(f) /\ "azurl" \in Line
  BY DEF CallsInv, CallTypeInv, Line
<1>2. /\ IsLocals(g) /\ g.assetLines = Append(f.assetLines, "azurl")
      /\ Same(f, g, {"assetLines"})
  BY <1>1, LinesOf, Reported
<1>3. ToSet(g.assetLines) = ToSet(f.assetLines) \cup {"azurl"}
  BY <1>1, <1>2, LinesOf DEF IsLocals
<1>4. InCacheOk(command[p], net, pc[p], f)
  BY CaseFacts DEF CallOk, InCache
<1>5. /\ g.url = 0 /\ g.printed = <<>> /\ g.lines = <<>> /\ g.authoritative_prognosis = Success
      /\ g.asset_cache_prognosis = Success /\ g.asking # "url"
      /\ ToSet(g.assetLines) \subseteq {"azurl", "script"} /\ "azurl" \in ToSet(g.assetLines)
  BY <1>1, <1>2, <1>3, <1>4 DEF InCacheOk, Same, IsLocals
<1>6. CASE prognosis = OtherError /\ GoTo(p, "script") /\ FetchBecomes(p, g)
  <2>. HIDE DEF g
  <2>1. OthersStay(p) /\ pc'[p] = "script" /\ fetch'[p] = g
    BY <1>6, CallGoes
  <2>2. InCacheOk(command[p], net, "script", g)
    BY <1>5 DEF InCacheOk, CacheAsked
  <2>. QED
    BY <1>2, <1>5, <2>1, <2>2 DEF CallOk, AtUrls
<1>7. CASE prognosis # OtherError /\ NotCached(p, g, prognosis)
  <2>1. OthersStay(p) /\ pc'[p] = "missed" /\ fetch'[p] = h
    BY <1>7, CallGoes DEF NotCached
  <2>2. /\ IsLocals(h) /\ h.asset_cache_prognosis = Combine(g.asset_cache_prognosis, prognosis)
        /\ Same(g, h, {"asset_cache_prognosis"})
    BY <1>2, Judged
  <2>. HIDE DEF g, h
  <2>3. h.asset_cache_prognosis # OtherError
    BY <1>5, <1>7, <2>2 DEF Combine, Success, OtherError, Prognosis
  <2>4. /\ h.url = 0 /\ h.printed = <<>> /\ h.lines = <<>> /\ h.authoritative_prognosis = Success
        /\ h.asking # "url" /\ h.assetLines = g.assetLines
    BY <1>2, <1>5, <2>2 DEF Same, IsLocals
  <2>5. InCacheOk(command[p], net, "missed", h)
    BY <1>5, <2>3, <2>4 DEF InCacheOk, CacheAsked, ScriptAsked
  <2>. QED
    BY <2>1, <2>2, <2>4, <2>5 DEF CallOk, AtUrls
<1>. QED
  BY <1>6, <1>7 DEF AttemptFails

\* An attempt at a URL fails: what is then known of the URLs up to this one.
LEMMA UrlAttemptFails ==
    ASSUME CallsInv, NEW p \in Process, NEW prognosis \in Prognosis \ {Success}, NEW b,
           pc[p] \in {"transfer", "check"}, fetch[p].asking = "url", AttemptFails(p, prognosis),
           ~GivenBy(command[p], net.url[fetch[p].url]),
           prognosis = NetworkErrorProxyMightHelp <=> net.url[fetch[p].url] = "refused"
    PROVE  /\ OthersStay(p) /\ IsLocals(fetch'[p])
           /\ CallOk(command[p], net, pc'[p], fetch'[p], b)
<1>. DEFINE f == fetch[p]
            k == f.url
            c == command[p]
            failed == NotAtUrl(f, prognosis)
            shown == CommitAssetLines(failed)
            g == IF f.url = 1 THEN CommitLines(shown) ELSE failed
            h == AtUrl(g, k + 1)
<1>1. IsLocals(f) /\ "url" \in Line /\ c.urls \in Nat
  BY CaseFacts DEF Line
<1>2. AtUrlsOk(c, net, pc[p], f, part[p]) /\ FailedUrls(pc[p], f) = k - 1
  BY CaseFacts DEF CallOk, AtUrls, FailedUrls
<1>3. k \in 1 .. c.urls /\ k \in Nat /\ k > 0
  BY <1>1, <1>2 DEF AtUrlsOk
<1>4. /\ IsLocals(failed)
      /\ failed.authoritative_prognosis = Combine(f.authoritative_prognosis, prognosis)
      /\ failed.lines = Append(f.lines, "url")
      /\ Same(f, failed, {"lines", "authoritative_prognosis"})
  BY <1>1, Judged
<1>. HIDE DEF failed
<1>5. /\ IsLocals(shown)
      /\ shown.printed = failed.printed \o failed.assetLines /\ shown.assetLines = <<>>
      /\ Same(failed, shown, {"printed", "assetLines"})
      /\ \A x : IsLocals(x) => /\ IsLocals(CommitLines(x))
                               /\ CommitLines(x).printed = x.printed \o x.lines
                               /\ CommitLines(x).lines = <<>>
                               /\ Same(x, CommitLines(x), {"printed", "lines"})
  BY <1>4, Committed
<1>6. ToSet(failed.lines) = ToSet(f.lines) \cup {"url"} /\ Len(failed.lines) = Len(f.lines) + 1
  BY <1>1, <1>4, LinesOf DEF IsLocals
<1>7. /\ IsLocals(g) /\ g.asking = "url" /\ g.url = k
      /\ g.asset_cache_prognosis = f.asset_cache_prognosis
      /\ g.authoritative_prognosis = Combine(f.authoritative_prognosis, prognosis)
      /\ g.assetLines = <<>> /\ Len(g.lines) = k - 1 /\ ToSet(g.lines) \subseteq {"url"}
      /\ ToSet(g.printed) \subseteq {"azurl", "script", "url"}
      /\ ToSet(f.assetLines) \cup ToSet(f.printed) \subseteq ToSet(g.printed)
  <2>1. CASE k = 1
    <3>1. f.printed = <<>> /\ f.lines = <<>> /\ ToSet(f.assetLines) \subseteq {"azurl", "script"}
      BY <1>2, <2>1 DEF AtUrlsOk
    <3>. DEFINE d == CommitLines(shown)
    <3>2. /\ IsLocals(d) /\ d.printed = shown.printed \o shown.lines /\ d.lines = <<>>
          /\ Same(shown, d, {"printed", "lines"})
      BY <1>5
    <3>. HIDE DEF d, shown
    <3>3. /\ shown.printed = f.printed \o f.assetLines /\ shown.lines = failed.lines
          /\ shown.url = k /\ shown.asking = "url"
          /\ shown.asset_cache_prognosis = f.asset_cache_prognosis
          /\ shown.authoritative_prognosis = failed.authoritative_prognosis
      BY <1>1, <1>4, <1>5 DEF IsLocals, Same
    <3>4. ToSet(shown.printed) = ToSet(f.printed) \cup ToSet(f.assetLines)
      <4>1. f.printed \in Seq(Line) /\ f.assetLines \in Seq(Line)
        BY <1>1 DEF IsLocals
      <4>. QED
        BY <3>3, <4>1, LinesOf
    <3>5. ToSet(d.printed) = ToSet(shown.printed) \cup ToSet(shown.lines)
      <4>1. shown.printed \in Seq(Line) /\ shown.lines \in Seq(Line)
        BY <1>5 DEF IsLocals, shown
      <4>. QED
        BY <3>2, <4>1, LinesOf
    <3>6. ToSet(f.printed) = {} /\ ToSet(f.lines) = {} /\ ToSet(d.lines) = {} /\ Len(d.lines) = 0
      BY <3>1, <3>2, LinesOf
    <3>9. ToSet(d.printed) = ToSet(f.assetLines) \cup {"url"}
      BY <1>6, <3>3, <3>4, <3>5, <3>6
    <3>7. d.url = k /\ d.asking = "url" /\ d.assetLines = <<>>
          /\ d.asset_cache_prognosis = f.asset_cache_prognosis
          /\ d.authoritative_prognosis = failed.authoritative_prognosis
      BY <1>5, <3>2, <3>3 DEF IsLocals, Same
    <3>8. g = d
      BY <2>1 DEF d
    <3>. HIDE DEF g
    <3>. QED
      <4>1. /\ IsLocals(d) /\ d.asking = "url" /\ d.url = k /\ d.assetLines = <<>>
            /\ d.asset_cache_prognosis = f.asset_cache_prognosis
            /\ d.authoritative_prognosis = Combine(f.authoritative_prognosis, prognosis)
        BY <1>4, <3>2, <3>7
      <4>2. Len(d.lines) = k - 1 /\ ToSet(d.lines) \subseteq {"url"}
        BY <2>1, <3>6
      <4>3. /\ ToSet(d.printed) \subseteq {"azurl", "script", "url"}
            /\ ToSet(f.assetLines) \cup ToSet(f.printed) \subseteq ToSet(d.printed)
        BY <3>1, <3>6, <3>9
      <4>. QED
        BY <3>8, <4>1, <4>2, <4>3
  <2>2. CASE k # 1
    <3>1. /\ f.assetLines = <<>> /\ Len(f.lines) = k - 2 /\ ToSet(f.lines) \subseteq {"url"}
          /\ ToSet(f.printed) \subseteq {"azurl", "script", "url"}
      BY <1>2, <1>3, <2>2 DEF AtUrlsOk
    <3>2. failed.url = k /\ failed.asking = "url" /\ failed.assetLines = <<>>
          /\ failed.printed = f.printed /\ failed.asset_cache_prognosis = f.asset_cache_prognosis
      BY <1>1, <1>4, <3>1 DEF IsLocals, Same
    <3>3. g = failed
      BY <2>2
    <3>4. ToSet(f.assetLines) = {}
      BY <3>1, LinesOf
    <3>5. Len(failed.lines) = k - 1 /\ ToSet(failed.lines) \subseteq {"url"}
      BY <1>3, <1>6, <3>1
    <3>. HIDE DEF g
    <3>. QED
      BY <1>4, <3>1, <3>2, <3>3, <3>4, <3>5
  <2>. QED
    BY <2>1, <2>2
<1>. HIDE DEF g
<1>8. /\ \A u \in 1 .. k : ~GivenBy(c, net.url[u])
      /\ g.authoritative_prognosis = NetworkErrorProxyMightHelp <=>
            \E u \in 1 .. k : net.url[u] = "refused"
  <2>1. /\ \A u \in 1 .. k - 1 : ~GivenBy(c, net.url[u])
        /\ f.authoritative_prognosis = NetworkErrorProxyMightHelp <=>
            \E u \in 1 .. k - 1 : net.url[u] = "refused"
    BY <1>2 DEF AtUrlsOk
  <2>2. \A u \in 1 .. k : u \in 1 .. k - 1 \/ u = k
    BY <1>3
  <2>3. \A u \in 1 .. k - 1 : u \in 1 .. k
    BY <1>3
  <2>4. k \in 1 .. k
    BY <1>3
  <2>5. g.authoritative_prognosis = NetworkErrorProxyMightHelp <=>
            \/ f.authoritative_prognosis = NetworkErrorProxyMightHelp
            \/ prognosis = NetworkErrorProxyMightHelp
    BY <1>1, <1>7 DEF Combine, NetworkErrorProxyMightHelp, Prognosis, IsLocals
  <2>. QED
    BY <2>1, <2>2, <2>3, <2>4, <2>5
<1>9. /\ ~c.block /\ CacheAsked(c, g) /\ ScriptAsked(c, net, g)
      /\ ToSet(g.assetLines) \subseteq {"azurl", "script"}
  <2>1. ToSet(<<>>) = {}
    BY LinesOf
  <2>. QED
    BY <1>2, <1>7, <2>1 DEF AtUrlsOk, CacheAsked, ScriptAsked
<1>10. CASE k = c.urls /\ GoTo(p, "exhausted") /\ FetchBecomes(p, g)
  <2>1. OthersStay(p) /\ pc'[p] = "exhausted" /\ fetch'[p] = g
    BY <1>10, CallGoes
  <2>2. AtUrlsOk(c, net, "exhausted", g, b)
    BY <1>3, <1>7, <1>8, <1>9, <1>10 DEF AtUrlsOk, FailedUrls
  <2>. QED
    BY <1>7, <2>1, <2>2 DEF CallOk, InCache
<1>11. CASE k # c.urls /\ GoTo(p, "connect") /\ FetchBecomes(p, h)
  <2>1. OthersStay(p) /\ pc'[p] = "connect" /\ fetch'[p] = h
    BY <1>11, CallGoes
  <2>2. /\ IsLocals(h) /\ h.asking = "url" /\ h.url = k + 1
        /\ Same(g, h, {"asking", "url", "attempt"})
    <3>1. k + 1 \in Nat /\ IsLocals(g)
      BY <1>3, <1>7
    <3>. QED
      BY <3>1, Moved
  <2>. HIDE DEF h
  <2>3. /\ h.printed = g.printed /\ h.lines = g.lines /\ h.assetLines = g.assetLines
        /\ h.asset_cache_prognosis = g.asset_cache_prognosis
        /\ h.authoritative_prognosis = g.authoritative_prognosis
    BY <1>7, <2>2 DEF Same, IsLocals
  <2>4. k + 1 \in 1 .. c.urls /\ FailedUrls("connect", h) = k /\ CacheAsked(c, h) /\ ScriptAsked(c, net, h)
    BY <1>1, <1>3, <1>9, <1>11, <2>2, <2>3 DEF FailedUrls, CacheAsked, ScriptAsked
  <2>5. AtUrlsOk(c, net, "connect", h, b)
    BY <1>3, <1>7, <1>8, <1>9, <2>2, <2>3, <2>4 DEF AtUrlsOk
  <2>. QED
    BY <2>1, <2>2, <2>5 DEF CallOk, InCache
<1>. QED
  BY <1>10, <1>11 DEF AttemptFails, UrlFails, g, failed

\* A step that ends the call.
LEMMA CallEnds ==
    ASSUME CallsInv, NEW p \in Process, NEW f, IsLocals(f), NEW b,
           \/ Succeeds(p, f) /\ SucceededOk(f)
           \/ Fails(p, f) /\ FailedOk(command[p], net, f)
    PROVE  /\ OthersStay(p) /\ IsLocals(fetch'[p])
           /\ CallOk(command[p], net, pc'[p], fetch'[p], b)
<1>1. CASE Fails(p, f) /\ FailedOk(command[p], net, f)
  <2>1. OthersStay(p) /\ pc'[p] = "failed" /\ fetch'[p] = f
    BY <1>1, CallGoes DEF Fails
  <2>. QED
    BY <1>1, <2>1 DEF CallOk, InCache, AtUrls
<1>2. CASE Succeeds(p, f) /\ SucceededOk(f) /\ command[p].sha # "zero"
  <2>1. OthersStay(p) /\ pc'[p] = "succeeded" /\ fetch'[p] = f
    BY <1>2, CallGoes DEF Succeeds
  <2>. QED
    BY <1>2, <2>1 DEF CallOk, InCache, AtUrls
<1>3. CASE Succeeds(p, f) /\ SucceededOk(f) /\ command[p].sha = "zero"
  <2>. DEFINE g == Report(f, <<"zero">>)
  <2>1. OthersStay(p) /\ pc'[p] = "failed" /\ fetch'[p] = g
    BY <1>3, CallGoes DEF Succeeds
  <2>2. "zero" \in Line /\ <<"zero">> \in Seq(Line) /\ ToSet(<<"zero">>) = {"zero"}
    BY LinesOf DEF Line
  <2>3. /\ IsLocals(g) /\ g.printed = f.printed \o <<"zero">> /\ Same(f, g, {"printed"})
    BY <2>2, Reported
  <2>. HIDE DEF g
  <2>4. f.printed \in Seq(Line)
    BY DEF IsLocals
  <2>5. ToSet(f.printed \o <<"zero">>) = ToSet(f.printed) \cup ToSet(<<"zero">>)
    BY <2>2, <2>4, LinesOf
  <2>6. g.assetLines = <<>> /\ g.lines = <<>>
    BY <1>3, <2>3 DEF Same, IsLocals, SucceededOk
  <2>7. FailedOk(command[p], net, g)
    BY <1>3, <2>2, <2>3, <2>5, <2>6 DEF FailedOk
  <2>. QED
    BY <2>1, <2>3, <2>7 DEF CallOk, InCache, AtUrls
<1>. QED
  BY <1>1, <1>2, <1>3

\* Where the note about proxies is, if there is one.
LEMMA NotePlaces ==
    ASSUME NEW q \in Seq(Line), "proxy" \notin ToSet(q)
    PROVE  /\ Notes(q) = {}
           /\ Notes(q \o <<"proxy">>) = {Len(q) + 1}
           /\ \A l \in Seq(Line) : "proxy" \notin ToSet(l) =>
                /\ Notes((q \o <<"proxy">>) \o l) = {Len(q) + 1}
                /\ \A j \in Len(q) + 2 .. Len(q) + 1 + Len(l) :
                        ((q \o <<"proxy">>) \o l)[j] = l[j - Len(q) - 1]
<1>1. \A i \in DOMAIN q : q[i] # "proxy"
  BY DEF ToSet
<1>2. <<"proxy">> \in Seq(Line)
  BY DEF Line
<1>3. /\ DOMAIN (q \o <<"proxy">>) = 1 .. Len(q) + 1 /\ DOMAIN q = 1 .. Len(q) /\ Len(q) \in Nat
      /\ \A i \in 1 .. Len(q) : (q \o <<"proxy">>)[i] = q[i]
      /\ (q \o <<"proxy">>)[Len(q) + 1] = "proxy"
      /\ q \o <<"proxy">> \in Seq(Line) /\ Len(q \o <<"proxy">>) = Len(q) + 1
  BY <1>2
<1>4. Notes(q) = {}
  BY <1>1 DEF Notes
<1>5. Notes(q \o <<"proxy">>) = {Len(q) + 1}
  BY <1>1, <1>3 DEF Notes
<1>6. ASSUME NEW l \in Seq(Line), "proxy" \notin ToSet(l)
      PROVE  /\ Notes((q \o <<"proxy">>) \o l) = {Len(q) + 1}
             /\ \A j \in Len(q) + 2 .. Len(q) + 1 + Len(l) :
                    ((q \o <<"proxy">>) \o l)[j] = l[j - Len(q) - 1]
  <2>. DEFINE r == q \o <<"proxy">>
  <2>1. /\ DOMAIN (r \o l) = 1 .. Len(r) + Len(l) /\ DOMAIN l = 1 .. Len(l) /\ Len(l) \in Nat
        /\ \A i \in 1 .. Len(r) : (r \o l)[i] = r[i]
        /\ \A i \in Len(r) + 1 .. Len(r) + Len(l) : (r \o l)[i] = l[i - Len(r)]
    BY <1>3
  <2>2. \A i \in DOMAIN l : l[i] # "proxy"
    BY <1>6 DEF ToSet
  <2>. HIDE DEF r
  <2>3. Len(r) = Len(q) + 1 /\ Notes(r) = {Len(q) + 1} /\ DOMAIN r = 1 .. Len(q) + 1
    BY <1>3, <1>5 DEF r
  <2>4. \A j \in Len(q) + 2 .. Len(q) + 1 + Len(l) : (r \o l)[j] = l[j - Len(q) - 1]
    BY <1>3, <2>1, <2>3
  <2>5. ASSUME NEW i \in Notes(r \o l)
        PROVE  i \in Notes(r)
    <3>1. CASE i \in 1 .. Len(r)
      BY <2>1, <2>3, <3>1 DEF Notes
    <3>2. CASE i \in Len(r) + 1 .. Len(r) + Len(l)
      BY <1>3, <2>1, <2>2, <2>3, <3>2 DEF Notes
    <3>. QED
      BY <1>3, <2>1, <2>3, <3>1, <3>2 DEF Notes
  <2>6. Len(q) + 1 \in Notes(r \o l)
    BY <1>3, <2>1, <2>3 DEF Notes
  <2>. QED
    BY <2>3, <2>4, <2>5, <2>6 DEF r
<1>. QED
  BY <1>4, <1>5, <1>6

\* The arguments are wrong, or the first source is asked.
LEMMA BeginCalls ==
    ASSUME CallsInv, NEW p \in Process, Begin(p)
    PROVE  CallsInv'
<1>1. /\ command[p].urls \in Nat /\ {command[p].azurl, command[p].script} \subseteq BOOLEAN
      /\ part \in [Process -> Bytes] /\ file \in Bytes /\ cache \in Bytes
  BY CaseFacts DEF CallsInv, CallTypeInv
<1>2. /\ IsLocals(NoFetch) /\ NoFetch.printed = <<>> /\ NoFetch.lines = <<>> /\ NoFetch.assetLines = <<>>
      /\ NoFetch.url = 0 /\ NoFetch.authoritative_prognosis = Success
      /\ NoFetch.asset_cache_prognosis = Success
  BY DEF NoFetch, IsLocals, Prognosis, Success, Bytes
<1>3. CASE command[p].urls = 0 /\ ~CanReadAssetCache(p) /\ Fails(p, Report(NoFetch, <<"nowhere">>))
  <2>. DEFINE g == Report(NoFetch, <<"nowhere">>)
  <2>1. OthersStay(p) /\ pc'[p] = "failed" /\ fetch'[p] = g
    BY <1>3, CallGoes DEF Fails
  <2>2. "nowhere" \in Line /\ <<"nowhere">> \in Seq(Line)
    BY DEF Line
  <2>3. IsLocals(g) /\ g.printed = <<>> \o <<"nowhere">> /\ Same(NoFetch, g, {"printed"})
    BY <1>2, <2>2, Reported
  <2>. HIDE DEF g
  <2>4. g.printed = <<"nowhere">> /\ g.lines = <<>> /\ g.assetLines = <<>> /\ g.url = 0
        /\ g.asset_cache_prognosis = Success
    BY <1>2, <2>3 DEF Same, IsLocals
  <2>5. Notes(g.printed) = {}
    BY <2>4 DEF Notes
  <2>6. FailedOk(command[p], net, g)
    <3>1. ~AsksUrlCache(command[p]) /\ ScriptAsked(command[p], net, g)
      BY <1>1, <1>3 DEF CanReadAssetCache, ReadsUrlCache, HasSha, AsksUrlCache, ShaGiven, ScriptAsked
    <3>2. NotesOk(net, g)
      BY <2>4, <2>5 DEF NotesOk, Success, NetworkErrorProxyMightHelp
    <3>. QED
      BY <1>3, <2>4, <3>1, <3>2 DEF FailedOk
  <2>7. CallOk(command[p], net, pc'[p], fetch'[p], part'[p])
    BY <2>1, <2>6 DEF CallOk, InCache, AtUrls
  <2>. QED
    BY <1>1, <2>1, <2>3, <2>7, CallStep DEF Begin
<1>4. CASE /\ GoTo(p, IF ReadsUrlCache(p) THEN "connect" ELSE "script")
           /\ FetchBecomes(p, [NoFetch EXCEPT !.asking = "azurl"])
  <2>. DEFINE g == [NoFetch EXCEPT !.asking = "azurl"]
              label == IF ReadsUrlCache(p) THEN "connect" ELSE "script"
  <2>1. IsLocals(g) /\ g.asking = "azurl" /\ Same(NoFetch, g, {"asking"})
    BY DEF IsLocals, NoFetch, Same, Prognosis, Success, Bytes
  <2>2. label \in {"connect", "script"} /\ (label = "script" => ~AsksUrlCache(command[p]))
    BY <1>1 DEF ReadsUrlCache, HasSha, AsksUrlCache, ShaGiven
  <2>. HIDE DEF g, label
  <2>3. OthersStay(p) /\ pc'[p] = label /\ fetch'[p] = g
    BY <1>4, CallGoes DEF g, label
  <2>4. /\ g.printed = <<>> /\ g.lines = <<>> /\ g.assetLines = <<>> /\ g.url = 0
        /\ g.authoritative_prognosis = Success /\ g.asset_cache_prognosis = Success
    BY <1>2, <2>1 DEF Same, IsLocals
  <2>5. InCacheOk(command[p], net, label, g)
    BY <2>2, <2>4, LinesOf DEF InCacheOk, CacheAsked
  <2>6. CallOk(command[p], net, pc'[p], fetch'[p], part'[p])
    BY <2>1, <2>2, <2>3, <2>5 DEF CallOk, AtUrls
  <2>. QED
    BY <1>1, <2>1, <2>3, <2>6, CallStep DEF Begin
<1>. QED
  BY <1>3, <1>4 DEF Begin

\* A transfer begins.
LEMMA ConnectCalls ==
    ASSUME CallsInv, NEW p \in Process, Connect(p)
    PROVE  CallsInv'
<1>. DEFINE f == fetch[p]
<1>1. part \in [Process -> Bytes] /\ file \in Bytes /\ cache \in Bytes /\ IsLocals(f)
  BY CaseFacts DEF CallsInv, CallTypeInv
<1>2. OthersStay(p) /\ pc'[p] = "transfer" /\ fetch'[p] = f
  BY CallGoes DEF Connect
<1>3. CallOk(command[p], net, "connect", f, part[p])
  BY CaseFacts DEF Connect
<1>4. /\ part' \in [Process -> Bytes] /\ \A q \in Process : q # p => part'[q] = part[q]
  BY <1>1 DEF Connect, Bytes
<1>. HIDE DEF f
<1>5. f.asking # "url" => InCacheOk(command[p], net, "transfer", f)
  BY <1>3 DEF CallOk, InCache, InCacheOk
<1>6. f.asking = "url" => AtUrlsOk(command[p], net, "transfer", f, part'[p])
  <2>1. FailedUrls("connect", f) = FailedUrls("transfer", f)
    BY DEF FailedUrls
  <2>. QED
    BY <1>3, <2>1 DEF CallOk, AtUrls, AtUrlsOk
<1>7. CallOk(command[p], net, "transfer", f, part'[p])
  BY <1>5, <1>6 DEF CallOk, InCache, AtUrls
<1>. QED
  BY <1>1, <1>2, <1>4, <1>7, CallStep DEF Connect

\* A server answers.
LEMMA TransferCalls ==
    ASSUME CallsInv, NEW p \in Process, Transfer(p)
    PROVE  CallsInv'
<1>. DEFINE f == fetch[p]
            c == command[p]
<1>1. part \in [Process -> Bytes] /\ file \in Bytes /\ cache \in Bytes /\ IsLocals(f)
  BY CaseFacts DEF CallsInv, CallTypeInv
<1>2. CallOk(c, net, "transfer", f, part[p]) /\ pc[p] = "transfer"
  BY CaseFacts DEF Transfer
<1>3. f.asking = "url" =>
        /\ f.url \in 1 .. c.urls /\ net.url[f.url] \in {"right", "wrong", "blip", "busy", "refused"}
        /\ Answer(p) = IF net.url[f.url] = "blip" THEN IF f.attempt = 0 THEN "busy" ELSE "right"
                       ELSE net.url[f.url]
  BY <1>2, CaseFacts DEF CallOk, AtUrls, AtUrlsOk, Answer
<1>4. f.attempt \in Nat
  BY <1>1 DEF IsLocals
<1>5. CASE Answer(p) = "busy" /\ UNCHANGED part /\ GoTo(p, "connect") /\ FetchBecomes(p, AgainAt(f))
  <2>. DEFINE g == AgainAt(f)
  <2>1. OthersStay(p) /\ pc'[p] = "connect" /\ fetch'[p] = g
    BY <1>5, CallGoes
  <2>2. "absent" \in Bytes
    BY DEF Bytes
  <2>3. IsLocals(g) /\ Same(f, g, {"attempt"})
    BY <1>1, <2>2, Continued
  <2>. HIDE DEF f, g
  <2>4. /\ g.asking = f.asking /\ g.url = f.url /\ g.printed = f.printed /\ g.lines = f.lines
        /\ g.assetLines = f.assetLines /\ g.asset_cache_prognosis = f.asset_cache_prognosis
        /\ g.authoritative_prognosis = f.authoritative_prognosis
    BY <1>1, <2>3 DEF Same, IsLocals
  <2>5. g.asking # "url" => InCacheOk(c, net, "connect", g)
    BY <1>2, <2>4 DEF CallOk, InCache, InCacheOk, CacheAsked
  <2>6. g.asking = "url" => AtUrlsOk(c, net, "connect", g, part[p])
    BY <1>2, <2>4 DEF CallOk, AtUrls, AtUrlsOk, CacheAsked, ScriptAsked, FailedUrls
  <2>7. CallOk(c, net, "connect", g, part[p])
    BY <2>5, <2>6 DEF CallOk, InCache, AtUrls
  <2>. QED
    BY <1>1, <1>5, <2>1, <2>3, <2>7, CallStep DEF Transfer
<1>6. CASE /\ Answer(p) = "busy" /\ UNCHANGED part /\ f.attempt + 1 >= Attempts
           /\ AttemptFails(p, TransientNetworkError)
  <2>1. TransientNetworkError \in Prognosis \ {Success} /\ TransientNetworkError # NetworkErrorProxyMightHelp
    BY DEF TransientNetworkError, Prognosis, Success, NetworkErrorProxyMightHelp
  <2>2. f.asking = "url" => net.url[f.url] = "busy"
    BY <1>3, <1>4, <1>6 DEF Attempts
  <2>3. f.asking = "url" => ~GivenBy(c, net.url[f.url]) /\ net.url[f.url] # "refused"
    BY <2>2 DEF GivenBy, Sent
  <2>4. OthersStay(p) /\ IsLocals(fetch'[p]) /\ CallOk(c, net, pc'[p], fetch'[p], part[p])
    <3>1. CASE f.asking = "url"
      BY <1>2, <1>6, <2>1, <2>3, <3>1, UrlAttemptFails
    <3>2. CASE f.asking # "url"
      BY <1>2, <1>6, <2>1, <3>2, CacheAttemptFails
    <3>. QED
      BY <3>1, <3>2
  <2>. QED
    BY <1>1, <1>6, <2>4, CallStep DEF Transfer
<1>7. CASE Answer(p) = "refused" /\ UNCHANGED part /\ AttemptFails(p, NetworkErrorProxyMightHelp)
  <2>1. NetworkErrorProxyMightHelp \in Prognosis \ {Success}
    BY DEF Prognosis, Success, NetworkErrorProxyMightHelp
  <2>2. f.asking = "url" => net.url[f.url] = "refused"
    BY <1>3, <1>7
  <2>3. f.asking = "url" => ~GivenBy(c, net.url[f.url])
    BY <2>2 DEF GivenBy, Sent
  <2>4. OthersStay(p) /\ IsLocals(fetch'[p]) /\ CallOk(c, net, pc'[p], fetch'[p], part[p])
    <3>1. CASE f.asking = "url"
      BY <1>2, <1>7, <2>1, <2>2, <2>3, <3>1, UrlAttemptFails
    <3>2. CASE f.asking # "url"
      BY <1>2, <1>7, <2>1, <3>2, CacheAttemptFails
    <3>. QED
      BY <3>1, <3>2
  <2>. QED
    BY <1>1, <1>7, <2>4, CallStep DEF Transfer
<1>8. CASE /\ Answer(p) \in {"right", "wrong", "torn"} /\ part' = [part EXCEPT ![p] = Answer(p)]
           /\ GoTo(p, "check") /\ UNCHANGED fetch
  <2>1. OthersStay(p) /\ pc'[p] = "check" /\ fetch'[p] = f
    BY <1>8, CallGoes
  <2>2. /\ part'[p] = Answer(p) /\ part' \in [Process -> Bytes]
        /\ \A q \in Process : q # p => part'[q] = part[q]
    BY <1>1, <1>8 DEF Bytes
  <2>3. f.asking = "url" => part'[p] = Sent(net.url[f.url])
    BY <1>3, <1>8, <2>2 DEF Sent
  <2>. HIDE DEF f
  <2>4. f.asking # "url" => InCacheOk(c, net, "check", f)
    BY <1>2 DEF CallOk, InCache, InCacheOk
  <2>5. f.asking = "url" => AtUrlsOk(c, net, "check", f, part'[p])
    <3>1. FailedUrls("transfer", f) = FailedUrls("check", f)
      BY DEF FailedUrls
    <3>. QED
      BY <1>2, <2>3, <3>1 DEF CallOk, AtUrls, AtUrlsOk
  <2>6. CallOk(c, net, "check", f, part'[p])
    BY <2>4, <2>5 DEF CallOk, InCache, AtUrls
  <2>. QED
    BY <1>1, <2>1, <2>2, <2>6, CallStep DEF Transfer
<1>. QED
  BY <1>5, <1>6, <1>7, <1>8 DEF Transfer

\* What is in the file when it has come.
LEMMA FileComes ==
    ASSUME CallsInv, NEW p \in Process, NEW b, GoTo(p, "arrived"), UNCHANGED fetch,
           pc[p] \in {"check", "script"}
    PROVE  /\ OthersStay(p) /\ IsLocals(fetch'[p])
           /\ CallOk(command[p], net, pc'[p], fetch'[p], b)
<1>. DEFINE f == fetch[p]
<1>1. IsLocals(f) /\ CallOk(command[p], net, pc[p], f, part[p])
  BY CaseFacts
<1>2. OthersStay(p) /\ pc'[p] = "arrived" /\ fetch'[p] = f
  BY CallGoes
<1>. HIDE DEF f
<1>3. CASE f.asking # "url"
  <2>1. InCacheOk(command[p], net, pc[p], f)
    BY <1>1, <1>3 DEF CallOk, InCache
  <2>2. HasArrivedOk("arrived", f)
    BY <1>3, <2>1, LinesOf DEF InCacheOk, HasArrivedOk
  <2>. QED
    BY <1>1, <1>2, <2>2 DEF CallOk, InCache, AtUrls
<1>4. CASE f.asking = "url"
  <2>1. pc[p] = "check" /\ AtUrlsOk(command[p], net, "check", f, part[p])
    BY <1>1, <1>4 DEF CallOk, AtUrls
  <2>2. HasArrivedOk("arrived", f)
    BY <1>4, <2>1 DEF AtUrlsOk, HasArrivedOk, FailedUrls
  <2>. QED
    BY <1>1, <1>2, <2>2 DEF CallOk, InCache, AtUrls
<1>. QED
  BY <1>3, <1>4

\* The hash is right or not.
LEMMA CheckCalls ==
    ASSUME CallsInv, NEW p \in Process, Check(p)
    PROVE  CallsInv'
<1>. DEFINE f == fetch[p]
            c == command[p]
<1>1. /\ part \in [Process -> Bytes] /\ file \in Bytes /\ cache \in Bytes /\ part[p] \in Bytes
      /\ CallOk(c, net, "check", f, part[p]) /\ pc[p] = "check"
  BY CaseFacts DEF CallsInv, CallTypeInv, Check
<1>2. CASE /\ file' = part[p] /\ part' = [part EXCEPT ![p] = "absent"]
           /\ GoTo(p, "arrived") /\ UNCHANGED fetch
  <2>1. /\ OthersStay(p) /\ IsLocals(fetch'[p]) /\ CallOk(c, net, pc'[p], fetch'[p], part'[p])
    BY <1>1, <1>2, FileComes
  <2>2. part' \in [Process -> Bytes] /\ \A q \in Process : q # p => part'[q] = part[q]
    BY <1>1, <1>2 DEF Bytes
  <2>. QED
    BY <1>1, <1>2, <2>1, <2>2, CallStep DEF Check
<1>3. CASE ~Acceptable(p, part[p]) /\ AttemptFails(p, OtherError) /\ UNCHANGED <<file, part>>
  <2>1. OtherError \in Prognosis \ {Success} /\ OtherError # NetworkErrorProxyMightHelp
    BY DEF OtherError, Prognosis, Success, NetworkErrorProxyMightHelp
  <2>2. ShaGiven(c) /\ part[p] # "right"
    BY <1>3 DEF Acceptable, HasSha, ShaGiven
  <2>3. f.asking = "url" => part[p] = Sent(net.url[f.url])
    BY <1>1 DEF CallOk, AtUrls, AtUrlsOk
  <2>4. f.asking = "url" => ~GivenBy(c, net.url[f.url]) /\ net.url[f.url] # "refused"
    BY <1>1, <2>2, <2>3 DEF GivenBy, Sent, Bytes
  <2>5. OthersStay(p) /\ IsLocals(fetch'[p]) /\ CallOk(c, net, pc'[p], fetch'[p], part[p])
    <3>1. CASE f.asking = "url"
      BY <1>1, <1>3, <2>1, <2>4, <3>1, UrlAttemptFails
    <3>2. CASE f.asking # "url"
      BY <1>1, <1>3, <2>1, <3>2, CacheAttemptFails
    <3>. QED
      BY <3>1, <3>2
  <2>. QED
    BY <1>1, <1>3, <2>5, CallStep DEF Check
<1>. QED
  BY <1>2, <1>3 DEF Check

\* The script has no file either.
LEMMA ScriptMisses ==
    ASSUME CallsInv, NEW p \in Process, NEW g, IsLocals(g), NEW b, pc[p] = "script",
           NotCached(p, g, OtherError), Same(fetch[p], g, {"assetLines"}),
           ToSet(g.assetLines) \in {ToSet(fetch[p].assetLines), ToSet(fetch[p].assetLines) \cup {"script"}},
           command[p].script => ~GivenBy(command[p], net.script)
    PROVE  /\ OthersStay(p) /\ IsLocals(fetch'[p])
           /\ CallOk(command[p], net, pc'[p], fetch'[p], b)
<1>. DEFINE f == fetch[p]
            c == command[p]
            h == NotInCache(g, OtherError)
<1>1. IsLocals(f) /\ InCacheOk(c, net, "script", f) /\ f.asking # "url"
  BY CaseFacts DEF CallOk, InCache
<1>2. OthersStay(p) /\ pc'[p] = "missed" /\ fetch'[p] = h
  BY CallGoes DEF NotCached
<1>3. OtherError \in Prognosis
  BY DEF OtherError, Prognosis
<1>4. IsLocals(h) /\ Same(g, h, {"asset_cache_prognosis"})
  BY <1>3, Judged
<1>5. /\ g.url = f.url /\ g.printed = f.printed /\ g.lines = f.lines /\ g.asking = f.asking
      /\ g.authoritative_prognosis = f.authoritative_prognosis
  BY <1>1 DEF Same, IsLocals
<1>. HIDE DEF f, h
<1>6. /\ h.url = f.url /\ h.printed = f.printed /\ h.lines = f.lines /\ h.asking = f.asking
      /\ h.authoritative_prognosis = f.authoritative_prognosis /\ h.assetLines = g.assetLines
  BY <1>4, <1>5 DEF Same, IsLocals
<1>7. ToSet(h.assetLines) \subseteq {"azurl", "script"}
  BY <1>1, <1>6 DEF InCacheOk, f
<1>8. CacheAsked(c, h)
  <2>1. ToSet(f.assetLines) \subseteq ToSet(h.assetLines)
    BY <1>6 DEF f
  <2>. QED
    BY <1>1, <1>6, <2>1 DEF InCacheOk, CacheAsked
<1>9. InCacheOk(c, net, "missed", h)
  BY <1>1, <1>6, <1>7, <1>8 DEF InCacheOk, ScriptAsked
<1>. QED
  BY <1>1, <1>2, <1>4, <1>6, <1>9 DEF CallOk, AtUrls

LEMMA ScriptCalls ==
    ASSUME CallsInv, NEW p \in Process, Script(p)
    PROVE  CallsInv'
<1>. DEFINE f == fetch[p]
            c == command[p]
            dst == IF net.script \in {"right", "wrong"} THEN net.script ELSE part[p]
<1>1. /\ part \in [Process -> Bytes] /\ file \in Bytes /\ cache \in Bytes /\ part[p] \in Bytes
      /\ IsLocals(f) /\ pc[p] = "script" /\ net.script \in {"right", "wrong", "nothing", "fails"}
  BY CaseFacts DEF CallsInv, CallTypeInv, Script
<1>2. dst \in Bytes
  BY <1>1 DEF Bytes
<1>3. CASE ~c.script /\ NotCached(p, f, OtherError) /\ UNCHANGED <<file, part>>
  <2>1. Same(f, f, {"assetLines"})
    BY DEF Same
  <2>2. /\ OthersStay(p) /\ IsLocals(fetch'[p]) /\ CallOk(c, net, pc'[p], fetch'[p], part'[p])
    BY <1>1, <1>3, <2>1, ScriptMisses
  <2>. QED
    BY <1>1, <1>3, <2>2, CallStep DEF Script
<1>4. CASE /\ net.script = "fails" \/ dst = "absent" \/ ~Acceptable(p, dst)
           /\ part' = [part EXCEPT ![p] = dst]
           /\ NotCached(p, AssetFails(f, "script"), OtherError) /\ UNCHANGED file
  <2>. DEFINE g == AssetFails(f, "script")
  <2>1. "script" \in Line
    BY DEF Line
  <2>2. <<>> \in Seq(Line)
    OBVIOUS
  <2>3. IsLocals(g) /\ g.assetLines = Append(f.assetLines, "script") /\ Same(f, g, {"assetLines"})
    BY <1>1, <2>1, <2>2, Reported
  <2>4. f.assetLines \in Seq(Line)
    BY <1>1 DEF IsLocals
  <2>5. ToSet(g.assetLines) = ToSet(f.assetLines) \cup {"script"}
    BY <2>1, <2>3, <2>4, LinesOf
  <2>6. ~GivenBy(c, net.script)
    BY <1>1, <1>4 DEF GivenBy, Sent, Acceptable, HasSha, ShaGiven
  <2>7. OthersStay(p) /\ IsLocals(fetch'[p]) /\ CallOk(c, net, pc'[p], fetch'[p], part'[p])
    BY <1>1, <1>4, <2>3, <2>5, <2>6, ScriptMisses
  <2>8. part' \in [Process -> Bytes] /\ \A q \in Process : q # p => part'[q] = part[q]
    BY <1>1, <1>2, <1>4
  <2>. QED
    BY <1>1, <1>4, <2>7, <2>8, CallStep DEF Script
<1>5. CASE /\ file' = dst /\ part' = [part EXCEPT ![p] = "absent"]
           /\ GoTo(p, "arrived") /\ UNCHANGED fetch
  <2>1. /\ OthersStay(p) /\ IsLocals(fetch'[p]) /\ CallOk(c, net, pc'[p], fetch'[p], part'[p])
    BY <1>1, <1>5, FileComes
  <2>2. part' \in [Process -> Bytes] /\ \A q \in Process : q # p => part'[q] = part[q]
    BY <1>1, <1>5 DEF Bytes
  <2>3. file' \in Bytes
    BY <1>2, <1>5
  <2>. QED
    BY <1>1, <1>5, <2>1, <2>2, <2>3, CallStep DEF Script
<1>. QED
  BY <1>3, <1>4, <1>5 DEF Script

\* A note about proxies is the last thing that is printed, or there is none.
LEMMA NoteAtEnd ==
    ASSUME NEW n, NEW g, NEW q \in Seq(Line), "proxy" \notin ToSet(q), NEW k,
           g.printed = q \o ProxyNote(k),
           k = NetworkErrorProxyMightHelp <=>
                \/ g.asset_cache_prognosis = NetworkErrorProxyMightHelp
                \/ \E u \in 1 .. g.url : n.url[u] = "refused"
    PROVE  NotesOk(n, g)
<1>1. CASE k = NetworkErrorProxyMightHelp
  <2>1. "proxy" \in Line
    BY DEF Line
  <2>2. g.printed = q \o <<"proxy">> /\ Len(q) \in Nat
    BY <1>1 DEF ProxyNote
  <2>3. Len(g.printed) = Len(q) + 1
    BY <2>1, <2>2
  <2>4. Notes(g.printed) = {Len(q) + 1}
    BY <2>2, NotePlaces
  <2>5. \A i \in Notes(g.printed) : i + 1 .. Len(g.printed) = {}
    BY <2>2, <2>3, <2>4
  <2>. QED
    BY <1>1, <2>4, <2>5 DEF NotesOk
<1>2. CASE k # NetworkErrorProxyMightHelp
  <2>1. g.printed = q
    BY <1>2, ConcatEmptySeq DEF ProxyNote
  <2>2. Notes(g.printed) = {}
    BY <2>1, NotePlaces
  <2>. QED
    BY <1>2, <2>2 DEF NotesOk
<1>. QED
  BY <1>1, <1>2

\* There are no URLs, or none that may be asked.
LEMMA MissFails ==
    ASSUME CallsInv, NEW p \in Process, NEW line \in {"miss", "blocked"}, pc[p] = "missed",
           command[p].urls = 0 \/ command[p].block,
           Fails(p, Report(CommitAssetLines(fetch[p]),
                           <<line>> \o ProxyNote(fetch[p].asset_cache_prognosis))), NEW b
    PROVE  /\ OthersStay(p) /\ IsLocals(fetch'[p])
           /\ CallOk(command[p], net, pc'[p], fetch'[p], b)
<1>. DEFINE f == fetch[p]
            c == command[p]
            h == CommitAssetLines(f)
            note == ProxyNote(f.asset_cache_prognosis)
            said == <<line>>
            g == Report(h, said \o note)
            q == h.printed \o said
<1>1. IsLocals(f) /\ CallOk(c, net, "missed", f, part[p]) /\ c.urls \in Nat
  BY CaseFacts
<1>2. InCacheOk(c, net, "missed", f)
  BY <1>1 DEF CallOk, InCache
<1>3. line \in Line /\ said \in Seq(Line) /\ ToSet(said) = {line}
  BY LinesOf DEF Line
<1>4. note \in Seq(Line)
  <2>1. "proxy" \in Line /\ <<>> \in Seq(Line)
    BY DEF Line
  <2>2. <<"proxy">> \in Seq(Line)
    BY <2>1, LinesOf
  <2>3. note = <<>> \/ note = <<"proxy">>
    BY DEF ProxyNote
  <2>. QED
    BY <2>1, <2>2, <2>3
<1>5. said \o note \in Seq(Line)
  BY <1>3, <1>4, LinesOf
<1>6. /\ IsLocals(h) /\ h.printed = f.printed \o f.assetLines /\ h.assetLines = <<>>
      /\ Same(f, h, {"printed", "assetLines"})
  BY <1>1, Committed
<1>7. "absent" \in Bytes
  BY DEF Bytes
<1>8. IsLocals(g) /\ g.printed = h.printed \o (said \o note) /\ Same(h, g, {"printed"})
  BY <1>3, <1>5, <1>6, Reported
<1>9. OthersStay(p) /\ pc'[p] = "failed" /\ fetch'[p] = g
  BY CallGoes DEF Fails
<1>10. f.printed \in Seq(Line) /\ f.assetLines \in Seq(Line) /\ h.printed \in Seq(Line)
  BY <1>1, <1>6 DEF IsLocals
<1>. HIDE DEF g, h, f, said, note
<1>11. h.printed = f.assetLines
  BY <1>2, <1>6, <1>10, ConcatEmptySeq DEF InCacheOk
<1>12. q \in Seq(Line) /\ ToSet(q) = ToSet(h.printed) \cup {line}
  BY <1>3, <1>10, LinesOf
<1>13. g.printed = q \o note
  <2>1. \A a, s, t \in Seq(Line) : (a \o s) \o t = a \o (s \o t)
    BY ConcatAssociative
  <2>2. (h.printed \o said) \o note = h.printed \o (said \o note)
    BY <1>3, <1>4, <1>10, <2>1
  <2>. QED
    BY <1>8, <2>2
<1>14. "proxy" \notin ToSet(q) /\ ToSet(f.assetLines) \subseteq ToSet(q)
  BY <1>2, <1>11, <1>12 DEF InCacheOk
<1>. HIDE DEF q
<1>15. ToSet(q) \subseteq ToSet(g.printed)
  BY <1>4, <1>12, <1>13, LinesOf
<1>16. h.url = 0 /\ h.lines = <<>> /\ h.asset_cache_prognosis = f.asset_cache_prognosis
  BY <1>1, <1>2, <1>6 DEF Same, IsLocals, InCacheOk
<1>17. /\ g.url = 0 /\ g.lines = <<>> /\ g.assetLines = <<>>
       /\ g.asset_cache_prognosis = f.asset_cache_prognosis
  BY <1>6, <1>8, <1>16 DEF Same, IsLocals
<1>18. NotesOk(net, g)
  <2>1. g.printed = q \o ProxyNote(f.asset_cache_prognosis)
    BY <1>13 DEF note
  <2>2. f.asset_cache_prognosis = NetworkErrorProxyMightHelp <=>
            \/ g.asset_cache_prognosis = NetworkErrorProxyMightHelp
            \/ \E u \in 1 .. g.url : net.url[u] = "refused"
    BY <1>17
  <2>3. q \in Seq(Line) /\ "proxy" \notin ToSet(q)
    BY <1>12, <1>14
  <2>. QED
    BY <2>1, <2>2, <2>3, NoteAtEnd
<1>19. AsksUrlCache(c) => "azurl" \in ToSet(g.printed)
  <2>1. f.printed = <<>> /\ CacheAsked(c, f)
    BY <1>2 DEF InCacheOk
  <2>. QED
    BY <1>14, <1>15, <2>1, LinesOf DEF CacheAsked
<1>20. ScriptAsked(c, net, g)
  BY <1>2, <1>17 DEF InCacheOk, ScriptAsked
<1>21. FailedOk(c, net, g)
  BY <1>1, <1>17, <1>18, <1>19, <1>20 DEF FailedOk
<1>. QED
  BY <1>8, <1>9, <1>21 DEF CallOk, InCache, AtUrls

\* The asset cache has missed: the first URL is asked if it may be.
LEMMA MissedCalls ==
    ASSUME CallsInv, NEW p \in Process, Missed(p)
    PROVE  CallsInv'
<1>. DEFINE f == fetch[p]
            c == command[p]
            note == ProxyNote(f.asset_cache_prognosis)
<1>1. /\ part \in [Process -> Bytes] /\ file \in Bytes /\ cache \in Bytes
      /\ IsLocals(f) /\ pc[p] = "missed" /\ CallOk(c, net, "missed", f, part[p]) /\ c.urls \in Nat
      /\ UNCHANGED <<command, net, cache, file, part>>
  BY CaseFacts DEF CallsInv, CallTypeInv, Missed
<1>2. CASE c.urls = 0 /\ Fails(p, Report(CommitAssetLines(f), <<"miss">> \o note))
  <2>1. /\ OthersStay(p) /\ IsLocals(fetch'[p]) /\ CallOk(c, net, pc'[p], fetch'[p], part[p])
    BY <1>1, <1>2, MissFails
  <2>. QED
    BY <1>1, <2>1, CallStep
<1>3. CASE c.block /\ Fails(p, Report(CommitAssetLines(f), <<"blocked">> \o note))
  <2>1. /\ OthersStay(p) /\ IsLocals(fetch'[p]) /\ CallOk(c, net, pc'[p], fetch'[p], part[p])
    BY <1>1, <1>3, MissFails
  <2>. QED
    BY <1>1, <2>1, CallStep
<1>4. CASE c.urls > 0 /\ ~c.block /\ GoTo(p, "connect") /\ FetchBecomes(p, AtUrl(f, 1))
  <2>. DEFINE g == AtUrl(f, 1)
  <2>1. OthersStay(p) /\ pc'[p] = "connect" /\ fetch'[p] = g
    BY <1>4, CallGoes
  <2>2. IsLocals(g) /\ g.asking = "url" /\ g.url = 1 /\ Same(f, g, {"asking", "url", "attempt"})
    BY <1>1, Moved
  <2>3. InCacheOk(c, net, "missed", f)
    BY <1>1 DEF CallOk, InCache
  <2>. HIDE DEF g, f
  <2>4. /\ g.printed = f.printed /\ g.lines = f.lines /\ g.assetLines = f.assetLines
        /\ g.asset_cache_prognosis = f.asset_cache_prognosis
        /\ g.authoritative_prognosis = f.authoritative_prognosis
    BY <1>1, <2>2 DEF Same, IsLocals
  <2>5. FailedUrls("connect", g) = 0 /\ CacheAsked(c, g) /\ ScriptAsked(c, net, g)
    BY <2>2, <2>3, <2>4 DEF FailedUrls, InCacheOk, CacheAsked, ScriptAsked
  <2>6. g.printed = <<>> /\ g.lines = <<>> /\ g.authoritative_prognosis # NetworkErrorProxyMightHelp
    BY <2>3, <2>4 DEF InCacheOk, Success, NetworkErrorProxyMightHelp
  <2>7. AtUrlsOk(c, net, "connect", g, part[p])
    BY <1>1, <1>4, <2>2, <2>3, <2>4, <2>5, <2>6, LinesOf DEF AtUrlsOk, InCacheOk
  <2>8. CallOk(c, net, "connect", g, part[p])
    BY <2>2, <2>7 DEF CallOk, InCache
  <2>. QED
    BY <1>1, <2>1, <2>2, <2>8, CallStep
<1>. QED
  BY <1>2, <1>3, <1>4 DEF Missed

\* No URL has given the file: only the asset cache, or some URL, or neither failed as a proxy might
\* mend.
LEMMA ExhaustedCalls ==
    ASSUME CallsInv, NEW p \in Process, Exhausted(p)
    PROVE  CallsInv'
<1>. DEFINE f == fetch[p]
            c == command[p]
            h == CommitAssetLines(f)
            r == Report(h, <<"proxy">>)
            s == CommitLines(h)
            k == Combine(f.authoritative_prognosis, f.asset_cache_prognosis)
            note == <<"proxy">>
<1>1. /\ part \in [Process -> Bytes] /\ file \in Bytes /\ cache \in Bytes
      /\ IsLocals(f) /\ pc[p] = "exhausted" /\ CallOk(c, net, "exhausted", f, part[p]) /\ c.urls \in Nat
      /\ UNCHANGED <<command, net, cache, file, part>>
  BY CaseFacts DEF CallsInv, CallTypeInv, Exhausted
<1>2. AtUrlsOk(c, net, "exhausted", f, part[p]) /\ f.asking = "url"
  BY <1>1 DEF CallOk, AtUrls
<1>3. "proxy" \in Line /\ note \in Seq(Line) /\ ToSet(note) = {"proxy"}
  BY LinesOf DEF Line
<1>4. /\ IsLocals(h) /\ h.printed = f.printed \o f.assetLines /\ h.assetLines = <<>>
      /\ Same(f, h, {"printed", "assetLines"})
  BY <1>1, Committed
<1>5. f.printed \in Seq(Line) /\ f.assetLines \in Seq(Line) /\ f.lines \in Seq(Line) /\ h.printed \in Seq(Line)
  BY <1>1, <1>4 DEF IsLocals
<1>6. /\ f.url = c.urls /\ f.url \in Nat /\ f.url > 0 /\ f.assetLines = <<>>
      /\ Len(f.lines) = f.url - 1 /\ "proxy" \notin ToSet(f.lines) /\ "proxy" \notin ToSet(f.printed)
      /\ ToSet(f.lines) \subseteq {"url"}
      /\ \A u \in 1 .. f.url : ~GivenBy(c, net.url[u])
      /\ f.authoritative_prognosis = NetworkErrorProxyMightHelp <=>
            \E u \in 1 .. f.url : net.url[u] = "refused"
  BY <1>1, <1>2 DEF AtUrlsOk, FailedUrls
<1>7. /\ h.printed = f.printed /\ h.lines = f.lines /\ h.url = f.url
      /\ h.asset_cache_prognosis = f.asset_cache_prognosis
  BY <1>1, <1>4, <1>5, <1>6, ConcatEmptySeq DEF Same, IsLocals
<1>8. ASSUME NEW g, IsLocals(g), Fails(p, g), g.assetLines = <<>>, g.lines = <<>>,
             ToSet(f.printed) \subseteq ToSet(g.printed), g.url = f.url,
             g.asset_cache_prognosis = f.asset_cache_prognosis, NotesOk(net, g)
      PROVE  CallsInv'
  <2>1. OthersStay(p) /\ pc'[p] = "failed" /\ fetch'[p] = g
    BY <1>8, CallGoes DEF Fails
  <2>. HIDE DEF f
  <2>2. ScriptAsked(c, net, g)
    BY <1>2, <1>8 DEF AtUrlsOk, ScriptAsked
  <2>3. AsksUrlCache(c) => "azurl" \in ToSet(g.printed)
    BY <1>2, <1>6, <1>8, LinesOf DEF AtUrlsOk, CacheAsked
  <2>4. FailedOk(c, net, g)
    BY <1>6, <1>8, <2>2, <2>3 DEF FailedOk
  <2>5. CallOk(c, net, "failed", g, part[p])
    BY <2>4 DEF CallOk, InCache, AtUrls
  <2>. QED
    BY <1>1, <1>8, <2>1, <2>5, CallStep
<1>9. CASE /\ f.asset_cache_prognosis = NetworkErrorProxyMightHelp
           /\ f.authoritative_prognosis # NetworkErrorProxyMightHelp
           /\ Fails(p, CommitLines(r))
  <2>. DEFINE g == CommitLines(r)
              q == f.printed
              l == f.lines
  <2>1. IsLocals(r) /\ r.printed = h.printed \o note /\ Same(h, r, {"printed"})
    BY <1>3, <1>4, Reported
  <2>2. IsLocals(g) /\ g.printed = r.printed \o r.lines /\ g.lines = <<>> /\ Same(r, g, {"printed", "lines"})
    BY <2>1, Committed
  <2>3. Fails(p, g)
    BY <1>9
  <2>. HIDE DEF h, r, g, f, k, note
  <2>4. /\ r.lines = f.lines /\ r.url = f.url /\ r.assetLines = <<>>
        /\ r.asset_cache_prognosis = f.asset_cache_prognosis
    BY <1>4, <1>7, <2>1 DEF Same, IsLocals
  <2>5. /\ g.url = f.url /\ g.assetLines = <<>> /\ g.asset_cache_prognosis = f.asset_cache_prognosis
    BY <2>1, <2>2, <2>4 DEF Same, IsLocals
  <2>. HIDE DEF q, l
  <2>6. q \in Seq(Line) /\ l \in Seq(Line) /\ "proxy" \notin ToSet(q) /\ "proxy" \notin ToSet(l)
    BY <1>5, <1>6 DEF q, l
  <2>7. g.printed = (q \o note) \o l
    BY <1>7, <2>1, <2>2, <2>4 DEF q, l
  <2>8. /\ Notes((q \o note) \o l) = {Len(q) + 1}
        /\ \A j \in Len(q) + 2 .. Len(q) + 1 + Len(l) : ((q \o note) \o l)[j] = l[j - Len(q) - 1]
    BY <2>6, NotePlaces DEF note
  <2>9. /\ q \o note \in Seq(Line) /\ Len(q \o note) = Len(q) + 1 /\ Len(q) \in Nat
        /\ ToSet(q) \subseteq ToSet(q \o note)
    <3>1. Len(note) = 1
      BY DEF note
    <3>2. q \o note \in Seq(Line) /\ Len(q \o note) = Len(q) + Len(note) /\ ToSet(q \o note) = ToSet(q) \cup ToSet(note)
      BY <1>3, <2>6, LinesOf
    <3>. QED
      BY <2>6, <3>1, <3>2
  <2>10. /\ Len((q \o note) \o l) = Len(q \o note) + Len(l)
         /\ ToSet(q \o note) \subseteq ToSet((q \o note) \o l)
    <3>1. \A w \in Seq(Line) : Len(w \o l) = Len(w) + Len(l) /\ ToSet(w) \subseteq ToSet(w \o l)
      BY <2>6, LinesOf
    <3>. QED
      BY <2>9, <3>1
  <2>11. Len(g.printed) = Len(q) + f.url /\ Len(l) = f.url - 1
    BY <1>6, <2>7, <2>9, <2>10 DEF l
  <2>12. ASSUME NEW j \in Len(q) + 2 .. Len(g.printed)
         PROVE  g.printed[j] = "url" /\ net.url[g.url + j - Len(g.printed)] # "refused"
    <3>1. j - Len(q) - 1 \in 1 .. Len(l) /\ DOMAIN l = 1 .. Len(l)
      BY <1>6, <2>6, <2>9, <2>11
    <3>2. j \in Len(q) + 2 .. Len(q) + 1 + Len(l)
      BY <1>6, <2>9, <2>11
    <3>3. g.printed[j] = l[j - Len(q) - 1]
      BY <2>7, <2>8, <3>2
    <3>4. l[j - Len(q) - 1] \in ToSet(l)
      BY <3>1 DEF ToSet
    <3>5. g.url + j - Len(g.printed) \in 1 .. f.url
      <4>1. f.url \in Nat /\ j \in Nat /\ j >= Len(q) + 2 /\ j <= Len(q) + f.url
        BY <1>6, <2>9, <2>11 DEF f
      <4>2. f.url + j - (Len(q) + f.url) \in 1 .. f.url
        BY <2>9, <4>1
      <4>. QED
        BY <2>5, <2>11, <4>2
    <3>. QED
      BY <1>6, <1>9, <3>3, <3>4, <3>5 DEF l, f
  <2>13. NotesOk(net, g)
    <3>1. Notes(g.printed) = {Len(q) + 1}
      BY <2>7, <2>8
    <3>2. \A i \in Notes(g.printed) : \A j \in i + 1 .. Len(g.printed) :
              g.printed[j] = "url" /\ net.url[g.url + j - Len(g.printed)] # "refused"
      BY <2>9, <2>12, <3>1
    <3>. QED
      BY <1>9, <2>5, <3>1, <3>2 DEF NotesOk, f
  <2>14. ToSet(f.printed) \subseteq ToSet(g.printed)
    BY <2>7, <2>9, <2>10 DEF q
  <2>. QED
    BY <1>8, <2>2, <2>3, <2>5, <2>13, <2>14
<1>10. CASE /\ ~(/\ f.asset_cache_prognosis = NetworkErrorProxyMightHelp
                 /\ f.authoritative_prognosis # NetworkErrorProxyMightHelp)
            /\ Fails(p, Report(s, ProxyNote(k)))
  <2>. DEFINE g == Report(s, ProxyNote(k))
  <2>1. IsLocals(s) /\ s.printed = h.printed \o h.lines /\ s.lines = <<>> /\ Same(h, s, {"printed", "lines"})
    BY <1>4, Committed
  <2>2. ProxyNote(k) \in Seq(Line)
    <3>1. <<>> \in Seq(Line)
      OBVIOUS
    <3>. QED
      BY <1>3, <3>1 DEF ProxyNote
  <2>3. IsLocals(g) /\ g.printed = s.printed \o ProxyNote(k) /\ Same(s, g, {"printed"})
    BY <1>3, <2>1, <2>2, Reported
  <2>4. Fails(p, g)
    BY <1>10
  <2>5. f.asset_cache_prognosis \in Prognosis /\ f.authoritative_prognosis \in Prognosis
    BY <1>1 DEF IsLocals
  <2>6. k = NetworkErrorProxyMightHelp <=> f.authoritative_prognosis = NetworkErrorProxyMightHelp
    BY <1>10, <2>5 DEF Combine, Prognosis, NetworkErrorProxyMightHelp
  <2>. HIDE DEF h, s, g, f, k, note
  <2>7. /\ s.url = f.url /\ s.assetLines = <<>> /\ s.asset_cache_prognosis = f.asset_cache_prognosis
    BY <1>4, <1>7, <2>1 DEF Same, IsLocals
  <2>8. /\ g.url = f.url /\ g.assetLines = <<>> /\ g.lines = <<>>
        /\ g.asset_cache_prognosis = f.asset_cache_prognosis
    BY <2>1, <2>3, <2>7 DEF Same, IsLocals
  <2>9. s.printed \in Seq(Line) /\ ToSet(s.printed) = ToSet(f.printed) \cup ToSet(f.lines)
    BY <1>5, <1>7, <2>1, LinesOf
  <2>10. "proxy" \notin ToSet(s.printed)
    BY <1>6, <2>9 DEF f
  <2>11. k = NetworkErrorProxyMightHelp <=>
            \/ g.asset_cache_prognosis = NetworkErrorProxyMightHelp
            \/ \E u \in 1 .. g.url : net.url[u] = "refused"
    BY <1>6, <1>10, <2>6, <2>8 DEF f
  <2>12. NotesOk(net, g)
    BY <2>3, <2>9, <2>10, <2>11, NoteAtEnd
  <2>13. ToSet(f.printed) \subseteq ToSet(g.printed)
    BY <2>2, <2>3, <2>9, LinesOf
  <2>. QED
    BY <1>8, <2>3, <2>4, <2>8, <2>12, <2>13
<1>. QED
  BY <1>9, <1>10 DEF Exhausted

\* A call goes on, or ends, with what it has.
LEMMA ArrivedCalls ==
    ASSUME CallsInv, NEW p \in Process, Arrived(p)
    PROVE  CallsInv'
<1>. DEFINE f == fetch[p]
<1>1. /\ part \in [Process -> Bytes] /\ file \in Bytes /\ cache \in Bytes
      /\ IsLocals(f) /\ pc[p] = "arrived" /\ CallOk(command[p], net, "arrived", f, part[p])
      /\ UNCHANGED <<command, net, cache, file, part>>
  BY CaseFacts DEF CallsInv, CallTypeInv, Arrived
<1>2. HasArrivedOk("arrived", f)
  BY <1>1 DEF CallOk
<1>3. CASE f.asking = "azurl" /\ Succeeds(p, CommitAssetLines(f))
  <2>. DEFINE g == CommitAssetLines(f)
  <2>1. /\ IsLocals(g) /\ g.printed = f.printed \o f.assetLines /\ g.assetLines = <<>>
        /\ Same(f, g, {"printed", "assetLines"})
    BY <1>1, Committed
  <2>. HIDE DEF g
  <2>2. f.printed \in Seq(Line) /\ f.assetLines \in Seq(Line)
    BY <1>1 DEF IsLocals
  <2>3. ToSet(g.printed) = ToSet(f.printed) \cup ToSet(f.assetLines)
    BY <2>1, <2>2, LinesOf
  <2>4. g.url = 0 /\ g.lines = <<>>
    BY <1>1, <1>2, <1>3, <2>1 DEF Same, IsLocals, HasArrivedOk
  <2>5. SucceededOk(g)
    BY <1>2, <1>3, <2>1, <2>3, <2>4 DEF SucceededOk, HasArrivedOk
  <2>6. /\ OthersStay(p) /\ IsLocals(fetch'[p]) /\ CallOk(command[p], net, pc'[p], fetch'[p], part[p])
    BY <1>3, <2>1, <2>5, CallEnds DEF g
  <2>. QED
    BY <1>1, <2>6, CallStep
<1>4. CASE f.asking = "url" /\ (Succeeds(p, Handle(f)) \/ (GoTo(p, "store") /\ FetchBecomes(p, Handle(f))))
  <2>. DEFINE g == Handle(f)
  <2>1. /\ IsLocals(g) /\ g.assetLines = <<>> /\ g.lines = <<>> /\ Same(f, g, {"assetLines", "lines"})
    BY <1>1, Committed
  <2>. HIDE DEF g
  <2>2. g.printed = f.printed /\ g.url = f.url /\ g.asking = "url"
    BY <1>1, <1>4, <2>1 DEF Same, IsLocals
  <2>3. SucceededOk(g) /\ HasArrivedOk("store", g)
    BY <1>2, <2>1, <2>2, LinesOf DEF SucceededOk, HasArrivedOk
  <2>4. /\ OthersStay(p) /\ IsLocals(fetch'[p]) /\ CallOk(command[p], net, pc'[p], fetch'[p], part[p])
    <3>1. CASE Succeeds(p, g)
      BY <2>1, <2>3, <3>1, CallEnds
    <3>2. CASE GoTo(p, "store") /\ FetchBecomes(p, g)
      <4>1. OthersStay(p) /\ pc'[p] = "store" /\ fetch'[p] = g
        BY <3>2, CallGoes
      <4>. QED
        BY <2>1, <2>3, <4>1 DEF CallOk, InCache, AtUrls
    <3>. QED
      BY <1>4, <3>1, <3>2 DEF g
  <2>. QED
    BY <1>1, <2>4, CallStep
<1>. QED
  BY <1>3, <1>4 DEF Arrived

\* With a warning, perhaps.
LEMMA StoreCalls ==
    ASSUME CallsInv, NEW p \in Process, Store(p) \/ StoreEnds(p)
    PROVE  CallsInv'
<1>. DEFINE f == fetch[p]
            g == Report(f, <<"warning">>)
            h == Sending(f, file)
<1>1. /\ part \in [Process -> Bytes] /\ file \in Bytes /\ cache \in Bytes /\ part[p] \in Bytes
      /\ IsLocals(f) /\ pc[p] \in {"store", "storing"} /\ CallOk(command[p], net, pc[p], f, part[p])
      /\ UNCHANGED <<command, net, file, part>>
  BY CaseFacts DEF CallsInv, CallTypeInv, Store, StoreEnds
<1>2. HasArrivedOk(pc[p], f)
  BY <1>1 DEF CallOk
<1>3. cache' \in Bytes
  BY <1>1 DEF Store, StoreEnds, Succeeds, IsLocals, Bytes
<1>4. "warning" \in Line /\ <<"warning">> \in Seq(Line) /\ ToSet(<<"warning">>) = {"warning"}
  BY LinesOf DEF Line
<1>5. IsLocals(g) /\ g.printed = f.printed \o <<"warning">> /\ Same(f, g, {"printed"})
  BY <1>1, <1>4, Reported
<1>6. IsLocals(h) /\ Same(f, h, {"sent"})
  BY <1>1, Continued
<1>7. Succeeds(p, f) \/ Succeeds(p, g) \/ (GoTo(p, "storing") /\ FetchBecomes(p, h))
  BY DEF Store, StoreEnds
<1>8. SucceededOk(f)
  BY <1>1, <1>2, LinesOf DEF SucceededOk, HasArrivedOk
<1>9. SucceededOk(g)
  <2>. HIDE DEF g
  <2>1. g.url = f.url /\ g.lines = f.lines /\ g.assetLines = f.assetLines
    BY <1>1, <1>5 DEF Same, IsLocals
  <2>2. f.printed \in Seq(Line)
    BY <1>1 DEF IsLocals
  <2>3. ToSet(f.printed \o <<"warning">>) = ToSet(f.printed) \cup ToSet(<<"warning">>)
    BY <1>4, <2>2, LinesOf
  <2>. QED
    BY <1>4, <1>5, <1>8, <2>1, <2>3 DEF SucceededOk
<1>. HIDE DEF g, h
<1>10. /\ OthersStay(p) /\ IsLocals(fetch'[p]) /\ CallOk(command[p], net, pc'[p], fetch'[p], part[p])
  <2>1. CASE Succeeds(p, f)
    BY <1>1, <1>8, <2>1, CallEnds
  <2>2. CASE Succeeds(p, g)
    BY <1>5, <1>9, <2>2, CallEnds
  <2>3. CASE GoTo(p, "storing") /\ FetchBecomes(p, h)
    <3>1. OthersStay(p) /\ pc'[p] = "storing" /\ fetch'[p] = h
      BY <2>3, CallGoes
    <3>2. /\ h.asking = f.asking /\ h.url = f.url /\ h.printed = f.printed /\ h.lines = f.lines
          /\ h.assetLines = f.assetLines
      BY <1>1, <1>6 DEF Same, IsLocals
    <3>3. HasArrivedOk("storing", h)
      BY <1>1, <1>2, <3>2 DEF HasArrivedOk
    <3>. QED
      BY <1>6, <3>1, <3>3 DEF CallOk, InCache, AtUrls
  <2>. QED
    BY <1>7, <2>1, <2>2, <2>3
<1>. QED
  BY <1>1, <1>3, <1>10, CallStep

\* Tools do not concern a call, but that one is begun or killed, and the file is taken away.
LEMMA ToolStepCalls ==
    ASSUME CallsInv, NEW p \in Process,
           pc' \in {pc, [pc EXCEPT ![p] = "begin"], [pc EXCEPT ![p] = "idle"]},
           file' \in {file, "absent"}, UNCHANGED <<command, net, cache, part, fetch>>
    PROVE  CallsInv'
<1>1. /\ part \in [Process -> Bytes] /\ file' \in Bytes /\ cache \in Bytes /\ DOMAIN pc = Process
      /\ DOMAIN fetch = Process /\ IsLocals(fetch[p])
      /\ CallOk(command[p], net, pc[p], fetch[p], part[p])
  BY CaseFacts DEF CallsInv, CallTypeInv, Bytes
<1>2. OthersStay(p) /\ pc'[p] \in {pc[p], "begin", "idle"} /\ fetch'[p] = fetch[p]
  BY <1>1 DEF OthersStay
<1>3. CallOk(command[p], net, pc'[p], fetch'[p], part'[p])
  BY <1>1, <1>2 DEF CallOk, InCache, AtUrls
<1>. QED
  BY <1>1, <1>2, <1>3, CallStep

LEMMA InitCalls ==
    ASSUME Init
    PROVE  CallsInv
<1>1. PICK case \in Cases :
        /\ DownloadInit(case)
        /\ pc = [p \in Process |-> IF IsTool(p) THEN "idle" ELSE "begin"]
  BY DEF Init
<1>2. IsLocals(NoFetch)
  BY DEF NoFetch, IsLocals, Prognosis, Success, Bytes
<1>3. CallTypeInv
  BY <1>1, <1>2, CasesAssumption DEF CallTypeInv, Called, DownloadInit, Bytes
<1>4. \A p \in Process : CallOk(command[p], net, pc[p], fetch[p], part[p])
  BY <1>1 DEF CallOk, InCache, AtUrls
<1>. QED
  BY <1>3, <1>4 DEF CallsInv

LEMMA StepCalls ==
    ASSUME CallsInv, [Next]_vars
    PROVE  CallsInv'
<1>1. CASE UNCHANGED vars
  BY <1>1 DEF vars, downloadVars, CallsInv, CallTypeInv, Called
<1>2. ASSUME NEW p \in Process, DownloadStep(p)
      PROVE  CallsInv'
  BY <1>2, BeginCalls, ConnectCalls, TransferCalls, CheckCalls, ScriptCalls, MissedCalls,
     ExhaustedCalls, ArrivedCalls, StoreCalls DEF DownloadStep
<1>3. ASSUME NEW p \in Process,
             \/ Look(p) \/ HashDownload(p) \/ Downloaded(p) \/ Prepare(p) \/ Extract(p)
             \/ Rename(p) \/ RenameFails(p) \/ TargetExists(p) \/ RenameAgain(p)
             \/ CheckExists(p) \/ SetExecutable(p) \/ GetVersion(p) \/ Kill(p)
      PROVE  CallsInv'
  <2>1. /\ pc' \in {pc, [pc EXCEPT ![p] = "begin"], [pc EXCEPT ![p] = "idle"]}
        /\ file' \in {file, "absent"} /\ UNCHANGED <<command, net, cache, part, fetch>>
    BY <1>3 DEF Look, HashDownload, Downloaded, Prepare, Extract, Rename, RenameFails, TargetExists,
                RenameAgain, CheckExists, SetExecutable, GetVersion, Kill, GoTo, downloadVars
  <2>. QED
    BY <2>1, ToolStepCalls
<1>. QED
  BY <1>1, <1>2, <1>3 DEF Next, ToolStep

\* What a call that has returned has printed.
LEMMA CallsAreReported == CallsInv => ReportIsRight
<1>1. SUFFICES ASSUME CallsInv, NEW p \in Process, pc[p] \in {"succeeded", "failed"}
               PROVE  LET printed == fetch[p].printed
                          notes == {i \in DOMAIN printed : printed[i] = "proxy"}
                      IN  /\ fetch[p].assetLines = <<>> /\ fetch[p].lines = <<>>
                          /\ pc[p] = "succeeded" => notes = {}
                          /\ pc[p] = "succeeded" /\ fetch[p].url = 1 => ToSet(printed) \subseteq {"warning"}
                          /\ pc[p] = "failed" /\ "zero" \notin ToSet(printed) =>
                                /\ \A i \in notes : \A j \in i + 1 .. Len(printed) :
                                        /\ printed[j] = "url"
                                        /\ net.url[fetch[p].url + j - Len(printed)] # "refused"
                                /\ notes # {} <=>
                                        \/ fetch[p].asset_cache_prognosis = NetworkErrorProxyMightHelp
                                        \/ \E u \in 1 .. fetch[p].url : net.url[u] = "refused"
  BY DEF ReportIsRight
<1>. DEFINE f == fetch[p]
<1>2. CallOk(command[p], net, pc[p], f, part[p])
  BY <1>1 DEF CallsInv
<1>3. CASE pc[p] = "succeeded"
  <2>1. SucceededOk(f)
    BY <1>2, <1>3 DEF CallOk
  <2>2. \A i \in DOMAIN f.printed : f.printed[i] # "proxy"
    BY <2>1 DEF SucceededOk, ToSet
  <2>. QED
    BY <1>3, <2>1, <2>2 DEF SucceededOk
<1>4. CASE pc[p] = "failed"
  <2>1. FailedOk(command[p], net, f)
    BY <1>2, <1>4 DEF CallOk
  <2>. QED
    BY <1>4, <2>1 DEF FailedOk, NotesOk, Notes
<1>. QED
  BY <1>1, <1>3, <1>4

\* What is printed of a download tells what has happened (ReportIsRight), whatever the servers
\* answer and however many URLs there are.
THEOREM ReportIsRightHolds == Spec => []ReportIsRight
<1>1. Init => CallsInv
  BY InitCalls
<1>2. CallsInv /\ [Next]_vars => CallsInv'
  BY StepCalls
<1>. QED
  BY <1>1, <1>2, CallsAreReported, PTL DEF Spec

(***************************************************************************)
(* Why a process gives up.  An archive stays in place once it is there,    *)
(* what was extracted is whole, and the tool is there and not touched by   *)
(* anybody else after a process has renamed it, or has found it renamed.   *)
(***************************************************************************)
UnpacksOk(c, label, at, f, x, extracted) ==
    c.for = "archive" =>
        /\ label \in {"arrived", "store", "storing", "succeeded"} \/ at \in {"got", "extract"} =>
                f # "absent"
        /\ at \in {"rename", "refused"} => extracted = "whole"
        /\ at \in {"check", "chmod", "version"} => x # "absent"
        /\ at = "version" => x # "plain"

UnpackInv ==
    /\ DOMAIN step = Process /\ DOMAIN partial = Process /\ DOMAIN renames = Process
    /\ exe \in {"absent", "bad", "plain", "good"}
    /\ \A p \in Process : pc[p] = "check" => part[p] # "absent"
    /\ \A p \in Process : UnpacksOk(command[p], pc[p], step[p], file, exe, partial[p])

\* Archives and single files are not mixed, and nobody else takes an archive or its tool away.
Stays ==
    (\E q \in Process : command[q].for = "archive") =>
        /\ file # "absent" => file' # "absent"
        /\ exe # "absent" => exe' # "absent"
        /\ exe \notin {"absent", "plain"} => exe' # "plain"

LEMMA OneKind ==
    ASSUME CallsInv, NEW p \in Process, NEW q \in Process, command[p].for = "archive"
    PROVE  command[q].for # "file"
<1>1. PICK case \in Cases : command = case.command
  BY DEF CallsInv, CallTypeInv, Called
<1>2. {case.command[p].for, case.command[q].for} # {"archive", "file"}
  BY ToolsAssumption
<1>. QED
  BY <1>1, <1>2

LEMMA UnpackStep ==
    ASSUME UnpackInv, NEW p \in Process, UNCHANGED command, Stays,
           DOMAIN step' = Process, DOMAIN partial' = Process, DOMAIN renames' = Process,
           exe' \in {"absent", "bad", "plain", "good"},
           \A q \in Process : q # p =>
                pc'[q] = pc[q] /\ step'[q] = step[q] /\ partial'[q] = partial[q] /\ part'[q] = part[q],
           pc'[p] = "check" => part'[p] # "absent",
           UnpacksOk(command[p], pc'[p], step'[p], file', exe', partial'[p])
    PROVE  UnpackInv'
<1>1. ASSUME NEW q \in Process
      PROVE  /\ pc'[q] = "check" => part'[q] # "absent"
             /\ UnpacksOk(command[q], pc'[q], step'[q], file', exe', partial'[q])
  <2>1. CASE q = p
    BY <2>1
  <2>2. CASE q # p
    BY <2>2 DEF UnpackInv, UnpacksOk, Stays
  <2>. QED
    BY <2>1, <2>2
<1>. QED
  BY <1>1 DEF UnpackInv

\* Where a call goes, and that the file is there when it has come.
LEMMA CallPlaces ==
    ASSUME CallsInv, UnpackInv, NEW p \in Process, DownloadStep(p)
    PROVE  /\ \A q \in Process : q # p => pc'[q] = pc[q] /\ part'[q] = part[q]
           /\ pc'[p] = "check" => part'[p] # "absent"
           /\ file # "absent" => file' # "absent"
           /\ pc'[p] \in {"arrived", "store", "storing", "succeeded"} =>
                pc[p] \in {"arrived", "store", "storing"} \/ file' # "absent"
<1>. DEFINE dst == IF net.script \in {"right", "wrong"} THEN net.script ELSE part[p]
            goes == {"connect", "transfer", "script", "missed", "exhausted", "failed"}
<1>1. DOMAIN pc = Process /\ part \in [Process -> Bytes]
  BY DEF CallsInv, CallTypeInv
<1>2. pc[p] = "check" => part[p] # "absent"
  BY DEF UnpackInv
<1>3. \A prognosis : AttemptFails(p, prognosis) =>
        \E label \in {"connect", "script", "missed", "exhausted"} : GoTo(p, label)
  BY DEF AttemptFails, UrlFails, NotCached
<1>4. ASSUME NEW label \in goes, GoTo(p, label), UNCHANGED <<file, part>>
      PROVE  /\ \A q \in Process : q # p => pc'[q] = pc[q] /\ part'[q] = part[q]
             /\ pc'[p] = label /\ file' = file
  BY <1>1, <1>4 DEF GoTo
<1>5. CASE Begin(p)
  <2>1. \E label \in goes : GoTo(p, label)
    BY <1>5 DEF Begin, Fails
  <2>. QED
    BY <1>4, <1>5, <2>1 DEF Begin
<1>6. CASE Connect(p)
  BY <1>1, <1>6 DEF Connect, GoTo
<1>7. CASE Transfer(p)
  <2>1. CASE /\ Answer(p) \in {"right", "wrong", "torn"}
             /\ part' = [part EXCEPT ![p] = Answer(p)] /\ GoTo(p, "check")
    BY <1>1, <1>7, <2>1 DEF Transfer, GoTo
  <2>2. CASE UNCHANGED part /\ \E label \in goes : GoTo(p, label)
    BY <1>4, <1>7, <2>2 DEF Transfer
  <2>. QED
    BY <1>3, <1>7, <2>1, <2>2 DEF Transfer
<1>8. CASE Check(p)
  <2>1. CASE file' = part[p] /\ part' = [part EXCEPT ![p] = "absent"] /\ GoTo(p, "arrived")
    BY <1>1, <1>2, <1>8, <2>1 DEF Check, GoTo
  <2>2. CASE UNCHANGED <<file, part>> /\ \E label \in goes : GoTo(p, label)
    BY <1>4, <2>2
  <2>. QED
    BY <1>3, <1>8, <2>1, <2>2 DEF Check
<1>9. CASE Script(p)
  <2>1. CASE file' = dst /\ dst # "absent" /\ part' = [part EXCEPT ![p] = "absent"] /\ GoTo(p, "arrived")
    BY <1>1, <2>1 DEF GoTo
  <2>2. CASE part' \in {part, [part EXCEPT ![p] = dst]} /\ UNCHANGED file /\ GoTo(p, "missed")
    BY <1>1, <2>2 DEF GoTo
  <2>. QED
    BY <1>9, <2>1, <2>2 DEF Script, NotCached
<1>10. CASE Missed(p)
  BY <1>4, <1>10 DEF Missed, Fails
<1>11. CASE Exhausted(p)
  BY <1>4, <1>11 DEF Exhausted, Fails
<1>12. CASE Arrived(p) \/ Store(p) \/ StoreEnds(p)
  <2>1. /\ \E label \in {"store", "storing", "succeeded", "failed"} : GoTo(p, label)
        /\ UNCHANGED <<file, part>> /\ pc[p] \in {"arrived", "store", "storing"}
    BY <1>12 DEF Arrived, Store, StoreEnds, Succeeds
  <2>. QED
    BY <1>1, <2>1 DEF GoTo
<1>. QED
  BY <1>5, <1>6, <1>7, <1>8, <1>9, <1>10, <1>11, <1>12 DEF DownloadStep

LEMMA DownloadStepUnpacks ==
    ASSUME CallsInv, UnpackInv, NEW p \in Process, DownloadStep(p),
           UNCHANGED <<exe, partial, step, renames>>
    PROVE  UnpackInv'
<1>1. UNCHANGED command
  BY DEF DownloadStep, Begin, Connect, Transfer, Check, Script, Missed, Exhausted, Arrived, Store, StoreEnds
<1>2. Stays
  BY CallPlaces DEF Stays
<1>3. UnpacksOk(command[p], pc'[p], step'[p], file', exe', partial'[p])
  <2>1. UnpacksOk(command[p], pc[p], step[p], file, exe, partial[p])
    BY DEF UnpackInv
  <2>. QED
    BY <2>1, CallPlaces DEF UnpacksOk
<1>. QED
  BY <1>1, <1>2, <1>3, CallPlaces, UnpackStep DEF UnpackInv

\* A step of a tool's process, and a killed process.
LEMMA ToolStepUnpacks ==
    ASSUME CallsInv, UnpackInv, NEW p \in Process,
           \/ Look(p) \/ HashDownload(p) \/ Downloaded(p) \/ Prepare(p) \/ Extract(p)
           \/ Rename(p) \/ RenameFails(p) \/ TargetExists(p) \/ RenameAgain(p)
           \/ CheckExists(p) \/ SetExecutable(p) \/ GetVersion(p) \/ Kill(p)
    PROVE  UnpackInv'
<1>. DEFINE places == {"look", "found", "hash", "missing", "got", "download", "extract", "rename",
                       "refused", "check", "chmod", "version"}
<1>1. /\ DOMAIN pc = Process /\ DOMAIN step = Process /\ DOMAIN partial = Process
      /\ DOMAIN renames = Process /\ exe \in {"absent", "bad", "plain", "good"}
      /\ UnpacksOk(command[p], pc[p], step[p], file, exe, partial[p])
      /\ pc[p] = "check" => part[p] # "absent"
  BY DEF CallsInv, CallTypeInv, UnpackInv
<1>2. (\E q \in Process : command[q].for = "archive") => command[p].for # "file"
  BY OneKind
<1>3. UNCHANGED <<command, part>>
  BY DEF Look, HashDownload, Downloaded, Prepare, Extract, Rename, RenameFails, TargetExists,
         RenameAgain, CheckExists, SetExecutable, GetVersion, Kill, downloadVars
<1>4. /\ step' = step \/ \E at \in places : StepTo(p, at)
      /\ pc' = pc \/ \E label \in {"begin", "idle"} : GoTo(p, label)
      /\ partial' = partial \/ \E x : partial' = [partial EXCEPT ![p] = x]
      /\ renames' = renames \/ \E x : renames' = [renames EXCEPT ![p] = x]
  <2>1. CASE Look(p) \/ HashDownload(p) \/ Downloaded(p)
    BY <2>1 DEF Look, HashDownload, Downloaded, downloadVars
  <2>2. CASE Prepare(p) \/ Extract(p)
    BY <2>2 DEF Prepare, Extract, downloadVars
  <2>3. CASE Rename(p) \/ RenameFails(p) \/ TargetExists(p) \/ RenameAgain(p)
    BY <2>3 DEF Rename, RenameFails, TargetExists, RenameAgain, downloadVars
  <2>4. CASE CheckExists(p) \/ SetExecutable(p) \/ GetVersion(p) \/ Kill(p)
    BY <2>4 DEF CheckExists, SetExecutable, GetVersion, Kill, downloadVars
  <2>. QED
    BY <2>1, <2>2, <2>3, <2>4
<1>5. /\ DOMAIN step' = Process /\ DOMAIN partial' = Process /\ DOMAIN renames' = Process
      /\ \A q \in Process : q # p => pc'[q] = pc[q] /\ step'[q] = step[q] /\ partial'[q] = partial[q]
      /\ pc'[p] = "check" => pc[p] = "check"
  BY <1>1, <1>4 DEF GoTo, StepTo
<1>6. /\ exe' \in {"absent", "bad", "plain", "good"} /\ Stays
      /\ UnpacksOk(command[p], pc'[p], step'[p], file', exe', partial'[p])
  <2>1. CASE Look(p) \/ HashDownload(p) \/ Downloaded(p)
    BY <1>1, <2>1 DEF Look, HashDownload, Downloaded, UnpacksOk, Stays, downloadVars, StepTo, GoTo
  <2>2. CASE Prepare(p) \/ Extract(p)
    BY <1>1, <2>2 DEF Prepare, Extract, UnpacksOk, Stays, downloadVars, StepTo
  <2>3. CASE Rename(p)
    BY <1>1, <1>2, <2>3 DEF Rename, UnpacksOk, Stays, StepTo
  <2>4. CASE RenameFails(p) \/ RenameAgain(p)
    BY <1>1, <2>4 DEF RenameFails, RenameAgain, UnpacksOk, Stays, downloadVars, StepTo
  <2>5. CASE TargetExists(p)
    BY <1>1, <1>2, <2>5 DEF TargetExists, UnpacksOk, Stays, StepTo
  <2>6. CASE CheckExists(p)
    BY <1>1, <2>6 DEF CheckExists, UnpacksOk, Stays, downloadVars, StepTo
  <2>7. CASE SetExecutable(p)
    BY <1>1, <2>7 DEF SetExecutable, UnpacksOk, Stays, downloadVars, StepTo
  <2>8. CASE GetVersion(p)
    BY <1>1, <2>8 DEF GetVersion, UnpacksOk, Stays, downloadVars, StepTo
  <2>9. CASE Kill(p)
    BY <1>1, <2>9 DEF Kill, UnpacksOk, Stays, StepTo, GoTo, IsTool
  <2>. QED
    BY <2>1, <2>2, <2>3, <2>4, <2>5, <2>6, <2>7, <2>8, <2>9
<1>. QED
  BY <1>1, <1>3, <1>5, <1>6, UnpackStep

LEMMA InitUnpacks ==
    ASSUME Init
    PROVE  UnpackInv
<1>1. PICK case \in Cases :
        /\ DownloadInit(case) /\ exe = case.exe
        /\ pc = [p \in Process |-> IF IsTool(p) THEN "idle" ELSE "begin"]
        /\ partial = [p \in Process |-> "absent"]
        /\ step = [p \in Process |-> IF IsTool(p) THEN "look" ELSE "none"]
        /\ renames = [p \in Process |-> 0]
  BY DEF Init
<1>2. exe \in {"absent", "bad", "plain", "good"}
  BY <1>1, ToolsAssumption
<1>3. \A p \in Process : pc[p] \in {"idle", "begin"} /\ step[p] \in {"look", "none"}
  BY <1>1
<1>4. \A p \in Process : UnpacksOk(command[p], pc[p], step[p], file, exe, partial[p])
  BY <1>3 DEF UnpacksOk
<1>. QED
  BY <1>1, <1>2, <1>3, <1>4 DEF UnpackInv

LEMMA StepUnpacks ==
    ASSUME CallsInv, UnpackInv, [Next]_vars
    PROVE  UnpackInv'
<1>1. CASE UNCHANGED vars
  BY <1>1 DEF vars, downloadVars, UnpackInv
<1>2. CASE Next
  BY <1>2, DownloadStepUnpacks, ToolStepUnpacks DEF Next, ToolStep
<1>. QED
  BY <1>1, <1>2

\* No source was left out.
LEMMA CallsFail == CallsInv => \A p \in Process : DownloadFailsForAReason(p)
<1>1. SUFFICES ASSUME CallsInv, NEW p \in Process, pc[p] = "failed", command[p].sha # "zero"
               PROVE  /\ ~command[p].block => \A u \in 1 .. command[p].urls : ~Gives(p, net.url[u])
                      /\ ReadsUrlCache(p) => "azurl" \in ToSet(fetch[p].printed)
                      /\ command[p].script /\ (HasSha(p) \/ command[p].urls > 0) =>
                            ~Gives(p, net.script) \/ fetch[p].asset_cache_prognosis # OtherError
  BY DEF DownloadFailsForAReason
<1>2. FailedOk(command[p], net, fetch[p])
  BY <1>1 DEF CallsInv, CallOk
<1>3. /\ ReadsUrlCache(p) => AsksUrlCache(command[p])
      /\ HasSha(p) <=> ShaGiven(command[p])
      /\ \A answer : Gives(p, answer) => GivenBy(command[p], answer)
  BY DEF ReadsUrlCache, HasSha, AsksUrlCache, ShaGiven, Gives, GivenBy, Acceptable
<1>. QED
  BY <1>1, <1>2, <1>3 DEF FailedOk, ScriptAsked

\* A process that gives up has found a reason.
LEMMA GivingUp ==
    ASSUME CallsInv, UnpackInv, [Next]_vars, NEW p \in Process, GivesUp(p)
    PROVE  \/ pc[p] = "failed"
           \/ file \notin {"right", "absent"}
           \/ exe = "bad"
           \/ renames'[p] = RenameAttempts
           \/ command[p].for = "file"
<1>1. /\ DOMAIN step = Process /\ DOMAIN renames = Process
      /\ exe \in {"absent", "bad", "plain", "good"}
      /\ UnpacksOk(command[p], pc[p], step[p], file, exe, partial[p])
  BY DEF UnpackInv
<1>2. step[p] # "missing" /\ step'[p] = "missing" /\ IsTool(p)
  BY DEF GivesUp
<1>3. command[p].for \in {"archive", "file"}
  <2>1. PICK case \in Cases : command = case.command
    BY DEF CallsInv, CallTypeInv, Called
  <2>. QED
    BY <1>2, <2>1, ToolsAssumption DEF IsTool
<1>4. PICK q \in Process : ToolStep(q) \/ Kill(q)
  BY <1>2 DEF Next, vars
<1>5. CASE /\ DownloadStep(q) /\ UNCHANGED <<exe, partial, step, renames, kills>>
  BY <1>2, <1>5
<1>6. CASE Look(q) \/ HashDownload(q) \/ Downloaded(q)
  BY <1>1, <1>2, <1>6 DEF Look, HashDownload, Downloaded, GivesUp, StepTo
<1>7. CASE Prepare(q) \/ Extract(q)
  BY <1>1, <1>2, <1>3, <1>7 DEF Prepare, Extract, UnpacksOk, StepTo
<1>8. CASE Rename(q) \/ RenameFails(q) \/ TargetExists(q) \/ RenameAgain(q)
  BY <1>1, <1>2, <1>8 DEF Rename, RenameFails, TargetExists, RenameAgain, StepTo
<1>9. CASE CheckExists(q) \/ SetExecutable(q)
  BY <1>1, <1>2, <1>3, <1>9 DEF CheckExists, SetExecutable, UnpacksOk, StepTo
<1>10. CASE GetVersion(q)
  BY <1>1, <1>2, <1>3, <1>10 DEF GetVersion, UnpacksOk, StepTo
<1>11. CASE Kill(q)
  BY <1>1, <1>2, <1>11 DEF Kill, StepTo
<1>. QED
  BY <1>4, <1>5, <1>6, <1>7, <1>8, <1>9, <1>10, <1>11 DEF ToolStep

\* A download, and the tool that is made of it, fail only for a reason (FailsForAReason).
THEOREM FailsForAReasonHolds == Spec => FailsForAReason
<1>1. Init => CallsInv /\ UnpackInv
  BY InitCalls, InitUnpacks
<1>2. CallsInv /\ UnpackInv /\ [Next]_vars => (CallsInv /\ UnpackInv)'
  BY StepCalls, StepUnpacks
<1>3. CallsInv /\ UnpackInv /\ [Next]_vars =>
        [\A p \in Process :
            /\ DownloadFailsForAReason(p)'
            /\ GivesUp(p) =>
                    \/ pc[p] = "failed"
                    \/ file \notin {"right", "absent"}
                    \/ exe = "bad"
                    \/ renames'[p] = RenameAttempts
                    \/ command[p].for = "file"]_vars
  <2>1. (CallsInv => \A p \in Process : DownloadFailsForAReason(p))'
    BY CallsFail, PTL
  <2>. QED
    BY <1>2, <2>1, GivingUp
<1>. QED
  BY <1>1, <1>2, <1>3, PTL DEF Spec, FailsForAReason
================================================================================

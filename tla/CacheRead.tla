------------------------------- MODULE CacheRead --------------------------------
(***************************************************************************)
(* What a command knows of the binary caches (ReadOnlyBinaryCache and      *)
(* CacheStatus in binarycaching.cpp).  precheck asks the providers, one    *)
(* after the other, which packages they hold; fetch restores what it can   *)
(* into the package directories; push_success hands a package that was     *)
(* built to the background thread and forgets what was known of it.        *)
(*                                                                         *)
(* The thread stores packages while fetch and precheck go through the      *)
(* providers (UploadPipeline is about the thread itself).                  *)
(***************************************************************************)
EXTENDS Naturals, Sequences, FiniteSets

CONSTANTS ABI,          \* the ABI tags
          Dir,          \* the package directories
          Providers,    \* m_config.read, a sequence
          NoPrecheck,   \* the providers whose precheck answers nothing
          Writable,     \* the providers that packages are also stored in
          Cached,       \* what the providers may hold at first
          NoProvider, Nothing

VARIABLES
    status,     \* m_status; an ABI that is not in the map has a CacheStatus as constructed
    call,       \* the fetch or precheck at hand: its actions by position, and the provider it asks next
    content,    \* the package whose files are in each package directory
    queue,      \* m_actions_to_push: the packages the thread has not stored yet
    stored      \* the packages that each provider holds

cacheVars == <<status, call, content, queue, stored>>

Provider == {Providers[i] : i \in DOMAIN Providers}

ASSUME CacheAssumption ==
    /\ DOMAIN Providers = 1 .. Len(Providers) /\ Len(Providers) \in Nat
    /\ NoPrecheck \subseteq Provider /\ Writable \subseteq Provider
    /\ Cached \subseteq [Provider -> SUBSET ABI]
    /\ NoProvider \notin Provider /\ Nothing \notin ABI

--------------------------------------------------------------------------------
\* CacheStatus.
Unknown == [state |-> "unknown", unavailable |-> {}, provider |-> NoProvider]

ShouldAttemptPrecheck(s, p) == s.state = "unknown" /\ p \notin s.unavailable

ShouldAttemptRestore(s, p) ==
    \/ s.state = "unknown" /\ p \notin s.unavailable
    \/ s.state = "available" /\ s.provider = p

MarkUnavailable(s, p) == [s EXCEPT !.unavailable = @ \cup {p}]

MarkAvailable(s, p) ==
    IF s.state = "unknown" THEN [s EXCEPT !.state = "available", !.provider = p] ELSE s

MarkRestored(s) ==
    [s EXCEPT !.state = "restored", !.unavailable = IF s.state = "unknown" THEN {} ELSE @]

MarkUnrestored(s) == IF s.state = "restored" THEN [s EXCEPT !.state = "available"] ELSE s

IsRestored(a) == status[a].state = "restored"

\* get_available_provider: what precheck returns.
IsAvailable(a) == status[a].state = "available" /\ status[a].provider # NoProvider

--------------------------------------------------------------------------------
NoCall == [op |-> "none", actions |-> <<>>, next |-> 0]

InitCache ==
    /\ status = [a \in ABI |-> Unknown]
    /\ call = NoCall
    /\ content \in [Dir -> {Nothing}]
    /\ queue = <<>>
    /\ stored \in Cached

\* actions has at each position of the list a record with an abi and a dir.
BeginCall(op, actions) ==
    /\ call = NoCall
    /\ call' = [op |-> op, actions |-> actions, next |-> 1]

Returned(op) == call.op = op /\ call.next > Len(Providers)

\* The provider asked next, and the positions of the actions for which it is asked.
Asking(op) == call.op = op /\ call.next \in DOMAIN Providers
Asked == Providers[call.next]
ABIAt(i) == call.actions[i].abi
Select(Test(_, _)) == {i \in DOMAIN call.actions : Test(status[ABIAt(i)], Asked)}

\* Fault: a provider that answers nothing is asked again.
FaultyAsk == call' = [call EXCEPT !.next = IF Asked \in NoPrecheck /\ call.op = "precheck" THEN @ ELSE @ + 1]

Ask == call' = [call EXCEPT !.next = @ + 1]

\* The entry of m_status that fetch marks with the result for the action at i: statuses holds those
\* of the actions tried.
Fetched(i) == ABIAt(i)

\* How many positions of a list are not after i.
Place(positions, i) == Cardinality({j \in positions : j <= i})

\* ... and the one precheck marks with the answer for the action at i: statuses holds those of all
\* actions, and the indexes of the actions asked for are collected and not used.
Prechecked(asked, i) == ABIAt(CHOOSE j \in DOMAIN call.actions : Place(DOMAIN call.actions, j) = Place(asked, i))

\* One provider of fetch: what it holds is restored unless the transfer or the extraction fails.
FetchFrom ==
    /\ Asking("fetch")
    /\ LET tried == Select(ShouldAttemptRestore)
       IN  \E got \in SUBSET {i \in tried : ABIAt(i) \in stored[Asked]} :
              /\ status' = [a \in ABI |->
                     IF \E i \in got : Fetched(i) = a THEN MarkRestored(status[a])
                     ELSE IF \E i \in tried : Fetched(i) = a THEN MarkUnavailable(status[a], Asked) ELSE status[a]]
              /\ content' = [d \in Dir |->
                     IF \E i \in got : call.actions[i].dir = d
                     THEN ABIAt(CHOOSE i \in got : call.actions[i].dir = d) ELSE content[d]]
    /\ Ask
    /\ UNCHANGED <<queue, stored>>

\* The answers a provider may give for a package: it may be out of reach.
Answers(a) ==
    IF Asked \in NoPrecheck THEN {"unknown"}
    ELSE IF a \in stored[Asked] THEN {"available", "unavailable"} ELSE {"unavailable"}

\* The answers for a package, of which there is one for each action: their order makes no difference.
Mark(s, answers) ==
    LET marked == IF "unavailable" \in answers THEN MarkUnavailable(s, Asked) ELSE s
    IN  IF "available" \in answers THEN MarkAvailable(marked, Asked) ELSE marked

\* One provider of precheck.
PrecheckFrom ==
    /\ Asking("precheck")
    /\ LET asked == Select(ShouldAttemptPrecheck)
       IN  \E answers \in [asked -> {"available", "unavailable", "unknown"}] :
              /\ \A i \in asked : answers[i] \in Answers(ABIAt(i))
              /\ status' = [a \in ABI |-> Mark(status[a], {answers[i] : i \in {j \in asked : Prechecked(asked, j) = a}})]
    /\ Ask
    /\ UNCHANGED <<content, queue, stored>>

--------------------------------------------------------------------------------
\* The next three are called by the command's own thread, and set status, queue and content.

\* push_success with CleanPackages::Yes, once action x is built or restored and its files are in
\* x.dir.
PushSuccess(x) ==
    /\ status' = [status EXCEPT ![x.abi] = Unknown]
    /\ IF IsRestored(x.abi) \/ Writable = {}
       THEN content' = [content EXCEPT ![x.dir] = Nothing] /\ UNCHANGED queue
       ELSE content' = [content EXCEPT ![x.dir] = x.abi] /\ queue' = Append(queue, x)

MarkAllUnrestored == status' = [a \in ABI |-> MarkUnrestored(status[a])]

\* install_clear_installed_packages.
ClearPackages(actions) ==
    content' = [d \in Dir |-> IF \E i \in DOMAIN actions : actions[i].dir = d THEN Nothing ELSE content[d]]

\* The background thread stores the first package of the queue where it can, and removes its
\* directory.
Upload ==
    /\ queue # <<>>
    /\ LET x == Head(queue)
       IN  /\ \E to \in SUBSET Writable :
                 stored' = [p \in Provider |-> IF p \in to THEN stored[p] \cup ({content[x.dir]} \ {Nothing})
                                               ELSE stored[p]]
           /\ content' = [content EXCEPT ![x.dir] = Nothing]
    /\ queue' = Tail(queue)
    /\ UNCHANGED <<status, call>>

CacheStep == FetchFrom \/ PrecheckFrom \/ Upload

--------------------------------------------------------------------------------
CacheTypeOK ==
    /\ status \in [ABI -> [state : {"unknown", "available", "restored"}, unavailable : SUBSET Provider,
                           provider : Provider \cup {NoProvider}]]
    /\ call.op \in {"none", "fetch", "precheck"} /\ call.next \in 0 .. Len(Providers) + 1
    /\ content \in [Dir -> ABI \cup {Nothing}]
    /\ \A i \in DOMAIN queue : queue[i].abi \in ABI /\ queue[i].dir \in Dir
    /\ stored \in [Provider -> SUBSET ABI]

\* The files are where status and the queue say: a package that counts as restored is in the
\* directory the plan has for it, and a queued one stays there until it is stored.
PackagesAreThere(actions) ==
    /\ \A i \in DOMAIN actions : IsRestored(actions[i].abi) => content[actions[i].dir] = actions[i].abi
    /\ \A i \in DOMAIN queue : content[queue[i].dir] = queue[i].abi
================================================================================

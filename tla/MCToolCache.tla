------------------------------ MODULE MCToolCache ------------------------------
\* Either one process of x-download, with all kinds of arguments, settings and answers (the other
\* one has nothing to do), or two processes that need the same tool.
EXTENDS ToolCache

CONSTANTS p1, p2

Quiet == [for |-> "x-download", sha |-> "given", urls |-> 0, azurl |-> FALSE, script |-> FALSE,
          write |-> FALSE, block |-> FALSE, system |-> "none", force |-> "neither"]

\* The asset cache's URL: not configured, without an answer, or what it has.
UrlCaches == {<<FALSE, "up", "absent">>, <<TRUE, "busy", "absent">>, <<TRUE, "refused", "absent">>}
             \cup {<<TRUE, "up", stored>> : stored \in {"absent", "wrong", "right"}}
Scripts == {<<FALSE, "fails">>} \cup {<<TRUE, s>> : s \in {"right", "wrong", "nothing", "fails"}}
Urls == {<<>>} \cup {<<u>> : u \in {"right", "wrong", "blip", "busy", "refused"}}
        \cup {<<u, v>> : u, v \in {"right", "wrong", "busy", "refused"}}
        \cup {<<"wrong", v, w>> : v, w \in {"right", "wrong", "refused"}}

ShaWriteBlock == {<<"given", FALSE, FALSE>>, <<"given", TRUE, FALSE>>, <<"given", FALSE, TRUE>>,
                  <<"none", FALSE, FALSE>>, <<"none", FALSE, TRUE>>, <<"zero", TRUE, FALSE>>}

Alone ==
    {[command |-> [p \in {p1, p2} |->
                    IF p = p2 THEN Quiet
                    ELSE [Quiet EXCEPT !.sha = sw[1], !.urls = Len(urls), !.azurl = a[1],
                                       !.script = s[1], !.write = sw[2], !.block = sw[3]]],
      net |-> [azurl |-> a[2], script |-> s[2], url |-> urls],
      cache |-> a[3], file |-> "absent", exe |-> "absent"] :
        sw \in ShaWriteBlock, urls \in Urls, a \in UrlCaches, s \in Scripts}

Tool(for, system, force, cached) ==
    [Quiet EXCEPT !.for = for, !.urls = 1, !.azurl = cached, !.write = cached,
                  !.system = system, !.force = force]

Together ==
    {[command |-> [p \in {p1, p2} |-> Tool(for, "none", "neither", cached)],
      net |-> [azurl |-> "up", script |-> "fails", url |-> <<url>>],
      cache |-> stored, file |-> left, exe |-> old] :
        for \in {"archive", "file"}, cached \in BOOLEAN, url \in {"right", "wrong"},
        stored \in {"absent", "wrong"}, left \in {"absent", "right"}, old \in {"absent", "bad"}}

\* A user who prefers one copy, beside one who does not; the tool may be one that is never looked
\* for in the system.
Preferences ==
    {[command |-> [p \in {p1, p2} |-> IF p = p1 THEN Tool("archive", system, force, FALSE)
                                      ELSE Tool("archive", system, "neither", FALSE)],
      net |-> [azurl |-> "up", script |-> "fails", url |-> <<url>>],
      cache |-> "absent", file |-> "absent", exe |-> old] :
        system \in {"never", "none", "old", "good"}, force \in {"neither", "system", "downloads"},
        url \in {"right", "busy"}, old \in {"absent", "bad", "good"}}

MCCases == Alone \cup Together \cup Preferences
================================================================================

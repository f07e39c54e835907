----------------------------- MODULE MCSetInstalled -----------------------------
(***************************************************************************)
(* SetInstalled for TLC: a is built against b, and the feature of a        *)
(* against the feature of b.  Their files may conflict.                    *)
(***************************************************************************)
EXTENDS SetInstalled

CONSTANTS a, b, f, x

MCNeeds ==
    [k \in Key |-> IF k = <<a, Core>> THEN {<<b, Core>>}
                   ELSE IF k = <<a, f>> THEN {<<b, f>>} ELSE {}]

MCRequests ==
    {w \in SUBSET Key : \A k \in w : <<k[1], Core>> \in w /\ MCNeeds[k] \subseteq w}

MCContents == [p \in Pkg |-> IF p = a THEN {{}, {x}} ELSE {{x}}]

\* The bound: a tree sees kills or runs that keep going, not both.
MCNext ==
    /\ NextPast
    /\ "killed" \in past' => ~ keepGoing' /\ "keptGoing" \notin past'

MCSpec == InitPast /\ [][MCNext]_pastVars /\ WF_pastVars(MCNext /\ pc' # "off")
================================================================================

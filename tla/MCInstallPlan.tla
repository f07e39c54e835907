----------------------------- MODULE MCInstallPlan -----------------------------
(***************************************************************************)
(* InstallPlan for TLC: an application a, a library b with a default       *)
(* feature d and a feature e, and a tool c.  a needs b with its default    *)
(* features and, on this platform, c; the feature e of b, which may be     *)
(* unsupported, needs c; c needs the core of b only in a later state of    *)
(* the ports, where a does not need it any more.                           *)
(***************************************************************************)
EXTENDS InstallPlan, TLC

CONSTANTS a, b, c, d, e

Plain(p) == {<<p, Core>>, <<p, Default>>}
Of(pairs) == [k \in Key |-> UNION {x[2] : x \in {y \in pairs : y[1] = k}}]

First ==
    [ports |-> {a, b, c}, version |-> [p \in Pkg |-> 1], feats |-> [p \in Pkg |-> IF p = b THEN {d, e} ELSE {}],
     defaults |-> [p \in Pkg |-> IF p = b THEN {d} ELSE {}], qualified |-> {},
     needs |-> Of({<<<<a, Core>>, Plain(b)>>, <<<<b, e>>, {<<b, d>>, <<b, Core>>}>>}),
     needsIf |-> Of({<<<<a, Core>>, Plain(c)>>}), conditional |-> {<<a, Core>>},
     supports |-> {<<b, e>>}, unsupported |-> {<<b, e>>}]

Second ==
    [First EXCEPT !.version = [p \in Pkg |-> IF p = b THEN 2 ELSE 1],
                  !.defaults = [p \in Pkg |-> IF p = b THEN {d, e} ELSE {}], !.qualified = {b},
                  !.needs = Of({<<<<a, Core>>, {<<b, Core>>, <<b, e>>}>>, <<<<b, e>>, Plain(c)>>}),
                  !.needsIf = Of({}), !.conditional = {}, !.unsupported = {}]

Third ==
    [First EXCEPT !.ports = {b, c}, !.version = [p \in Pkg |-> IF p = a THEN 1 ELSE 3],
                  !.feats = [p \in Pkg |-> IF p = b THEN {d} ELSE {}],
                  !.needs = Of({<<<<c, Core>>, {<<b, Core>>}>>}), !.needsIf = Of({}), !.conditional = {},
                  !.supports = {}, !.unsupported = {}]

\* The ports of a and b need each other; the dependencies that have expressions are among them.
Cyclic ==
    [First EXCEPT !.needs = Of({<<<<a, Core>>, Plain(b)>>, <<<<b, Core>>, Plain(a)>>}),
                  !.conditional = {}, !.needsIf = Of({}), !.supports = {}, !.unsupported = {}]

\* The same, and a has a dependency with a platform expression.
CyclicQualified == [Cyclic EXCEPT !.conditional = {<<a, Core>>, <<b, Core>>}]

MCHistory == <<First, Second, Third, Cyclic, CyclicQualified>>

\* "vcpkg install a", "b", "b[core]", "b[e]", "b[core,e]", "b[*]", "c a", "b[core] a".
MCRequests ==
    {Plain(a), Plain(b), {<<b, Core>>}, Plain(b) \cup {<<b, e>>}, {<<b, Core>>, <<b, e>>}, Plain(b) \cup {<<b, Star>>},
     Plain(c) \cup Plain(a), {<<b, Core>>} \cup Plain(a)}
================================================================================

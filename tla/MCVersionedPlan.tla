---------------------------- MODULE MCVersionedPlan ----------------------------
(***************************************************************************)
(* VersionedPlan for TLC: an application a in two versions, a library b in *)
(* three and a tool c in two, with features x and y.  The first version of *)
(* each is the baseline, unless the call says otherwise.                   *)
(***************************************************************************)
EXTENDS VersionedPlan

CONSTANTS a, b, c, x, y, target, host

All == {target, host}
V(n) == [scheme |-> "relaxed", text |-> n, port |-> 0]
F(name) == [name |-> name, on |-> All]
D(name, min, features) ==
    [name |-> name, host |-> FALSE, on |-> All, min |-> min, features |-> features, defaults |-> FALSE]
WithDefaults(d) == [d EXCEPT !.defaults = TRUE]
ForHost(d) == [d EXCEPT !.host = TRUE]
OnHost(d) == [d EXCEPT !.on = {host}]
OnTarget(f) == [f EXCEPT !.on = {target}]
Plain(needs) == [needs |-> needs, defaults |-> <<>>, excludes |-> {}]

MCPort == {a, b, c}
MCFeatures == <<Core, x, y>>
NoPorts == [p \in Port |-> None]

(***************************************************************************)
(* Calls: the direct dependencies, the dependencies of both versions of a  *)
(* and of its feature x, those of b and of its feature y, and an override, *)
(* an overlay, a scheme that cannot be compared or no baseline.            *)
(***************************************************************************)
Calls ==
    [roots : {<<D(a, None, <<>>), D(b, None, <<F(y)>>)>>,
              <<D(b, V(2), <<>>), WithDefaults(D(a, V(2), <<>>))>>,
              <<D(b, V(3), <<F(x)>>), D(a, None, <<>>)>>,
              <<ForHost(D(a, V(1), <<F(x)>>)), D(b, None, <<>>)>>},
     a1 : {<<>>, <<D(b, None, <<F(x)>>)>>, <<D(b, V(3), <<>>), OnHost(D(c, None, <<F(x)>>))>>,
           <<D(c, None, <<>>), D(b, V(2), <<>>)>>},
     a2 : {<<D(c, None, <<>>)>>, <<ForHost(D(c, V(2), <<>>)), D(b, V(2), <<OnTarget(F(x))>>)>>},
     ax : {<<D(b, V(2), <<>>)>>, <<WithDefaults(D(b, None, <<>>)), D(a, V(2), <<>>)>>},
     by : {<<>>, <<D(c, V(2), <<>>)>>},
     b2 : {<<>>, <<D(a, None, <<>>)>>},
     b3y : {<<>>, <<D(c, None, <<F(x)>>)>>},
     pins : {"none", "override", "overlay", "scheme", "missing"}]

FirstOfC(call) == IF call.pins = "scheme" THEN [V(1) EXCEPT !.scheme = "date"] ELSE V(1)

MCManifests ==
    [call \in Calls |->
        [triplet |-> target, depends |-> call.roots,
         ports |-> [p \in Port |->
            CASE p = a -> V(1) :> Plain(Core :> call.a1 @@ x :> call.ax) @@ V(2) :> Plain(Core :> call.a2 @@ x :> call.ax)
              [] p = b -> [v \in {V(1), V(2), V(3)} |->
                             [needs |-> Core :> (IF v = V(2) THEN call.b2 ELSE <<>>) @@ x :> <<D(b, None, <<F(y)>>)>>
                                        @@ y :> (IF v = V(3) THEN call.b3y ELSE call.by),
                              defaults |-> <<F(x)>>, excludes |-> {<<y, host>>}]]
              [] p = c -> [v \in {FirstOfC(call), V(2)} |-> Plain(Core :> <<>> @@ x :> <<>>)]],
         baseline |-> [p \in Port |-> IF p # c THEN V(1) ELSE IF call.pins = "missing" THEN None ELSE FirstOfC(call)],
         override |-> [NoPorts EXCEPT ![b] = IF call.pins = "override" THEN V(1) ELSE None],
         overlay |-> [NoPorts EXCEPT ![b] = IF call.pins = "overlay" THEN Plain(Core :> <<>> @@ y :> <<>>) ELSE None]]]

(***************************************************************************)
(* A library that drops its feature x in version 2, for which an old       *)
(* version of a asked; its feature y needs another feature of a, or c for  *)
(* the host.                                                               *)
(***************************************************************************)
DroppingCalls ==
    [roots : {<<D(c, None, <<>>), D(b, None, <<F(y)>>), D(a, None, <<>>), D(a, V(2), <<>>)>>},
     b2y : {<<>>, <<D(a, None, <<F(x)>>)>>, <<ForHost(D(c, None, <<>>))>>}]

MCDropping ==
    [call \in DroppingCalls |->
        [triplet |-> target, depends |-> call.roots,
         ports |-> [p \in Port |->
            CASE p = a -> V(1) :> Plain(Core :> <<D(b, None, <<F(x)>>)>> @@ x :> <<>>)
                          @@ V(2) :> Plain(Core :> <<>> @@ x :> <<>>)
              [] p = b -> V(1) :> Plain(Core :> <<>> @@ x :> <<>> @@ y :> <<>>)
                          @@ V(2) :> Plain(Core :> <<>> @@ y :> call.b2y)
              [] p = c -> V(1) :> Plain(Core :> <<D(b, V(2), <<>>)>>)],
         baseline |-> [p \in Port |-> V(1)], override |-> NoPorts, overlay |-> NoPorts]]
================================================================================

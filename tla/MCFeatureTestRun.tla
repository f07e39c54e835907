---------------------------- MODULE MCFeatureTestRun ----------------------------
(***************************************************************************)
(* FeatureTestRun for TLC: the core of port p; its feature A, which needs  *)
(* package d; its feature B, which needs d with a feature that needs e;    *)
(* the port q, which needs p and has a feature for other targets only.     *)
(***************************************************************************)
EXTENDS FeatureTestRun

CONSTANTS p0, pA, pB, d0, dX, e0, q0, One, Two

D(i, spec) == <<i, spec>>
X(i, spec, abi) == [spec |-> spec, abi |-> abi, dir |-> D(i, spec)]
Specs == {"d", "e", "p", "q"}
Dirs == (1 .. 5) \X Specs

MCTests ==
    <<[unsupported |-> FALSE, plan |-> <<X(1, "d", d0), X(1, "p", pA)>>],
      [unsupported |-> FALSE, plan |-> <<X(2, "e", e0), X(2, "d", dX), X(2, "p", pB)>>],
      [unsupported |-> FALSE, plan |-> <<X(3, "p", p0)>>],
      [unsupported |-> FALSE, plan |-> <<X(4, "p", p0), X(4, "q", q0)>>],
      [unsupported |-> TRUE, plan |-> <<X(5, "q", q0)>>]>>

MCNeeds == [a \in {p0, pA, pB, d0, dX, e0, q0} |->
               CASE a = pA -> {d0} [] a = pB -> {dX} [] a = dX -> {e0} [] a = q0 -> {p0} [] OTHER -> {}]

\* At most one package does not build or conflict.
MCBehaviours ==
    {f \in [DOMAIN MCNeeds -> {"Succeeded", "BuildFailed", "FileConflicts"}] :
        Cardinality({a \in DOMAIN f : f[a] # "Succeeded"}) <= 1}

MCLeftovers == {{}, {[spec |-> "d", abi |-> d0], [spec |-> "p", abi |-> pA]}}

MCExpectations ==
    {<<mark, "ImplicitPass", "ImplicitPass", "ImplicitPass", "PortMarkedCascade">> :
        mark \in {"ImplicitPass", "ExplicitPass", "FeatureFail", "ConfigurationFail", "FeatureCascade"}}

MCCached ==
    {[i \in {One, Two} |-> {}], [i \in {One, Two} |-> IF i = One THEN {d0, pA} ELSE {p0, q0}],
     [i \in {One, Two} |-> IF i = One THEN {e0, q0, p0} ELSE {d0, dX, e0, pB}]}

TwoProviders == <<One, Two>>
================================================================================

---------------------------------- MODULE MCCi ----------------------------------
(***************************************************************************)
(* Ci for TLC: port b is built against a and, as a tool, against a for the *)
(* host; c is built against b.                                             *)
(***************************************************************************)
EXTENDS Ci

CONSTANTS a, b, c, t, h, One

Specs == {<<a, t>>, <<a, h>>, <<b, t>>, <<c, t>>}

MCNeeds ==
    [s \in Specs |-> CASE s[1] = b -> {<<a, t>>, <<a, h>>} [] s[1] = c -> {<<b, t>>} [] OTHER -> {}]

MCOrders == {<<<<a, t>>, <<a, h>>, <<b, t>>, <<c, t>>>>, <<<<a, h>>, <<a, t>>, <<b, t>>, <<c, t>>>>}

\* At most one package does not build or install.
MCBehaviours ==
    {f \in [Specs -> {"Succeeded", "BuildFailed", "FileConflicts"}] :
        Cardinality({s \in Specs : f[s] # "Succeeded"}) <= 1}

\* At most one package is marked, and at most one is unsupported.
MCInputs ==
    {[mark |-> mark, supported |-> Specs \ missing, known_failures |-> failures, parent_hashes |-> parents,
      skip_failures |-> flag = "skip_failures", allow_unexpected_passing |-> flag = "allow",
      dry_run |-> flag = "dry_run"] :
        mark \in {f \in [Specs -> {"none", "fail", "skip", "pass"}] :
                     Cardinality({s \in Specs : f[s] # "none"}) <= 1},
        failures \in {{}, {<<b, t>>}}, missing \in {{}} \cup {{s} : s \in Specs},
        parents \in {{}, {<<a, t>>, <<a, h>>, <<b, t>>}},
        flag \in {"none", "skip_failures", "allow", "dry_run"}}

MCCached == {[p \in {One} |-> {}], [p \in {One} |-> {<<a, t>>, <<a, h>>, <<b, t>>}]}
MCProviders == <<One>>
================================================================================

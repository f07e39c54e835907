----------------------------- MODULE FeatureTests ------------------------------
(***************************************************************************)
(* Which combinations of features `vcpkg x-test-features` tests            *)
(* (commands.test-features.cpp), and what it expects of them               *)
(* (expected_outcome in ci-feature-baseline.cpp).                          *)
(*                                                                         *)
(* For each port the command tests the core alone, each feature by itself, *)
(* and all features together, as far as its options and the baseline say   *)
(* so.  The baseline also lists sets of options, features that exclude     *)
(* each other: a test takes the first of each set it does not choose from. *)
(***************************************************************************)
EXTENDS SequencesExt

CONSTANTS Core,                     \* the feature every port has
          feature_test_ports,       \* a sequence
          Paragraphs,               \* the features of each port, in order
          Entries,                  \* the baseline entries a port may have
          Supported                 \* the sets of features the target may support

ASSUME FeaturesAssumption ==
    /\ feature_test_ports \in Seq(ToSet(feature_test_ports))
    /\ \A p \in ToSet(feature_test_ports) :
          Paragraphs[p] \in Seq(ToSet(Paragraphs[p])) /\ Core \notin ToSet(Paragraphs[p])
    /\ \A e \in Entries :
          /\ Core \notin e.skip \cup e.cascade \cup e.fail \cup e.no_separate
          /\ e.options \in Seq(ToSet(e.options))
          /\ \A o \in ToSet(e.options) : o \in Seq(ToSet(o)) \ {<<>>}

VARIABLES
    baseline,           \* the entry of each port; a port without one has an empty one
    supported,          \* what the target supports of each port; the port itself is Core
    flags,              \* the kinds of test asked for
    port,               \* the port at hand
    feature,            \* the paragraph at hand, 0 before the core test
    combined_features,  \* a list of features is a bag: lists are compared by std::is_permutation
    specs_to_test

selectionVars == <<baseline, supported, flags, port, feature, combined_features, specs_to_test>>

PortSet == ToSet(feature_test_ports)
Kinds == {"Core", "Separate", "Combined"}

Init ==
    /\ baseline \in [PortSet -> Entries]
    /\ supported \in [PortSet -> Supported]
    /\ flags \in SUBSET Kinds
    /\ port = 1
    /\ feature = 0
    /\ combined_features = SetToBag({Core})
    /\ specs_to_test = <<>>

Finished == port > Len(feature_test_ports)
Port == feature_test_ports[port]
Entry == baseline[Port]
Options == ToSet(Entry.options)

\* The sets of options whose first option is not the core, and the first option of each.
Optional == {i \in DOMAIN Entry.options : Entry.options[i][1] # Core}

Fronts(sets) == [g \in {Entry.options[i][1] : i \in sets} |-> Cardinality({i \in sets : Entry.options[i][1] = g})]

CoreFeatures == SetToBag({Core}) (+) Fronts(Optional)

SeparateFeatures(f) == SetToBag({Core, f}) (+) Fronts({i \in Optional : f \notin ToSet(Entry.options[i])})

Testable(f) == f \in supported[Port] /\ f \notin Entry.skip

\* Fault: only the cascading features are left out.
FaultyMayCombine(f) ==
    /\ f \notin Entry.cascade
    /\ \A o \in Options : f \notin ToSet(o) \/ o[1] = f \/ (o[1] = Core /\ o[2] = f)

\* A feature of a set of options is combined if it is the first, or the first after the core.
MayCombine(f) ==
    /\ f \notin Entry.cascade \cup Entry.fail
    /\ \A o \in Options : f \notin ToSet(o) \/ o[1] = f \/ (o[1] = Core /\ o[2] = f)

\* Fault: a test of more features stands for this one.
FaultyTestedInPart(features) ==
    \E i \in DOMAIN specs_to_test : DOMAIN features \subseteq DOMAIN specs_to_test[i].features

\* std::is_permutation of the features of some test, whichever port that is of.
Tested(features) ==
    \E i \in DOMAIN specs_to_test : specs_to_test[i].features = features

Add(features, kind) ==
    specs_to_test' = Append(specs_to_test, [port |-> Port, features |-> features, kind |-> kind])

--------------------------------------------------------------------------------
NextPort ==
    /\ port' = port + 1
    /\ feature' = 0
    /\ combined_features' = SetToBag({Core})
    /\ UNCHANGED <<baseline, supported, flags>>

PassOver ==
    /\ ~Finished
    /\ feature = 0
    /\ Entry.state = "Skip" \/ Core \notin supported[Port]
    /\ NextPort
    /\ UNCHANGED specs_to_test

TestCore ==
    /\ ~Finished
    /\ feature = 0
    /\ Entry.state # "Skip"
    /\ Core \in supported[Port]
    /\ IF "Core" \in flags /\ Core \notin Entry.skip
       THEN Add(CoreFeatures, "Core")
       ELSE UNCHANGED specs_to_test
    /\ feature' = 1
    /\ UNCHANGED <<baseline, supported, flags, port, combined_features>>

TestFeature ==
    /\ ~Finished
    /\ feature \in DOMAIN Paragraphs[Port]
    /\ LET f == Paragraphs[Port][feature]
           separate == SeparateFeatures(f)
       IN  /\ combined_features' =
                  IF Testable(f) /\ "Combined" \in flags /\ MayCombine(f)
                  THEN combined_features (+) SetToBag({f})
                  ELSE combined_features
           /\ IF Testable(f) /\ "Separate" \in flags /\ f \notin Entry.no_separate /\ ~Tested(separate)
              THEN Add(separate, "Separate")
              ELSE UNCHANGED specs_to_test
    /\ feature' = feature + 1
    /\ UNCHANGED <<baseline, supported, flags, port>>

TestCombined ==
    /\ ~Finished
    /\ feature = Len(Paragraphs[Port]) + 1
    /\ IF "Combined" \in flags /\ ~Tested(combined_features)
       THEN Add(combined_features, "Combined")
       ELSE UNCHANGED specs_to_test
    /\ NextPort

Next == PassOver \/ TestCore \/ TestFeature \/ TestCombined

Selection == Init /\ [][Next]_selectionVars

\* The outcome expected of a test, from the most special entry to the most general.
ExpectedOutcome(entry, features) ==
    IF \E c \in entry.fail_configurations : SetToBag(c) = features THEN "ConfigurationFail"
    ELSE IF DOMAIN features \cap entry.fail # {} THEN "FeatureFail"
    ELSE IF DOMAIN features \cap entry.cascade # {} THEN "FeatureCascade"
    ELSE CASE entry.state = "Fail" -> "PortMarkedFail"
           [] entry.state = "Cascade" -> "PortMarkedCascade"
           [] entry.state = "Pass" -> "ExplicitPass"
           [] OTHER -> "ImplicitPass"

--------------------------------------------------------------------------------
Tests == ToSet(specs_to_test)

\* The options of the port of a test that the test leaves to choose.
OptionsOf(t) == {ToSet(o) : o \in ToSet(baseline[t.port].options)}
FirstsOf(p) == {o[1] : o \in ToSet(baseline[p].options)}

\* A feature that is to be tested by itself is tested, in its own port, with nothing beside it
\* but the first options of sets it is not in.
EachFeatureTested ==
    Finished /\ "Separate" \in flags =>
        \A p \in PortSet : \A f \in ToSet(Paragraphs[p]) :
            \/ baseline[p].state = "Skip" \/ Core \notin supported[p]
            \/ f \in baseline[p].skip \cup baseline[p].no_separate \/ f \notin supported[p]
            \/ \E t \in Tests :
                   /\ t.port = p
                   /\ {Core, f} \subseteq DOMAIN t.features
                   /\ DOMAIN t.features \ {Core, f} \subseteq
                          {g \in FirstsOf(p) : \A o \in ToSet(baseline[p].options) :
                                                   g \in ToSet(o) => f \notin ToSet(o)}

\* No feature known to fail or to cascade is to blame for the combined test, so that its failure
\* is always reported, unless that very configuration or the whole port is marked; and it turns on
\* no two features that exclude each other.
CombinedIsClean ==
    \A t \in Tests : t.kind = "Combined" =>
        /\ ExpectedOutcome(baseline[t.port], t.features) \notin {"FeatureFail", "FeatureCascade"}
        /\ \A o \in OptionsOf(t) : Cardinality((o \cap DOMAIN t.features) \ {Core}) <= 1
================================================================================

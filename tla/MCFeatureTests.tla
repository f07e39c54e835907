---------------------------- MODULE MCFeatureTests -----------------------------
\* Entries that mark each feature in at most one way, as the parser of the baseline makes sure,
\* and whose sets of options do not overlap.
EXTENDS FeatureTests

CONSTANTS A, B, C, P, Q

OnePort == <<P>>
TwoPorts == <<P, Q>>
ParagraphsOfOne == [p \in {P} |-> <<A, B, C>>]
ParagraphsOfTwo == [p \in {P, Q} |-> <<A>>]

Marked(state, marks, no_separate, options, failing) ==
    [state |-> state,
     skip |-> {f \in DOMAIN marks : marks[f] = "skip"},
     cascade |-> {f \in DOMAIN marks : marks[f] = "cascade"},
     fail |-> {f \in DOMAIN marks : marks[f] = "fail"},
     no_separate |-> no_separate, options |-> options, fail_configurations |-> failing]

ChoicesOfOptions == {<<>>, <<<<A, B>>>>, <<<<C, B>>>>, <<<<Core, A>>, <<B, C>>>>, <<<<Core, B, C>>>>}

EntriesOfOne ==
    {Marked(state, marks, no_separate, options, failing) :
        state \in {"Skip", "None"}, marks \in [{A, B, C} -> {"none", "skip", "cascade", "fail"}],
        no_separate \in {{}, {B}}, options \in ChoicesOfOptions,
        failing \in {{}, {{A, Core}}}}

EntriesOfTwo == {Marked("None", marks, {}, <<>>, {}) : marks \in [{A} -> {"none", "fail"}]}

SupportedOfOne == {{Core, A, B, C}, {Core, B, C}, {A, B, C}}
SupportedOfTwo == {{Core, A}}
================================================================================

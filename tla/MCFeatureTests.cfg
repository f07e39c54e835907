CONSTANTS
    Core = Core
    A = A
    B = B
    C = C
    P = P
    Q = Q
    feature_test_ports <- OnePort
    Paragraphs <- ParagraphsOfOne
    Entries <- EntriesOfOne
    Supported <- SupportedOfOne
SPECIFICATION Selection
INVARIANTS EachFeatureTested CombinedIsClean
CHECK_DEADLOCK FALSE

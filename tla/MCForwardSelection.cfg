SPECIFICATION SelectionSpec
CONSTANTS
    NumFeatures = 3
    RowCounts = {3, 4}
    SSt = 3
    Fins = {0, 2, 7}
    Counts = {0, 1, 2, 3, 4}
INVARIANTS
    SelectionTypeOK
    NothingLeftPasses
    ExactlyN
PROPERTIES
    Greedy

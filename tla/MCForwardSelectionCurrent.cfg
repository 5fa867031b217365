SPECIFICATION SelectionSpec
CONSTANTS
    NumFeatures = 3
    RowCounts = {4}
    SSt = 3
    Fins = {2}
    Counts = {1}
INVARIANT TestedAgainstCurrent

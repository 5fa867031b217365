CONSTANTS
    NumVar = 3
    WalkPeriod = 3
    MaxPenalty = 4
    Alpha = 2
    WordSize = 256
    Tasks <- AllCalls
SPECIFICATION Spec
INVARIANTS StateExact RunExact RunEndJustified ExitAccounts
PROPERTIES MovesAllowed Ends

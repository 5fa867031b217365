SPECIFICATION FairSpec
CONSTANTS
    NumSolvers = 3
    Runtimes = {1, 2}
    NaN = NaN
INVARIANTS
    TypeOK
    LostOnlyToTies
    OneChildAtATime
    ExitTells
PROPERTIES
    ImplementsFailover
    EndsUnlessSolverHangs

CONSTANTS
    NumVar = 1
    Sessions <- Sessions1
SPECIFICATION Spec
INVARIANTS FunctionsServed

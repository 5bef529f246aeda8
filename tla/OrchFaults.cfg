CONSTANTS
    Node = {n1, n2}
    MaxConc = 1
    MaxAttempts = 2
    DestroyAttempts = 1
    Interrupts = TRUE
    SaveFailures = TRUE
SPECIFICATION Spec
SYMMETRY Symmetry
INVARIANTS TypeOK BoundedConcurrency Barrier WriteAhead RollbackComplete
PROPERTY CloseLast

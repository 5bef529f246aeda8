CONSTANTS
    Driver = {"scaleway"}
    Node = {n1, n2}
    MaxLife = 2
    MaxServer = 4
    MaxFault = 2
    MaxAttempts = 2
    DestroyAttempts = 2
SPECIFICATION Spec
SYMMETRY Symmetry
INVARIANTS NothingBills

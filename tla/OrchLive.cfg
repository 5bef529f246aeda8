CONSTANTS
    Node = {n1, n2}
    MaxConc = 1
    MaxAttempts = 2
    DestroyAttempts = 2
    Interrupts = FALSE
    SaveFailures = FALSE
SPECIFICATION FairSpec
PROPERTIES IntentLogSpec UpTerminates Converges

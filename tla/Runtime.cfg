CONSTANTS
    Codes = {0, 139}
    MaxRuns = 2
    TTL = 1
    Both = FALSE
SPECIFICATION FairSpec
INVARIANTS TypeOK ExitIsTheWorkloads
PROPERTIES SparesNodesInUse IdleNodeStops Recovers

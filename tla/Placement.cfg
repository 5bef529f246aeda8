CONSTANTS
    Driver = {"hetzner", "scaleway", "lambda", "vultr", "linode", "digitalocean"}
    NType = 2
    NRegion = 2
    MaxPrice = 2
    MaxNode = 2
    MaxPref = 2
    MaxWindow = 1
    Caps = {0, 3}
    MaxAge = 2
    MaxFleet = 3
SPECIFICATION Spec
INVARIANTS TypeOK TriesEverything WithinCap StaysInRegion PicksTheOld
CHECK_DEADLOCK FALSE

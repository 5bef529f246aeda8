CONSTANTS
    Share = {s1, s2}
    RelayIds = {s1}
    GuestLo = 1
    GuestHi = 2
    NoShare = NoShare
    Lockdowns = TRUE
CHECK_DEADLOCK FALSE
SPECIFICATION FairSpec
INVARIANTS TypeOK Accounted OwnAddress
PROPERTIES NoWayBack ExpiresByItself

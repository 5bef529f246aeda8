CONSTANTS
    N = 2
    Place = {home, away}
    Profiles = {"off", "safe"}
SPECIFICATION Spec
SYMMETRY Symmetry
INVARIANTS TypeOK NeverLockedOut DarkAfterLockdown
PROPERTIES InspectionStays

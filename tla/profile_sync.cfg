SPECIFICATION Spec
CONSTANTS
    Profile = {p1, p2}
    Request = {q}
    Worker = w
    NoProfile = NoProfile
    Limit = 1
    Count = 2
    MaxBusy = 2
    MaxSyncs = 2
    MaxChanges = 1
    MaxEvents = 2
    MaxUnnamed = 1
    MaxTroubles = 1
SYMMETRY ProfilesAlike
INVARIANTS
    TypeOK
    AckedEventApplied
    NoEventLeftBehind
PROPERTIES
    SyncSparesListed
    LoneSyncMirrors
CHECK_DEADLOCK FALSE

SPECIFICATION FairSpec
CONSTANTS
    Requests = {r1, r2, r3}
    NoRequest = NoRequest
INVARIANTS
    GuardOwnsSlot
    OneNetwork
    NothingLeftBehind
PROPERTIES
    StoppedGroupLeavesSlot
CHECK_DEADLOCK FALSE

CONSTANTS
    Uris = {u1, u2}
    MaxId = 6
    None = None
    MaxNotices = 2
    MaxRequests = 1
    Notices = {"open", "change"}
    Orders <- AllRequests
    Rescans = FALSE
SPECIFICATION Spec
INVARIANTS NoMutualWait
SYMMETRY Symmetry
CHECK_DEADLOCK FALSE

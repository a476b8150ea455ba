CONSTANTS
    Uris = {u1, u2}
    MaxId = 5
    None = None
    MaxNotices = 2
    MaxRequests = 1
    Notices = {"open", "files"}
    Orders <- NoRequests
    Rescans = TRUE
SPECIFICATION Spec
INVARIANTS OpenBufferWins
SYMMETRY Symmetry
CHECK_DEADLOCK FALSE

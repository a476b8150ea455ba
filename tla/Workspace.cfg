CONSTANTS
    Uris = {u1, u2}
    MaxId = 7
    None = None
    MaxNotices = 3
    MaxRequests = 1
    Notices = {"open", "change", "close", "folders", "files"}
    Orders <- AllRequests
    Rescans = TRUE
SPECIFICATION Spec
INVARIANTS OpenBufferWinsAlone ClosedFilesTracked AnswersUnmoved DiagnosticsSettle
PROPERTIES PushedFromCurrentIndex
SYMMETRY Symmetry
CHECK_DEADLOCK FALSE

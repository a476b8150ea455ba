CONSTANTS
    Ids = {a, b}
    MaxFrames = 3
    MaxRequests = 0
    FrameKinds = {"request", "cancel", "edit", "shutdown", "exit"}
    Faults = {"eof", "write"}
    None = None
SPECIFICATION FairSpec
PROPERTIES EveryRequestAnswered SessionEnds
CHECK_DEADLOCK FALSE

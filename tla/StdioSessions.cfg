CONSTANTS
    Ids = {a, b, c}
    MaxFrames = 4
    BriefFrames = 3
    MaxRequests = 1
    FrameKinds = {"request", "cancel", "edit", "shutdown", "exit", "other", "reply"}
    Faults = {"eof", "write", "raise"}
    None = None
SPECIFICATION Spec
INVARIANTS AnsweredOnce QuietAtReturn SuccessMeansAcknowledged NoNoticeAfterShutdown NoLostWakeup AnsweredInOrder RequestSeesEarlierEdits ShutdownWaitsForWorker EarlyCancelHonoured
CONSTRAINT Explored
SYMMETRY Symmetry
CHECK_DEADLOCK FALSE

\* One session with at most two certificate questions.
CONSTANTS
    MaxPrompts = 2
    None = None
SPECIFICATION FairSpec
INVARIANTS
    TypeOK
    TrustNeedsAcceptance
    PromptReachesApp
    ConnectedHasInstance
    DoneIsClean
    LossIsAnnounced
    RejectIsReported
PROPERTIES
    FrameStaysWhileConnected
    ReportsOnce
    StopEndsWorker
    AnswerIsHeard
    KeepsContract

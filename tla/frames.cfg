\* One session of at most four writes, and the one that clears the frame.
CONSTANTS
    Sizes <- MCSizes
    MaxSequence = 4
SPECIFICATION FairSpec
INVARIANTS
    TypeOK
    SkipIsSafe
PROPERTIES
    LastFrameShown

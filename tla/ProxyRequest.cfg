SPECIFICATION FairSpec
CONSTANT MaxChunks = 5
CHECK_DEADLOCK FALSE
INVARIANTS
    LoggedOnce
    LogTellsHowItEnded
    CaptureMatchesDelivery
PROPERTY StreamsAreReleased

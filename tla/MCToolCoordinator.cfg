SPECIFICATION FairSpec
CONSTANTS
    c1 = c1
    Calls = {c1}
    MaxRequests = 2
CHECK_DEADLOCK FALSE
INVARIANTS TypeOK OneOwner BackgroundIsBounded NoLostWakeup CompletedHasEnded ToldOnce
PROPERTIES OffloadedIsReported TimedCallEnds CancelledCallEnds KeepsContract

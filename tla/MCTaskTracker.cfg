SPECIFICATION FairSpec
CONSTANTS
    Keys = {k1}
    Runs = {r1, r2}
    Subscribers = {q1, q2}
    None = None
    Sentinel = Sentinel
    ReplayEnd = ReplayEnd
    MaxEvents = 2
CHECK_DEADLOCK FALSE
INVARIANTS TypeOK OneRunPerChat EveryEventOnce SentinelEndsStream
PROPERTIES ReadersReleased KeepsStream

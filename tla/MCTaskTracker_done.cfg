SPECIFICATION Spec
CONSTANTS
    Keys = {k1}
    Runs = {r1}
    Subscribers = {q1}
    None = None
    Sentinel = Sentinel
    ReplayEnd = ReplayEnd
    MaxEvents = 1
CHECK_DEADLOCK FALSE
INVARIANT CleanupWhenDone

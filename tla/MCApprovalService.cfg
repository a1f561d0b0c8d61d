SPECIFICATION FairSpec
CONSTANTS
    r1 = r1  r2 = r2  r3 = r3
    s1 = s1  s2 = s2
    c1 = c1
    Requests = {r1, r2, r3}
    Sessions = {s1, s2}
    Calls = {c1}
    NoCall = NoCall
    SessionOf <- SessionOfRequest
    RootOf <- RootOfRequest
    CallOf <- CallOfRequest
    MaxPending = 1
    MaxAge = 1
    Times = {1, 3}
CHECK_DEADLOCK FALSE
INVARIANTS TypeOK NobodyStranded ApprovedByUser AnswersAreTrue
PROPERTIES OutcomeIsFinal ReleasedReturns

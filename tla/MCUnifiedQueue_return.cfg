SPECIFICATION FairSpec
CONSTANTS
    k1 = k1  k2 = k2
    m1 = m1  m2 = m2  m3 = m3  m4 = m4
    s1 = s1  s2 = s2  s3 = s3
    None = None
    Keys = {k1, k2}
    Messages = {m1, m2, m3}
    States = {s1, s2}
    KeyOf <- TwoKeys
    Capacity = 1
    MaxLulls = 2
CHECK_DEADLOCK FALSE
PROPERTY StopReturns

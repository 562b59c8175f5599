CONSTANTS
    i1 = i1
    i2 = i2
    t1 = t1
    t2 = t2
    Ids = {i1, i2}
    Threads = {t1, t2}
    Interest <- Shared
    MaxOutputs = 2
    MaxRegistrations = 2
SPECIFICATION FairResponseSpec
INVARIANTS
    ResponseTypeOK
    ExactlyOnceInOrder
    NoLostWakeup
PROPERTY
    WaitersServed
CHECK_DEADLOCK FALSE

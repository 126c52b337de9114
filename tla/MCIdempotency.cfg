SPECIFICATION Spec
CONSTANTS
    Requests = {r1, r2, r3, r4}
    Keys = {k1, k2}
    Key = k1
    None = None
    Unkeyed = r4
    Other = r3
    keyOf <- TwoKeys
INVARIANT
    WaitersAwaitTheirKey
    RepliesWereStored
    
PROPERTY
    ApartKeyIsServedOnce
    JoinersOfSaversAreAnswered
\* Requests are finite in number, and a waiter may never be answered.
CHECK_DEADLOCK FALSE

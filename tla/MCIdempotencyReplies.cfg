SPECIFICATION Spec
CONSTANTS
    Requests = {r1, r2, r3}
    Keys = {k1}
    Key = k1
    None = None
    Unkeyed = r3
    Other = None
    keyOf <- OneUnkeyed
INVARIANT RepliesBelongToKey
CHECK_DEADLOCK FALSE

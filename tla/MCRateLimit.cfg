SPECIFICATION Spec
CONSTANTS
    Clients = {c1, c2}
    Known = k1
    Proxied = c1
    remoteOf <- Remotes
    forwardedOf <- Forwarded
    TrustProxy = TRUE
    Local = local
    None = None
    Limit = 2
    Window = 2
    PruneAt = 2
    Threshold = 16
    Unit = 8
    MaxNow = 3
    MaxBurst = 3
    MaxPending = 1
INVARIANT
    AtMostTwiceTheLimit
    TightenedWhileSuspected


\* Room for a body at the limit and one past it.
CONSTANTS
    Conns = {c1, c2}
    Limit = 2
    MaxChunks = 3
    Topics = {t1}
    None = None
SPECIFICATION Spec
INVARIANTS
    HandlerGetsWholeBody
    SocketsAreOwned
PROPERTIES
    AnsweredOnce
    CallbacksReturn
\* The server may stop.
CHECK_DEADLOCK FALSE

SPECIFICATION Spec
CONSTANTS
    Requests = {r1, r2}
    Hooks = 2
    Mutating = TRUE
    Subject = r1
    None = None
INVARIANT
    HandlerBehindHooks
    OwnRequestUntilAwait
PROPERTY
    ImplementsLifecycle

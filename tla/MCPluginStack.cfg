\* One change of the page, and bodies at the limit and one past it.
CONSTANTS
    None = None
    CookieNames = {"csrf", "session"}
    BodyLimit = 1
    Requests = {r1, r2}
    Stacks <- MCStacks
    Tokens <- MCTokens
    Keys = {"valid", "revoked"}
    MaxVersion = 1
SPECIFICATION Spec
SYMMETRY Symmetry
INVARIANTS
    RefusalsStick
    TokensAdmit
    PagesArrive
    CookiesComeBack
    BodiesAreBounded
\* Every request is answered in the end.
CHECK_DEADLOCK FALSE

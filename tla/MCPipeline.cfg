SPECIFICATION Spec
CONSTANT Routes <- MCRoutes
INVARIANT
    TypeOK
    GuardsBeforeHandler
    ErrorXorObserved
    ThrowsAreAnswered
    LastResultWins
    MappedBeforeSent
    ObservedAfterReply
PROPERTY
    ObserversFinish
    ImplementsLifecycle

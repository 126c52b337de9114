\* What the documentation says of every reply.
SPECIFICATION Spec
CONSTANT Routes <- MCRoutes
INVARIANT
    AlwaysMapped

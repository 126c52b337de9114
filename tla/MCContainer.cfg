CONSTANTS
    Tokens = {"A", "B"}
    Root = root
    Forks = {f}
    Dependencies <- MCDependencies
    StackDepth = 4
    MaxChanges = 3
SPECIFICATION ContainerSpec
PROPERTY
    ResolvesAsRegistered

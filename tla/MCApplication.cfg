\* Enough calls for a route under two guards and a plugin, and a change after
\* the first compile.
CONSTANTS
    Plugins = {"limiter", "tracer", "module"}
    pluginOf <- MCPluginOf
    Guards = {"one", "many"}
    guardOf <- MCGuardOf
    Macros = {"auth"}
    macroOf <- MCMacroOf
    NoSeed = NoSeed
    None = None
    Limits = {2}
    DefaultLimit = 1
    MaxCalls = 5
    MaxDepth = 2
    Handlers <- MCHandlers
SPECIFICATION Spec
INVARIANTS
    GuardsKeepTheirRoutes
    ServedIsCurrent
    FormsLeaveNothingOut
CHECK_DEADLOCK FALSE

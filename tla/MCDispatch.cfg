SPECIFICATION Spec
CONSTANTS
    Methods = {"GET", "PATCH"}
    Colon <- MCColon
    NamedStars <- MCNamedStars
    Star = "*"
    Definitions <- MCDefinitions
    Urls <- MCUrls
    Foreign = "h"
    MaxRoutes = 3
    UrlCap = 1
    RouterCap = 1
    Null = Null
INVARIANT
    DispatchesAgree
    CachesCoherent
PROPERTY
    CachesAreTransparent
    BestRouteAnswers
    ParamsSpellThePath

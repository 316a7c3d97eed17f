CONSTANTS
    KernelRoutes <- MCKernelRoutes
    FixedRoutes <- MCFixedRoutes
    ZebraRoutes <- MCZebraRoutes
    EarlyRoutes = FALSE
    NULL = NULL
    MaxNl = 2
    MaxFpm = 1
SPECIFICATION FairSpec
INVARIANTS TypeOK Converged DataplaneFollows NoDuplicates DeletesNotRaised
PROPERTIES Recovers

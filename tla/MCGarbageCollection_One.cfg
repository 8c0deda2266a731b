SPECIFICATION CollectorSpec
CONSTANTS
    Small = Small
    a = a
    b = b
    ghost = ghost
    Collector = Collector
    NoFlavor = NoFlavor
    Flavors = {Small}
    Sizing <- Sizes
    Callers = {Collector}
    Recovers = FALSE
    QuotaBackoff = 1
    flavorBackoff = 1
    MaxTime = 0
    MaxHoldOuts = 0
    Names = {a}
    Labels = {a, ghost}
    Tampered = {a}
    Stuck = {}
    Statuses <- UpOrRejected
    MaxRejections = 1
    MaxClaims = 2
    MaxGroups = 1
PROPERTIES
    SparesOwnedGroups
    SparesLaunchedClaims
    CollectorUsesRefusalMemory

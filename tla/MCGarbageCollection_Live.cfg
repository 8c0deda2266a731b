SPECIFICATION FairCollector
CONSTANTS
    Small = Small
    a = a
    b = b
    ghost = ghost
    Collector = Collector
    NoFlavor = NoFlavor
    Flavors = {Small}
    Sizing <- Sizes
    Callers = {Collector}
    Recovers = FALSE
    QuotaBackoff = 1
    flavorBackoff = 1
    MaxTime = 0
    MaxHoldOuts = 0
    Names = {a, b}
    Labels = {a, b}
    Tampered = {}
    Stuck = {b}
    Statuses = {}
    MaxRejections = 0
    MaxClaims = 1
    MaxGroups = 1
PROPERTIES
    OrphansReaped
    VanishedReaped

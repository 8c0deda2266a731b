SPECIFICATION FairFollowUp
CONSTANTS
    Small = Small
    Large = Large
    a = a
    b = b
    Nobody = Nobody
    NoFlavor = NoFlavor
    Names = {a}
    Callers = {a}
    Flavors = {Small, Large}
    Sizing <- Sizes
    Price <- Prices
    Accepts <- AcceptsAll
    Admitted = {Small}
    Statuses <- AllStatuses
    Recovers = TRUE
    QuotaBackoff = 1
    flavorBackoff = 1
    MaxTime = 0
    MaxRejections = 2
    MaxHoldOuts = 2
    MaxClaims = 2
    MaxGroups = 2
INVARIANTS
    FollowUpTypeOK
    RefusalsCountedOnce
PROPERTIES
    SparesRegisteredClaims
    UsesRefusalMemory
    RefusedLaunchesFail

SPECIFICATION Spec
CONSTANTS
    Small = Small
    Large = Large
    Unknown = Unknown
    a = a
    Nobody = Nobody
    NoFlavor = NoFlavor
    Names = {a}
    Callers = {a}
    Flavors = {Small, Large}
    Sizing <- Sizes
    Price <- Prices
    Accepts <- AcceptsAll
    Admitted = {Small, Large}
    Statuses <- FewStatuses
    Recovers = FALSE
    QuotaBackoff = 1
    flavorBackoff = 1
    MaxTime = 0
    MaxRejections = 2
    MaxHoldOuts = 2
    MaxClaims = 1
    MaxGroups = 2
PROPERTIES
    VerdictIsOnCreatedGroup

SPECIFICATION FairSpec
CONSTANTS
    Small = Small
    Large = Large
    Unknown = Unknown
    a = a
    Nobody = Nobody
    NoFlavor = NoFlavor
    Names = {a}
    Callers = {a}
    Flavors = {Small, Large, Unknown}
    Sizing <- Sizes
    Price <- Prices
    Accepts <- AcceptsAll
    Admitted = {Small, Large}
    Statuses <- AllStatuses
    Recovers = FALSE
    QuotaBackoff = 1
    flavorBackoff = 1
    MaxTime = 1
    MaxRejections = 2
    MaxHoldOuts = 2
    MaxClaims = 2
    MaxGroups = 2
PROPERTIES
    FreesNoMachine
    LaunchDescribesGroup
    LaunchesReturn
    TerminationEnds

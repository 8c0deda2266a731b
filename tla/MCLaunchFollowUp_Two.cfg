SPECIFICATION FollowUpSpec
CONSTANTS
    Small = Small
    Large = Large
    a = a
    b = b
    Nobody = Nobody
    NoFlavor = NoFlavor
    Names = {a, b}
    Callers = {a, b}
    Flavors = {Small}
    Sizing <- Sizes
    Price <- Prices
    Accepts <- AcceptsAll
    Admitted = {Small}
    Statuses <- LateRejections
    Recovers = FALSE
    QuotaBackoff = 1
    flavorBackoff = 1
    MaxTime = 0
    MaxRejections = 2
    MaxHoldOuts = 2
    MaxClaims = 1
    MaxGroups = 1
INVARIANTS
    LocksAndMarks
    PostsAreVetted
SYMMETRY Symmetric

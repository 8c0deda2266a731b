SPECIFICATION FairPromise
CONSTANTS
    Small = Small
    Large = Large
    node = node
    stranger = stranger
    g = g
    empty = empty
    users = users
    NoFlavor = NoFlavor
    Flavors = {Small, Large}
    FlavorSizing <- Seed
    Overrides <- Pins
    kubeReservedMemory = 10
    ephemeralStorage <- NewDisk
    legacyEphemeralStorage <- OldDisk
    maxPods = 11
    Nodes = {node, stranger}
    NodeGroupOfNode <- Named
    Managed = {g, empty}
    FlavorOf <- GroupFlavors
    Reports <- Reported
    References <- Hosts
    Requests = {0, 15}
INVARIANTS
    ServedWithinBounds
    FollowsSmallestNode
    PromiseHolds
PROPERTIES
    ReferenceFollowed

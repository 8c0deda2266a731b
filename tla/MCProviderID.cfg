SPECIFICATION FairPID
CONSTANTS
    x = x
    y = y
    u = u
    g = g
    user = user
    NoNode = NoNode
    Nodes = {x, y, u}
    NodeGroups = {g, user}
    Managed = {g}
    GroupOf <- Grouped
INVARIANTS
    PIDTypeOK
    UniqueProviderID
PROPERTIES
    HolderKeepsPool
    NodesServed
    ExtrasStripped

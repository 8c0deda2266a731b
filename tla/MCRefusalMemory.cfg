SPECIFICATION MemorySpec
CONSTANTS
    XS = XS
    S = S
    M = M
    Flavors = {XS, S, M}
    Sizing <- ChainSizing
    Callers = {c1, c2}
    QuotaBackoff = 1
    flavorBackoff = 1
    MaxTime = 3
    MaxRejections = 2
    MaxHoldOuts = 1
INVARIANTS
    MemoryTypeOK
    SequencesOrder
    LargerFlavorsWait
PROPERTIES
    QuotaRejectionsLedger
    HoldOutsLedger
    ProbeReopensFirst
SYMMETRY Symmetric

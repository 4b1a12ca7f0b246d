SPECIFICATION FairSpec
CONSTANTS
    Won = {b1, b2}
    Own = {d1}
    Prefetch = 1
    MaxLosses = 1
    Faults = {"network", "channel", "error"}
INVARIANTS
    TypeOK
    BalanceCoversToasts
PROPERTIES
    SettlementShown

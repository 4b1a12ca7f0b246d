SPECIFICATION FairSpec
CONSTANTS
    ann = ann
    m1 = m1
    b1 = b1
    b2 = b2
    dep = dep
    NoBet = NoBet
    User = {ann}
    Ref <- MCRef
    Market = {m1}
    Slip <- MCSlip
    OddsInt <- MCOddsInt
    DepositCents <- MCDeposits
    Bet = {b1, b2}
    Unique = {b2}
    MaxCents = 4
    Request = {q1, q2}
    Worker = {w1}
    Admin = {a1}
    Faults = {}
INVARIANTS
    PendingIsOnItsWay
    NothingDeadLettered
    LossPaysNothing
PROPERTIES
    PendingIsAccepted
    SettlementEnds
    PlacementEnds

SPECIFICATION Spec
SYMMETRY MCSymmetry
CONSTANTS
    ann = ann
    m1 = m1
    b1 = b1
    b2 = b2
    dep = dep
    NoBet = NoBet
    User = {ann}
    Ref <- MCRef
    Market = {m1}
    Slip <- MCSlip
    OddsInt <- MCOddsInt
    DepositCents <- MCDeposits
    Bet = {b1, b2}
    Unique = {b1, b2}
    MaxCents = 4
    Request = {q1}
    Worker = {w1}
    Admin = {a1}
    Faults = {"crash", "error"}
INVARIANTS
    TypeOK
    FundedBets
    ChargedAtMostOnce
    PaidAtMostOnce
PROPERTIES
    SettledMarketIsFinal
    ImplementsLifecycle

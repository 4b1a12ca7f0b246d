\* Two administrators; nothing fails.
SPECIFICATION Spec
CONSTANTS
    ann = ann
    m1 = m1
    b1 = b1
    b2 = b2
    dep = dep
    NoBet = NoBet
    User = {ann}
    Ref <- MCRef
    Market = {m1}
    Slip <- MCSlip
    OddsInt <- MCOddsInt
    DepositCents <- MCDeposits
    Bet = {b1}
    Unique = {b1}
    MaxCents = 4
    Request = {q1}
    Worker = {w1}
    Admin = {a1, a2}
    Faults = {}
PROPERTY
    SettledMarketIsFinal

SPECIFICATION Spec
SYMMETRY MCSymmetry
CONSTANTS
    ann = ann
    m1 = m1
    b1 = b1
    b2 = b2
    dep = dep
    NoBet = NoBet
    User = {ann}
    Ref <- MCRef
    Market = {m1}
    Slip <- MCSlip
    OddsInt <- MCOddsInt
    DepositCents <- MCDepositOrFull
    Bet = {b1}
    Unique = {}
    MaxCents = 5
    Request = {q1}
    Worker = {w1, w2}
    Admin = {a1, a2}
    Faults = {"reconnect"}
INVARIANTS
    WinNotificationPaid
    PayoutsFollowAcceptance
    DeadLettersAreAccepted

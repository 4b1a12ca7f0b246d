SPECIFICATION FairSpec
CONSTANTS
    Request = {r1, r2}
    Address = {a1}
    Token = {t1}
    Limit <- MCLimit
    Faults = {"redis", "evict"}
INVARIANTS
    TypeOK
    RevokedStaysOut
    CounterHasEnd
PROPERTIES
    TryAgain

SPECIFICATION FairSpec
CONSTANTS
    ann = ann
    bob = bob
    c1 = c1
    c2 = c2
    nobody = nobody
    dep = dep
    bet = bet
    win = win
    User <- MCUser
    Ref <- MCRef
    Unique <- MCUnique
    MaxCents = 4
    Caller = {c1, c2}
    NoCaller = nobody
    Job <- MCJob
INVARIANTS
    TypeOK
    LedgerReplays
    PostedOnce
    LockDiscipline
    CheckStillHolds
PROPERTIES
    LedgerSpec
    CallsReturn

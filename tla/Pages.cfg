SPECIFICATION FairSpec
CONSTANTS
    Market = {m1}
    NoMarket = NoMarket
    MaxCalls = 2
    MaxToasts = 2
    Faults = {"answer", "error", "socket"}
INVARIANTS
    TypeOK
    ListIsCurrent
PROPERTIES
    SettledStaysSettled
    ListCatchesUp
    ButtonsComeBack
    ToastsGo

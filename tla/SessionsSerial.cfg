SPECIFICATION FairSpec
CONSTANTS
    tab1 = tab1
    tab2 = tab2
    r1 = r1
    r2 = r2
    Tab = {tab1, tab2}
    Request = {r1, r2}
    Home <- MCHome
    Token = {t1, t2, t3}
    None = None
    Serial = TRUE
    Faults = {"error", "lost"}
INVARIANTS
    TypeOK
    OneLiveToken
PROPERTIES
    LogoutEndsSession
    ImplementsChain
    RequestsEnd

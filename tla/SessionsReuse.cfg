\* Two tabs whose requests overlap; nothing fails.
SPECIFICATION Spec
CONSTANTS
    tab1 = tab1
    tab2 = tab2
    r1 = r1
    r2 = r2
    Tab = {tab1, tab2}
    Request = {r1, r2}
    Home <- MCHome
    Token = {t1, t2, t3, t4}
    None = None
    Serial = FALSE
    Faults = {}
INVARIANT
    ReuseMeansTheft

\* A read with personal data: its card, its confirmation and its rule dialog; two writes to one file.
SPECIFICATION Spec
CONSTANTS
    r1 = r1  r2 = r2  w1 = w1  w2 = w2
    Principals = {p1}
    ReadKeys = {r1}
    WriteKeys = {w1, w2}
    PIIKeys = {r1}
    Covers <- CoversReads
    SameFile <- OneFile
    Proposers = {}
    SettingsKeys = {}
    Unattended = {FALSE}
    Calls = {c1, c2}
    Ids = {a1, a2, a3}
    None = None
    PendingTTL = 1
    LedgerTTL = 1
    HoldWindow = 1
    GraceTTL = 1
    AdaptiveHold = TRUE
    MaxPending = 2
    MaxPerPrincipal = 2
    LastArrival = 2
SYMMETRY Sym
INVARIANTS
    TypeOK
    
    PersonalDataIsConfirmed
    AcceptAllIsConfirmed
    WindowNeedsAllowOnce
\* every call may be over and every dialog answered
CHECK_DEADLOCK FALSE

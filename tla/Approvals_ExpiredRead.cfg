\* A held read whose card expires under it.
SPECIFICATION Spec
CONSTANTS
    r1 = r1  r2 = r2  w1 = w1  w2 = w2
    Principals = {p1}
    ReadKeys = {r1}
    WriteKeys = {}
    PIIKeys = {}
    Covers <- CoversReads
    SameFile <- NoFile
    Proposers = {}
    SettingsKeys = {}
    Unattended = {FALSE}
    Calls = {c1, c2, c3}
    Ids = {a1, a2}
    None = None
    PendingTTL = 2
    LedgerTTL = 1
    HoldWindow = 1
    GraceTTL = 1
    AdaptiveHold = TRUE
    MaxPending = 2
    MaxPerPrincipal = 2
    LastArrival = 3
SYMMETRY Sym
INVARIANTS
    ExpiryReleasesNothing
\* every call may be over and every dialog answered
CHECK_DEADLOCK FALSE

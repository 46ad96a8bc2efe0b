\* Liveness: two calls of one write; every offered answer may also never come.
SPECIFICATION FairSpec
CONSTANTS
    r1 = r1  r2 = r2  w1 = w1  w2 = w2
    Principals = {p1}
    ReadKeys = {}
    WriteKeys = {w1}
    PIIKeys = {}
    Covers <- CoversReads
    SameFile <- NoFile
    Proposers = {}
    SettingsKeys = {}
    Unattended = {FALSE}
    Calls = {c1, c2}
    Ids = {a1, a2}
    None = None
    PendingTTL = 1
    LedgerTTL = 1
    HoldWindow = 1
    GraceTTL = 1
    AdaptiveHold = TRUE
    MaxPending = 2
    MaxPerPrincipal = 2
    LastArrival = 2
PROPERTIES
    HeldCallReturns
    ResolvedCardFreesItsWorker
    DenyIsFinalized
\* every call may be over and every dialog answered
CHECK_DEADLOCK FALSE

\* Two people making the identical request; one of them is also proposing a rule.
SPECIFICATION Spec
CONSTANTS
    r1 = r1  r2 = r2  w1 = w1  w2 = w2
    Principals = {p1, p2}
    ReadKeys = {r1, r2}
    WriteKeys = {}
    PIIKeys = {}
    Covers <- CoversReads
    SameFile <- NoFile
    Proposers = {p2}
    SettingsKeys = {}
    Unattended = {FALSE}
    Calls = {c1, c2, c3}
    Ids = {a1, a2}
    None = None
    PendingTTL = 2
    LedgerTTL = 1
    HoldWindow = 1
    GraceTTL = 1
    AdaptiveHold = TRUE
    MaxPending = 2
    MaxPerPrincipal = 1
    LastArrival = 0
SYMMETRY Sym
INVARIANTS
    DecisionStaysWithItsRequest
    CapsHold
\* every call may be over and every dialog answered
CHECK_DEADLOCK FALSE

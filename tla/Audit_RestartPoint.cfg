\* The state file is lost between two starts.
SPECIFICATION Spec
CONSTANTS
    None = None
    x1 = x1  x2 = x2  x3 = x3  y1 = y1  y2 = y2  z1 = z1  z2 = z2
    c1 = c1  c2 = c2  p1 = p1  p2 = p2  id1 = id1  path = path
    Absent = Absent
    Parts = {"audit"}
    Principals = {p1}
    Owners = {p1, p2}
    RefsOf <- SharedUpload
    Caller <- SamePerson
    Legacy <- OneOldLine
    Clients = {z1, z2}
    Flows = {y1, y2}
    Tokens = {x1, x2, x3}
    SignInTTL = 1
    CodeTTL = 1
    AccessTTL = 1
    ChainTTL = 2
    StaleClientTTL = 2
    MaxClients = 1
    MaxPending = 1
    MaxRecords = 1
    SaveMayFail = TRUE
    LastTick = 4
    LastUpload = 3
    Slots = {x1, x2, x3}
    Puts = {y1, y2}
    Calls = {c1, c2}
    Refs = {id1, path}
    Contents = {z1, z2}
    Paths = {path}
    SlotTTL = 1
    PendingTTL = 1
    LedgerTTL = 1
    WriteMayFail = TRUE
    Recorders = {y1, y2}
    Weeks = {1, 2}
    MaxEntries = 3
    MaxMishaps = 1
    QueueSize = 1
    ScopedIds = {y1, y2}
    Offers = {id1}
    MaxScoped = 2
    MaxOffers = 1
    OfferTTL = 1
    ReplaceMayFail = TRUE
    LastScoped = 2
SYMMETRY Sym
INVARIANTS
    RestartPointIsValid
\* sign-ins, calls and entries run out
CHECK_DEADLOCK FALSE

\* Three calls in two sessions of one person, clock past the TTL, every client may cancel.
SPECIFICATION FairSpec
CONSTANTS
    c1 = c1  c2 = c2  c3 = c3  c4 = c4  s1 = s1  s2 = s2  p1 = p1  read = read  write = write  label = label
    Calls = {c1, c2, c3}
    Callers = {s1, s2}
    Principals = {p1}
    PrincipalOf <- OnePerson
    Tools = {read, label}
    ReadTools = {read}
    ExemptTools = {label}
    DeliveryTools = {read}
    DedupeTTL = 2
    LastTick = 3
    None = None
INVARIANTS
    TypeOK
    PendingHasRunner
    OneRunnerPerKey
    OnlyDataIsReplayed
PROPERTIES
    ReplayedReadIsCurrent
    WaiterReturns
\* every call may be over
CHECK_DEADLOCK FALSE

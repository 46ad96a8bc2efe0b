\* A waiter gives up, its entry is pruned, a retry runs again.
SPECIFICATION Spec
CONSTANTS
    c1 = c1  c2 = c2  c3 = c3  c4 = c4  s1 = s1  s2 = s2  p1 = p1  read = read  write = write  label = label
    Calls = {c1, c2, c3}
    Callers = {s1}
    Principals = {p1}
    PrincipalOf <- OneSession
    Tools = {write}
    ReadTools = {}
    ExemptTools = {}
    DeliveryTools = {}
    DedupeTTL = 1
    LastTick = 3
    None = None
SYMMETRY Sym
INVARIANTS
    NoSecondRun
\* every call may be over
CHECK_DEADLOCK FALSE

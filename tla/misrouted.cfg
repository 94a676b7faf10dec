SPECIFICATION Spec
CONSTANTS
    a = a
    b = b
    c = c
    ka = ka
    kb = kb
    kc = kc
    None = None
    Torn = Torn
    Process = {a, b, c}
    Dir = {a, b, c}
    dir <- Own
    Key = {ka, kb, kc}
    Addr = {1, 2, 3}
    Settled <- AllSettled
    Befriended <- Everybody
    Faults = {}
    Client = {a}
    MaxLaunches <- Once
INVARIANTS
    TextReachesAddressee
CHECK_DEADLOCK FALSE

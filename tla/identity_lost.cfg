SPECIFICATION Spec
CONSTANTS
    a = a
    b = b
    c = c
    ka = ka
    kb = kb
    kc = kc
    None = None
    Torn = Torn
    Process = {a}
    Dir = {a}
    dir <- Own
    Key = {ka, kb, kc}
    Addr = {1}
    Settled <- OneSettled
    Befriended = {}
    Faults = {"read"}
    Client = {}
    MaxLaunches <- Once
INVARIANTS
    DeviceIDIsStable
CHECK_DEADLOCK FALSE

SPECIFICATION FairSpec
CONSTANTS
    a = a
    b = b
    c = c
    ka = ka
    kb = kb
    kc = kc
    None = None
    Torn = Torn
    Process = {a, b, c}
    Dir = {a, b}
    dir <- SharedDir
    Key = {ka, kb, kc}
    Addr = {1, 2}
    Settled <- OneSettled
    Befriended = {}
    Faults = {"read", "write", "power"}
    Client = {a}
    MaxLaunches <- Once
INVARIANTS
    TypeOK
    IdentityKept
    PairedKnown
PROPERTIES
    NoStrangerPaired
    AnnouncedIsListed
CHECK_DEADLOCK FALSE

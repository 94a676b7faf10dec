SPECIFICATION Spec
CONSTANTS
    a = a
    b = b
    pair = pair
    pair2 = pair2
    pairBack = pairBack
    text = text
    session = session
    Node = {a, b}
    Call = {pair, pair2}
    kind <- Kinds
    from <- Callers
    to <- Addressees
    at <- Addressees
    Faults = {}
    Paired = {}
    MaxCrashes = 0
INVARIANTS
    PendingIsAccepted
CHECK_DEADLOCK FALSE

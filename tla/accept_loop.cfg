SPECIFICATION Spec
CONSTANTS
    a = a
    b = b
    pair = pair
    pair2 = pair2
    pairBack = pairBack
    text = text
    session = session
    Node = {a, b}
    Call = {text}
    kind <- Kinds
    from <- Callers
    to <- Addressees
    at <- Addressees
    Faults = {}
    Paired = {}
    MaxCrashes = 0
INVARIANTS
    AcceptsUntilClosed
CHECK_DEADLOCK FALSE

SPECIFICATION FairSpec
CONSTANTS
    a = a
    b = b
    pair = pair
    pair2 = pair2
    pairBack = pairBack
    text = text
    session = session
    Node = {a, b}
    Call = {session}
    kind <- Kinds
    from <- Callers
    to <- Addressees
    at <- Addressees
    Faults = {}
    Paired <- Mutual
    MaxCrashes = 0
PROPERTIES
    CloseReturns
CHECK_DEADLOCK FALSE

SPECIFICATION FairSpec
CONSTANTS
    a = a
    b = b
    pair = pair
    pair2 = pair2
    pairBack = pairBack
    text = text
    session = session
    Node = {a, b}
    Call = {pair, text}
    kind <- Kinds
    from <- Callers
    to <- Addressees
    at <- Addressees
    Faults = {"timeout"}
    Paired <- Mutual
    MaxCrashes = 0
PROPERTIES
    CallReturns
    CloseReturns
    SentTextArrives
CONSTRAINT OnlyDials
CHECK_DEADLOCK FALSE

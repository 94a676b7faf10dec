SPECIFICATION Spec
CONSTANTS
    a = a
    b = b
    pair = pair
    pair2 = pair2
    pairBack = pairBack
    text = text
    session = session
    Node = {a, b}
    Call = {pair, pairBack}
    kind <- Kinds
    from <- Callers
    to <- Addressees
    at <- Addressees
    Faults = {"store"}
    Paired = {}
    MaxCrashes = 1
INVARIANTS
    PairOkIsMutual
    PinsHaveOwner
PROPERTIES
    AgreementSpec
CONSTRAINT NoTexts
CHECK_DEADLOCK FALSE

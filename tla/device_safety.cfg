SPECIFICATION Spec
CONSTANTS
    a = a
    b = b
    pair = pair
    pair2 = pair2
    pairBack = pairBack
    text = text
    session = session
    Node = {a, b}
    Call = {pair, text, session}
    kind <- Kinds
    from <- Callers
    to <- Addressees
    at <- Addressees
    Faults = {"store"}
    Paired = {}
    MaxCrashes = 0
INVARIANTS
    TypeOK
    TextOnlyFromTrusted
    SendOkMeansTrusted
    QuietAfterClose
    CloseReachesHandlers
    AwaitedIsComing
    SentTextWaits
    CloseWaitsForSomebody
PROPERTIES
    DeliverySpec
CONSTRAINT OnlyDials
CHECK_DEADLOCK FALSE

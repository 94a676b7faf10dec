SPECIFICATION FairSpec
CONSTANTS
    receiver = receiver
    other = other
    Text = {"", "x"}
    Content = {"", "x"}
    Misreads = TRUE
    MaxCopies = 3
    Adder = {receiver, other}
    Max = 2
    StoreFails = TRUE
    Receiver = receiver
    MaxCalls = 1
    MaxCrashes = 1
INVARIANTS
    IDsNameOneEntry
    Bounded
PROPERTIES
    OffersAreNews
    ShowsRecentTexts
    RepeatsOnlyWhenRaced
    CopiesAreCaptured
    CancelCloses
CHECK_DEADLOCK FALSE

SPECIFICATION Spec
CONSTANTS
    receiver = receiver
    other = other
    Text = {"", "x"}
    Content = {"", "x"}
    Misreads = TRUE
    MaxCopies = 2
    Adder = {receiver, other}
    Max = 2
    StoreFails = FALSE
    Receiver = receiver
    MaxCalls = 0
    MaxCrashes = 0
PROPERTIES
    StartupIsNotOffered
CHECK_DEADLOCK FALSE

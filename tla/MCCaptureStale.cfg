SPECIFICATION Spec
CONSTANTS
    Flow <- TwoFlows
    Route <- Routes
    D = {0, 1, 2}
    Leftover = {"probe"}
    MaxLines = 2
CHECK_DEADLOCK FALSE
INVARIANTS ObservedThisSession

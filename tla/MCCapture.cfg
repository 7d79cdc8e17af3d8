SPECIFICATION LiveSpec
CONSTANTS
    Flow <- TwoFlows
    Route <- Routes
    D = {0, 1, 2, 3, 5}
    Leftover = {"run"}
    MaxLines = 2
CHECK_DEADLOCK FALSE
INVARIANTS ObservedThisSession FileIsPrefix TargetsSpan RunIsStationary GroundTruthHolds
PROPERTIES SessionEnds

SPECIFICATION RunnersSpec
CONSTANTS
    NumSessions = 2
    Drops = TRUE
    MaxPackets = 3
    NumSwitches = 2
    Scenario = {"demo", "baseline", "delay", "queue", "cli"}
    MaxPolls = 2
    MaxSessions = 2
CHECK_DEADLOCK FALSE
INVARIANTS ReturnedIsOwn TakenUnderFault SummaryOfPhase NothingLeft ReadyIsServing
PROPERTIES EverySessionEnds

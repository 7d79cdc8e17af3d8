SPECIFICATION Spec
CONSTANTS
    NumSessions = 2
    Drops = TRUE
    MaxPackets = 3
CHECK_DEADLOCK FALSE
INVARIANTS ResultIsWritten

SPECIFICATION FairSpec
CONSTANTS
    ping = ping
    backoff = backoff
    short = short
    Timers <- MCTimers
    Timeout <- MCTimeout
    Repeating <- MCRepeating
    MaxEnds = 1
    MaxRestarts = 2
INVARIANTS
    ChainAlive
    NeverLate
PROPERTIES
    NeverEarly
    SilencedStaysSilent
CHECK_DEADLOCK FALSE

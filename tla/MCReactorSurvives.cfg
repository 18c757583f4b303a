\* A gate alone is enough: ReactorSurvives.
CONSTANTS
    Triggers = {"gate", "clock"}
    Initial <- MCGateAndClock
    Interval = {"clock"}
    Timed = {}
    Blocking = {"gate"}
    Names = {"call"}
    Pattern <- MCPattern
    Managed = {}
    MaxFailures = 2
    MaxEmit = 2
    MaxActive = 0
SPECIFICATION ReactorSafety
INVARIANTS
    ReactorSurvives
CHECK_DEADLOCK FALSE

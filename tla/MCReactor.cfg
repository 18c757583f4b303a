\* Four triggers, two events; nobody administrates.
CONSTANTS
    Triggers = {"gate", "listener", "clock", "daily"}
    Initial <- MCAll
    Interval = {"clock"}
    Timed = {"daily"}
    Blocking = {"gate"}
    Names = {"call", "done"}
    Pattern <- MCPattern
    Managed = {}
    MaxFailures = 2
    MaxEmit = 2
    MaxActive = 1
SPECIFICATION ReactorSafety
INVARIANTS
    LoopIsSound
PROPERTIES
    AnsweredOnce
CHECK_DEADLOCK FALSE

\* A gate and a clock, both registered, removed, disabled and enabled at run time.
CONSTANTS
    Triggers = {"gate", "clock"}
    Initial <- MCGateAndClock
    Interval = {"clock"}
    Timed = {}
    Blocking = {"gate"}
    Names = {"call"}
    Pattern <- MCPattern
    Managed = {"gate", "clock"}
    MaxFailures = 2
    MaxEmit = 2
    MaxActive = 2
SPECIFICATION ReactorSpec
INVARIANTS
    BreakerTrips
PROPERTIES
    OnlyActiveStart
    EventsAreProcessed
    IntervalsFire
    WaitersReturn
CHECK_DEADLOCK FALSE

\* Three work ids, each dispatched once (the default uuid ids of the API).
CONSTANTS
    WorkIds = {1, 2, 3}
    Workers = {w1, w2}
    Tiers = {0, 2}
    MaxGen = 1
    ReuseIds = FALSE
    None = None
SPECIFICATION EngineSafety
INVARIANTS
    ExecutedOnce
    OneEventPerOutcome
PROPERTIES
    DocumentedTransitions
    ImplementsBoard
CHECK_DEADLOCK FALSE

\* Two work ids that clients dispatch again (gh-<issue>, pipeline-<issue>-<stage>).
CONSTANTS
    WorkIds = {1, 2}
    Workers = {w1, w2}
    Tiers = {0, 2}
    MaxGen = 2
    ReuseIds = TRUE
    None = None
SPECIFICATION EngineSpec
INVARIANTS
    EngineTypeOK
    NoLostWork
    RunningIsExecuted
PROPERTIES
    WorkIsFinished
CHECK_DEADLOCK FALSE

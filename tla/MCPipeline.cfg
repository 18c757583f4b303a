\* Two issues at a time, with spec store and verifier; one issue is atomic.
CONSTANTS
    Runs = {"a", "b"}
    Issue <- TwoIssues
    WorkIds <- IdsOfTwo
    SkipDecompose = {"b"}
    Missing = {}
    HasStore = TRUE
    HasVerifier = TRUE
    Exclusive = FALSE
    ClientCancels = FALSE
    MaxPolls = 2
    Workers = {"w"}
    Tiers = {5}
    MaxGen = 1
    ReuseIds = FALSE
    None = None
SPECIFICATION PipelineSafety
INVARIANTS
    StagesAreSound
    CompletedStageHasWork
CHECK_DEADLOCK FALSE

\* Work of a stage cancelled through the API.
CONSTANTS
    Runs = {"a", "b"}
    Issue <- TwoIssues
    WorkIds <- IdsOfTwo
    SkipDecompose = {"a", "b"}
    Missing = {}
    HasStore = FALSE
    HasVerifier = FALSE
    Exclusive = FALSE
    ClientCancels = TRUE
    MaxPolls = 2
    Workers = {"w"}
    Tiers = {5}
    MaxGen = 1
    ReuseIds = FALSE
    None = None
SPECIFICATION PipelineSafety
INVARIANTS
    CompletedStageHasWork
CHECK_DEADLOCK FALSE

\* An issue is run again after its first run: the saved spec lives on; clients
\* cancel, and the engine may never start or may stop.
CONSTANTS
    Runs = {"a", "b"}
    Issue <- OneIssue
    WorkIds <- IdsOfOne
    SkipDecompose = {"b"}
    Missing = {3, 4}
    HasStore = TRUE
    HasVerifier = TRUE
    Exclusive = TRUE
    ClientCancels = TRUE
    MaxPolls = 1
    Workers = {"w"}
    Tiers = {5}
    MaxGen = 2
    ReuseIds = TRUE
    None = None
SPECIFICATION PipelineSpec
INVARIANTS
    HaltOnFailure
PROPERTIES
    EnrichmentKept
    RunEnds
CHECK_DEADLOCK FALSE

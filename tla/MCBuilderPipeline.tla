-------------------------- MODULE MCBuilderPipeline --------------------------
(* Two runs on an engine with one worker: for two issues or for the same.  *)
EXTENDS BuilderPipeline

MCRuns == {"a", "b"}
TwoIssues == [r \in Runs |-> IF r = "a" THEN 1 ELSE 2]
OneIssue == [r \in Runs |-> 1]
IdsOfTwo == { WorkId(n, s) : n \in {1, 2}, s \in Stages }
IdsOfOne == { WorkId(1, s) : s \in Stages }
=============================================================================

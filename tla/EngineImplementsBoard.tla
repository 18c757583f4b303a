------------------------ MODULE EngineImplementsBoard ------------------------
(***************************************************************************)
(* The engine, dispatched to with fresh ids, is a WorkBoard: the waiting   *)
(* jobs are the queue entries whose item is still queued, the active ones  *)
(* those a worker holds.                                                   *)
(***************************************************************************)
EXTENDS OrchestratorEngine

LiveEntries == { e \in queue : status[Current(e.id)] = "queued" }
Waits == { [tier |-> e.tier, id |-> e.id] : e \in LiveEntries }

Held == { i \in WorkIds : \E w \in Workers : hold[w] # None /\ hold[w][1] = i }

\* stop() abandons a running item: no worker holds it, no outcome is recorded.
OutcomeOf == [i \in WorkIds |->
    LET s == status[<<i, 1>>]
    IN  IF s \in Terminal THEN s
        ELSE IF s = "running" /\ i \notin Held THEN "abandoned" ELSE "none"]

Board == INSTANCE WorkBoard WITH
    Jobs <- WorkIds,
    Capacity <- Cardinality(Workers),
    waiting <- Waits,
    active <- Held,
    outcome <- OutcomeOf,
    open <- ~shutdown

\* The engine implements the board: best tier first, never more than
\* max_concurrent at a time, one outcome per job, whatever the workers, the
\* cancels and a stop() interleave (dispatch, _worker, cancel, stop).
ImplementsBoard == Board!BoardSpec
=============================================================================

--------------------------- MODULE BuilderPipeline ---------------------------
(***************************************************************************)
(* The issue-to-merge pipeline of src/stronghold/orchestrator/pipeline.py  *)
(* composed with the OrchestratorEngine it dispatches its stages to.       *)
(*                                                                         *)
(* A run is one call of execute(), a coroutine that goes through five      *)
(* stages; pc says at which await it is.  Several runs go on at once, and  *)
(* runs for the same issue use the same work ids.                          *)
(***************************************************************************)
EXTENDS OrchestratorEngine

CONSTANTS
    Runs,           \* calls of execute()
    Issue,          \* the issue number of each
    SkipDecompose,  \* runs called with skip_decompose
    Missing,        \* stages whose agent is not loaded
    HasStore,       \* is there a spec_store
    HasVerifier,    \* is there a spec_verifier
    Exclusive,      \* do the callers keep runs for one issue apart
    ClientCancels,  \* do API clients cancel work of the pipeline
    MaxPolls        \* bound: polls until the 600 s of a stage are over

Decompose == 1
Scaffold == 2
Implement == 3
Review == 4
Cleanup == 5
Stages == 1..5

\* "pipeline-<issue>-<stage name>", compared as a string.
Alphabetical == <<2, 5, 3, 4, 1>>
WorkId(n, s) == 10 * n + Alphabetical[s]

P5 == 5

ASSUME PipelineAssumption ==
    /\ Issue \in [Runs -> Nat]
    /\ SkipDecompose \subseteq Runs
    /\ Missing \subseteq Stages
    /\ HasStore \in BOOLEAN /\ HasVerifier \in BOOLEAN
    /\ Exclusive \in BOOLEAN /\ ClientCancels \in BOOLEAN
    /\ MaxPolls \in Nat \ {0}
    /\ { WorkId(Issue[r], s) : r \in Runs, s \in Stages } \subseteq WorkIds
    /\ P5 \in Tiers

SpecState == {"none", "plain", "enriched"}

VARIABLES
    pc,         \* the await a run is at
    stage,      \* current_stage; 6 past the last
    stages,     \* PipelineStage.status
    runStatus,  \* PipelineRun.status
    polls,      \* polls of the current stage
    clean,      \* does prev_output hold one of _clean_signals
    spec,       \* the run's own spec: absent, as emitted, or with property tests
    verified,   \* context["verifications"]: the stages verified
    store       \* the spec saved for an issue

runVars == <<pc, stage, stages, runStatus, polls, clean, spec, verified>>
pipelineVars == <<engineVars, runVars, store>>

PipelineTypeOK ==
    /\ EngineTypeOK
    /\ pc \in [Runs -> {"idle", "loading", "next", "polling", "saving", "verifying",
                        "done", "raised"}]
    /\ stage \in [Runs -> 1..6]
    /\ stages \in [Runs -> [Stages -> {"pending", "running", "completed", "failed", "skipped"}]]
    /\ runStatus \in [Runs -> {"pending", "running", "completed", "failed"}]
    /\ polls \in [Runs -> 0..MaxPolls]
    /\ clean \in [Runs -> BOOLEAN]
    /\ spec \in [Runs -> SpecState]
    /\ verified \in [Runs -> SUBSET Stages]
    /\ store \in [{ Issue[r] : r \in Runs } -> SpecState]

PipelineInit ==
    /\ EngineInit
    /\ pc = [r \in Runs |-> "idle"]
    /\ stage = [r \in Runs |-> 1]
    /\ stages = [r \in Runs |-> [s \in Stages |-> "pending"]]
    /\ runStatus = [r \in Runs |-> "pending"]
    /\ polls = [r \in Runs |-> 0]
    /\ clean = [r \in Runs |-> FALSE]
    /\ spec = [r \in Runs |-> "none"]
    /\ verified = [r \in Runs |-> {}]
    /\ store = [n \in { Issue[r] : r \in Runs } |-> "none"]

\* The work item the current stage of r resolves to.
Work(r, s) == Current(WorkId(Issue[r], s))
Made(r, s) == cur[WorkId(Issue[r], s)] # 0
WorkStatus(r, s) == status[Work(r, s)]

MarkStage(r, st) == stages' = [stages EXCEPT ![r][stage[r]] = st]

\* break: the run ends as failed at the current stage.
Halt(r) ==
    /\ MarkStage(r, "failed")
    /\ runStatus' = [runStatus EXCEPT ![r] = "failed"]
    /\ pc' = [pc EXCEPT ![r] = "done"]

Advance(r) ==
    /\ stage' = [stage EXCEPT ![r] = @ + 1]
    /\ pc' = [pc EXCEPT ![r] = "next"]

-----------------------------------------------------------------------------
(* Start of a run                                                          *)

\* The backlog scanner labels an issue in-progress before it calls execute();
\* other callers do not look.
Launch(r) ==
    /\ pc[r] = "idle"
    /\ Exclusive => \A q \in Runs : Issue[q] = Issue[r] => pc[q] \in {"idle", "done", "raised"}
    /\ runStatus' = [runStatus EXCEPT ![r] = "running"]
    /\ pc' = [pc EXCEPT ![r] = IF HasStore THEN "loading" ELSE "next"]
    /\ UNCHANGED <<engineVars, stage, stages, polls, clean, spec, verified, store>>

\* The saved spec of the issue is not looked up.
X_LoadNothing(r) ==
    /\ pc[r] = "loading"
    /\ pc' = [pc EXCEPT ![r] = "next"]
    /\ UNCHANGED <<engineVars, stage, stages, runStatus, polls, clean, spec, verified, store>>

LoadSpec(r) ==
    /\ pc[r] = "loading"
    /\ spec' = [spec EXCEPT ![r] = store[Issue[r]]]
    /\ pc' = [pc EXCEPT ![r] = "next"]
    /\ UNCHANGED <<engineVars, stage, stages, runStatus, polls, clean, verified, store>>

-----------------------------------------------------------------------------
(* The head of the stage loop                                              *)

AtStage(r, s) == pc[r] = "next" /\ stage[r] = s

\* An atomic issue needs no decomposition, but its spec is emitted here.
SkipAtomic(r) ==
    /\ AtStage(r, Decompose) /\ r \in SkipDecompose
    /\ MarkStage(r, "skipped")
    /\ IF HasStore /\ spec[r] = "none"
       THEN /\ spec' = [spec EXCEPT ![r] = "plain"]
            /\ pc' = [pc EXCEPT ![r] = "saving"]
            /\ UNCHANGED stage
       ELSE Advance(r) /\ UNCHANGED spec
    /\ UNCHANGED <<engineVars, runStatus, polls, clean, verified, store>>

SkipClean(r) ==
    /\ AtStage(r, Cleanup) /\ clean[r]
    /\ MarkStage(r, "skipped")
    /\ Advance(r)
    /\ UNCHANGED <<engineVars, runStatus, polls, clean, spec, verified, store>>

\* Is the stage skipped by its skip_if condition?
Skippable(r) ==
    \/ stage[r] = Decompose /\ r \in SkipDecompose
    \/ stage[r] = Cleanup /\ clean[r]

SkipMissing(r) ==
    /\ pc[r] = "next" /\ stage[r] \in Missing /\ ~Skippable(r)
    /\ MarkStage(r, "skipped")
    /\ clean' = [clean EXCEPT ![r] = FALSE]
    /\ Advance(r)
    /\ UNCHANGED <<engineVars, runStatus, polls, spec, verified, store>>

DispatchStage(r) ==
    /\ pc[r] = "next" /\ stage[r] \in Stages \ Missing /\ ~Skippable(r)
    /\ Dispatch(WorkId(Issue[r], stage[r]), P5)
    /\ MarkStage(r, "running")
    /\ polls' = [polls EXCEPT ![r] = 0]
    /\ pc' = [pc EXCEPT ![r] = "polling"]
    /\ UNCHANGED <<stage, runStatus, clean, spec, verified, store>>

Complete(r) ==
    /\ pc[r] = "next" /\ stage[r] = 6
    /\ runStatus' = [runStatus EXCEPT ![r] = "completed"]
    /\ pc' = [pc EXCEPT ![r] = "done"]
    /\ UNCHANGED <<engineVars, stage, stages, polls, clean, spec, verified, store>>

-----------------------------------------------------------------------------
(* The poll loop and what follows it                                       *)

Deadline(r) == polls[r] = MaxPolls

\* The elapsed time is not tested.
X_PollForever(r) ==
    /\ pc[r] = "polling"
    /\ WorkStatus(r, stage[r]) \notin Terminal
    /\ polls' = [polls EXCEPT ![r] = @ + 1]
    /\ UNCHANGED <<engineVars, pc, stage, stages, runStatus, clean, spec, verified, store>>

PollAgain(r) ==
    /\ pc[r] = "polling" /\ ~Deadline(r)
    /\ WorkStatus(r, stage[r]) \notin Terminal
    /\ polls' = [polls EXCEPT ![r] = @ + 1]
    /\ UNCHANGED <<engineVars, pc, stage, stages, runStatus, clean, spec, verified, store>>

\* The loop goes on after a failed stage: no break.
X_FailGoesOn(r) ==
    /\ pc[r] = "polling"
    /\ WorkStatus(r, stage[r]) = "failed"
    /\ MarkStage(r, "failed")
    /\ Advance(r)
    /\ UNCHANGED <<engineVars, runStatus, polls, clean, spec, verified, store>>

StageFails(r) ==
    /\ pc[r] = "polling"
    /\ WorkStatus(r, stage[r]) = "failed"
    /\ Halt(r)
    /\ UNCHANGED <<engineVars, stage, polls, clean, spec, verified, store>>

\* A stage that timed out is taken for completed.
X_TimeoutCompletes(r) ==
    /\ pc[r] = "polling" /\ Deadline(r)
    /\ WorkStatus(r, stage[r]) # "failed"
    /\ MarkStage(r, "completed")
    /\ Advance(r)
    /\ UNCHANGED <<engineVars, runStatus, polls, clean, spec, verified, store>>

\* Only work that is still queued times out.
X_TimeoutQueuedOnly(r) ==
    /\ pc[r] = "polling" /\ Deadline(r)
    /\ WorkStatus(r, stage[r]) = "queued"
    /\ Cancel(WorkId(Issue[r], stage[r]))
    /\ Halt(r)
    /\ UNCHANGED <<stage, polls, clean, spec, verified, store>>

\* The deadline counts even when the work is completed by now; cancel() takes
\* effect on queued work only.
StageTimesOut(r) ==
    /\ pc[r] = "polling" /\ Deadline(r)
    /\ WorkStatus(r, stage[r]) # "failed"
    /\ IF WorkStatus(r, stage[r]) = "queued"
       THEN Cancel(WorkId(Issue[r], stage[r]))
       ELSE UNCHANGED engineVars
    /\ Halt(r)
    /\ UNCHANGED <<stage, polls, clean, spec, verified, store>>

\* Which await comes after a completed stage, for a run whose spec is sp.
AfterHooks(sp) == IF sp # "none" /\ HasVerifier THEN "verifying" ELSE "next"

\* Everything else is a success, cancelled work too, whose output is empty.
\* The spec is emitted after decompose and enriched after scaffold.
StageCompletes(r, cl) ==
    /\ pc[r] = "polling" /\ ~Deadline(r)
    /\ WorkStatus(r, stage[r]) \in {"completed", "cancelled"}
    /\ cl => WorkStatus(r, stage[r]) = "completed"
    /\ MarkStage(r, "completed")
    /\ clean' = [clean EXCEPT ![r] = cl]
    /\ spec' = [spec EXCEPT ![r] =
                  CASE HasStore /\ stage[r] = Decompose /\ @ = "none" -> "plain"
                    [] HasStore /\ stage[r] = Scaffold /\ @ # "none" -> "enriched"
                    [] OTHER -> @]
    /\ LET saves == \/ HasStore /\ stage[r] = Decompose /\ spec[r] = "none"
                    \/ HasStore /\ stage[r] = Scaffold /\ spec[r] # "none"
           to == IF saves THEN "saving" ELSE AfterHooks(spec[r])
       IN  IF to = "next"
           THEN Advance(r)
           ELSE pc' = [pc EXCEPT ![r] = to] /\ UNCHANGED stage
    /\ UNCHANGED <<engineVars, runStatus, polls, verified, store>>

\* A stage whose spec was saved is not verified any more.
X_SaveSkipsVerify(r) ==
    /\ pc[r] = "saving"
    /\ store' = [store EXCEPT ![Issue[r]] = spec[r]]
    /\ Advance(r)
    /\ UNCHANGED <<engineVars, stages, runStatus, polls, clean, spec, verified>>

\* spec_store.save() returns.
SaveSpec(r) ==
    /\ pc[r] = "saving"
    /\ store' = [store EXCEPT ![Issue[r]] = spec[r]]
    /\ IF stages[r][stage[r]] = "completed" /\ HasVerifier
       THEN pc' = [pc EXCEPT ![r] = "verifying"] /\ UNCHANGED stage
       ELSE Advance(r)
    /\ UNCHANGED <<engineVars, stages, runStatus, polls, clean, spec, verified>>

\* spec_verifier.verify() returns; a verification that fails halts the run.
Verify(r, passed) ==
    /\ pc[r] = "verifying"
    /\ verified' = [verified EXCEPT ![r] = @ \cup {stage[r]}]
    /\ IF passed
       THEN Advance(r) /\ UNCHANGED <<stages, runStatus>>
       ELSE Halt(r) /\ UNCHANGED stage
    /\ UNCHANGED <<engineVars, polls, clean, spec, store>>

\* A store or a verifier raises: execute() raises, the run stays as it is.
HookRaises(r) ==
    /\ pc[r] \in {"loading", "saving", "verifying"}
    /\ pc' = [pc EXCEPT ![r] = "raised"]
    /\ UNCHANGED <<engineVars, stage, stages, runStatus, polls, clean, spec, verified, store>>

-----------------------------------------------------------------------------
RunStep(r) ==
    \/ LoadSpec(r)
    \/ SkipAtomic(r) \/ SkipClean(r) \/ SkipMissing(r)
    \/ DispatchStage(r) \/ Complete(r)
    \/ PollAgain(r) \/ StageFails(r) \/ StageTimesOut(r)
    \/ \E cl \in BOOLEAN : StageCompletes(r, cl)
    \/ SaveSpec(r)
    \/ \E passed \in BOOLEAN : Verify(r, passed)
    \/ HookRaises(r)

EngineSide ==
    /\ \/ Start \/ Stop
       \/ \E w \in Workers : WorkerStep(w)
       \/ ClientCancels /\ \E i \in WorkIds : Cancel(i)
    /\ UNCHANGED <<runVars, store>>

PipelineNext ==
    \/ \E r \in Runs : Launch(r) \/ RunStep(r)
    \/ EngineSide

\* A coroutine is resumed when what it awaits is over: the sleep of a poll, a
\* store or a verifier call.  Nothing is assumed of the engine or its agents.
PipelineFairness == \A r \in Runs : WF_pipelineVars(RunStep(r))

PipelineSafety == PipelineInit /\ [][PipelineNext]_pipelineVars
PipelineSpec == PipelineSafety /\ PipelineFairness

-----------------------------------------------------------------------------
(* Properties                                                              *)

\* "If a stage fails, the pipeline halts and reports which stage broke": no
\* later stage was touched, and a completed run has no stage left undone.
HaltOnFailure ==
    \A r \in Runs :
        /\ \A s \in Stages : stages[r][s] = "failed" =>
             runStatus[r] = "failed" /\ \A u \in Stages : u > s => stages[r][u] = "pending"
        /\ runStatus[r] = "completed" =>
             \A s \in Stages : stages[r][s] \in {"completed", "skipped"}

\* While a stage runs no agent works for, or waits for, an earlier stage of
\* the issue: stages never overlap in the engine (with one run per issue).
StagesDoNotOverlap ==
    \A r \in Runs : \A s \in Stages :
        stages[r][s] = "running" =>
            \A u \in Stages : u < s /\ Made(r, u) => WorkStatus(r, u) \in Terminal

\* A stage is completed only on the strength of completed work.
CompletedStageHasWork ==
    \A r \in Runs : \A s \in Stages :
        stages[r][s] = "completed" => Made(r, s) /\ WorkStatus(r, s) = "completed"

\* "Verifier is called after each completed stage": with a store and a
\* verifier no completed run has a stage that was not verified.
EveryStageVerified ==
    \A r \in Runs :
        HasStore /\ HasVerifier /\ runStatus[r] = "completed" =>
            \A s \in Stages : stages[r][s] = "completed" => s \in verified[r]

\* The pipeline's record makes sense, stages come one by one, none unverified.
StagesAreSound == PipelineTypeOK /\ StagesDoNotOverlap /\ EveryStageVerified

\* The property tests a run added to a saved spec are not lost again: no run
\* overwrites them with an older spec it read or emitted before.
EnrichmentKept ==
    [][\A n \in DOMAIN store : store[n] = "enriched" => store'[n] = "enriched"]_pipelineVars

\* Every run ends, whatever the engine does: hanging agents, a stopped engine,
\* cancelled work.
RunEnds ==
    \A r \in Runs : pc[r] # "idle" ~> pc[r] \in {"done", "raised"}
=============================================================================

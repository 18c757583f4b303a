------------------------------ MODULE Rollouts ------------------------------
(***************************************************************************)
(* How something new comes into use: a skill stage by stage, a prompt by   *)
(* moving its labels. The two share no state.                              *)
(***************************************************************************)
EXTENDS Naturals, FiniteSets, FiniteSetsExt

(***************************************************************************)
(* Staged rollout of a skill: skills/canary.py and the check that the      *)
(* reactor runs every thirty seconds (triggers.py).  Deployments are kept  *)
(* per organisation; the check looks at the one of no organisation.        *)
(***************************************************************************)

CONSTANTS
    Orgs,           \* organisations, and NoOrg
    NoOrg,
    MinRequests,    \* min_requests_per_stage
    ErrorPercent,   \* error_threshold
    StageDuration,  \* stage_duration_secs, in checks
    MaxRequests     \* bound: requests in a stage

ASSUME CanaryAssumption == NoOrg \in Orgs /\ MinRequests \in Nat \ {0}

VARIABLES
    rollout,    \* org -> its deployment: stage, age of the stage, requests and errors counted
    served,     \* org -> stage -> requests and errors since the deployment began
    rollbacks   \* the stages deployments were rolled back at

canaryVars == <<rollout, served, rollbacks>>

CanaryStages == 1 .. 4    \* canary, partial, majority, full
NoRollout == [stage |-> 0, age |-> 0, total |-> 0, errors |-> 0]
NothingServed == [k \in CanaryStages |-> [total |-> 0, errors |-> 0]]

CanaryInit ==
    /\ rollout = [o \in Orgs |-> NoRollout]
    /\ served = [o \in Orgs |-> NothingServed]
    /\ rollbacks = {}

Deployed(o) == rollout[o].stage # 0

\* A new deployment takes the place of one under the same key.
StartCanary(o) ==
    /\ rollout' = [rollout EXCEPT ![o] = [NoRollout EXCEPT !.stage = 1]]
    /\ served' = [served EXCEPT ![o] = NothingServed]
    /\ UNCHANGED rollbacks

RecordResult(o, success) ==
    /\ Deployed(o) /\ rollout[o].total < MaxRequests
    /\ rollout' = [rollout EXCEPT ![o].total = @ + 1, ![o].errors = IF success THEN @ ELSE @ + 1]
    /\ served' = [served EXCEPT ![o][rollout[o].stage] =
                   [total |-> @.total + 1, errors |-> IF success THEN @.errors ELSE @.errors + 1]]
    /\ UNCHANGED rollbacks

-----------------------------------------------------------------------------
(* check_promotion_or_rollback()                                            *)

Tolerated(counts) == 100 * counts.errors <= ErrorPercent * counts.total
Enough(counts) == counts.total >= MinRequests

RollBack(o) ==
    /\ Deployed(o) /\ Enough(rollout[o]) /\ ~Tolerated(rollout[o])
    /\ rollbacks' = rollbacks \cup {rollout[o].stage}
    /\ rollout' = [rollout EXCEPT ![o] = NoRollout]

Due(o) ==
    Deployed(o) /\ Enough(rollout[o]) /\ Tolerated(rollout[o]) /\ rollout[o].age >= StageDuration

\* The counters start again with the stage; after the last one it is complete.
X_Advance(o) ==
    /\ Due(o)
    /\ rollout' = [rollout EXCEPT ![o] =
         IF @.stage = 4 THEN NoRollout ELSE [@ EXCEPT !.stage = @ + 1, !.age = 0]]
    /\ UNCHANGED rollbacks
Advance(o) ==
    /\ Due(o)
    /\ rollout' = [rollout EXCEPT ![o] =
         IF @.stage = 4 THEN NoRollout ELSE [NoRollout EXCEPT !.stage = rollout[o].stage + 1]]
    /\ UNCHANGED rollbacks

Hold(o) ==
    /\ ~Due(o) /\ (Deployed(o) => ~Enough(rollout[o]) \/ Tolerated(rollout[o]))
    /\ UNCHANGED <<rollout, rollbacks>>

\* _canary_check(): every active deployment makes it look at the deployment of
\* no organisation; the first look leaves nothing to do for the others.
CanaryCheck ==
    /\ \E o \in Orgs : Deployed(o)
    /\ RollBack(NoOrg) \/ Advance(NoOrg) \/ Hold(NoOrg)
    /\ UNCHANGED served

\* Time passes for a stage.
StageAges(o) ==
    /\ Deployed(o) /\ rollout[o].age < StageDuration
    /\ rollout' = [rollout EXCEPT ![o].age = @ + 1]
    /\ UNCHANGED <<served, rollbacks>>

CanaryNext ==
    \/ \E o \in Orgs :
         StartCanary(o) \/ StageAges(o) \/ \E success \in BOOLEAN : RecordResult(o, success)
    \/ CanaryCheck

CanarySpec == CanaryInit /\ [][CanaryNext]_canaryVars
\* The trigger fires again and again (events.py).
FairCanarySpec == CanarySpec /\ WF_canaryVars(CanaryCheck)

-----------------------------------------------------------------------------
(* Properties                                                              *)

\* Every stage a deployment has left behind earned it with enough requests of
\* its own at a tolerated error rate: no result of an earlier stage, or of the
\* deployment that was replaced, counts for a later one (canary.py:135-180).
StagesAreEarned ==
    \A o \in Orgs : \A k \in CanaryStages :
        Deployed(o) /\ k < rollout[o].stage => Enough(served[o][k]) /\ Tolerated(served[o][k])

\* "staged skill rollouts with auto-rollback on errors" (canary.py:61): a
\* deployment with enough requests and too many errors does not stay.
Failing(o) == Deployed(o) /\ Enough(rollout[o]) /\ ~Tolerated(rollout[o])
FailingIsRolledBack == \A o \in Orgs : Failing(o) ~> ~Failing(o)

-----------------------------------------------------------------------------
(***************************************************************************)
(* The versions and labels of one prompt.  persistence/pg_prompts.py       *)
(* issues its statements one by one, without a transaction, under the      *)
(* UNIQUE constraints of the prompts table; prompts/store.py is the        *)
(* in-memory manager, the only one the routes of prompts/routes.py (label  *)
(* promotion, approvals) can work with.                                    *)
(***************************************************************************)

CONSTANTS
    Managers,       \* "memory" and "postgres"
    Editors,        \* upserts in progress at a time
    MaxVersions,    \* bound: versions
    MaxUpserts      \* bound: upserts begun

Labels == {"production", "staging", "latest"}

VARIABLES
    manager,    \* the prompt manager that is configured
    labelled,   \* version -> its label in the prompts table, "none" for NULL
    pointer,    \* in memory: label -> version, 0 for none
    editor,     \* editor -> the upsert it is in the middle of
    upserts,
    placed,     \* newest version whose upsert(label="production") has returned
    approvals,      \* requests for approval: version and status
    blessed     \* versions once given the production label on purpose

promptVars == <<manager, labelled, pointer, editor, upserts, placed, approvals, blessed>>

Numbers == DOMAIN labelled
NextVersion == IF Numbers = {} THEN 1 ELSE Max(Numbers) + 1
NotEditing == [at |-> "idle", version |-> 0, label |-> "none"]

PromptInit ==
    /\ manager \in Managers
    /\ labelled = [v \in {} |-> "none"]
    /\ pointer = [l \in Labels |-> 0]
    /\ editor = [e \in Editors |-> NotEditing]
    /\ upserts = 0 /\ placed = 0
    /\ approvals = {} /\ blessed = {}

\* get(): the labelled version, or else the latest.
Labelled(l) ==
    IF manager = "memory" THEN {pointer[l]} \ {0} ELSE { v \in Numbers : labelled[v] = l }
X_Served(l) ==
    IF Labelled(l) # {} THEN Max(Labelled(l)) ELSE IF Numbers = {} THEN 0 ELSE Min(Numbers)
Served(l) == IF Labelled(l) # {} THEN Max(Labelled(l)) ELSE IF Numbers = {} THEN 0 ELSE Max(Numbers)

-----------------------------------------------------------------------------
(* PostgreSQL                                                               *)

At(e, where) == manager = "postgres" /\ editor[e].at = where
MoveTo(e, where) == editor' = [editor EXCEPT ![e].at = where]

\* upsert() with a label or none: the next version is read ...
ReadVersion(e, label) ==
    /\ At(e, "idle") /\ upserts < MaxUpserts /\ NextVersion <= MaxVersions
    /\ upserts' = upserts + 1
    /\ editor' = [editor EXCEPT ![e] = [at |-> IF label = "none" THEN "latest" ELSE "unlabel",
                                        version |-> NextVersion, label |-> label]]
    /\ UNCHANGED <<manager, labelled, pointer, placed, approvals, blessed>>

Cleared(l) == [v \in Numbers |-> IF labelled[v] = l THEN "none" ELSE labelled[v]]

\* ... the label is taken from the version that has it, and `latest' as well ...
RemoveLabel(e) ==
    /\ At(e, "unlabel") /\ MoveTo(e, "latest")
    /\ labelled' = Cleared(editor[e].label)
    /\ UNCHANGED <<manager, pointer, upserts, placed, approvals, blessed>>

RemoveLatest(e) ==
    /\ At(e, "latest") /\ MoveTo(e, "insert")
    /\ labelled' = Cleared("latest")
    /\ UNCHANGED <<manager, pointer, upserts, placed, approvals, blessed>>

\* ... and the version inserted, unless its number or its label is taken by now.
EffectiveLabel(e) == IF editor[e].label = "none" THEN "latest" ELSE editor[e].label
Free(e) == editor[e].version \notin Numbers /\ \A v \in Numbers : labelled[v] # EffectiveLabel(e)
First(e) == editor[e].version = 1 /\ EffectiveLabel(e) # "production"

InsertVersion(e) ==
    /\ At(e, "insert") /\ Free(e)
    /\ labelled' = [v \in Numbers \cup {editor[e].version} |->
                      IF v = editor[e].version THEN EffectiveLabel(e) ELSE labelled[v]]
    /\ IF EffectiveLabel(e) = "production"
       THEN /\ placed' = Max({placed, editor[e].version})
            /\ blessed' = blessed \cup {editor[e].version}
       ELSE UNCHANGED <<placed, blessed>>
    /\ IF First(e) THEN MoveTo(e, "first") ELSE editor' = [editor EXCEPT ![e] = NotEditing]
    /\ UNCHANGED <<manager, pointer, upserts, approvals>>

\* A first version is inserted a second time, as production: the conflict is on
\* its number, which the ON CONFLICT clause does not name, so it raises.
InsertAgain(e) ==
    /\ At(e, "first")
    /\ editor' = [editor EXCEPT ![e] = NotEditing]
    /\ UNCHANGED <<manager, labelled, pointer, upserts, placed, approvals, blessed>>

\* An insertion is refused, or the process ends: what was committed stays.
GiveUp(e) ==
    /\ manager = "postgres" /\ editor[e] # NotEditing
    /\ editor' = [editor EXCEPT ![e] = NotEditing]
    /\ UNCHANGED <<manager, labelled, pointer, upserts, placed, approvals, blessed>>

-----------------------------------------------------------------------------
(* In memory                                                                *)

UpsertInMemory(label) ==
    /\ manager = "memory" /\ upserts < MaxUpserts /\ NextVersion <= MaxVersions
    /\ upserts' = upserts + 1
    /\ LET v == NextVersion
       IN  /\ labelled' = [w \in Numbers \cup {v} |-> "none"]
           /\ pointer' = [l \in Labels |->
                 IF l \in {label, "latest"} \/ (l = "production" /\ v = 1) THEN v ELSE pointer[l]]
           /\ blessed' = IF pointer'["production"] = v THEN blessed \cup {v} ELSE blessed
    /\ UNCHANGED <<manager, editor, placed, approvals>>

\* promote_label()
PromoteLabel(from, to) ==
    /\ manager = "memory" /\ pointer[from] # 0
    /\ pointer' = [pointer EXCEPT ![to] = pointer[from]]
    /\ blessed' = IF to = "production" THEN blessed \cup {pointer[from]} ELSE blessed
    /\ UNCHANGED <<manager, labelled, editor, upserts, placed, approvals>>

\* request_approval(), approve_prompt(), reject_prompt()
RequestApproval(v) ==
    /\ manager = "memory" /\ v \in Numbers
    /\ approvals' = approvals \cup {<<v, "pending">>}
    /\ UNCHANGED <<manager, labelled, pointer, editor, upserts, placed, blessed>>

X_Decide(v, verdict) ==
    /\ <<v, "pending">> \in approvals
    /\ approvals' = (approvals \ {<<v, "pending">>}) \cup {<<v, verdict>>}
    /\ IF verdict = "approved"
       THEN /\ pointer' = [pointer EXCEPT !["production"] = Max(Numbers)]
            /\ blessed' = blessed \cup {v}
       ELSE UNCHANGED <<pointer, blessed>>
    /\ UNCHANGED <<manager, labelled, editor, upserts, placed>>

Decide(v, verdict) ==
    /\ <<v, "pending">> \in approvals
    /\ approvals' = (approvals \ {<<v, "pending">>}) \cup {<<v, verdict>>}
    /\ IF verdict = "approved"
       THEN /\ pointer' = [pointer EXCEPT !["production"] = v]
            /\ blessed' = blessed \cup {v}
       ELSE UNCHANGED <<pointer, blessed>>
    /\ UNCHANGED <<manager, labelled, editor, upserts, placed>>

PromptNext ==
    \/ \E e \in Editors :
         \/ \E l \in {"none", "production", "staging"} : ReadVersion(e, l)
         \/ RemoveLabel(e) \/ RemoveLatest(e) \/ InsertVersion(e) \/ InsertAgain(e) \/ GiveUp(e)
    \/ \E l \in {"none", "production", "staging"} : UpsertInMemory(l)
    \/ \E from, to \in Labels : PromoteLabel(from, to)
    \/ \E v \in Numbers :
         RequestApproval(v) \/ Decide(v, "approved") \/ Decide(v, "rejected")

PromptSpec == PromptInit /\ [][PromptNext]_promptVars

-----------------------------------------------------------------------------
(* Properties                                                              *)

\* However many upserts overlap and wherever one of them ends, what get() serves
\* as production is never older than what an upsert has put there.
ServedIsNotOlder == manager = "postgres" => Served("production") >= placed

\* With the in-memory manager a version is served as production only if somebody
\* put it there, promoted it or approved it, whatever was written since.
ServedWasMeant ==
    manager = "memory" /\ Numbers # {} => Served("production") \in blessed

\* What is served as production was put there, and nothing newer was.
ProductionIsMeant == ServedIsNotOlder /\ ServedWasMeant

\* "If first version, also set production": the last statement of the upsert of
\* a first version sees to it.
FirstIsProduction ==
    [][\A e \in Editors : InsertAgain(e) => Labelled("production")' # {}]_promptVars
=============================================================================

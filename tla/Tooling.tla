------------------------------ MODULE Tooling -------------------------------
(***************************************************************************)
(* The tools of agents: how one call is guarded and run, the workspaces    *)
(* Mason's tools write to, and the strategies of the agents that write     *)
(* code with them. The three share no state.                               *)
(***************************************************************************)
EXTENDS Integers, Sequences

(***************************************************************************)
(* One tool call of a turn: the sentinel's checks before and after it      *)
(* (security/sentinel), the dispatcher between them (tools/executor.py)    *)
(* and the registry it asks (tools/registry.py), which changes meanwhile.  *)
(* The tool itself is outside: what it answers may have to be redacted or  *)
(* withheld, and one that times out may have done its work.                *)
(***************************************************************************)

CONSTANTS
    ToolCallIds,
    MaxRegistrations    \* bound: register() calls

VARIABLES
    toolEntry,      \* the registry's entry: an executor, an endpoint
    registrations,
    toolCall,       \* call -> its step, what guards it, its arguments and its result
    toolRuns,       \* call -> times the tool was reached
    toolAudit,      \* entries of the audit log
    lostAudits      \* calls an entry of which could not be written

toolCallVars == <<toolEntry, registrations, toolCall, toolRuns, toolAudit, lostAudits>>

-----------------------------------------------------------------------------
(* validate_and_repair(), for a required field with a default or without,  *)
(* and a misspelt field beside it.  A value is right, close to a right one *)
(* (its type can be coerced or its enum matched), wrong, or absent.        *)

ValueKinds == {"right", "close", "wrong", "absent"}
Arguments == [field : ValueKinds, misspelt : ValueKinds, misspeltFirst : BOOLEAN,
              default : BOOLEAN]
Given(a) == IF a.field = "absent" /\ a.default THEN "right" ELSE a.field
Coerced(v) == IF v = "close" THEN "right" ELSE v
\* The misspelt value is moved over the field's and not looked at again; a field that
\* comes after it is repaired from the value it had before.
Repaired(a) ==
    IF a.misspelt = "absent" THEN Coerced(Given(a))
    ELSE IF a.misspeltFirst /\ Given(a) = "close" THEN "right"
    ELSE a.misspelt
WasRepaired(a) == a.misspelt # "absent" \/ Coerced(Given(a)) # a.field
HasErrors(a) == Given(a) \in {"absent", "wrong"}
SchemaAllows(a) == HasErrors(a) => WasRepaired(a)

\* Arguments that need no repair are passed as they are; a repair without a misspelt
\* name leaves nothing close; and nothing is refused that a repair would make right.
RepairIsSound ==
    \A a \in Arguments :
        /\ a.misspelt = "absent" => /\ Repaired(a) # "close"
                                    /\ a.field = "right" => ~WasRepaired(a)
        /\ ~SchemaAllows(a) => Repaired(a) # "right"

-----------------------------------------------------------------------------
Results == {"clean", "flagged", "blocked"}      \* what the warden says of it
NoToolCall == [at |-> "idle", guarded |-> FALSE, permitted |-> FALSE, args |-> "none",
               result |-> "none", pii |-> FALSE, shown |-> {}]

ToolCallsInit ==
    /\ toolEntry = [executor |-> FALSE, endpoint |-> FALSE] /\ registrations = 0
    /\ toolCall = [c \in ToolCallIds |-> NoToolCall]
    /\ toolRuns = [c \in ToolCallIds |-> 0]
    /\ toolAudit = <<>> /\ lostAudits = {}

\* A definition without an executor leaves the executor of the name.
RegisterTool(executor, endpoint) ==
    /\ registrations < MaxRegistrations /\ registrations' = registrations + 1
    /\ toolEntry' = [executor |-> executor \/ toolEntry.executor, endpoint |-> endpoint]
    /\ UNCHANGED <<toolCall, toolRuns, toolAudit, lostAudits>>

\* _log_audit(): an entry that cannot be written holds up nothing.
Audits(c, boundary, verdict) ==
    \/ /\ toolAudit' = Append(toolAudit, [call |-> c, boundary |-> boundary, verdict |-> verdict])
       /\ UNCHANGED lostAudits
    \/ lostAudits' = lostAudits \cup {c} /\ UNCHANGED toolAudit

\* pre_call(): permission, then the arguments.  What the validator allows is not asked.
X_PreCall(c, permitted, a) ==
    /\ toolCall[c].at = "idle"
    /\ toolCall' = [toolCall EXCEPT ![c] = [NoToolCall EXCEPT
          !.at = "execute", !.guarded = TRUE, !.permitted = permitted, !.args = Repaired(a)]]
    /\ Audits(c, "pre_call", IF permitted THEN "allowed" ELSE "denied")
    /\ UNCHANGED <<toolEntry, registrations, toolRuns>>
PreCall(c, permitted, a) ==
    /\ toolCall[c].at = "idle"
    /\ toolCall' = [toolCall EXCEPT ![c] = [NoToolCall EXCEPT
          !.at = IF permitted THEN "execute" ELSE "post", !.guarded = TRUE,
          !.permitted = permitted, !.args = Repaired(a),
          !.result = IF permitted THEN "none" ELSE "clean"]]
    /\ Audits(c, "pre_call", IF permitted THEN "allowed" ELSE "denied")
    /\ UNCHANGED <<toolEntry, registrations, toolRuns>>
\* Without a sentinel or a user nothing is asked.
Unguarded(c, a) ==
    /\ toolCall[c].at = "idle"
    /\ toolCall' = [toolCall EXCEPT ![c] = [NoToolCall EXCEPT
          !.at = "execute", !.permitted = TRUE, !.args = a.field]]
    /\ UNCHANGED <<toolEntry, registrations, toolRuns, toolAudit, lostAudits>>

ToolSays(c, result, pii) ==
    toolCall' = [toolCall EXCEPT ![c].at = "post", ![c].result = result, ![c].pii = pii]

\* execute(): the executor, or else the endpoint, or an error.  What it answers may
\* be anything; a failure, a timeout and a refused endpoint read as an error.
ToolAnswers(c, result, pii) ==
    /\ toolCall[c].at = "execute" /\ (toolEntry.executor \/ toolEntry.endpoint)
    /\ toolRuns' = [toolRuns EXCEPT ![c] = @ + 1] /\ ToolSays(c, result, pii)
    /\ UNCHANGED <<toolEntry, registrations, toolAudit, lostAudits>>
ToolTimesOut(c, reached) ==
    /\ toolCall[c].at = "execute" /\ (toolEntry.executor \/ toolEntry.endpoint)
    /\ toolRuns' = IF reached THEN [toolRuns EXCEPT ![c] = @ + 1] ELSE toolRuns
    /\ ToolSays(c, "clean", FALSE)
    /\ UNCHANGED <<toolEntry, registrations, toolAudit, lostAudits>>
NotRegistered(c) ==
    /\ toolCall[c].at = "execute" /\ ~toolEntry.executor /\ ~toolEntry.endpoint
    /\ ToolSays(c, "clean", FALSE)
    /\ UNCHANGED <<toolEntry, registrations, toolRuns, toolAudit, lostAudits>>

\* post_call(): a blocked result is replaced by a notice, a flagged one kept under a banner,
\* and what is left is redacted; without a sentinel, a flagged one is replaced as well.
X_Shown(r) ==
    IF r.result = "blocked" THEN {"notice"}
    ELSE {"text"} \cup (IF r.result = "flagged" THEN {"banner"}
                        ELSE IF r.pii THEN {"redacted"} ELSE {})
Shown(r) ==
    IF r.result = "blocked" \/ (r.result = "flagged" /\ ~r.guarded) THEN {"notice"}
    ELSE {"text"} \cup (IF r.result = "flagged" THEN {"banner"} ELSE {})
                  \cup (IF r.pii THEN {"redacted"} ELSE {})
PostCall(c) ==
    /\ toolCall[c].at = "post"
    /\ toolCall' = [toolCall EXCEPT ![c].at = "done", ![c].shown = Shown(toolCall[c])]
    /\ IF toolCall[c].guarded
       THEN Audits(c, "post_call",
                   IF toolCall[c].result = "clean" /\ ~toolCall[c].pii THEN "clean" ELSE "flagged")
       ELSE UNCHANGED <<toolAudit, lostAudits>>
    /\ UNCHANGED <<toolEntry, registrations, toolRuns>>

ToolCallsNext ==
    \/ \E executor, endpoint \in BOOLEAN : RegisterTool(executor, endpoint)
    \/ \E c \in ToolCallIds :
          \/ \E permitted \in BOOLEAN, a \in Arguments : PreCall(c, permitted, a)
          \/ \E a \in Arguments : Unguarded(c, a)
          \/ \E result \in Results, pii \in BOOLEAN : ToolAnswers(c, result, pii)
          \/ \E reached \in BOOLEAN : ToolTimesOut(c, reached)
          \/ NotRegistered(c) \/ PostCall(c)

ToolCallsSpec == ToolCallsInit /\ [][ToolCallsNext]_toolCallVars

-----------------------------------------------------------------------------
(* Properties                                                              *)

AuditOf(c, boundary) ==
    {k \in DOMAIN toolAudit : toolAudit[k].call = c /\ toolAudit[k].boundary = boundary}

\* Whatever fails on a call's way, the registry and the audit log included: a tool is
\* reached at most once and never without permission, what the model is shown of a
\* result is not blocked, flagged only under a banner, and redacted; and a guarded call
\* leaves one entry before and one after it, in that order, unless one could not be written.
ToolsAreGuarded ==
    /\ RepairIsSound
    /\ \A c \in ToolCallIds :
          /\ toolRuns[c] <= (IF toolCall[c].permitted THEN 1 ELSE 0)
          /\ toolCall[c].at = "done" =>
                /\ "text" \in toolCall[c].shown =>
                      /\ toolCall[c].result # "blocked"
                      /\ toolCall[c].result = "flagged" => "banner" \in toolCall[c].shown
                      /\ toolCall[c].pii => "redacted" \in toolCall[c].shown
                /\ toolCall[c].guarded /\ c \notin lostAudits =>
                      \E j, k \in DOMAIN toolAudit :
                          /\ j < k /\ AuditOf(c, "pre_call") = {j} /\ AuditOf(c, "post_call") = {k}
                          /\ toolAudit[j].verdict = "denied" => toolRuns[c] = 0

\* Said and not kept: "Repairs common hallucination patterns: fuzzy enum match, type
\* coercion, defaults" (security/sentinel/validator.py:4): a misspelt field's value
\* replaces the right one and is not repaired; and a call whose arguments stay wrong is
\* run, though the validator's verdict is not to allow it.
RunArgumentsAreRight ==
    \A c \in ToolCallIds : toolCall[c].guarded /\ toolRuns[c] > 0 => toolCall[c].args = "right"

-----------------------------------------------------------------------------
(***************************************************************************)
(* Mason's workspaces (tools/workspace.py): one clone per repository, one  *)
(* worktree per issue, its branch pushed for a pull request.  The manager  *)
(* remembers its clones; a restart forgets them and leaves the disk.       *)
(* Edits are made by the file and shell tools.  A branch is called after   *)
(* an issue, its own unless the caller of create() names another.          *)
(***************************************************************************)

CONSTANTS
    Repos,
    CloneDir,       \* repository -> the name its clone's directory has
    GitIssues,
    MaxEdits        \* bound: edits made

ASSUME WorktreesAssumption == "none" \notin Repos

VARIABLES
    clone,          \* directory -> the repository cloned there, "none", or "partial"
    knownClones,    \* repositories in _repos
    worktree,       \* issue -> the clone its worktree is of, its branch and open edits
    branches,       \* <<directory, name>> -> the issue it was made for and its commits
    pushed,         \* <<repository, name>> -> commits of the pushed branch
    edits,          \* edits made: the issue and repository they were made for
    committed       \* edits that were committed

gitVars == <<clone, knownClones, worktree, branches, pushed, edits, committed>>

Dirs == {CloneDir[r] : r \in Repos}
NoWorktree == [there |-> FALSE, dir |-> "none", branch |-> "none", for |-> "none", open |-> {}]
NoBranch == [there |-> FALSE, by |-> "none", commits |-> {}]
HasWorktree(i) == worktree[i].there
\* A directory that git did not finish is no worktree, and git refuses to work in it.
InGit(i) == HasWorktree(i) /\ worktree[i].dir # "none"
BranchOf(i) == <<worktree[i].dir, worktree[i].branch>>

WorktreesInit ==
    /\ clone = [d \in Dirs |-> "none"] /\ knownClones = {}
    /\ worktree = [i \in GitIssues |-> NoWorktree]
    /\ branches = [b \in Dirs \X GitIssues |-> NoBranch]
    /\ pushed = [b \in Repos \X GitIssues |-> {}]
    /\ edits = <<>> /\ committed = {}

\* _ensure_clone(): any directory of the name is taken for the clone.
CloneFor(r) == IF clone[CloneDir[r]] = "none" THEN r ELSE clone[CloneDir[r]]
\* A clone that is killed leaves part of it.
CloneBreaks(r) ==
    /\ r \notin knownClones /\ clone[CloneDir[r]] = "none"
    /\ clone' = [clone EXCEPT ![CloneDir[r]] = "partial"]
    /\ UNCHANGED <<knownClones, worktree, branches, pushed, edits, committed>>

Cloned(r) == /\ clone' = [clone EXCEPT ![CloneDir[r]] = CloneFor(r)]
             /\ knownClones' = knownClones \cup {r}
\* The clone is there, and then git fails: it cannot fetch, it is no repository, or
\* the branch exists.
CreateFails(i, r) ==
    /\ Cloned(r) /\ (knownClones' # knownClones \/ clone' # clone)
    /\ UNCHANGED <<worktree, branches, pushed, edits, committed>>
\* An existing directory is returned, whatever it is a worktree of.
CreateExists(i, r) ==
    /\ HasWorktree(i) /\ CloneFor(r) # "partial" /\ Cloned(r)
    /\ worktree' = [worktree EXCEPT ![i].for = r]
    /\ UNCHANGED <<branches, pushed, edits, committed>>
\* "git worktree add -b" makes the branch, and refuses one that exists; and then the worktree.
AddsBranch(i, b, r) ==
    /\ ~HasWorktree(i) /\ CloneFor(r) # "partial" /\ Cloned(r) /\ ~branches[CloneDir[r], b].there
    /\ branches' = [branches EXCEPT ![<<CloneDir[r], b>>] =
          [there |-> TRUE, by |-> i, commits |-> {}]]
    /\ UNCHANGED <<pushed, edits, committed>>
AddsDirectory(i, b, r, dir) ==
    worktree' = [worktree EXCEPT ![i] =
          [there |-> TRUE, dir |-> dir, branch |-> b, for |-> r, open |-> {}]]
X_CreateWorktree(i, b, r) ==
    /\ ~HasWorktree(i) /\ CloneFor(r) # "partial" /\ Cloned(r)
    /\ branches' = [branches EXCEPT ![<<CloneDir[r], b>>] =
          [there |-> TRUE, by |-> i, commits |-> {}]]
    /\ AddsDirectory(i, b, r, CloneDir[r]) /\ UNCHANGED <<pushed, edits, committed>>
CreateWorktree(i, b, r) == AddsBranch(i, b, r) /\ AddsDirectory(i, b, r, CloneDir[r])
\* One that fails half way leaves the branch, one that is killed perhaps a directory too.
CreateBreaks(i, b, r) ==
    AddsBranch(i, b, r) /\ (AddsDirectory(i, b, r, "none") \/ UNCHANGED worktree)

Edit(i) ==
    /\ HasWorktree(i) /\ Len(edits) < MaxEdits
    /\ edits' = Append(edits, [issue |-> i, repo |-> worktree[i].for])
    /\ worktree' = [worktree EXCEPT ![i].open = @ \cup {Len(edits')}]
    /\ UNCHANGED <<clone, knownClones, branches, pushed, committed>>

\* _commit(): all that is open; --allow-empty.
CommitAll(i) ==
    /\ InGit(i)
    /\ branches' = [branches EXCEPT ![BranchOf(i)].commits = @ \cup worktree[i].open]
    /\ committed' = committed \cup worktree[i].open
    /\ worktree' = [worktree EXCEPT ![i].open = {}]
    /\ UNCHANGED <<clone, knownClones, pushed, edits>>
\* _push(): to the repository the clone is of; git takes no branch that lost commits.
PushBranch(i) ==
    /\ InGit(i)
    /\ LET to == <<clone[worktree[i].dir], worktree[i].branch>> IN
       /\ pushed[to] \subseteq branches[BranchOf(i)].commits
       /\ pushed' = [pushed EXCEPT ![to] = branches[BranchOf(i)].commits]
    /\ UNCHANGED <<clone, knownClones, worktree, branches, edits, committed>>

\* _cleanup(): by git or by deleting the directory, open edits or not; the branch stays.
Cleanup(i) ==
    /\ HasWorktree(i) /\ worktree' = [worktree EXCEPT ![i] = NoWorktree]
    /\ UNCHANGED <<clone, knownClones, branches, pushed, edits, committed>>

RestartGit ==
    /\ knownClones # {} /\ knownClones' = {}
    /\ UNCHANGED <<clone, worktree, branches, pushed, edits, committed>>

WorktreesNext ==
    \/ \E r \in Repos : CloneBreaks(r)
    \/ \E i \in GitIssues, r \in Repos :
          \/ CreateFails(i, r) \/ CreateExists(i, r)
          \/ \E b \in GitIssues : CreateWorktree(i, b, r) \/ CreateBreaks(i, b, r)
    \/ \E i \in GitIssues : Edit(i) \/ CommitAll(i) \/ PushBranch(i) \/ Cleanup(i)
    \/ RestartGit

WorktreesSpec == WorktreesInit /\ [][WorktreesNext]_gitVars

-----------------------------------------------------------------------------
(* Properties                                                              *)

\* However callers name branches, over restarts, killed clones and worktrees, cleanups and
\* issues taken up again: no commit is lost, a branch has commits of the one issue it was
\* made for, and what was pushed is on the branch of that name in the repository's clone.
CommitsAreKept ==
    /\ \A n \in committed : \E b \in Dirs \X GitIssues : n \in branches[b].commits
    /\ \A b \in Dirs \X GitIssues : \A n \in branches[b].commits : edits[n].issue = branches[b].by
    /\ \A b \in Repos \X GitIssues : \A n \in pushed[b] :
          \E d \in Dirs : clone[d] = b[1] /\ n \in branches[d, b[2]].commits

\* The rest is said and not kept.

\* "Each issue gets its own worktree branched from main" (tools/workspace.py:3): issues
\* of two repositories with one number, or of two owners' repositories with one name,
\* get the same one, and its work is pushed to the wrong repository.
PushedWhereAsked ==
    \A b \in Repos \X GitIssues : \A n \in pushed[b] : edits[n].repo = b[1]

\* "create() -> ... creates worktree" (tools/workspace.py:10): one that was cut leaves a
\* directory, which the next call says "exists" and in which nothing can be committed.
ExistingIsWorktree == \A i \in GitIssues : HasWorktree(i) => InGit(i)

\* "cleanup() -> removes worktree" (tools/workspace.py:12), "create() -> ... creates
\* worktree" (:10): an issue cleaned up can have none again.
CanBeTakenUpAgain ==
    \A i \in GitIssues, r \in Repos : branches[CloneDir[r], i].there => HasWorktree(i)

-----------------------------------------------------------------------------
(***************************************************************************)
(* The strategies of the agents that write code: the Artificer's plan and  *)
(* rounds of tool calls (agents/artificer/strategy.py), and Frank's and    *)
(* Mason's, which wrap the ReAct loop in a reconnaissance and a diagnosis  *)
(* (agents/strategies/builders_learning.py).  What the model asks for and  *)
(* what tools, sentinel and warden say is left open.                       *)
(***************************************************************************)

CONSTANTS
    MaxPhases, MaxRetries,  \* of the Artificer
    MaxCallsOfReply,        \* bound: tool calls of one reply
    CallArguments,          \* "fine", "oversized"; malformed ones are run as none at all
    Workers                 \* what Mason's strategy is told of its worker

ASSUME StrategiesAssumption == MaxPhases \in Nat /\ MaxCallsOfReply \in Nat

VARIABLES
    phase,      \* the Artificer: "none", "plan", "ask", "calls", "complete",
                \* "maxRounds", "raised"
    guards,     \* what it was given: [sentinel, warden, executor]
    asks,       \* rounds begun
    reply,      \* the tool calls of its last reply
    told,       \* how many of them it has been shown an answer of
    toolLog,    \* entries of tool_history: [ran, args, permitted, shown]
    check,      \* what the quality checks last said of the files: "none", "green", "red"
    redInARow,  \* failing checks without a passing one
    commits,    \* what they had said at the commits
    work,       \* Mason's strategy: "idle", "react", "gate1" .. "gate3", "ended"
    job,        \* [worker, executor, knows (the reconnaissance found code)]
    said,       \* what each quality gate said
    issues,     \* gates that count as an issue
    outcome     \* [done, learnt]

runVars == <<phase, guards, asks, reply, told, toolLog, check, redInARow, commits>>
workVars == <<work, job, said, issues, outcome>>
strategyVars == <<phase, guards, asks, reply, told, toolLog, check, redInARow, commits,
                  work, job, said, issues, outcome>>

MaxRounds == MaxPhases * 3
Gates == <<"ruff", "mypy", "pytest">>
GateAt == <<"gate1", "gate2", "gate3">>

StrategiesInit ==
    /\ \/ /\ phase = "plan" /\ job = [worker |-> "unknown", executor |-> FALSE, knows |-> FALSE]
          /\ guards \in [sentinel : BOOLEAN, warden : BOOLEAN, executor : BOOLEAN]
       \/ /\ phase = "none" /\ job \in [worker : Workers, executor : BOOLEAN, knows : {FALSE}]
          /\ guards = [sentinel |-> FALSE, warden |-> FALSE, executor |-> FALSE]
    /\ asks = 0 /\ reply = <<>> /\ told = 0 /\ toolLog = {}
    /\ check = "none" /\ redInARow = 0 /\ commits = {}
    /\ work = IF phase = "plan" THEN "ended" ELSE "idle"
    /\ said = <<>> /\ issues = {} /\ outcome = [done |-> FALSE, learnt |-> FALSE]

-----------------------------------------------------------------------------
(* The Artificer                                                           *)

\* _plan(): the plan is what the model says, be it nothing.
Plan ==
    /\ phase = "plan" /\ phase' = "ask"
    /\ UNCHANGED <<guards, asks, reply, told, toolLog, check, redInARow, commits, workVars>>

\* One round: the model is asked, and a reply without tool calls is the end.
Ask(calls) ==
    /\ phase = "ask" /\ asks < MaxRounds /\ asks' = asks + 1
    /\ reply' = calls
    /\ phase' = IF calls = <<>> THEN "complete" ELSE "calls"
    /\ told' = 0
    /\ UNCHANGED <<guards, toolLog, check, redInARow, commits, workVars>>
RoundsAreOver ==
    /\ phase = "ask" /\ asks = MaxRounds /\ phase' = "maxRounds"
    /\ UNCHANGED <<guards, asks, reply, told, toolLog, check, redInARow, commits, workVars>>

\* The call that is next, and how the round goes on after it.
Call == reply[told + 1]
NotRun(permitted) ==
    [ran |-> FALSE, args |-> Call.args, permitted |-> permitted, shown |-> {"error"}]
Answered(entry) ==
    /\ toolLog' = toolLog \union {entry}
    /\ told' = told + 1
    /\ phase' = IF told + 1 = Len(reply) THEN "ask" ELSE "calls"
    /\ UNCHANGED <<guards, asks, reply, workVars>>

RefuseOversized ==
    /\ phase = "calls" /\ Call.args = "oversized"
    /\ Answered(NotRun(TRUE))
    /\ UNCHANGED <<check, redInARow, commits>>

\* What the model is shown of a result: post_call() keeps a flagged one under a banner, the
\* warden alone replaces whatever is not clean, and without either nothing is scanned.
X_ResultShown(text) ==
    IF text = "clean" \/ ~guards.warden THEN {text}
    ELSE IF guards.sentinel /\ text = "flagged" THEN {text, "banner"} ELSE {"notice"}
ResultShown(text) ==
    IF text = "clean" \/ (~guards.sentinel /\ ~guards.warden) THEN {text}
    ELSE IF guards.sentinel /\ text = "flagged" THEN {text, "banner"} ELSE {"notice"}

X_Denied == [NotRun(FALSE) EXCEPT !.ran = TRUE]
Denied == NotRun(FALSE)
Deny ==
    /\ phase = "calls" /\ Call.args # "oversized" /\ guards.sentinel
    /\ Answered(Denied)
    /\ UNCHANGED <<check, redInARow, commits>>

NotAvailable ==
    /\ phase = "calls" /\ Call.args # "oversized" /\ ~guards.executor
    /\ Answered(NotRun(TRUE))
    /\ UNCHANGED <<check, redInARow, commits>>

\* The tool works on the files; an edit makes what the checks said old.
RunCall(verdict, text) ==
    /\ phase = "calls" /\ Call.args # "oversized" /\ guards.executor
    /\ Answered([ran |-> TRUE, args |-> Call.args, permitted |-> TRUE, shown |-> ResultShown(text)])
    /\ CASE Call.tool = "write" -> check' = "none" /\ UNCHANGED <<redInARow, commits>>
         [] Call.tool = "check" -> /\ check' = verdict /\ UNCHANGED commits
                                   /\ redInARow' = IF verdict = "red" THEN redInARow + 1 ELSE 0
         [] Call.tool = "commit" -> /\ commits' = commits \union {check}
                                    /\ UNCHANGED <<check, redInARow>>

\* The model, the sentinel or the executor raises: the whole run is lost.
Raise ==
    /\ phase \in {"plan", "ask", "calls"} /\ (phase = "ask" => asks < MaxRounds)
    /\ phase' = "raised"
    /\ UNCHANGED <<guards, asks, reply, told, toolLog, check, redInARow, commits, workVars>>

-----------------------------------------------------------------------------
(* Frank and Mason                                                         *)

\* _check_repository_state() and _analyze_failure_patterns(), for Frank alone; a failing
\* tool leaves them empty.
Recon(found) ==
    /\ work = "idle" /\ job.worker = "frank" /\ work' = "react"
    /\ job' = [job EXCEPT !.knows = job.executor /\ found]
    /\ UNCHANGED <<runVars, said, issues, outcome>>
StartReact ==
    /\ work = "idle" /\ job.worker # "frank" /\ work' = "react"
    /\ UNCHANGED <<runVars, job, said, issues, outcome>>

\* The ReAct loop ends, done even when its rounds are over; Mason goes on to his gates.
EndReact ==
    /\ work = "react"
    /\ IF job.worker = "mason" /\ job.executor THEN work' = GateAt[1] /\ UNCHANGED outcome
       ELSE /\ work' = "ended"
            /\ outcome' = [done |-> TRUE, learnt |-> job.worker \in {"frank", "mason"}]
    /\ UNCHANGED <<runVars, job, said, issues>>

\* _run_pr_diagnostics(): the last lines of a gate's output are searched for one word.
\* What a gate may say: nothing wrong, "error", "failed", or raise.
X_Counts(gate, text) == \/ gate # "pytest" /\ text = "error"
                        \/ gate = "pytest" /\ text = "failed"
Counts(gate, text) == \/ text = "raised"
                      \/ gate # "pytest" /\ text = "error"
                      \/ gate = "pytest" /\ text = "failed"
RunGate(i, text) ==
    /\ work = GateAt[i] /\ said' = Append(said, text)
    /\ issues' = IF Counts(Gates[i], text) THEN issues \union {i} ELSE issues
    /\ IF i < 3 THEN work' = GateAt[i + 1] /\ UNCHANGED outcome
       ELSE /\ work' = "ended"
            /\ outcome' = [done |-> issues' = {}, learnt |-> issues' = {}]
    /\ UNCHANGED <<runVars, job>>

\* What a call asks for plays no part when its arguments are too large.
CallKinds == {c \in [tool : {"write", "check", "commit"}, args : CallArguments] :
                 c.args = "oversized" => c.tool = "write"}
StrategiesNext ==
    \/ Plan \/ RoundsAreOver \/ RefuseOversized \/ Deny \/ NotAvailable \/ Raise
    \/ \E n \in 0 .. MaxCallsOfReply : \E calls \in [1 .. n -> CallKinds] : Ask(calls)
    \/ \E verdict \in {"green", "red"}, text \in Results : RunCall(verdict, text)
    \/ \E found \in BOOLEAN : Recon(found)
    \/ StartReact \/ EndReact
    \/ \E i \in 1 .. 3, text \in {"fine", "error", "failed", "raised"} : RunGate(i, text)

StrategiesSpec == StrategiesInit /\ [][StrategiesNext]_strategyVars

-----------------------------------------------------------------------------
\* When the model is asked again, each tool call of its replies has been answered once, in
\* order; what is refused, too large or denied has not run; and where there is anything to
\* scan a result, a blocked one is not shown, and a flagged one only under a banner.
CallsAreAnswered ==
    /\ phase \in {"ask", "maxRounds"} /\ asks > 0 =>
           told = Len(reply)
    /\ \A e \in toolLog :
        /\ e.ran => e.permitted /\ e.args # "oversized" /\ guards.executor
        /\ guards.sentinel \/ guards.warden =>
              "blocked" \notin e.shown /\ ("flagged" \in e.shown => "banner" \in e.shown)
    /\ asks <= MaxRounds /\ (phase = "maxRounds" => asks = MaxRounds)

\* Mason is done after all gates have spoken and none has said what counts, and learns only
\* from that; without an executor nobody is asked.
DoneIsDiagnosed ==
    work = "ended" /\ job.worker = "mason" =>
        /\ job.executor => Len(said) = 3
        /\ outcome.done <=> \A i \in DOMAIN said :
                               said[i] # "raised" /\ ~Counts(Gates[i], said[i])
        /\ outcome.learnt => outcome.done

CodeRunsAreHonest == CallsAreAnswered /\ DoneIsDiagnosed

-----------------------------------------------------------------------------
\* Stated, and not so.
\* agents/artificer/strategy.py:42 "Commit when green": nothing looks at the checks.
CommitsAreGreen == commits \subseteq {"green"}

\* agents/artificer/strategy.py:41 "fix and recheck (max 2 retries)": max_retries is unused.
RetriesAreBounded == redInARow <= MaxRetries + 1

\* agents/strategies/builders_learning.py:25 "Self-diagnosis before PR submission": no
\* agent tells the strategy its worker, so Mason's runs are plain ReAct.
RunsAreDiagnosed ==
    phase = "none" /\ work = "ended" /\ job.executor => Len(said) = 3 \/ job.worker = "frank"

\* builders_learning.py:266 "Run quality gates": a pytest that ends in errors has not
\* "failed", nor has a mypy that was killed.
ErrorsCount == work = "ended" /\ outcome.done => \A i \in DOMAIN said : said[i] = "fine"

\* builders_learning.py:146 "Read Frank's diagnostic": it is thrown away, so Mason never fixes.
FrankIsHeard == job.worker = "mason" /\ work = "react" => job.knows
=============================================================================

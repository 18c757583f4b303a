----------------------------- MODULE Delegation -----------------------------
(***************************************************************************)
(* Agents that hand work to others (src/stronghold/a2a): to peers outside, *)
(* and to workers inside. The two share no state.                          *)
(***************************************************************************)
EXTENDS Integers, Sequences, FiniteSets

(***************************************************************************)
(* Delegation to peers outside (a2a/guest_peers.py).  A call reads the     *)
(* tenant's peer, posts the task, and writes the audit log; all three may  *)
(* be seconds apart, and the peer may be changed or removed meanwhile.     *)
(* One peer name; the peer itself is outside, and an answer may be lost.   *)
(***************************************************************************)

CONSTANTS
    Tenants, GuestAgents,
    PeerCalls           \* calls of delegate() that run at a time

VARIABLES
    peers,      \* tenant -> its PeerTrust under the name
    peerCall,   \* call -> its step, tenant, agent and result
    peerHas,    \* calls whose task the peer has
    peerAudit,  \* call -> what the audit log says of it
    everTrusted \* <<tenant, agent>> some active peer of the tenant has allowed

peerVars == <<peers, peerCall, peerHas, peerAudit, everTrusted>>

NoPeer == [there |-> FALSE, active |-> FALSE, allowed |-> {}]
\* Nobody listed means every agent.
PeerTrusts == [there : {TRUE}, active : BOOLEAN, allowed : SUBSET GuestAgents]
AllowedBy(p) == IF p.allowed = {} THEN GuestAgents ELSE p.allowed
NoPeerCall == [at |-> "idle", tenant |-> "none", agent |-> "none", status |-> "none"]

PeersInit ==
    /\ peers = [t \in Tenants |-> NoPeer]
    /\ peerCall = [c \in PeerCalls |-> NoPeerCall]
    /\ peerHas = {}
    /\ peerAudit = [c \in PeerCalls |-> <<>>]
    /\ everTrusted = {}

RegisterPeer(t, p) ==
    /\ peers' = [peers EXCEPT ![t] = p]
    /\ everTrusted' = everTrusted \cup (IF p.active THEN {t} \X AllowedBy(p) ELSE {})
    /\ UNCHANGED <<peerCall, peerHas, peerAudit>>
RemovePeer(t) ==
    /\ peers[t].there /\ peers' = [peers EXCEPT ![t] = NoPeer]
    /\ UNCHANGED <<peerCall, peerHas, peerAudit, everTrusted>>

X_Refuses(p, a) == ~p.there \/ a \notin AllowedBy(p)
Refuses(p, a) == ~p.there \/ ~p.active \/ a \notin AllowedBy(p)

Step(c, at, status) == peerCall' = [peerCall EXCEPT ![c].at = at, ![c].status = status]

\* The checks, up to the first await.
DelegateOut(c, t, a) ==
    /\ peerCall[c].at = "idle"
    /\ peerCall' = [peerCall EXCEPT ![c] =
          [at |-> IF Refuses(peers[t], a) THEN "audit" ELSE "post", tenant |-> t, agent |-> a,
           status |-> IF Refuses(peers[t], a) THEN "rejected" ELSE "posted"]]
    /\ UNCHANGED <<peers, peerHas, peerAudit, everTrusted>>

\* The peer takes the task; its answer comes, or is lost, or never was.
PeerTakes(c) ==
    /\ peerCall[c].at = "post" /\ c \notin peerHas
    /\ peerHas' = peerHas \cup {c}
    /\ UNCHANGED <<peers, peerCall, peerAudit, everTrusted>>
PostReturns(c) ==
    /\ peerCall[c].at = "post" /\ c \in peerHas /\ Step(c, "audit", "submitted")
    /\ UNCHANGED <<peers, peerHas, peerAudit, everTrusted>>
PostFails(c) ==
    /\ peerCall[c].at = "post" /\ Step(c, "audit", "failed")
    /\ UNCHANGED <<peers, peerHas, peerAudit, everTrusted>>

X_AuditRaises(c) ==
    /\ peerCall[c].at = "audit"
    /\ Step(c, "done", peerCall[c].status)
    /\ UNCHANGED <<peers, peerHas, peerAudit, everTrusted>>
WritesAudit(c) ==
    /\ peerCall[c].at = "audit" /\ Step(c, "done", peerCall[c].status)
    /\ peerAudit' = [peerAudit EXCEPT ![c] =
          Append(@, <<peerCall[c].tenant, peerCall[c].status>>)]
    /\ UNCHANGED <<peers, peerHas, everTrusted>>
\* A log that fails on "submitted" is caught, and the call logged as failed.
AuditRaises(c) ==
    /\ peerCall[c].at = "audit"
    /\ IF peerCall[c].status = "submitted" THEN Step(c, "audit", "failed")
       ELSE Step(c, "raised", peerCall[c].status)
    /\ UNCHANGED <<peers, peerHas, peerAudit, everTrusted>>
\* A cancelled call leaves at the await it is at; no handler catches it.
CallCancelled(c) ==
    /\ peerCall[c].at \in {"post", "audit"} /\ Step(c, "raised", peerCall[c].status)
    /\ UNCHANGED <<peers, peerHas, peerAudit, everTrusted>>

PeersNext ==
    \/ \E t \in Tenants : \/ \E p \in PeerTrusts : RegisterPeer(t, p)
                          \/ RemovePeer(t)
    \/ \E c \in PeerCalls :
          \/ \E t \in Tenants, a \in GuestAgents : DelegateOut(c, t, a)
          \/ PeerTakes(c) \/ PostReturns(c) \/ PostFails(c)
          \/ WritesAudit(c) \/ AuditRaises(c) \/ CallCancelled(c)

PeersSpec == PeersInit /\ [][PeersNext]_peerVars

-----------------------------------------------------------------------------
(* Properties                                                              *)

\* However peers change under a call and wherever it fails: a call that answers has
\* one audit entry, its own tenant's and saying what it answered; "submitted" means
\* the peer has the task and "rejected" that it does not; and a peer has tasks only
\* of agents and tenants that trusted it.
CallsAreAudited ==
    \A c \in PeerCalls :
        /\ peerCall[c].at = "done" =>
              peerAudit[c] = <<<<peerCall[c].tenant, peerCall[c].status>>>>
        /\ peerCall[c].status = "submitted" => c \in peerHas
        /\ c \in peerHas => /\ peerCall[c].status # "rejected"
                            /\ <<peerCall[c].tenant, peerCall[c].agent>> \in everTrusted

\* Said and not kept: "Every outbound call is audited." (a2a/guest_peers.py:5), which
\* a cancelled call is not.
OutboundIsAudited ==
    \A c \in peerHas : peerCall[c].at = "raised" => peerAudit[c] # <<>>

-----------------------------------------------------------------------------
(***************************************************************************)
(* Work between agents inside: the DelegationService of a2a/delegate.py,   *)
(* the TaskQueue and the WorkerPool of a2a/lifecycle.py.  Nothing in the   *)
(* program connects or calls them, so any caller calls them in any order.  *)
(* They share no state.                                                    *)
(***************************************************************************)

CONSTANTS
    A2aTasks, A2aAgents,
    Tiers               \* priorities, the most urgent first

VARIABLES
    capable,    \* agent -> whom it may delegate to, in order; <<>>: not registered
    delegated   \* task -> its A2ATask, with what the sender's list was then (history)

delegationVars == <<capable, delegated>>

TiersUsed == {Tiers[k] : k \in DOMAIN Tiers}
NoA2aTask == [from |-> "none", to |-> "none", status |-> "none", listed |-> {}]
Listed(agents) == {agents[k] : k \in DOMAIN agents}

DelegationInit ==
    /\ capable = [a \in A2aAgents |-> <<>>]
    /\ delegated = [t \in A2aTasks |-> NoA2aTask]

RegisterCapability(a, whom) ==
    /\ capable' = [capable EXCEPT ![a] = whom]
    /\ UNCHANGED delegated

\* _select_from_priority(): an agent whose own list is just a tier, the first one listed
\* of the most urgent such tier; or else the first listed.  A set of one.
IsOf(agent, tier) == agent \in A2aAgents /\ capable[agent] = <<tier>>
FirstOf(agents, tier) ==
    {agents[k] : k \in {j \in DOMAIN agents :
                           IsOf(agents[j], tier) /\ \A i \in 1..j-1 : ~IsOf(agents[i], tier)}}
SelectFromPriority(agents) ==
    LET found == {k \in DOMAIN Tiers : FirstOf(agents, Tiers[k]) # {}}
    IN IF found = {} THEN {agents[1]}
       ELSE UNION {FirstOf(agents, Tiers[k]) : k \in {j \in found : \A i \in found : j <= i}}

\* A named agent needs a mode and must be listed; otherwise the mode picks one of the list.
Modes == {"none", "allow_all", "allow_list"}
Delegate(t, a, to) ==
    /\ delegated[t] = NoA2aTask
    /\ delegated' = [delegated EXCEPT ![t] =
          [from |-> a, to |-> to, status |-> "queued", listed |-> Listed(capable[a])]]
    /\ UNCHANGED capable
X_Delegates(t, a, to, mode) ==
    /\ mode = "none" => to = "none"
    /\ capable[a] # <<>>
    /\ Delegate(t, a, IF to = "none" THEN capable[a][1] ELSE to)
Delegates(t, a, to, mode) ==
    /\ mode = "none" => to = "none"
    /\ capable[a] # <<>>
    /\ to # "none" => to \in Listed(capable[a])
    /\ \E agent \in (IF to # "none" THEN {to}
                     ELSE IF mode = "allow_list" THEN SelectFromPriority(capable[a])
                     ELSE {capable[a][1]}) : Delegate(t, a, agent)

\* update_task_status() takes any status.
UpdateTaskStatus(t, s) ==
    /\ delegated[t] # NoA2aTask
    /\ delegated' = [delegated EXCEPT ![t].status = s]
    /\ UNCHANGED capable

DelegationNext ==
    \/ \E a \in A2aAgents :
          \/ \E b \in A2aAgents \cup TiersUsed : RegisterCapability(a, <<b>>)
          \/ \E b, c \in A2aAgents : b # c /\ RegisterCapability(a, <<b, c>>)
    \/ \E t \in A2aTasks :
          \/ \E a \in A2aAgents, to \in A2aAgents \cup {"none"}, mode \in Modes :
                 Delegates(t, a, to, mode)
          \/ \E s \in {"running", "completed"} : UpdateTaskStatus(t, s)

DelegationSpec == DelegationInit /\ [][DelegationNext]_delegationVars

-----------------------------------------------------------------------------
(* The queue (a2a/lifecycle.py:30-89): entries are numbered as they come.  *)

CONSTANTS MaxQueued     \* bound: enqueue() calls

ASSUME QueueAssumption == MaxQueued \in Nat

VARIABLES
    tierOf,     \* entry -> its tier
    waiting,    \* tier -> the entries that wait in it
    served      \* entries in the order they were taken (history)

queueVars == <<tierOf, waiting, served>>

QueueInit == tierOf = <<>> /\ waiting = [p \in TiersUsed |-> <<>>] /\ served = <<>>

Enqueue(p) ==
    /\ Len(tierOf) < MaxQueued /\ tierOf' = Append(tierOf, p)
    /\ waiting' = [waiting EXCEPT ![p] = Append(@, Len(tierOf) + 1)]
    /\ UNCHANGED served

\* dequeue(): the tier asked for if it has an entry, or else the most urgent one that has.
X_Takes(p) ==
    /\ waiting[p] # <<>> /\ served' = Append(served, waiting[p][Len(waiting[p])])
    /\ waiting' = [waiting EXCEPT ![p] = SubSeq(@, 1, Len(@) - 1)]
Takes(p) ==
    /\ waiting[p] # <<>> /\ served' = Append(served, Head(waiting[p]))
    /\ waiting' = [waiting EXCEPT ![p] = Tail(@)]
MostUrgent ==
    {Tiers[k] : k \in {j \in DOMAIN Tiers : \A i \in 1..j-1 : waiting[Tiers[i]] = <<>>}}
Dequeue(asked) ==
    /\ \E p \in (IF asked \in {q \in TiersUsed : waiting[q] # <<>>} THEN {asked} ELSE MostUrgent) :
          Takes(p)
    /\ UNCHANGED tierOf

QueueNext ==
    \/ \E p \in TiersUsed : Enqueue(p)
    \/ \E p \in TiersUsed \cup {"none"} : Dequeue(p)

QueueSpec == QueueInit /\ [][QueueNext]_queueVars

-----------------------------------------------------------------------------
(* The pool (a2a/lifecycle.py:92-155).  submit() and _execute_task() are   *)
(* calls of their own, the second with any task; submitting a task again   *)
(* replaces its entry.                                                     *)

CONSTANTS
    A2aRuns,            \* calls of _execute_task()
    MaxWorkers, MaxTries

ASSUME PoolAssumption == MaxWorkers \in Nat /\ MaxTries \in Nat \ {0}

VARIABLES
    pool,       \* the active tasks
    poolStatus,    \* task -> its status: "none" until a try of it ended
    tryRun      \* call -> its task, the tries that timed out, how it stands

poolVars == <<pool, poolStatus, tryRun>>

NoRun == [task |-> "none", tries |-> 0, at |-> "idle"]
PoolSize == Cardinality(pool)

PoolInit ==
    pool = {} /\ poolStatus = [t \in A2aTasks |-> "none"] /\ tryRun = [r \in A2aRuns |-> NoRun]

\* A full pool raises.
X_SubmitToPool(t) ==
    PoolSize <= MaxWorkers /\ pool' = pool \cup {t} /\ UNCHANGED <<poolStatus, tryRun>>
SubmitToPool(t) ==
    PoolSize < MaxWorkers /\ pool' = pool \cup {t} /\ UNCHANGED <<poolStatus, tryRun>>

Executes(r, t) ==
    /\ tryRun[r] = NoRun
    /\ tryRun' = [tryRun EXCEPT ![r] = [task |-> t, tries |-> 0, at |-> "tries"]]
    /\ UNCHANGED <<pool, poolStatus>>
RunGoes(r, tries, at) ==
    /\ tryRun[r].at = "tries"
    /\ tryRun' = [tryRun EXCEPT ![r] = [task |-> tryRun[r].task, tries |-> tries, at |-> at]]
\* A try ends with the task completed, or times out; after the last one the call gives up.
TryCompletes(r) ==
    /\ RunGoes(r, tryRun[r].tries, "completed")
    /\ poolStatus' = [poolStatus EXCEPT ![tryRun[r].task] = "completed"]
    /\ UNCHANGED pool
X_TryTimesOut(r) ==
    /\ RunGoes(r, tryRun[r].tries + 1, IF tryRun[r].tries + 1 < MaxTries - 1 THEN "tries" ELSE "gaveUp")
    /\ poolStatus' = [poolStatus EXCEPT ![tryRun[r].task] = "failed"]
    /\ UNCHANGED pool
TryTimesOut(r) ==
    /\ RunGoes(r, tryRun[r].tries + 1, IF tryRun[r].tries + 1 < MaxTries THEN "tries" ELSE "gaveUp")
    /\ poolStatus' = [poolStatus EXCEPT ![tryRun[r].task] = "failed"]
    /\ UNCHANGED pool
RunCancelled(r) ==
    /\ RunGoes(r, tryRun[r].tries, "cancelled")
    /\ UNCHANGED <<pool, poolStatus>>

PoolNext ==
    \/ \E t \in A2aTasks : SubmitToPool(t) \/ \E r \in A2aRuns : Executes(r, t)
    \/ \E r \in A2aRuns : TryCompletes(r) \/ TryTimesOut(r) \/ RunCancelled(r)

PoolSpec == PoolInit /\ [][PoolNext]_poolVars

-----------------------------------------------------------------------------
(* Properties                                                              *)

\* However lists are registered anew: a task is at an agent that its sender's list had
\* when the task was handed over, named by the sender or picked for it.
DelegatesAreListed ==
    \A t \in A2aTasks : delegated[t] # NoA2aTask => delegated[t].to \in delegated[t].listed

\* However calls with and without a tier alternate: an entry has been taken or waits in
\* its tier, one of the two and once, and a tier is taken in the order it was filled.
QueueServesOnce ==
    /\ \A n \in DOMAIN tierOf :
          (n \in Listed(served)) # (n \in Listed(waiting[tierOf[n]]))
    /\ \A j, k \in DOMAIN served : j < k =>
          /\ served[j] # served[k]
          /\ tierOf[served[j]] = tierOf[served[k]] => served[j] < served[k]
    /\ \A p \in TiersUsed :
          /\ \A j, k \in DOMAIN waiting[p] : j < k => waiting[p][j] < waiting[p][k]
          /\ \A j \in DOMAIN served, k \in DOMAIN waiting[p] :
                tierOf[served[j]] = p => served[j] < waiting[p][k]

\* However calls for a task overlap: the pool holds no more than its workers, a call gives
\* up after all its tries only, a task said to be completed was completed by one, and of
\* one said to have failed there is a call that did not complete it.
PoolKeepsWord ==
    /\ PoolSize <= MaxWorkers
    /\ \A r \in A2aRuns : tryRun[r].at = "gaveUp" => tryRun[r].tries = MaxTries
    /\ \A t \in A2aTasks : LET of == {r \in A2aRuns : tryRun[r].task = t} IN
          /\ poolStatus[t] = "completed" => \E r \in of : tryRun[r].at = "completed"
          /\ poolStatus[t] = "failed" => \E r \in of : tryRun[r].at \in {"tries", "gaveUp", "cancelled"}

\* The rest is said and not kept.

\* "Manages task states (queued -> assigned -> running -> completed/failed)"
\* (a2a/lifecycle.py:3): a completed task may run again.
StatesGoForward ==
    [][\A t \in A2aTasks : delegated[t].status = "completed" =>
           delegated'[t] = delegated[t]]_delegationVars

\* "worker pool for parallel execution" (a2a/lifecycle.py:4): a task that ended keeps
\* its place, so a pool that took MaxWorkers tasks takes no more.
EndedTasksLeave == \A t \in pool : poolStatus[t] # "completed"
=============================================================================

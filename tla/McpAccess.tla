----------------------------- MODULE McpAccess ------------------------------
(***************************************************************************)
(* MCP: the servers an operator deploys, and the tokens their clients are  *)
(* granted. The two share no state.                                        *)
(***************************************************************************)
EXTENDS Integers, FiniteSets

(***************************************************************************)
(* One MCP server by its name: the registry (mcp/registry.py), the routes  *)
(* (api/routes/mcp.py) and the deployer (mcp/deployer.py), whose calls of  *)
(* the Kubernetes API run in a pool of threads.  Kubernetes is external: a *)
(* deployment has a number of replicas and a version that every write      *)
(* raises, and a write of an object that was read names the version read.  *)
(* A call of it may fail before it has any effect, or take effect and lose *)
(* its answer: the deployer cannot tell the two apart.                     *)
(***************************************************************************)

CONSTANTS
    Operators,      \* callers of the routes
    MaxServers,     \* bound: registrations
    MaxOrders,      \* bound: calls
    MaxMishaps      \* bound: failing calls of the Kubernetes API, restarts

ASSUME McpAssumption == MaxServers \in Nat

VARIABLES
    listed,         \* the registration the registry lists, or NoServer
    serverStatus,   \* registration -> its status
    cluster,        \* the deployment: replicas, version, the registration it is of
    service,        \* there is a service
    order,          \* operator -> its call: the step, the registration, what it has read
    orders, mishaps,
    crossed,        \* two calls ran at a time, once (history)
    unheard         \* the last scaling took effect and its answer was lost (history)

mcpVars == <<listed, serverStatus, cluster, service, order, orders, mishaps, crossed, unheard>>

NoServer == 0
Gone == [replicas |-> 0 - 1, version |-> 0, of |-> NoServer]
InCluster == cluster.replicas >= 0
NoOrder == [does |-> "none", on |-> NoServer, read |-> 0, to |-> 0]

McpInit ==
    /\ listed = NoServer /\ serverStatus = [n \in 1..MaxServers |-> "none"]
    /\ cluster = Gone /\ service = FALSE
    /\ order = [o \in Operators |-> NoOrder] /\ orders = 0 /\ mishaps = 0
    /\ crossed = FALSE /\ unheard = FALSE

Fresh == CHOOSE n \in 1..MaxServers : serverStatus[n] = "none"
Quiet == \A o \in Operators : order[o] = NoOrder

Begins(o, does, on, to) ==
    /\ order[o] = NoOrder /\ orders < MaxOrders
    /\ orders' = orders + 1
    /\ order' = [order EXCEPT ![o] = [does |-> does, on |-> on, read |-> 0, to |-> to]]
    /\ crossed' = (crossed \/ ~Quiet)
    /\ UNCHANGED <<cluster, service, mishaps>>
Goes(o, does) == order' = [order EXCEPT ![o].does = does]
Ends(o) == order' = [order EXCEPT ![o] = NoOrder]
Stands == UNCHANGED <<listed, orders, crossed>>
Heard == unheard' = unheard
ApiAnswers == UNCHANGED mishaps
ApiFails == mishaps < MaxMishaps /\ mishaps' = mishaps + 1

\* A deployment is registered in the place of whatever has the name.
Deploy(o) ==
    /\ \E n \in 1..MaxServers : serverStatus[n] = "none"
    /\ listed' = Fresh /\ serverStatus' = [serverStatus EXCEPT ![Fresh] = "pending"]
    /\ Begins(o, "look", Fresh, 1) /\ unheard' = FALSE
\* start() and stop() scale what is listed, remove() deletes it.
Scale(o, to) ==
    listed # NoServer /\ Begins(o, "read", listed, to)
    /\ UNCHANGED <<listed, serverStatus, unheard>>
Remove(o) ==
    listed # NoServer /\ Begins(o, "delete", listed, 0)
    /\ UNCHANGED <<listed, serverStatus, unheard>>

\* _deploy_sync(): is there a deployment?  A call that fails says no.
LookForDeployment(o) ==
    /\ order[o].does = "look" /\ Stands /\ Heard
    /\ serverStatus' = [serverStatus EXCEPT ![order[o].on] = "deploying"]
    /\ \/ ApiAnswers /\ Goes(o, IF InCluster THEN "replace" ELSE "create")
       \/ ApiFails /\ Goes(o, "create")
    /\ UNCHANGED <<cluster, service>>
Written(o) == [replicas |-> 1, version |-> cluster.version + 1, of |-> order[o].on]
ReplaceDeployment(o) ==
    /\ order[o].does = "replace" /\ Stands /\ Heard
    /\ \/ InCluster /\ ApiAnswers /\ cluster' = Written(o) /\ Goes(o, "serve")
       \/ (ApiFails \/ (~InCluster /\ ApiAnswers)) /\ Goes(o, "create") /\ UNCHANGED cluster
       \/ InCluster /\ ApiFails /\ cluster' = Written(o) /\ Goes(o, "create")
    /\ UNCHANGED <<serverStatus, service>>
Failed(o) == serverStatus' = [serverStatus EXCEPT ![order[o].on] = "failed"] /\ Ends(o)
CreateDeployment(o) ==
    /\ order[o].does = "create" /\ Stands /\ Heard
    /\ \/ ~InCluster /\ ApiAnswers /\ cluster' = Written(o) /\ Goes(o, "serve")
          /\ UNCHANGED serverStatus
       \/ (ApiFails \/ (InCluster /\ ApiAnswers)) /\ Failed(o) /\ UNCHANGED cluster
       \/ ~InCluster /\ ApiFails /\ cluster' = Written(o) /\ Failed(o)
    /\ UNCHANGED service
\* The service likewise; then it runs.  A failing read of no service is followed by a create.
PutService(o) ==
    /\ order[o].does = "serve" /\ Stands /\ Heard
    /\ \/ /\ ApiAnswers \/ (~service /\ ApiFails)
          /\ service' = TRUE /\ Ends(o)
          /\ serverStatus' = [serverStatus EXCEPT ![order[o].on] = "running"]
       \/ ApiFails /\ Failed(o) /\ service' \in {service, TRUE}
    /\ UNCHANGED cluster

\* _start_sync() and _stop_sync(): read, change the replicas, write what was read.
ReadDeployment(o) ==
    /\ order[o].does = "read" /\ Stands /\ Heard
    /\ \/ /\ InCluster /\ ApiAnswers
          /\ order' = [order EXCEPT ![o].does = "write", ![o].read = cluster.version]
       \/ (ApiFails \/ (~InCluster /\ ApiAnswers)) /\ Ends(o)
    /\ UNCHANGED <<serverStatus, cluster, service>>
ScaledTo(to) == IF to = 1 THEN "running" ELSE "stopped"
Rescaled(o) == cluster' = [cluster EXCEPT !.replicas = order[o].to, !.version = @ + 1]
X_WriteDeployment(o) ==
    /\ order[o].does = "write" /\ Stands /\ Ends(o)
    /\ serverStatus' = [serverStatus EXCEPT ![order[o].on] = ScaledTo(order[o].to)]
    /\ \/ InCluster /\ cluster.version = order[o].read /\ ApiAnswers /\ Rescaled(o)
       \/ (ApiFails \/ (cluster.version # order[o].read /\ ApiAnswers)) /\ UNCHANGED cluster
    /\ UNCHANGED <<service, unheard>>
WriteDeployment(o) ==
    /\ order[o].does = "write" /\ Stands /\ Ends(o) /\ UNCHANGED service
    /\ \/ /\ InCluster /\ cluster.version = order[o].read /\ ApiAnswers /\ Rescaled(o)
          /\ serverStatus' = [serverStatus EXCEPT ![order[o].on] = ScaledTo(order[o].to)]
          /\ unheard' = FALSE
       \/ /\ InCluster /\ cluster.version = order[o].read /\ ApiFails /\ Rescaled(o)
          /\ unheard' = TRUE /\ UNCHANGED serverStatus
       \/ /\ ApiFails \/ (cluster.version # order[o].read /\ ApiAnswers)
          /\ UNCHANGED <<cluster, serverStatus, unheard>>

\* _remove_sync(): failures pass, and the route drops whatever has the name then.
Deleted == cluster' = [Gone EXCEPT !.version = cluster.version + 1]
DeleteDeployment(o) ==
    /\ order[o].does = "delete" /\ Stands /\ Heard /\ Goes(o, "deleteService")
    /\ \/ (ApiAnswers \/ ApiFails) /\ Deleted
       \/ ApiFails /\ UNCHANGED cluster
    /\ UNCHANGED <<serverStatus, service>>
DeleteService(o) ==
    /\ order[o].does = "deleteService" /\ Stands /\ Heard /\ Goes(o, "unlist")
    /\ \/ (ApiAnswers \/ ApiFails) /\ service' = FALSE
       \/ ApiFails /\ UNCHANGED service
    /\ serverStatus' = [serverStatus EXCEPT ![order[o].on] = "removed"]
    /\ UNCHANGED cluster
X_Unlist(o) ==
    /\ order[o].does = "unlist" /\ Ends(o)
    /\ UNCHANGED <<listed, orders, crossed, serverStatus, cluster, service, mishaps, unheard>>
Unlist(o) ==
    /\ order[o].does = "unlist" /\ Ends(o)
    /\ listed' = NoServer
    /\ UNCHANGED <<orders, crossed, serverStatus, cluster, service, mishaps, unheard>>

\* The registry is in memory; the cluster is not.
ProcessRestarts ==
    /\ ApiFails /\ listed' = NoServer /\ order' = [o \in Operators |-> NoOrder]
    /\ UNCHANGED <<serverStatus, cluster, service, orders, crossed, unheard>>

McpNext ==
    \/ \E o \in Operators :
          \/ Deploy(o) \/ Remove(o) \/ \E to \in {0, 1} : Scale(o, to)
          \/ LookForDeployment(o) \/ ReplaceDeployment(o) \/ CreateDeployment(o) \/ PutService(o)
          \/ ReadDeployment(o) \/ WriteDeployment(o)
          \/ DeleteDeployment(o) \/ DeleteService(o) \/ Unlist(o)
    \/ ProcessRestarts

McpSpec == McpInit /\ [][McpNext]_mcpVars

-----------------------------------------------------------------------------
(* Properties                                                              *)

\* As long as calls come one at a time, and whichever of their calls of Kubernetes fail,
\* before their effect or after it: a server that is said to run has its replica and one
\* that is said to be stopped has none, unless the answer to the last scaling was lost;
\* and if no call failed, what is listed is what the cluster has.
ClusterIsTracked ==
    Quiet /\ ~crossed =>
        /\ listed # NoServer /\ ~unheard =>
              /\ serverStatus[listed] = "running" => cluster.replicas = 1
              /\ serverStatus[listed] = "stopped" => cluster.replicas = 0
        /\ mishaps = 0 => listed = cluster.of /\ service = InCluster

\* "tracks all managed and remote MCP servers" (mcp/registry.py:1): a deployment
\* that begins while another call removes the server is dropped from the registry.
AllAreTracked == Quiet /\ InCluster /\ mishaps = 0 => listed # NoServer

\* "Scale deployment to 0" (mcp/deployer.py:215) and back: the later status may be of
\* the earlier call, and a scaling that took effect without an answer is not followed.
StatusIsTrue ==
    Quiet /\ listed # NoServer /\ serverStatus[listed] = "running"
        => cluster.replicas = 1

-----------------------------------------------------------------------------
(***************************************************************************)
(* The OAuth endpoints of MCP (mcp/oauth): a client registers, is granted  *)
(* an authorization code, exchanges it for an access and a refresh token,  *)
(* refreshes and revokes.  The store is in memory and its coroutines never *)
(* suspend, so a request is one step; clients repeat and reorder requests. *)
(***************************************************************************)

CONSTANTS
    OAuthClients,   \* clients
    MaxCodes,       \* bound: authorization codes
    MaxPairs,       \* bound: token pairs issued
    MaxNow          \* bound: the clock

\* No client has the name of none.
ASSUME TokensAssumption ==
    /\ MaxPairs \in Nat /\ MaxCodes \in Nat /\ MaxNow \in Nat
    /\ "none" \notin OAuthClients

VARIABLES
    registered,     \* clients that have registered
    codes,          \* code -> its client, expiry, whether it was used; 0 expires: not issued
    pairs,          \* pair of tokens -> the code it descends from, client, expiry of its
                    \* access and of its refresh token, which of the two are revoked
    issued,         \* pairs issued
    tokenClock

tokenVars == <<registered, codes, pairs, issued, tokenClock>>

CodeLife == 1       \* 10 minutes in the code,
AccessLife == 1     \* 15 minutes
RefreshLife == 3    \* and 30 days: only their order matters
NoCode == [client |-> "none", expires |-> 0, used |-> FALSE]
NoPair == [code |-> 0, client |-> "none", access |-> 0, refresh |-> 0, revoked |-> {}]

TokensInit ==
    /\ registered = {} /\ tokenClock = 1 /\ issued = 0
    /\ codes = [n \in 1..MaxCodes |-> NoCode]
    /\ pairs = [n \in 1..MaxPairs |-> NoPair]

RegisterClient(c) ==
    /\ c \notin registered /\ registered' = registered \cup {c}
    /\ UNCHANGED <<codes, pairs, issued, tokenClock>>

\* authorize(): approved without asking.
Authorize(c, n) ==
    /\ c \in registered /\ codes[n] = NoCode
    /\ codes' = [codes EXCEPT ![n] =
           [client |-> c, expires |-> tokenClock + CodeLife, used |-> FALSE]]
    /\ UNCHANGED <<registered, pairs, issued, tokenClock>>

Issue(code, c) ==
    /\ issued < MaxPairs /\ issued' = issued + 1
    /\ pairs' = [pairs EXCEPT ![issued'] =
                   [code |-> code, client |-> c, access |-> tokenClock + AccessLife,
                    refresh |-> tokenClock + RefreshLife, revoked |-> {}]]

\* A code is consumed before anything else about the request is checked.
Consumable(n) == codes[n] # NoCode /\ ~codes[n].used /\ codes[n].expires >= tokenClock
Consume(n) == codes' = [codes EXCEPT ![n].used = TRUE]
X_ExchangeCode(c, n, proves) ==
    /\ Consumable(n) /\ codes[n].client = c /\ proves
    /\ Issue(n, c)
    /\ UNCHANGED <<registered, codes, tokenClock>>
ExchangeCode(c, n, proves) ==
    /\ Consumable(n) /\ Consume(n)
    /\ IF codes[n].client = c /\ proves THEN Issue(n, c) ELSE UNCHANGED <<pairs, issued>>
    /\ UNCHANGED <<registered, tokenClock>>

\* validate_token()
TokenValid(n, kind) == n <= issued /\ kind \notin pairs[n].revoked /\ pairs[n][kind] >= tokenClock

\* A refresh revokes the token it was asked with and issues a new pair.
X_Refresh(c, n) ==
    /\ TokenValid(n, "refresh") /\ pairs[n].client = c
    /\ Issue(pairs[n].code, c)
    /\ UNCHANGED <<registered, codes, tokenClock>>
Refresh(c, n) ==
    /\ TokenValid(n, "refresh") /\ pairs[n].client = c
    /\ issued < MaxPairs /\ issued' = issued + 1
    /\ pairs' = [pairs EXCEPT
                   ![n].revoked = @ \cup {"refresh"},
                   ![issued'] = [code |-> pairs[n].code, client |-> c,
                                 access |-> tokenClock + AccessLife,
                                 refresh |-> tokenClock + RefreshLife, revoked |-> {}]]
    /\ UNCHANGED <<registered, codes, tokenClock>>

\* revoke_token() revokes one token of the pair.
Revoke(n, kind) ==
    /\ n <= issued /\ kind \notin pairs[n].revoked
    /\ pairs' = [pairs EXCEPT ![n].revoked = @ \cup {kind}]
    /\ UNCHANGED <<registered, codes, issued, tokenClock>>

TokensTick ==
    /\ tokenClock < MaxNow /\ tokenClock' = tokenClock + 1
    /\ UNCHANGED <<registered, codes, pairs, issued>>

TokensNext ==
    \/ \E c \in OAuthClients :
          \/ RegisterClient(c)
          \/ \E n \in 1..MaxCodes :
                 Authorize(c, n) \/ \E proves \in BOOLEAN : ExchangeCode(c, n, proves)
          \/ \E n \in 1..MaxPairs : Refresh(c, n)
    \/ \E n \in 1..MaxPairs, kind \in {"access", "refresh"} : Revoke(n, kind)
    \/ TokensTick

TokensSpec == TokensInit /\ [][TokensNext]_tokenVars

-----------------------------------------------------------------------------
(* Properties                                                              *)

\* However requests are repeated, an authorization leads to one line of tokens: its
\* tokens are its client's, of its pairs at most one has a refresh token that works,
\* and that is the last one issued for it.
OneLineOfTokens ==
    \A n \in 1..issued :
        /\ codes[pairs[n].code].used /\ codes[pairs[n].code].client = pairs[n].client
        /\ \A m \in 1..issued :
              pairs[m].code = pairs[n].code /\ m < n => "refresh" \in pairs[m].revoked
=============================================================================

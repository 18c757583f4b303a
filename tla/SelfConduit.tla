----------------------------- MODULE SelfConduit -----------------------------
(***************************************************************************)
(* The self as the conduit of requests (self_conduit.py): a request is     *)
(* refused, or perceived by the model under a lock, decided upon, told to  *)
(* the episodic memory and dispatched.  handle() is a coroutine and its    *)
(* lock is a threading.Lock: a request that waits for the lock stops the   *)
(* event loop, and with it the request that holds the lock.                *)
(***************************************************************************)
EXTENDS Integers, FiniteSets, FiniteSetsExt

CONSTANTS
    Callers,            \* requests, in one event loop
    PerceptionSeconds,  \* PERCEPTION_TIMEOUT_SEC
    LockSeconds,        \* LOCK_SAFETY_BUDGET
    BlockCeiling,       \* MINIMAL_TOKEN_CEILING
    BlockSizes          \* bound: token counts of the four sections of the block

\* A free lock is nobody's.
ASSUME PerceptionAssumption == "free" \notin Callers

VARIABLES
    growth,         \* the self: "empty", "drawn" (its facets), "whole" (answers, mood)
    asked,          \* request -> "idle", "stuck", "perceiving" or its answer
    heard,          \* requests whose model call has returned to the event loop
    late,           \* requests whose perception timer ran out while the loop stood still
    lockHolder,     \* who holds _perception_lock
    decided,        \* SelfRuntime._decision_made, one flag for all requests
    refusedTools,   \* requests a tool call of which raised SelfToolAfterDecision
    shown,          \* request -> sections of the minimal block it was perceived with
    mirrored        \* memories: [of, tier, tagged (has the hash of the request)]

conduitVars == <<growth, asked, heard, late, lockHolder, decided, refusedTools, shown, mirrored>>

Free == "free"
Decisions == {"reply_directly", "ask_clarifying", "decline", "delegate", "other"}
Answers == {"503 not bootstrapped", "400 blocked", "503 busy", "500 routing", "500 error",
            "200 content", "200 filtered", "raised timeout", "raised cancelled", "raised error"}
Sections == {"identity", "mood", "todos", "passion"}

LoopRuns == \A r \in Callers : asked[r] # "stuck"

\* render_minimal_block(): the todos go first, then the passion, never the rest.
X_MinimalBlock(size) ==
    IF MapThenSumSet(LAMBDA x : size[x], Sections) <= BlockCeiling THEN Sections
    ELSE Sections \ {"passion"}
MinimalBlock(size) ==
    LET Fits(s) == MapThenSumSet(LAMBDA x : size[x], s) <= BlockCeiling
    IN  IF Fits(Sections) THEN Sections
        ELSE IF Fits(Sections \ {"todos"}) THEN Sections \ {"todos"}
        ELSE {"identity", "mood"}

\* mirror_*(): the tag comes from the caller or from a variable no request ever sets.
Mirrored(r, tier, givenHash) == [of |-> r, tier |-> tier, tagged |-> givenHash]

ConduitSelfInit ==
    /\ growth = "empty" /\ asked = [r \in Callers |-> "idle"]
    /\ heard = {} /\ late = {} /\ lockHolder = Free
    /\ decided = FALSE /\ refusedTools = {}
    /\ shown = [r \in Callers |-> {}] /\ mirrored = {}

\* The bootstrap, seen from here.
Grow ==
    /\ LoopRuns /\ growth # "whole"
    /\ growth' = IF growth = "empty" THEN "drawn" ELSE "whole"
    /\ UNCHANGED <<asked, heard, late, lockHolder, decided, refusedTools, shown, mirrored>>

Refuse(r, status) ==
    /\ asked' = [asked EXCEPT ![r] = status]
    /\ UNCHANGED <<growth, heard, late, lockHolder, decided, refusedTools, shown, mirrored>>

\* handle() up to the model call; warden stands for its verdict on the messages.
Handle(r, blocked, size) ==
    /\ LoopRuns /\ asked[r] = "idle"
    /\ \/ growth # "whole" /\ Refuse(r, "503 not bootstrapped")
       \/ growth = "whole" /\ blocked /\ Refuse(r, "400 blocked")
       \/ growth = "whole" /\ ~blocked /\ lockHolder # Free /\ Refuse(r, "stuck")
       \/ /\ growth = "whole" /\ ~blocked /\ lockHolder = Free
          /\ lockHolder' = r /\ decided' = FALSE
          /\ shown' = [shown EXCEPT ![r] = MinimalBlock(size)]
          /\ asked' = [asked EXCEPT ![r] = "perceiving"]
          /\ UNCHANGED <<growth, heard, late, refusedTools, mirrored>>

\* acquire_perception_lock() returns False: only its time-out ends the wait, and the
\* timers that fell due meanwhile are served before anything the sockets bring.
GiveUp(r) ==
    /\ asked[r] = "stuck"
    /\ asked' = [asked EXCEPT ![r] = "503 busy"]
    /\ late' = IF LockSeconds >= PerceptionSeconds
               THEN late \union {q \in Callers : asked[q] = "perceiving" /\ q \notin heard}
               ELSE late
    /\ UNCHANGED <<growth, heard, lockHolder, decided, refusedTools, shown, mirrored>>

ModelAnswers(r) ==
    /\ LoopRuns /\ asked[r] = "perceiving" /\ r \notin late
    /\ heard' = heard \union {r}
    /\ UNCHANGED <<growth, asked, late, lockHolder, decided, refusedTools, shown, mirrored>>

\* SelfRuntime.invoke() of a tool of the self, by the model while it perceives.
Invoke(r) ==
    /\ LoopRuns /\ asked[r] = "perceiving" /\ r \notin heard \union late
    /\ refusedTools' = IF decided THEN refusedTools \union {r} ELSE refusedTools
    /\ UNCHANGED <<growth, asked, heard, late, lockHolder, decided, shown, mirrored>>

\* The lock is released on every way out (finally).
X_Leave(r, status) ==
    /\ asked' = [asked EXCEPT ![r] = status]
    /\ lockHolder' = IF status = "raised cancelled" THEN lockHolder ELSE Free
    /\ UNCHANGED <<growth, heard, late, refusedTools, shown>>
Leave(r, status) ==
    /\ asked' = [asked EXCEPT ![r] = status]
    /\ lockHolder' = Free
    /\ UNCHANGED <<growth, heard, late, refusedTools, shown>>

\* _perceive(): nothing catches PerceptionTimeout.
PerceptionTimesOut(r) ==
    /\ LoopRuns /\ asked[r] = "perceiving"
    /\ Leave(r, "raised timeout") /\ UNCHANGED <<decided, mirrored>>

Disconnect(r) ==
    /\ LoopRuns /\ asked[r] = "perceiving"
    /\ Leave(r, "raised cancelled") /\ UNCHANGED <<decided, mirrored>>

RoutingFails(r) ==
    /\ LoopRuns /\ r \in heard /\ asked[r] = "perceiving"
    /\ Leave(r, "500 routing") /\ UNCHANGED <<decided, mirrored>>

\* _record_decision() with a decision too long to mirror, or a failing insert.
RecordFails(r) ==
    /\ LoopRuns /\ r \in heard /\ asked[r] = "perceiving"
    /\ Leave(r, "raised error") /\ UNCHANGED <<decided, mirrored>>

\* What _record_decision() and _dispatch() leave in the memory.
Recorded(r, decision, opinionFails) ==
    {Mirrored(r, "observation", TRUE)} \union
        IF decision = "decline" /\ ~opinionFails THEN {Mirrored(r, "opinion", FALSE)} ELSE {}

\* _dispatch() and the scan of what it returns; only an unknown decision and a failing
\* mirror_opinion() are errors.
Outcome(decision, opinionFails, blocked) ==
    IF decision = "other" \/ (decision = "decline" /\ opinionFails) THEN "500 error"
    ELSE IF blocked THEN "200 filtered" ELSE "200 content"

\* From the decision to the answer nothing is awaited.
Decide(r, decision, opinionFails, blocked) ==
    /\ LoopRuns /\ r \in heard /\ asked[r] = "perceiving"
    /\ decided' = TRUE
    /\ mirrored' = mirrored \union Recorded(r, decision, opinionFails)
    /\ Leave(r, Outcome(decision, opinionFails, blocked))

ConduitSelfNext ==
    \/ Grow
    \/ \E r \in Callers :
        \/ \E blocked \in BOOLEAN, size \in [Sections -> BlockSizes] : Handle(r, blocked, size)
        \/ GiveUp(r) \/ ModelAnswers(r) \/ Invoke(r)
        \/ PerceptionTimesOut(r) \/ Disconnect(r) \/ RoutingFails(r) \/ RecordFails(r)
        \/ \E d \in Decisions, f, b \in BOOLEAN : Decide(r, d, f, b)

ConduitSelfSpec == ConduitSelfInit /\ [][ConduitSelfNext]_conduitVars

-----------------------------------------------------------------------------
Of(r, tier) == {m \in mirrored : m.of = r /\ m.tier = tier}

\* The lock is held exactly while a request is perceived, and one is perceived at a
\* time; so the shared flag never refuses the tools of a request under perception.
OnePerceives ==
    /\ \A r \in Callers : (lockHolder = r) <=> (asked[r] = "perceiving")
    /\ refusedTools = {}

\* A request is answered with content only after its decision was remembered, one that
\* was refused or never decided leaves no memory, and nothing the scan rejected is shown.
DecisionsAreRemembered ==
    \A r \in Callers :
        /\ asked[r] \in {"200 content", "200 filtered"} => Cardinality(Of(r, "observation")) = 1
        /\ Of(r, "opinion") # {} => Of(r, "observation") # {}
        /\ mirrored \intersect [of : {r}, tier : {"observation", "opinion"}, tagged : BOOLEAN] # {}
                => asked[r] \in {"200 content", "200 filtered", "500 error"}

\* A perceived request always sees who it is, and drops the passion only with the todos.
BlockIsWhole ==
    \A r \in Callers : shown[r] # {} =>
        /\ {"identity", "mood"} \subseteq shown[r]
        /\ "todos" \in shown[r] => "passion" \in shown[r]

ConduitIsOrderly == OnePerceives /\ DecisionsAreRemembered /\ BlockIsWhole

-----------------------------------------------------------------------------
\* Stated, and not so.
\* specs/conduit-runtime.md:54 "two concurrent requests serialize at step 2": the
\* second stops the loop until it gives up, and the first has timed out by then.
RequestsSerialize ==
    \A r, q \in Callers : asked[r] = "503 busy" => asked[q] # "raised timeout"

\* specs/forensic-tagging.md:28: the variable self_forensics.py sets is not the one
\* the bridge reads, so the opinion of a declined request is tagged "out_of_band".
MemoriesAreTagged == \A m \in mirrored : m.tagged

\* specs/conduit-runtime.md:30: a blocked request is remembered.
BlockedAreRemembered ==
    \A r \in Callers : asked[r] = "400 blocked" => Of(r, "observation") # {}
=============================================================================

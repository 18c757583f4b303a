----------------------------- MODULE TuringChat -----------------------------
(***************************************************************************)
(* Chatting with a self: what happens to a request and its answer, and     *)
(* what the prompt tells of the memories. The two share no state here.     *)
(***************************************************************************)
EXTENDS Integers, Sequences, FiniteSets, FiniteSetsExt, Functions

(***************************************************************************)
(* The chat server beside the reactor (runtime/chat.py and its wiring in   *)
(* runtime/main.py).  A request waits in its own thread while the reactor  *)
(* answers; the blocks of an answer are then acted upon in that thread,    *)
(* the slow ones in threads of their own.  Ratings come in other threads,  *)
(* the operator edits the base prompt, and the process is shut down.       *)
(* How requests queue is in TuringTick; here any of them may be answered.  *)
(***************************************************************************)

CONSTANTS
    DeskChats,          \* requests
    Raters,             \* requests to /feedback
    BlockLists,         \* what an answer may contain: sequences of kinds
    RefreshEvery,       \* REFRESH_EVERY_N_TURNS
    MaxTurns            \* bound: turns of the conversation

VARIABLES
    desk,           \* "serving", "stopped" (the loop), "closed" (the repository), "gone"
    chat,           \* request -> its way, step, blocks and how many were looked at
    crediting,      \* the answered request whose points are still to be given
    blockDone,      \* sequence of <<request, number, what came of it>>
    slow,           \* blocks that have a thread of their own
    rater,          \* rating -> its step, message and what it has seen
    points,         \* rows of reward_events: <<message, type>>
    promptFile,     \* the base prompt: "old", "new", or cut off while it is written
    summary         \* the conversation's: turn of its refresh, whether it has topics

deskVars == <<desk, chat, crediting, blockDone, slow, rater, points, promptFile, summary>>

Nobody == "nobody"
DbKinds == {"voice", "remember", "opinion", "hypothesis", "goal"}
SlowKinds == {"journal", "blog", "read-code", "request-change"}
RememberedKinds == {"read-code", "request-change"}

ASSUME DeskAssumption ==
    BlockLists \subseteq Seq(DbKinds \cup SlowKinds) /\ "nobody" \notin DeskChats

NoSummary == [at |-> 0, topics |-> FALSE]

DeskInit ==
    /\ desk = "serving"
    /\ chat \in [DeskChats -> {[way |-> w, at |-> "waiting", blocks |-> <<>>, seen |-> 0] :
                                  w \in {"simple", "openai"}}]
    /\ crediting = Nobody
    /\ blockDone = <<>> /\ slow = {}
    /\ rater = [f \in Raters |-> [at |-> "idle", message |-> Nobody, seen |-> 0, gave |-> 0]]
    /\ points = <<>>
    /\ promptFile = "old" /\ summary = NoSummary

\* maybe_refresh(): a reply that cannot be parsed makes a summary without topics.
Refreshed(turns, outcome) ==
    IF summary.at > 0 /\ turns - summary.at < RefreshEvery THEN summary
    ELSE IF outcome = "raises" THEN summary
    ELSE [at |-> turns, topics |-> outcome = "topics"]

\* _on_chat_dispatch(): the waiting thread is woken before the points are given.
Answer(c, blocks, turns, outcome) ==
    /\ desk = "serving" /\ crediting = Nobody /\ chat[c].at \in {"waiting", "timeout"}
    /\ crediting' = c
    /\ summary' = IF chat[c].way = "openai" THEN Refreshed(turns, outcome) ELSE summary
    /\ chat' = [chat EXCEPT ![c].at = IF @ = "waiting" THEN "replied" ELSE "unread",
                            ![c].blocks = blocks]
    /\ UNCHANGED <<desk, blockDone, slow, rater, points, promptFile>>
Credit ==
    /\ crediting # Nobody /\ points' = Append(points, <<crediting, "creation">>)
    /\ crediting' = Nobody
    /\ UNCHANGED <<desk, chat, blockDone, slow, rater, promptFile, summary>>
Wearies(c) ==
    /\ desk # "gone" /\ chat[c].at = "waiting" /\ chat' = [chat EXCEPT ![c].at = "timeout"]
    /\ UNCHANGED <<desk, crediting, blockDone, slow, rater, points, promptFile, summary>>

\* The next block of a reply: a row is written at once, anything slow gets a thread.
\* A row is refused when the repository is closed, and a goal always.  Whatever came of
\* it, the block is shown as done.
Written(c) ==
    LET kind == chat[c].blocks[chat[c].seen + 1]
    IN  IF kind = "goal" \/ desk \notin {"serving", "stopped"} THEN "refused" ELSE "written"
ActOnBlock(c) ==
    LET k == chat[c].seen + 1
    IN  /\ desk # "gone" /\ chat[c].at = "replied" /\ chat[c].way = "openai"
        /\ chat[c].seen < Len(chat[c].blocks)
        /\ chat' = [chat EXCEPT ![c].seen = k]
        /\ IF chat[c].blocks[k] \in DbKinds
           THEN blockDone' = Append(blockDone, <<c, k, Written(c)>>) /\ UNCHANGED slow
           ELSE slow' = slow \cup {<<c, k>>} /\ UNCHANGED blockDone
        /\ UNCHANGED <<desk, crediting, rater, points, promptFile, summary>>
\* The simple endpoint passes the reply on as it is.
Reply(c) ==
    /\ desk # "gone" /\ chat[c].at = "replied"
    /\ chat[c].way = "openai" => chat[c].seen = Len(chat[c].blocks)
    /\ chat' = [chat EXCEPT ![c].at = "shown"]
    /\ UNCHANGED <<desk, crediting, blockDone, slow, rater, points, promptFile, summary>>
\* _slow_io(): the file, the draft, or the tool and then a memory of it.
SlowEnds(b, fails) ==
    /\ b \in slow /\ slow' = slow \ {b}
    /\ blockDone' = Append(blockDone, <<b[1], b[2],
          IF fails \/ (desk = "closed" /\ chat[b[1]].blocks[b[2]] \in RememberedKinds)
          THEN "refused" ELSE "written">>)
    /\ UNCHANGED <<desk, chat, crediting, rater, points, promptFile, summary>>

\* _handle_feedback(): whether there is a rating, and then the rating.
Ratings(m) == {k \in DOMAIN points : points[k] \in {<<m, "up">>, <<m, "down">>}}
X_HasFeedback(m) == FALSE
HasFeedback(m) == Ratings(m) # {}
Rate(f, m) ==
    /\ desk \in {"serving", "stopped"} /\ rater[f].at = "idle"
    /\ rater' = [rater EXCEPT ![f] = [at |-> IF HasFeedback(m) THEN "refused" ELSE "award",
                                      message |-> m, seen |-> Len(points), gave |-> 0]]
    /\ UNCHANGED <<desk, chat, crediting, blockDone, slow, points, promptFile, summary>>
GiveRating(f, type) ==
    /\ desk \in {"serving", "stopped"} /\ rater[f].at = "award"
    /\ points' = Append(points, <<rater[f].message, type>>)
    /\ rater' = [rater EXCEPT ![f].at = "rated", ![f].gave = Len(points')]
    /\ UNCHANGED <<desk, chat, crediting, blockDone, slow, promptFile, summary>>

\* write_text() empties the file and fills it.
SavePrompt ==
    /\ desk # "gone" /\ promptFile \in {"old", "cut"}
    /\ promptFile' = IF promptFile = "old" THEN "cut" ELSE "new"
    /\ UNCHANGED <<desk, chat, crediting, blockDone, slow, rater, points, summary>>

\* After the loop the server stops taking requests, without waiting for the threads of
\* those it has; the repository is closed; and the process waits for the slow threads.
LoopStops ==
    /\ desk = "serving" /\ crediting = Nobody /\ desk' = "stopped"
    /\ UNCHANGED <<chat, crediting, blockDone, slow, rater, points, promptFile, summary>>
RepoCloses ==
    /\ desk = "stopped" /\ desk' = "closed"
    /\ UNCHANGED <<chat, crediting, blockDone, slow, rater, points, promptFile, summary>>
X_ProcessEnds ==
    /\ desk = "closed" /\ desk' = "gone"
    /\ UNCHANGED <<chat, crediting, blockDone, slow, rater, points, promptFile, summary>>
ProcessEnds ==
    /\ desk = "closed" /\ slow = {} /\ desk' = "gone"
    /\ UNCHANGED <<chat, crediting, blockDone, slow, rater, points, promptFile, summary>>

DeskNext ==
    \/ \E c \in DeskChats :
          \/ \E blocks \in BlockLists, turns \in 1..MaxTurns,
                outcome \in {"topics", "garbage", "raises"} : Answer(c, blocks, turns, outcome)
          \/ Wearies(c) \/ ActOnBlock(c) \/ Reply(c)
    \/ \E b \in slow, fails \in BOOLEAN : SlowEnds(b, fails)
    \/ \E f \in Raters : \/ \E c \in DeskChats : Rate(f, c)
                         \/ \E type \in {"up", "down"} : GiveRating(f, type)
    \/ Credit \/ SavePrompt \/ LoopStops \/ RepoCloses \/ ProcessEnds

DeskSpec == DeskInit /\ [][DeskNext]_deskVars

-----------------------------------------------------------------------------
(* Properties                                                              *)

Outcomes(c, k) == {n \in DOMAIN blockDone : blockDone[n][1] = c /\ blockDone[n][2] = k}

\* Whatever is under way when the process is stopped: a block is acted upon once, if the
\* client is shown the reply and had asked for it by the one endpoint, and while the
\* repository is open only a goal or a failing tool is refused; what has a thread of its
\* own comes to an end before the process does; a message gets its points once and two
\* ratings only if the second was begun before the first was written.
DeskIsSound ==
    /\ \A c \in DeskChats : \A k \in 1..Len(chat[c].blocks) :
          /\ Cardinality(Outcomes(c, k)) + (IF <<c, k>> \in slow THEN 1 ELSE 0)
                = (IF k <= chat[c].seen THEN 1 ELSE 0)
          /\ chat[c].at = "shown" => (k <= chat[c].seen) = (chat[c].way = "openai")
          /\ chat[c].seen > 0 => chat[c].at \in {"replied", "shown"}
          /\ desk = "serving" /\ chat[c].blocks[k] \in DbKinds \ {"goal"} =>
                \A n \in Outcomes(c, k) : blockDone[n][3] = "written"
    /\ desk = "gone" => slow = {}
    /\ \A c \in DeskChats :
          Cardinality({n \in DOMAIN points : points[n] = <<c, "creation">>}) <= 1
    /\ \A f, g \in Raters :
          /\ f # g /\ rater[f].at = "rated" /\ rater[g].at = "rated"
          /\ rater[f].message = rater[g].message /\ rater[f].gave < rater[g].gave
          => rater[g].seen < rater[f].gave

\* The rest is said and not kept.

\* "run synchronously so they are never lost on shutdown" (runtime/main.py:1494): the
\* thread of a request goes on after the repository was closed.
WritesSurviveShutdown ==
    \A n \in DOMAIN blockDone :
        chat[blockDone[n][1]].blocks[blockDone[n][2]] \in DbKinds \ {"goal"} =>
            blockDone[n][3] = "written"

\* "feedback already submitted for this message" (runtime/chat.py:299).
RatedOnce == \A c \in DeskChats : Cardinality(Ratings(c)) <= 1

\* "prompt cannot be empty" (runtime/chat.py:506), nor half written, for the answers
\* made meanwhile and after a process that ended in the middle.
PromptIsWhole == promptFile # "cut"

\* "Refreshes every REFRESH_EVERY_N_TURNS turns" (runtime/conversation_summary.py:3):
\* a reply that is no JSON puts an empty summary in the place of a good one.
TopicsStay == [][summary.topics => summary'.topics]_deskVars

-----------------------------------------------------------------------------
(***************************************************************************)
(* What a chat prompt tells of the memories (_build_chat_prompt() of       *)
(* runtime/main.py over retrieval.py).  Its searches run in a pool of      *)
(* threads while the chat server's threads go on inserting; the sections   *)
(* of the prompt leave out what is already shown.  After the answer the    *)
(* exchange itself may become a memory.  Memories are numbered as they are *)
(* created; what the vectors find is left open.                            *)
(***************************************************************************)

CONSTANTS
    MaxRows,            \* bound: memories
    WisdomShown,        \* 3, the wisdom that is listed
    WisdomSkipped,      \* 5, the wisdom the other sections leave out
    TopDurable, TopRecent, TopCaptured, TopRead,    \* 5, 4, 8, 6
    CostOf,             \* memory number -> its tokens
    DurableTokens,      \* DURABLE_MIN_TOKENS
    Budgets             \* bound: token budgets of retrieve()

\* Every memory costs a number of tokens, and the list skips what it shows.
ASSUME PromptAssumption ==
    /\ MaxRows \in Nat /\ CostOf \in [1..MaxRows -> Nat]
    /\ WisdomShown \in Nat /\ WisdomSkipped \in Nat /\ WisdomShown <= WisdomSkipped
    /\ DurableTokens \in Nat /\ Budgets \subseteq Nat

VARIABLES
    memoryRows,     \* sequence of [kind, gone]
    prompting,      \* "idle", "searching", "composed"
    found,          \* search -> what it returned, Pending
    retrieved       \* what retrieve() last returned: [budget, durable, other]

promptVars == <<memoryRows, prompting, found, retrieved>>

RowKinds == {"wisdom", "opinion", "capture", "read"}
Searches == {"wisdom", "durable", "recent", "captured", "read"}
Pending == {0}
Nothing == [budget |-> 0, durable |-> {}, other |-> {}]

Newest(set, n) == {m \in set : Cardinality({k \in set : k > m}) < n}
OfKind(kinds) == {m \in DOMAIN memoryRows : memoryRows[m].kind \in kinds}
Deleted == {m \in DOMAIN memoryRows : memoryRows[m].gone = "deleted"}
Replaced == {m \in DOMAIN memoryRows : memoryRows[m].gone = "superseded"}

PromptInit ==
    /\ memoryRows = <<>> /\ prompting = "idle"
    /\ found = [s \in Searches |-> Pending] /\ retrieved = Nothing

\* A chat block or a producer adds a memory; while a prompt is made only the blocks do.
AddRow(kind) ==
    /\ Len(memoryRows) < MaxRows
    /\ prompting = "idle" \/ kind = "opinion"
    /\ memoryRows' = Append(memoryRows, [kind |-> kind, gone |-> "no"])
    /\ retrieved' = Nothing /\ UNCHANGED <<prompting, found>>

\* Between prompts, in the main thread, a durable memory (here wisdom) gets a successor or another
\* is pruned.
RowGoes(m) ==
    /\ prompting = "idle" /\ memoryRows[m].gone = "no"
    /\ memoryRows' = [memoryRows EXCEPT ![m].gone =
                    IF memoryRows[m].kind = "wisdom" THEN "superseded" ELSE "deleted"]
    /\ retrieved' = Nothing /\ UNCHANGED <<prompting, found>>

\* _fetch_wisdom(), _fetch_chat_recent() and _fetch_rss_recent() list rows by age;
\* nothing that is inserted meanwhile is theirs, so they are one step.
StartPrompt ==
    /\ prompting = "idle" /\ prompting' = "searching"
    /\ found' = [s \in Searches |->
          CASE s = "wisdom" -> OfKind({"wisdom"}) \ Replaced
            [] s = "captured" -> Newest(OfKind({"capture"}) \ Deleted, TopCaptured)
            [] s = "read" -> Newest(OfKind({"read"}) \ Deleted, TopRead)
            [] OTHER -> Pending]
    /\ retrieved' = Nothing /\ UNCHANGED memoryRows

\* semantic_retrieve(): what is superseded is dropped, what is deleted is not.
SimilarDurable(similar) ==
    /\ similar \subseteq OfKind({"wisdom", "opinion"}) \ Replaced
    /\ Cardinality(similar) <= TopDurable
\* semantic_retrieve_recent(): the same, of every tier the prompt asks for.
SimilarRecent(similar) ==
    /\ similar \subseteq DOMAIN memoryRows \ Replaced
    /\ Cardinality(similar) <= TopRecent

Search(s, hits) ==
    /\ prompting = "searching" /\ found[s] = Pending
    /\ \/ s = "durable" /\ SimilarDurable(hits)
       \/ s = "recent" /\ SimilarRecent(hits)
    /\ found' = [found EXCEPT ![s] = hits]
    /\ UNCHANGED <<memoryRows, prompting, retrieved>>

Compose ==
    /\ prompting = "searching" /\ \A s \in Searches : found[s] # Pending
    /\ prompting' = "composed"
    /\ UNCHANGED <<memoryRows, found, retrieved>>

\* The sections of the composed prompt, in their order.
SkippedWisdom == Newest(found["wisdom"], WisdomSkipped)
WisdomSection == Newest(found["wisdom"], WisdomShown)
DurableSection == found["durable"] \ SkippedWisdom
X_RecentSection == found["recent"] \ SkippedWisdom
RecentSection == found["recent"] \ (SkippedWisdom \union DurableSection)
CapturedSection == found["captured"] \ (SkippedWisdom \union DurableSection \union RecentSection)
ReadSection == found["read"]

\* _capture_exchange(): the model decides, and what it says may not be usable.
Answered(remember) ==
    /\ prompting = "composed" /\ prompting' = "idle"
    /\ found' = [s \in Searches |-> Pending]
    /\ \/ ~remember /\ UNCHANGED memoryRows
       \/ /\ remember /\ Len(memoryRows) < MaxRows
          /\ memoryRows' = Append(memoryRows, [kind |-> "capture", gone |-> "no"])
    /\ UNCHANGED retrieved

\* The newest of a set until one does not fit: that one ends the list.
TokensOf(set) == SumFunctionOnSet(CostOf, set)
FirstFitting(set, room) == {m \in set : TokensOf({k \in set : k >= m}) <= room}

\* retrieve(): durable memories first, then what is left of the budget for the rest.
X_LeftFor(budget, durable) == budget
LeftFor(budget, durable) == budget - TokensOf(durable)
Retrieve(budget) ==
    /\ prompting = "idle"
    /\ LET durable == FirstFitting(OfKind({"wisdom"}) \ Replaced, DurableTokens)
           others == OfKind(RowKinds \ {"wisdom"}) \ Deleted
       IN  retrieved' = [budget |-> budget, durable |-> durable,
                         other |-> FirstFitting(others, LeftFor(budget, durable))]
    /\ UNCHANGED <<memoryRows, prompting, found>>

PromptNext ==
    \/ \E kind \in RowKinds : AddRow(kind)
    \/ \E m \in DOMAIN memoryRows : RowGoes(m)
    \/ StartPrompt
    \/ \E s \in {"durable", "recent"}, hits \in SUBSET DOMAIN memoryRows : Search(s, hits)
    \/ Compose
    \/ \E remember \in BOOLEAN : Answered(remember)
    \/ \E budget \in Budgets : Retrieve(budget)

PromptSpec == PromptInit /\ [][PromptNext]_promptVars

-----------------------------------------------------------------------------
Shown == WisdomSection \union DurableSection \union RecentSection \union CapturedSection

\* Whatever is inserted while the searches run, no memory of the self is told twice in
\* the sections that leave out what is shown, nothing superseded is told, and what
\* a search found is told, but for wisdom that the list has no room for.
PromptsAreWhole ==
    prompting = "composed" =>
        /\ \A m \in Shown :
               Cardinality({s \in {<<1, WisdomSection>>, <<2, DurableSection>>,
                                   <<3, RecentSection>>, <<4, CapturedSection>>} : m \in s[2]}) = 1
        /\ Shown \intersect Replaced = {}
        /\ (found["durable"] \union found["recent"] \union found["captured"]) \ Shown
               \subseteq SkippedWisdom \ WisdomSection

\* What retrieve() returns fits the larger of the budget and the durable quota, and
\* the rest gets only what the durable memories leave of the budget.
RetrievalFits ==
    LET used == TokensOf(retrieved.durable) + TokensOf(retrieved.other)
    IN  /\ used <= Max({retrieved.budget, DurableTokens})
        /\ retrieved.other # {} => used <= retrieved.budget

PromptIsSound == PromptsAreWhole /\ RetrievalFits

-----------------------------------------------------------------------------
\* Stated, and not so.
\* runtime/main.py:727 "Deduplicate vs WISDOM already shown above": five are left out
\* and three shown, so wisdom the message calls for may be in no section.
FoundIsShown ==
    prompting = "composed" => found["durable"] \union found["recent"] \subseteq Shown

\* runtime/main.py:740 "Deduplicate vs above": what was read is told again below.
TellsOnce == prompting = "composed" => Shown \intersect ReadSection = {}

\* A prompt does not tell what was pruned (specs/semantic-retrieval.md:25 filters only
\* what is superseded).
PrunedIsForgotten == prompting = "composed" => Shown \intersect Deleted = {}

\* specs/retrieval.md:22 "the reserved quota is honored whenever at least one durable
\* memory matches": a durable memory larger than the quota hides the rest.
QuotaIsHonored ==
    retrieved.budget > 0 /\ retrieved.durable = {} =>
        \A m \in OfKind({"wisdom"}) \ Replaced : CostOf[m] > DurableTokens
=============================================================================

----------------------------- MODULE OwnAccord ------------------------------
(***************************************************************************)
(* What a self does unasked: it reads the news, and follows its own urges. *)
(* The two share no state here.                                            *)
(***************************************************************************)
EXTENDS Integers, Sequences, FiniteSets

(***************************************************************************)
(* Reading the news: the fetcher polls the feeds (runtime/rss_fetcher.py,  *)
(* runtime/tools/rss.py), queues every item it has not seen, and the       *)
(* dispatch thinks about an item (runtime/main.py): a weak summary, then   *)
(* perhaps an opinion, then perhaps a commitment, each committed by itself.*)
(* What was seen and what is queued is lost with the process; the summary  *)
(* is what tells that an item was read, until a dream prunes it.           *)
(***************************************************************************)

CONSTANTS
    FeedItems,      \* the items a feed publishes
    MaxReadings,    \* bound: polls
    MaxEndings      \* bound: prunings, failures and restarts together

VARIABLES
    seenIds,        \* items a poll of this process has met
    readQueue,      \* item -> how often it is queued
    thinking,       \* what is left of the dispatch: the item, what follows
    summaries,      \* item -> summaries that were written ...
    prunedOnes,     \* ... and pruned
    opinions,       \* item -> opinions
    commitments,    \* item -> affirmations
    droppedOnes,    \* items whose first write failed
    readings, endings

feedMemories == <<summaries, prunedOnes, opinions, commitments>>
feedVars == <<seenIds, readQueue, thinking, feedMemories, droppedOnes, readings, endings>>

NotThinking == [does |-> "none", about |-> "none", thenCommit |-> FALSE]
PerItem(n) == [i \in FeedItems |-> n]

FeedInit ==
    /\ seenIds = {} /\ readQueue = PerItem(0) /\ thinking = NotThinking
    /\ summaries = PerItem(0) /\ prunedOnes = PerItem(0)
    /\ opinions = PerItem(0) /\ commitments = PerItem(0)
    /\ droppedOnes = {} /\ readings = 0 /\ endings = 0

\* A document lists an item once, twice or not at all.  What is new is decided
\* before any of it is marked as seen.
Poll(doc) ==
    /\ thinking = NotThinking /\ readings < MaxReadings
    /\ LET new == {i \in FeedItems : doc[i] > 0} \ seenIds IN
       /\ readQueue' = [i \in FeedItems |-> readQueue[i] + (IF i \in new THEN doc[i] ELSE 0)]
       /\ seenIds' = seenIds \cup new
    /\ readings' = readings + 1
    /\ UNCHANGED <<thinking, feedMemories, droppedOnes, endings>>

\* An item with a summary in the database has been read already.
X_AlreadyRead(i) == FALSE
AlreadyRead(i) == summaries[i] > prunedOnes[i]

Dequeue(i) ==
    /\ thinking = NotThinking /\ readQueue[i] > 0
    /\ readQueue' = [readQueue EXCEPT ![i] = @ - 1]
    /\ UNCHANGED <<seenIds, prunedOnes, opinions, commitments, readings>>

SkipRead(i) ==
    AlreadyRead(i) /\ Dequeue(i) /\ UNCHANGED <<thinking, summaries, droppedOnes, endings>>

Follow(i, opine, commit) ==
    IF opine THEN [does |-> "opinion", about |-> i, thenCommit |-> commit]
    ELSE IF commit THEN [does |-> "commitment", about |-> i, thenCommit |-> FALSE]
    ELSE NotThinking

\* The model's verdict decides what follows the summary; a call that fails still
\* leaves one.
X_Summarize(i, opine, commit) ==
    /\ ~AlreadyRead(i) /\ Dequeue(i)
    /\ summaries' = IF opine THEN summaries ELSE [summaries EXCEPT ![i] = @ + 1]
    /\ thinking' = Follow(i, opine, commit)
    /\ UNCHANGED <<droppedOnes, endings>>
Summarize(i, opine, commit) ==
    /\ ~AlreadyRead(i) /\ Dequeue(i)
    /\ summaries' = [summaries EXCEPT ![i] = @ + 1]
    /\ thinking' = Follow(i, opine, commit)
    /\ UNCHANGED <<droppedOnes, endings>>

\* The first write raises: the item is consumed.
Drop(i) ==
    /\ ~AlreadyRead(i) /\ Dequeue(i) /\ endings < MaxEndings
    /\ droppedOnes' = droppedOnes \cup {i}
    /\ endings' = endings + 1
    /\ UNCHANGED <<thinking, summaries>>

Opine ==
    /\ thinking.does = "opinion"
    /\ opinions' = [opinions EXCEPT ![thinking.about] = @ + 1]
    /\ thinking' = Follow(thinking.about, FALSE, thinking.thenCommit)
    /\ UNCHANGED <<seenIds, readQueue, summaries, prunedOnes, commitments, droppedOnes,
                   readings, endings>>

Commit ==
    /\ thinking.does = "commitment"
    /\ commitments' = [commitments EXCEPT ![thinking.about] = @ + 1]
    /\ thinking' = NotThinking
    /\ UNCHANGED <<seenIds, readQueue, summaries, prunedOnes, opinions, droppedOnes,
                   readings, endings>>

\* A later write raises ...
BreakOff ==
    /\ thinking # NotThinking /\ endings < MaxEndings
    /\ thinking' = NotThinking /\ endings' = endings + 1
    /\ UNCHANGED <<seenIds, readQueue, feedMemories, droppedOnes, readings>>

\* ... or the process is restarted.
Reopen ==
    /\ endings < MaxEndings /\ endings' = endings + 1
    /\ seenIds' = {} /\ readQueue' = PerItem(0) /\ thinking' = NotThinking
    /\ droppedOnes' = {}
    /\ UNCHANGED <<feedMemories, readings>>

\* A dream prunes summaries that weigh too little and were not looked at for 30
\* days: the weight of these is the least there is.
PruneSummary(i) ==
    /\ thinking = NotThinking /\ endings < MaxEndings /\ AlreadyRead(i)
    /\ prunedOnes' = [prunedOnes EXCEPT ![i] = summaries[i]]
    /\ endings' = endings + 1
    /\ UNCHANGED <<seenIds, readQueue, thinking, summaries, opinions, commitments,
                   droppedOnes, readings>>

FeedNext ==
    \/ \E doc \in [FeedItems -> 0..2] : Poll(doc)
    \/ \E i \in FeedItems :
          \/ SkipRead(i) \/ Drop(i) \/ PruneSummary(i)
          \/ \E opine, commit \in BOOLEAN : Summarize(i, opine, commit)
    \/ Opine \/ Commit \/ BreakOff \/ Reopen

FeedSpec == FeedInit /\ [][FeedNext]_feedVars

-----------------------------------------------------------------------------
(* Properties                                                              *)

\* However often an item is published, polled and queued, and whatever the process
\* forgot, it is thought about once for each time its summary was forgotten, and
\* once more; nothing is thought about it without a summary.
ReadOnce ==
    \A i \in FeedItems :
        /\ summaries[i] <= prunedOnes[i] + 1
        /\ opinions[i] <= summaries[i] /\ commitments[i] <= summaries[i]

\* An item this process has seen waits, was read or failed: none is passed over.
SeenIsRead ==
    \A i \in seenIds : readQueue[i] > 0 \/ summaries[i] > 0 \/ i \in droppedOnes

\* The feeds are read, and read once.
FeedIsRead == ReadOnce /\ SeenIsRead

\* "Guard against reprocessing after container restart" (runtime/main.py:166).
NeverReprocessed == \A i \in FeedItems : summaries[i] <= 1

-----------------------------------------------------------------------------
(***************************************************************************)
(* What Turing does of its own accord: the curiosity, hobby, emotional,    *)
(* blog and self-reflection producers (producers/*.py).  On its ticks a    *)
(* producer puts a job into the backlog; the motivation dispatches one job *)
(* at a time on the main thread.  A job is a list of steps, each of which  *)
(* commits by itself: any of them may raise, which ends the job, and the   *)
(* process may end between two.                                            *)
(***************************************************************************)

CONSTANTS
    Urges,          \* ticks between two jobs of a producer
    SeedCount,      \* hobbies that select_hobbies() returns
    Subjects,       \* topics of curiosity, contents of the file reflected on
    MaxJobs,        \* bound: jobs
    MaxUrgeTick,    \* bound: ticks of a process
    MaxFalls        \* bound: ends of the process

ASSUME UrgesAssumption == Urges \in Nat

VARIABLES
    up,             \* the process has come to its loop
    strong,         \* the profile gives a hobby a strength above 1
    seeded,         \* hobbies in the table
    urgeTick,       \* tick_count
    submittedAt,    \* kind -> _last_submitted_tick
    jobs,           \* every job: its kind, subject, step, and when it was submitted
    effects,        \* job -> steps it has done
    mood,           \* the row of self_mood: valence and arousal
    interests,      \* topic -> the job that inserted its row
    snapshots,      \* content -> the job that inserted its row
    falls

producerVars == <<up, strong, seeded, urgeTick, submittedAt, jobs, effects, mood, interests,
                  snapshots, falls>>
storeVars == <<mood, interests, snapshots>>

CuriositySteps == <<"complete", "memory", "interest">>
HobbySteps == <<"complete", "memory", "mood">>
EmotionalSteps == <<"complete", "memory", "todo", "mood", "journal">>
X_BlogSteps == <<"complete", "publish", "reward", "memory", "mood">>
BlogSteps == <<"complete", "publish", "memory", "reward", "mood">>
ReflectionSteps == <<"check", "complete", "snapshot", "memory", "index">>
Steps == [curiosity |-> CuriositySteps, hobby |-> HobbySteps, emotional |-> EmotionalSteps,
          blog |-> BlogSteps, reflection |-> ReflectionSteps]

Neutral == [valence |-> 0, arousal |-> 1]
JobInHand == {j \in DOMAIN jobs : jobs[j].at \notin {"queued", "ended"}}
Clamp(n, low, high) == IF n < low THEN low ELSE IF n > high THEN high ELSE n

ProducersInit ==
    /\ up = FALSE /\ strong \in BOOLEAN /\ seeded = 0 /\ urgeTick = 0
    /\ submittedAt = [k \in DOMAIN Steps |-> 0]
    /\ jobs = <<>> /\ effects = <<>>
    /\ mood = Neutral
    /\ interests = [t \in Subjects |-> 0] /\ snapshots = [t \in Subjects |-> 0]
    /\ falls = 0

\* At start an empty hobby table is filled, row by row; a strength above 1 is refused
\* by the table, and the process does not come up.
SeedHobby ==
    /\ ~up /\ ~strong /\ seeded < SeedCount
    /\ seeded' = seeded + 1 /\ up' = (seeded' = SeedCount)
    /\ UNCHANGED <<strong, urgeTick, submittedAt, jobs, effects, storeVars, falls>>
FindHobbies ==
    /\ ~up /\ seeded > 0 /\ up' = TRUE
    /\ UNCHANGED <<strong, seeded, urgeTick, submittedAt, jobs, effects, storeVars, falls>>

\* What a producer may submit: a topic, one of the hobbies, a strong or a weak drive, a
\* post, and a file with what it contains when it is read.
Candidate(k, subject, urgent) == [kind |-> k, subject |-> subject, urgent |-> urgent]
CuriosityCandidates == {Candidate("curiosity", t, FALSE) : t \in Subjects}
HobbyCandidates == IF seeded = 0 THEN {} ELSE {Candidate("hobby", "none", FALSE)}
EmotionalCandidates == {Candidate("emotional", "none", urgent) : urgent \in BOOLEAN}
BlogCandidates == {Candidate("blog", "none", FALSE)}
ReflectionCandidates == {Candidate("reflection", t, FALSE) : t \in Subjects}
Candidates == CuriosityCandidates \cup HobbyCandidates \cup EmotionalCandidates
                 \cup BlogCandidates \cup ReflectionCandidates

\* on_tick(): how strong a drive is depends on the profile and is left open.
X_Submit(c) ==
    /\ up /\ JobInHand = {} /\ Len(jobs) < MaxJobs
    /\ urgeTick - submittedAt[c.kind] >= Urges
    /\ jobs' = Append(jobs, [kind |-> c.kind, subject |-> c.subject, urgent |-> c.urgent,
                             at |-> "queued", life |-> falls, tick |-> urgeTick, was |-> Neutral])
    /\ effects' = Append(effects, {})
    /\ UNCHANGED <<up, strong, seeded, urgeTick, submittedAt, storeVars, falls>>
Submit(c) ==
    /\ up /\ JobInHand = {} /\ Len(jobs) < MaxJobs
    /\ urgeTick - submittedAt[c.kind] >= Urges
    /\ submittedAt' = [submittedAt EXCEPT ![c.kind] = urgeTick]
    /\ jobs' = Append(jobs, [kind |-> c.kind, subject |-> c.subject, urgent |-> c.urgent,
                             at |-> "queued", life |-> falls, tick |-> urgeTick, was |-> Neutral])
    /\ effects' = Append(effects, {})
    /\ UNCHANGED <<up, strong, seeded, urgeTick, storeVars, falls>>
NextTick ==
    /\ up /\ JobInHand = {} /\ urgeTick < MaxUrgeTick /\ urgeTick' = urgeTick + 1
    /\ UNCHANGED <<up, strong, seeded, submittedAt, jobs, effects, storeVars, falls>>

\* The handler begins by reading the mood.
JobBegins(j) ==
    /\ up /\ JobInHand = {} /\ jobs[j].at = "queued" /\ jobs[j].life = falls
    /\ jobs' = [jobs EXCEPT ![j].at = Steps[jobs[j].kind][1], ![j].was = mood]
    /\ UNCHANGED <<up, strong, seeded, urgeTick, submittedAt, effects, storeVars, falls>>

StepAfter(k, s) ==
    LET n == CHOOSE i \in DOMAIN Steps[k] : Steps[k][i] = s
    IN  IF n = Len(Steps[k]) THEN "ended" ELSE Steps[k][n + 1]

\* An unchanged file is not reflected on again.
X_Skips(j) == jobs[j].at = "check" /\ snapshots[jobs[j].subject] = j
Skips(j) == jobs[j].at = "check" /\ snapshots[jobs[j].subject] # 0
\* The row is written from the mood the handler began with.
HobbyMoves(m) == [valence |-> Clamp(m.valence + 1, -1, 1), arousal |-> Clamp(m.arousal - 1, 0, 1)]
BlogMoves(m) == [m EXCEPT !.valence = Clamp(@ + 1, -1, 1)]
EmotionMoves(m) == [valence |-> m.valence + (IF m.valence < 0 THEN 1 ELSE -1),
                    arousal |-> Clamp(m.arousal - 1, 0, 1)]
Moved(j) ==
    CASE jobs[j].kind = "hobby" -> HobbyMoves(jobs[j].was)
      [] jobs[j].kind = "blog" -> BlogMoves(jobs[j].was)
      [] OTHER -> EmotionMoves(jobs[j].was)
\* A second row of a topic is ignored; a second snapshot of a content keeps the row.
InsertInterest(j) == [interests EXCEPT ![jobs[j].subject] = IF @ = 0 THEN j ELSE @]
UpsertSnapshot(j) == [snapshots EXCEPT ![jobs[j].subject] = IF @ = 0 THEN j ELSE @]
DoStep(j) ==
    LET s == jobs[j].at
    IN  /\ up /\ j \in JobInHand
        /\ jobs' = [jobs EXCEPT ![j].at = IF Skips(j) THEN "ended" ELSE StepAfter(jobs[j].kind, s)]
        /\ effects' = [effects EXCEPT ![j] =
              IF Skips(j) \/ (s = "todo" /\ ~jobs[j].urgent) THEN @ ELSE @ \cup {s}]
        /\ mood' = IF s = "mood" THEN Moved(j) ELSE mood
        /\ interests' = IF s = "interest" THEN InsertInterest(j) ELSE interests
        /\ snapshots' = IF s = "snapshot" THEN UpsertSnapshot(j) ELSE snapshots
        /\ UNCHANGED <<up, strong, seeded, urgeTick, submittedAt, falls>>
\* A step that raises ends the job; a post may be out all the same.
StepRaises(j) ==
    /\ up /\ j \in JobInHand /\ jobs[j].at # "check"
    /\ jobs' = [jobs EXCEPT ![j].at = "ended"]
    /\ \/ UNCHANGED effects
       \/ jobs[j].at = "publish" /\ effects' = [effects EXCEPT ![j] = @ \cup {"publish"}]
    /\ UNCHANGED <<up, strong, seeded, urgeTick, submittedAt, storeVars, falls>>

\* The backlog and the producers' counters go with the process.
Falls ==
    /\ falls < MaxFalls /\ falls' = falls + 1
    /\ up' = FALSE /\ urgeTick' = 0 /\ submittedAt' = [k \in DOMAIN Steps |-> 0]
    /\ jobs' = [j \in DOMAIN jobs |-> [jobs[j] EXCEPT !.at = "ended"]]
    /\ UNCHANGED <<strong, seeded, effects, storeVars>>

ProducersNext ==
    \/ SeedHobby \/ FindHobbies \/ NextTick \/ Falls
    \/ \E c \in Candidates : Submit(c)
    \/ \E j \in DOMAIN jobs : JobBegins(j) \/ DoStep(j) \/ StepRaises(j)

ProducersSpec == ProducersInit /\ [][ProducersNext]_producerVars

-----------------------------------------------------------------------------
(* Properties                                                              *)

Reflections(t) == {j \in DOMAIN jobs : /\ jobs[j].kind = "reflection" /\ jobs[j].subject = t
                                       /\ "memory" \in effects[j]}

\* Wherever jobs fail and the process ends: what a job leaves behind is remembered
\* before it counts (points, todos, interests and moods follow the memory, the memory of
\* a post follows the post), a content is remembered once at most and never without its
\* snapshot, a topic that was noticed has one interest, a producer
\* keeps its distance, and the mood keeps its ranges.
OwnAccordIsSound ==
    /\ \A j \in DOMAIN jobs :
          /\ effects[j] \cap {"reward", "mood", "todo", "interest", "index", "journal"} # {} =>
                "memory" \in effects[j]
          /\ "memory" \in effects[j] /\ jobs[j].kind = "blog" => "publish" \in effects[j]
          /\ jobs[j].kind = "hobby" => seeded > 0
          /\ \A i \in 1..j-1 :
                jobs[i].kind = jobs[j].kind /\ jobs[i].life = jobs[j].life =>
                    jobs[j].tick - jobs[i].tick >= Urges
    /\ \A t \in Subjects :
          /\ Cardinality(Reflections(t)) <= 1
          /\ Reflections(t) # {} => snapshots[t] \in Reflections(t)
          /\ LET noticed == {j \in DOMAIN jobs : jobs[j].subject = t /\ "interest" \in effects[j]}
             IN  IF noticed = {} THEN interests[t] = 0 ELSE interests[t] \in noticed
    /\ mood.valence \in -1..1 /\ mood.arousal \in 0..1

\* The rest is said and not kept.

\* "Also writes an OBSERVATION memory about the reflection"
\* (producers/self_reflection_producer.py:6): a snapshot that is stored keeps its file
\* from being reflected on again, whether or not the memory came.
SnapshotsAreRemembered ==
    \A t \in Subjects : snapshots[t] # 0 /\ JobInHand = {} => Reflections(t) # {}

\* "Top 3 hobbies are inserted" (specs/autonomous-producers.md:112), which a start that
\* was broken off does not do, and no later one makes up for.
HobbiesAreWhole == up => seeded = SeedCount

\* "`strength` (the computed score, normalized 0-1)" (:112): it is a sum of weights.
EveryProfileStarts == ~strong
=============================================================================

----------------------------- MODULE Learnings ------------------------------
(***************************************************************************)
(* What agents learn: from their own turns, and from the reviews of what   *)
(* they wrote. The two share no state.                                     *)
(***************************************************************************)
EXTENDS Integers, Sequences, FiniteSets, FiniteSetsExt, Functions

(***************************************************************************)
(* What turns of agents learn: the learning stores (memory/learnings and   *)
(* persistence/pg_learnings.py), the outcome stores beside them, and the   *)
(* promoter a turn asks at its end.  One agent and one tool; a learning's  *)
(* trigger keys are the words of the text the turn was asked with.         *)
(***************************************************************************)

CONSTANTS
    LearningStoreKinds, \* stores: in memory, PostgreSQL
    LearningOrgs,       \* organisations
    Words,              \* words of the users' texts
    Learners,           \* turns that run at a time
    LearningCap,        \* max_learnings and max_outcomes
    Threshold,          \* hits that make a learning a candidate
    MaxLearnt, MaxOutcomes  \* bounds: rows, outcomes recorded

\* A store keeps a learning at least, and no organisation has the name of none.
ASSUME LearningAssumption ==
    /\ MaxLearnt \in Nat /\ MaxOutcomes \in Nat /\ LearningCap \in Nat \ {0}
    /\ "none" \notin LearningOrgs

VARIABLES
    storeKind,
    learnt,     \* id -> row: its organisation, keys, counts; author: whose text it is
    learntRows, \* ids given
    learner,    \* turn -> its step, organisation, words, what it was shown, what it found
    approvalAsked, \* learnings an approval was requested for
    outcomeLog  \* id -> outcome: organisation, success, whether it is kept

learningVars == <<storeKind, learnt, learntRows, learner, approvalAsked, outcomeLog>>

NoLearning == [status |-> "none", org |-> "none", author |-> "none", keys |-> {},
          hits |-> 0, good |-> 0, bad |-> 0]
NoOutcome == [org |-> "none", success |-> TRUE, kept |-> FALSE]
NoTurn == [at |-> "idle", org |-> "none", words |-> {}, shown |-> {}, match |-> 0]
Active(o) == {n \in 1..learntRows : learnt[n].status = "active" /\ learnt[n].org = o}
LiveLearnings == {n \in 1..learntRows : learnt[n].status = "active"}
Oldest(S) == CHOOSE n \in S : \A m \in S : n <= m
OutcomeRecorded(n) == outcomeLog[n] # NoOutcome

LearningInit ==
    /\ storeKind \in LearningStoreKinds
    /\ learnt = [n \in 1..MaxLearnt |-> NoLearning] /\ learntRows = 0
    /\ learner = [t \in Learners |-> NoTurn]
    /\ approvalAsked = {}
    /\ outcomeLog = [n \in 1..MaxOutcomes |-> NoOutcome]

\* find_relevant(): a key must be among the words.
FindRelevant(o, words) == {n \in Active(o) : learnt[n].keys \cap words # {}}

BeginTurn(t, o, words) ==
    /\ learner[t] = NoTurn
    /\ learner' = [learner EXCEPT ![t] =
                     [at |-> "learn", org |-> o, words |-> words,
                      shown |-> FindRelevant(o, words), match |-> 0]]
    /\ UNCHANGED <<storeKind, learnt, learntRows, approvalAsked, outcomeLog>>

\* Half of the keys in common: of both in memory, of the new ones in PostgreSQL.
X_Same(t) == {n \in LiveLearnings : 2 * Cardinality(learnt[n].keys \cap learner[t].words)
                             >= Cardinality(learnt[n].keys \cup learner[t].words)}
Same(t) ==
    {n \in Active(learner[t].org) :
        2 * Cardinality(learnt[n].keys \cap learner[t].words)
            >= IF storeKind = "memory" THEN Cardinality(learnt[n].keys \cup learner[t].words)
               ELSE Cardinality(learner[t].words)}

Learns(t, at) == learner' = [learner EXCEPT ![t].at = at]
NewRow(t) == [NoLearning EXCEPT !.status = "active", !.org = learner[t].org,
                           !.author = learner[t].org, !.keys = learner[t].words]
Adds(rows, t) ==
    /\ learntRows < MaxLearnt /\ learntRows' = learntRows + 1
    /\ learnt' = [rows EXCEPT ![learntRows'] = NewRow(t)]

\* The tool failed and then succeeded.  In memory the oldest learning that is the
\* same is overwritten and keeps its counts; a full store forgets its oldest.
StoreInMemory(t) ==
    /\ storeKind = "memory" /\ learner[t].at = "learn" /\ Learns(t, "promote")
    /\ IF Same(t) # {}
       THEN /\ learnt' = [learnt EXCEPT ![Oldest(Same(t))].keys = learner[t].words,
                                        ![Oldest(Same(t))].author = learner[t].org]
            /\ UNCHANGED learntRows
       ELSE IF Cardinality(LiveLearnings) >= LearningCap
       THEN Adds([learnt EXCEPT ![Oldest(LiveLearnings)].status = "forgotten"], t)
       ELSE Adds(learnt, t)
    /\ UNCHANGED <<storeKind, approvalAsked, outcomeLog>>

\* In PostgreSQL the rows are read, and one that is the same is hit, or another added.
SelectRows(t) ==
    /\ storeKind = "postgres" /\ learner[t].at = "learn"
    /\ learner' = [learner EXCEPT ![t].at = "write",
                                  ![t].match = IF Same(t) = {} THEN 0 ELSE Oldest(Same(t))]
    /\ UNCHANGED <<storeKind, learnt, learntRows, approvalAsked, outcomeLog>>
WriteRow(t) ==
    /\ learner[t].at = "write" /\ Learns(t, "promote")
    /\ IF learner[t].match = 0 THEN Adds(learnt, t)
       ELSE /\ learnt' = [learnt EXCEPT ![learner[t].match].hits = @ + 1]
            /\ UNCHANGED learntRows
    /\ UNCHANGED <<storeKind, approvalAsked, outcomeLog>>

\* Nothing to learn from its tools.
NoCorrection(t) ==
    /\ learner[t].at = "learn" /\ Learns(t, "promote")
    /\ UNCHANGED <<storeKind, learnt, learntRows, approvalAsked, outcomeLog>>

\* check_and_promote() looks for candidates with find_relevant(""): no word is asked
\* for, so nothing is found, and nothing requested.
PromotionCandidates(o) == {n \in FindRelevant(o, {}) : learnt[n].hits >= Threshold}
AsksPromoter(t) ==
    /\ learner[t].at = "promote" /\ Learns(t, "end")
    /\ approvalAsked' = approvalAsked \cup
          (IF learner[t].shown = {} THEN {} ELSE PromotionCandidates(learner[t].org))
    /\ UNCHANGED <<storeKind, learnt, learntRows, outcomeLog>>

\* The outcome, a full store of them forgetting its oldest, and the feedback to the
\* learnings the turn was shown.
KeptOutcomes == {n \in 1..MaxOutcomes : outcomeLog[n].kept}
X_EndTurn(t, success) ==
    /\ learner[t].at = "end" /\ learner' = [learner EXCEPT ![t] = NoTurn]
    /\ \E n \in 1..MaxOutcomes :
          /\ ~OutcomeRecorded(n) /\ \A m \in 1..n-1 : OutcomeRecorded(m)
          /\ outcomeLog' = [outcomeLog EXCEPT ![n] = [org |-> learner[t].org,
                                                      success |-> success, kept |-> TRUE]]
    /\ learnt' = [n \in 1..MaxLearnt |->
                    IF n \in FindRelevant(learner[t].org, learner[t].words)
                    THEN IF success THEN [learnt[n] EXCEPT !.good = @ + 1]
                         ELSE [learnt[n] EXCEPT !.bad = @ + 1]
                    ELSE learnt[n]]
    /\ UNCHANGED <<storeKind, learntRows, approvalAsked>>
EndTurn(t, success) ==
    /\ learner[t].at = "end" /\ learner' = [learner EXCEPT ![t] = NoTurn]
    /\ \E n \in 1..MaxOutcomes :
          /\ ~OutcomeRecorded(n) /\ \A m \in 1..n-1 : OutcomeRecorded(m)
          /\ outcomeLog' = [m \in 1..MaxOutcomes |->
                IF m = n THEN [org |-> learner[t].org, success |-> success, kept |-> TRUE]
                ELSE IF /\ storeKind = "memory" /\ Cardinality(KeptOutcomes) >= LearningCap
                        /\ m = Oldest(KeptOutcomes)
                THEN [outcomeLog[m] EXCEPT !.kept = FALSE] ELSE outcomeLog[m]]
    /\ learnt' = [n \in 1..MaxLearnt |->
                    IF n \notin learner[t].shown \/ learnt[n].status = "forgotten" THEN learnt[n]
                    ELSE IF success THEN [learnt[n] EXCEPT !.good = @ + 1]
                    ELSE [learnt[n] EXCEPT !.bad = @ + 1]]
    /\ UNCHANGED <<storeKind, learntRows, approvalAsked>>

LearningNext ==
    \E t \in Learners :
        \/ \E o \in LearningOrgs, words \in SUBSET Words \ {{}} : BeginTurn(t, o, words)
        \/ StoreInMemory(t) \/ SelectRows(t) \/ WriteRow(t) \/ NoCorrection(t)
        \/ AsksPromoter(t)
        \/ \E success \in BOOLEAN : EndTurn(t, success)

LearningSpec == LearningInit /\ [][LearningNext]_learningVars

-----------------------------------------------------------------------------
(* Properties                                                              *)

\* What get_task_completion_rate() and get_experience_context() tell an organisation.
Told(o) == {n \in KeptOutcomes : outcomeLog[n].org = o}

\* However turns overlap, overwrite, hit and forget each other's learnings, what an
\* organisation is shown is what its own turns wrote, its counts are of its own
\* turns, one for each learning shown, and the store in memory holds no more than
\* its cap.
LearningsStayHome ==
    /\ \A n \in 1..learntRows :
          /\ learnt[n].author = learnt[n].org
          /\ learnt[n].good <= Cardinality({m \in 1..MaxOutcomes :
                outcomeLog[m].org = learnt[n].org /\ outcomeLog[m].success})
          /\ learnt[n].bad <= Cardinality({m \in 1..MaxOutcomes :
                outcomeLog[m].org = learnt[n].org /\ ~outcomeLog[m].success})
    /\ \A t \in Learners : \A n \in learner[t].shown :
          learnt[n].org = learner[t].org
    /\ storeKind = "memory" =>
          /\ Cardinality(LiveLearnings) <= LearningCap
          /\ Cardinality(KeptOutcomes) <= LearningCap

\* The rest is said and not kept.

\* "Store a learning, dedup against existing within same org"
\* (memory/learnings/store.py:38): a learning overwritten with other keys may become
\* what another is; and two turns that store to PostgreSQL at a time both add.
NoTwins ==
    \A o \in LearningOrgs : \A m, n \in Active(o) :
        learnt[m].keys = learnt[n].keys => m = n

\* "With approval gate: creates approval requests" (memory/learnings/promoter.py:48):
\* after a turn that was shown a learning there is one for every candidate.
CandidatesAreAsked ==
    [][\A t \in Learners : learner[t].at = "promote" /\ learner'[t].at = "end"
                           /\ learner[t].shown # {}
         => \A n \in Active(learner[t].org) :
               learnt[n].hits >= Threshold => n \in approvalAsked']_learningVars

\* "ensuring multi-tenant isolation at the data layer" (memory/learnings/store.py:26):
\* a full store forgets the oldest learning of any organisation.
OthersDoNotForget ==
    [][\A n \in 1..MaxLearnt : learnt[n].status = "active" /\ learnt'[n].status = "forgotten"
         => \E t \in Learners :
               learner[t].org = learnt[n].org /\ learner'[t] # learner[t]]_learningVars

-----------------------------------------------------------------------------
(***************************************************************************)
(* What the reviews of pull requests teach (agents/feedback, called by the *)
(* rlhf_feedback trigger of triggers.py): the tracker counts a review, and *)
(* its findings are stored one by one as learnings of the author.  In      *)
(* memory nothing comes between; in PostgreSQL each finding is looked up   *)
(* and written with an await between, and reviews overlap.                 *)
(***************************************************************************)

CONSTANTS
    Authors,        \* agents whose pull requests are reviewed
    Categories,     \* violation categories; the trigger keys are those of the category
    LowerKeys,      \* those with a key that has no capital letter
    MaxReviews,     \* bound: reviews
    MaxFindings     \* bound: findings of a review

ASSUME ReviewAssumption == IsFiniteSet(Categories)

VARIABLES
    lessonStore,    \* "memory" or "postgres"
    reviews,        \* sequence of [author, findings, at, seen (the row found), stored, how]
    metrics,        \* author -> [prs, total, counts, history], the tracker's
    counters,       \* author -> category -> findings
    lessons         \* the rows: [author, category, text (review and finding), hits]

reviewVars == <<lessonStore, reviews, metrics, counters, lessons>>

FindingLists == UNION {[1 .. n -> Categories] : n \in 0 .. MaxFindings}
SumOf(seq) == SumFunction(seq)
Found(seq, c) == Cardinality({k \in DOMAIN seq : seq[k] = c})
Running == {r \in DOMAIN reviews : reviews[r].how = "runs"}

ReviewInit ==
    /\ lessonStore \in {"memory", "postgres"} /\ reviews = <<>> /\ lessons = <<>>
    /\ metrics = [a \in Authors |-> [prs |-> 0, total |-> 0, counts |-> [c \in Categories |-> 0],
                                     history |-> <<>>]]
    /\ counters = [a \in Authors |-> [c \in Categories |-> 0]]

\* record_finding(), for each finding of a review, and record_review()
X_RecordFindings(m, findings) ==
    [m EXCEPT !.total = @ + Len(findings),
              !.counts = [c \in Categories |-> @[c] + (IF Found(findings, c) > 0 THEN 1 ELSE 0)]]
RecordFindings(m, findings) ==
    [m EXCEPT !.total = @ + Len(findings),
              !.counts = [c \in Categories |-> @[c] + Found(findings, c)]]
RecordReview(a, findings) ==
    /\ metrics' = [metrics EXCEPT ![a] = [RecordFindings(metrics[a], findings) EXCEPT
                       !.prs = @ + 1, !.history = Append(@, Len(findings))]]
    /\ counters' = [counters EXCEPT ![a] = [c \in Categories |-> @[c] + Found(findings, c)]]

\* process_review() begins; one that is stored in memory is over before the next.
ProcessReview(a, findings) ==
    /\ Len(reviews) < MaxReviews /\ (lessonStore = "memory" => Running = {})
    /\ RecordReview(a, findings)
    /\ reviews' = Append(reviews, [author |-> a, findings |-> findings, at |-> 1, seen |-> 0,
                       stored |-> 0, how |-> IF findings = <<>> THEN "ended" ELSE "runs"])
    /\ UNCHANGED <<lessonStore, lessons>>

\* The learning of the finding a review is at.
LessonOf(r) == [author |-> reviews[r].author, category |-> reviews[r].findings[reviews[r].at],
                text |-> <<r, reviews[r].at>>, hits |-> 0]
Stored(r) ==
    LET v == reviews[r] IN
    reviews' = [reviews EXCEPT ![r] = [v EXCEPT
        !.at = @ + 1, !.stored = @ + 1, !.seen = 0,
        !.how = IF v.at = Len(v.findings) THEN "ended" ELSE "runs"]]

\* The store in memory: keys that overlap by half are those of one category, and the
\* lesson of the same author is overwritten.
X_KeepInMemory(r) ==
    /\ lessonStore = "memory" /\ r \in Running
    /\ LET same == {k \in DOMAIN lessons : lessons[k].category = LessonOf(r).category}
       IN  lessons' = IF same = {} THEN Append(lessons, LessonOf(r))
                      ELSE [lessons EXCEPT ![Min(same)].text = LessonOf(r).text]
    /\ Stored(r) /\ UNCHANGED <<lessonStore, metrics, counters>>
KeepInMemory(r) ==
    /\ lessonStore = "memory" /\ r \in Running
    /\ LET same == {k \in DOMAIN lessons : lessons[k].category = LessonOf(r).category
                                           /\ lessons[k].author = LessonOf(r).author}
       IN  lessons' = IF same = {} THEN Append(lessons, LessonOf(r))
                      ELSE [lessons EXCEPT ![Min(same)].text = LessonOf(r).text]
    /\ Stored(r) /\ UNCHANGED <<lessonStore, metrics, counters>>

\* PostgreSQL: the row that is found, whoever's it is, is counted once more ...
LookUp(r) ==
    /\ lessonStore = "postgres" /\ r \in Running /\ reviews[r].seen = 0
    /\ LET same == {k \in DOMAIN lessons : lessons[k].category = LessonOf(r).category}
       IN  reviews' = [reviews EXCEPT ![r].seen = IF same = {} THEN -1 ELSE Min(same)]
    /\ UNCHANGED <<lessonStore, metrics, counters, lessons>>
\* ... and without one a row is inserted.
WriteLesson(r) ==
    /\ lessonStore = "postgres" /\ r \in Running /\ reviews[r].seen # 0
    /\ lessons' = IF reviews[r].seen = -1 THEN Append(lessons, LessonOf(r))
                  ELSE [lessons EXCEPT ![reviews[r].seen].hits = @ + 1]
    /\ Stored(r) /\ UNCHANGED <<lessonStore, metrics, counters>>

\* A failing store ends the review; nothing is retried or taken back.
StoreFails(r) ==
    /\ lessonStore = "postgres" /\ r \in Running
    /\ reviews' = [reviews EXCEPT ![r].how = "failed"]
    /\ UNCHANGED <<lessonStore, metrics, counters, lessons>>

ReviewNext ==
    \/ \E a \in Authors, f \in FindingLists : ProcessReview(a, f)
    \/ \E r \in Running : KeepInMemory(r) \/ LookUp(r) \/ WriteLesson(r) \/ StoreFails(r)

ReviewSpec == ReviewInit /\ [][ReviewNext]_reviewVars

-----------------------------------------------------------------------------
\* ViolationMetrics.trend: the last three reviews against the three before them, or
\* against the first three.
X_Older(h) == SubSeq(h, 1, 3)
Older(h) == IF Len(h) >= 6 THEN SubSeq(h, Len(h) - 5, Len(h) - 3) ELSE SubSeq(h, 1, 3)
Trend(h) ==
    IF Len(h) < 3 THEN "insufficient_data"
    ELSE LET delta == SumOf(SubSeq(h, Len(h) - 2, Len(h))) - SumOf(Older(h))
         IN  IF 2 * delta < -3 THEN "improving"
             ELSE IF 2 * delta > 3 THEN "regressing" ELSE "stable"

\* find_relevant(), as the store in memory answers a caller: the keys are compared as they
\* are with a text in small letters, and a lesson without an organisation is only for
\* callers that have none.
Taught(lesson, callerOrg) == callerOrg = "" /\ lesson.category \in LowerKeys

-----------------------------------------------------------------------------
\* The tracker's four counts agree whenever reviews overlap or fail, and with what was reviewed.
MetricsAddUp ==
    \A a \in Authors :
        LET m == metrics[a]
            own == {r \in DOMAIN reviews : reviews[r].author = a}
        IN  /\ m.total = SumOf(m.history) /\ m.total = SumOf(m.counts) /\ m.counts = counters[a]
            /\ m.prs = Len(m.history) /\ m.prs = Cardinality(own)

\* In memory an author has one lesson of a category, from the latest of the findings; in
\* either store a lesson says what its author was told, and every finding dealt with is in
\* a lesson of its category.
FindingsBecomeLessons ==
    /\ \A l \in DOMAIN lessons :
           LET r == lessons[l].text[1]  k == lessons[l].text[2] IN
           reviews[r].author = lessons[l].author /\ reviews[r].findings[k] = lessons[l].category
    /\ \A r \in DOMAIN reviews : \A k \in 1 .. reviews[r].at - 1 :
           \E l \in DOMAIN lessons : lessons[l].category = reviews[r].findings[k]
    /\ lessonStore = "memory" =>
        \A l \in DOMAIN lessons :
            /\ \A j \in DOMAIN lessons :
                   lessons[j].author = lessons[l].author
                       /\ lessons[j].category = lessons[l].category => j = l
            /\ \A r \in DOMAIN reviews : \A k \in 1 .. reviews[r].at - 1 :
                   reviews[r].author = lessons[l].author
                       /\ reviews[r].findings[k] = lessons[l].category =>
                   r < lessons[l].text[1] \/ (r = lessons[l].text[1] /\ k <= lessons[l].text[2])

\* Fewer findings than in the reviews before are never called a regress, nor more an
\* improvement, and findings that stay the same for three reviews are stable after six.
TrendIsFair ==
    \A n \in 3 .. 7 : \A h \in [1 .. n -> {0, 2}] :
        /\ (\A k \in 1 .. n - 1 : h[k + 1] <= h[k]) => Trend(h) # "regressing"
        /\ (\A k \in 1 .. n - 1 : h[k + 1] >= h[k]) => Trend(h) # "improving"
        /\ n > 6 /\ (\A k \in n - 5 .. n : h[k] = h[n]) => Trend(h) = "stable"

ReviewsTeach == MetricsAddUp /\ FindingsBecomeLessons /\ TrendIsFair

-----------------------------------------------------------------------------
\* Stated, and not so.
\* agents/feedback/extractor.py:4 "Each ReviewFinding becomes a Learning": a second
\* finding of the category overwrites the first, or is only counted.
EachFindingTeaches ==
    \A r \in DOMAIN reviews : \A k \in 1 .. reviews[r].at - 1 :
        \E l \in DOMAIN lessons : lessons[l].text = <<r, k>>

\* extractor.py:5 "scoped to the authoring agent": not in PostgreSQL.
AuthorsAreTaught ==
    \A r \in DOMAIN reviews : \A k \in 1 .. reviews[r].at - 1 :
        \E l \in DOMAIN lessons : lessons[l].category = reviews[r].findings[k]
                                  /\ lessons[l].author = reviews[r].author

\* agents/feedback/loop.py:43 "Returns the number of learnings stored": of the findings.
StoredAreCounted ==
    \A r \in DOMAIN reviews : reviews[r].stored
        <= Cardinality({l \in DOMAIN lessons : lessons[l].text[1] = r})

\* agents/feedback/loop.py:5 "connects the Auditor's output to Mason's input": lessons have
\* no organisation, and Mason's requests have one.
MasonLearns == \A l \in DOMAIN lessons : Taught(lessons[l], "__system__")
\* ... and of some categories every key has a capital letter.
EveryCategoryTeaches == \A l \in DOMAIN lessons : Taught(lessons[l], "")

\* agents/feedback/tracker.py:4 "measure whether the RLHF loop is working": three reviews
\* are compared with themselves.
ThreeShowATrend == Trend(<<9, 5, 1>>) = "improving"
=============================================================================

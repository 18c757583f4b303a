--------------------------- MODULE MemoryWriters ----------------------------
(***************************************************************************)
(* Who writes Project Turing's memories: the writers that make one         *)
(* supersede another, and the dreams that make wisdom of them. The two     *)
(* share no state here.                                                    *)
(***************************************************************************)
EXTENDS Naturals, Sequences, FiniteSets, FiniteSetsExt, SequencesExt

(***************************************************************************)
(* How Project Turing's memories come to supersede each other: the writers *)
(* of write_paths.py, the contradiction detector and the coefficient tuner *)
(* over repo.py, where every insert and every mark commits by itself.  All *)
(* of them run on the reactor's thread, so a writer is interrupted only by *)
(* the end of the process, which takes the detector's state with it.       *)
(***************************************************************************)

CONSTANTS
    MaxMemories,    \* bound: memories
    MaxOf,          \* bound: memories of the tiers others write
    MaxCrashes      \* bound: ends of the process

VARIABLES
    store,      \* the memories, in the order they were created
    writer,     \* what the writer at work has still to mark: <<memory, successor>>
    index,      \* the detector's family index
    scanned,    \* _last_scan_at: the newest memory scanned
    submitted,  \* _submitted_keys
    triples,    \* raso_contradiction candidates in the backlog
    drafts,     \* the detector's futures
    crashes,    \* ends of the process so far
    torn        \* memories whose writer did not come to its end

detectorVars == <<index, scanned, submitted, triples, drafts>>
lineageVars == <<store, writer, detectorVars, crashes, torn>>

\* One intent is enough.  Claims are durable affirmations on one side of it,
\* observations support a side, commitments set one coefficient.
Sides == {"for", "against"}
Values == {"low", "high"}
Memory(tier, content, lineage) ==
    [tier |-> tier, content |-> content, lineage |-> lineage, by |-> 0, contradicted |-> 0]

Ids == DOMAIN store
IdsOf(tier) == { i \in Ids : store[i].tier = tier }
Heads(tier) == { i \in IdsOf(tier) : store[i].by = 0 }
Room == Len(store) < MaxMemories
Idle == writer = <<>>

LineageInit ==
    /\ store = <<>> /\ writer = <<>>
    /\ index = {} /\ scanned = 0 /\ submitted = {} /\ triples = {} /\ drafts = {}
    /\ crashes = 0 /\ torn = {}

-----------------------------------------------------------------------------
(* Writers                                                                  *)

\* A new memory, then the marks of those it supersedes, one commit each.
X_Insert(m, marks) ==
    LET marked == [i \in Ids |-> IF i \in marks THEN [store[i] EXCEPT !.by = Len(store) + 1]
                                                ELSE store[i]]
    IN  store' \in {marked, Append(marked, m)} /\ writer' = <<>>
Insert(m, marks) ==
    LET new == Len(store) + 1
    IN  /\ store' = Append(store, m)
        /\ writer' = [k \in DOMAIN SetToSeq(marks) |-> <<SetToSeq(marks)[k], new>>]

\* set_superseded_by(), and before it a regret counts the contradiction.
Marked(m, new) ==
    [m EXCEPT !.by = new,
              !.contradicted = m.contradicted + (IF store[new].tier = "regret" THEN 1 ELSE 0)]
Mark ==
    /\ ~Idle
    /\ LET i == Head(writer)[1]
       IN  store[i].by = 0 /\ store' = [store EXCEPT ![i] = Marked(store[i], Head(writer)[2])]
    /\ writer' = Tail(writer)
    /\ UNCHANGED <<detectorVars, crashes, torn>>

\* Stances, claims and observations of the workload and of chat.
Remember(tier, content) ==
    /\ Idle /\ Room /\ Cardinality(IdsOf(tier)) < MaxOf[tier]
    /\ Insert(Memory(tier, content, {}), {})
    /\ UNCHANGED <<detectorVars, crashes, torn>>

\* handle_regret_candidate() for a stance that is not superseded, when the
\* outcome is bad enough.
Regret(i) ==
    /\ Idle /\ Room
    /\ i \in Heads("stance")
    /\ Insert(Memory("regret", "", {i}), {i})
    /\ UNCHANGED <<detectorVars, crashes, torn>>

\* A commitment of the tuner supersedes the newest one that is not superseded,
\* unless it says the same.
Prior == IF Heads("commitment") = {} THEN {} ELSE {Max(Heads("commitment"))}
Tune(v) ==
    /\ Idle /\ Room /\ Cardinality(IdsOf("commitment")) < MaxOf["commitment"]
    /\ \A i \in Prior : store[i].content # v
    /\ Insert(Memory("commitment", v, Prior), Prior)
    /\ UNCHANGED <<detectorVars, crashes, torn>>

-----------------------------------------------------------------------------
(* The contradiction detector                                               *)

Standing(t) == store[t[1]].by = 0 /\ store[t[2]].by = 0
Opposed(i, j) == store[i].content # store[j].content

\* The newest observation after both claims.
Resolutions(i, j) == { c \in IdsOf("observation") : c > i /\ c > j }

\* on_tick(): of the claims that are new since the last scan, those that oppose
\* a known claim, where both still stand and an observation has resolved it.
Found ==
    LET new == { i \in IdsOf("claim") : i > scanned }
    IN  { <<p[1], p[2], Max(Resolutions(p[1], p[2]))>> :
            p \in { q \in new \X (index \cup new) :
                q[1] > q[2] /\ Standing(q) /\ Opposed(q[1], q[2]) /\ Resolutions(q[1], q[2]) # {} } }

Scan ==
    /\ Idle
    /\ \E i \in IdsOf("claim") : i > scanned
    /\ index' = index \cup IdsOf("claim")
    /\ scanned' = Max(IdsOf("claim"))
    /\ submitted' = submitted \cup Found
    /\ triples' = triples \cup (Found \ submitted)
    /\ UNCHANGED <<store, writer, drafts, crashes, torn>>

DispatchTriple(t) ==
    /\ Idle /\ t \in triples
    /\ triples' = triples \ {t}
    /\ drafts' = IF Standing(t) THEN drafts \cup {t} ELSE drafts
    /\ UNCHANGED <<store, writer, index, scanned, submitted, crashes, torn>>

\* _collect_completed(): a draft whose claims still stand becomes a lesson.
X_Collect(t) ==
    /\ Idle /\ t \in drafts /\ Room
    /\ drafts' = drafts \ {t}
    /\ IF store[t[1]].by = 0
       THEN Insert(Memory("lesson", "", {t[1], t[2]}), {t[1], t[2]} \cap Heads("claim"))
       ELSE UNCHANGED <<store, writer>>
    /\ UNCHANGED <<index, scanned, submitted, triples, crashes, torn>>
Collect(t) ==
    /\ Idle /\ t \in drafts /\ Room
    /\ drafts' = drafts \ {t}
    /\ IF Standing(t)
       THEN Insert(Memory("lesson", "", {t[1], t[2]}), {t[1], t[2]})
       ELSE UNCHANGED <<store, writer>>
    /\ UNCHANGED <<index, scanned, submitted, triples, crashes, torn>>

DraftFails(t) ==
    /\ t \in drafts
    /\ drafts' = drafts \ {t}
    /\ UNCHANGED <<store, writer, index, scanned, submitted, triples, crashes, torn>>

-----------------------------------------------------------------------------
(* The end of the process; what was committed stays                         *)

Crash ==
    /\ crashes < MaxCrashes
    /\ crashes' = crashes + 1
    /\ torn' = torn \cup { writer[k][2] : k \in DOMAIN writer }
    /\ writer' = <<>>
    /\ index' = {} /\ scanned' = 0 /\ submitted' = {} /\ triples' = {} /\ drafts' = {}
    /\ UNCHANGED store

LineageNext ==
    \/ Mark \/ Scan \/ Crash
    \/ Remember("stance", "")
    \/ \E side \in Sides : Remember("claim", side) \/ Remember("observation", side)
    \/ \E i \in Ids : Regret(i)
    \/ \E v \in Values : Tune(v)
    \/ \E t \in triples : DispatchTriple(t)
    \/ \E t \in drafts : Collect(t) \/ DraftFails(t)

LineageSpec == LineageInit /\ [][LineageNext]_lineageVars

-----------------------------------------------------------------------------
(* Properties                                                              *)

\* A memory is marked as superseded only by one that exists and says so, and
\* that is newer: walking forward ends, and leads back (repo.py:192, 202),
\* wherever the process ended.
LineageIsMutual ==
    \A i \in Ids : store[i].by # 0 =>
        store[i].by \in Ids /\ store[i].by > i /\ i \in store[store[i].by].lineage

\* A claim is resolved once: of the lessons that were written to their end, no
\* two supersede the same claim, whatever drafts were in flight together.
ResolvedOnce ==
    \A m, n \in IdsOf("lesson") \ torn :
        m # n => store[m].lineage \cap store[n].lineage = {}

\* from_repo(): the commitments that are not superseded, applied in the order
\* they were made.
X_Effective == store[Min(Heads("commitment"))].content
Effective == store[Max(Heads("commitment"))].content

\* The coefficient in effect is the last one the tuner committed, also when
\* the process ended between a commitment and the mark on its predecessor.
LastCommitmentIsEffective ==
    IdsOf("commitment") # {} => Effective = store[Max(IdsOf("commitment"))].content

\* The lineage is sound wherever the process ended.
LineageIsSound == LineageIsMutual /\ ResolvedOnce /\ LastCommitmentIsEffective

\* "callers compose atomic actions (like minting REGRET + setting
\* superseded_by on the predecessor) at the write-paths layer" (repo.py:35).
RegretsAreAtomic ==
    Idle => \A r \in IdsOf("regret") : \A i \in store[r].lineage : store[i].by = r

\* "When two durable memories ... hold opposing claims AND a later I_DID
\* OBSERVATION supports one side, submits a P14 candidate": once the scan has
\* passed both, and while they stand, the pair is known to have been submitted.
ResolvedPairsSubmitted ==
    \A i, j \in index :
        i > j /\ Opposed(i, j) /\ Standing(<<i, j>>) /\ Resolutions(i, j) # {} =>
            \E t \in submitted : t[1] = i /\ t[2] = j

-----------------------------------------------------------------------------
(***************************************************************************)
(* Project Turing's dream sessions, dreaming.py: once a day, on the        *)
(* reactor's thread, the only writer of WISDOM.  Every insert commits by   *)
(* itself, may raise, and may be the last before the process ends.         *)
(***************************************************************************)

CONSTANTS
    Intents,
    MinNewDurable,      \* DREAM_MIN_NEW_DURABLE
    WisdomN,            \* DREAM_WISDOM_N
    PolarityPercent,    \* the share that makes a polarity, 80 in the code
    MaxCandidates,      \* DREAM_MAX_WISDOM_CANDIDATES
    MaxDurable,         \* bound: memories of one intent and tier
    MaxNights           \* bound: times the schedule comes round

ASSUME DreamerAssumption == IsFiniteSet(Intents) /\ MaxCandidates \in Nat

VARIABLES
    standing,   \* intent -> its regrets, accomplishments and lessons not superseded
    fresh,      \* what _count_durable_since(_last_session_at) returns, at most MinNewDurable
    unslept,    \* durable memories since the last session that ran, likewise
    rows,       \* durable memories there are, likewise
    dream,      \* where the session is; "stuck": none runs, but _running is set
    todo,       \* candidates the session has still to deal with
    affirm,     \* affirmations it has still to propose
    committed,  \* what it has committed
    wisdom,     \* WISDOM: intent and polarity
    marker,     \* the last final marker: the commits it tells of, the commits there were
    nights      \* nights so far

sessionVars == <<dream, todo, affirm, committed>>
countVars == <<fresh, unslept, rows>>
dreamerVars == <<standing, countVars, sessionVars, wisdom, marker, nights>>

Tiers == {"regret", "accomplishment", "lesson"}
Polarities == {"regret", "accomplishment"}

DreamerInit ==
    /\ standing = [i \in Intents |-> [t \in Tiers |-> 0]]
    /\ fresh = 0 /\ unslept = 0 /\ rows = 0
    /\ dream = "idle" /\ todo = <<>> /\ affirm = 0 /\ committed = 0
    /\ wisdom = {} /\ marker = [told |-> 0, were |-> 0] /\ nights = 0

More(n) == IF n = MinNewDurable THEN n ELSE n + 1

\* The other writers, between sessions: a durable memory (lessons are kept
\* elsewhere), or one that is superseded.
Experience(i, t) ==
    /\ dream \in {"idle", "stuck"} /\ standing[i][t] < MaxDurable
    /\ standing' = [standing EXCEPT ![i][t] = @ + 1]
    /\ IF t = "lesson" THEN UNCHANGED countVars
       ELSE fresh' = More(fresh) /\ unslept' = More(unslept) /\ rows' = More(rows)
    /\ UNCHANGED <<sessionVars, wisdom, marker, nights>>

Superseded(i, t) ==
    /\ dream \in {"idle", "stuck"} /\ standing[i][t] > 0
    /\ standing' = [standing EXCEPT ![i][t] = @ - 1]
    /\ UNCHANGED <<countVars, sessionVars, wisdom, marker, nights>>

-----------------------------------------------------------------------------
(* The schedule                                                             *)

Night == dream = "idle" /\ nights < MaxNights /\ nights' = nights + 1

\* Too little is new: no session, but the count starts again.
Skip ==
    /\ Night /\ fresh < MinNewDurable
    /\ fresh' = 0
    /\ UNCHANGED <<standing, unslept, rows, sessionVars, wisdom, marker>>

OpenSession ==
    /\ Night /\ fresh >= MinNewDurable
    /\ dream' = "patterns"
    /\ UNCHANGED <<standing, countVars, todo, affirm, committed, wisdom, marker>>

\* The first marker cannot be written: _running stays set.
NoMarker ==
    /\ Night /\ fresh >= MinNewDurable
    /\ dream' = "stuck"
    /\ UNCHANGED <<standing, countVars, todo, affirm, committed, wisdom, marker>>

-----------------------------------------------------------------------------
(* The phases                                                               *)

Total(i) == standing[i]["regret"] + standing[i]["accomplishment"] + standing[i]["lesson"]
HasPolarity(i, p) ==
    Total(i) >= WisdomN /\ 100 * standing[i][p] >= PolarityPercent * Total(i)
Patterns == { c \in Intents \X Polarities : HasPolarity(c[1], c[2]) }
Firsts(s) == SubSeq(s, 1, IF Len(s) < MaxCandidates THEN Len(s) ELSE MaxCandidates)

\* Phases 1 to 3: the patterns in some order, the first of them as candidates,
\* an affirmation for every pattern of success.
FindPatterns ==
    /\ dream = "patterns"
    /\ \E s \in SetToSeqs(Patterns) : todo' = Firsts(s)
    /\ affirm' = Cardinality({ c \in Patterns : c[2] = "accomplishment" })
    /\ dream' = "phases"
    /\ UNCHANGED <<standing, countVars, committed, wisdom, marker, nights>>

Affirm ==
    /\ dream = "phases" /\ affirm > 0
    /\ affirm' = affirm - 1
    /\ rows' = More(rows)
    /\ UNCHANGED <<standing, fresh, unslept, dream, todo, committed, wisdom, marker, nights>>

\* Phase 6: a candidate that contradicts the wisdom there is, is rejected.
X_Rejected(c) == FALSE
Rejected(c) == \E w \in wisdom : w[1] = c[1] /\ w[2] # c[2]

Review ==
    /\ dream = "phases" /\ affirm = 0 /\ todo # <<>>
    /\ LET c == Head(todo)
       IN  IF Rejected(c)
           THEN UNCHANGED <<wisdom, committed, rows>>
           ELSE /\ wisdom' = wisdom \cup {c}
                /\ committed' = committed + 1
                /\ rows' = More(rows)
    /\ todo' = Tail(todo)
    /\ UNCHANGED <<standing, fresh, unslept, dream, affirm, marker, nights>>

\* The final marker; what was written during the session is not new afterwards.
Close(told) ==
    /\ marker' = [told |-> told, were |-> committed]
    /\ dream' = "idle" /\ todo' = <<>> /\ affirm' = 0 /\ committed' = 0
    /\ fresh' = 0 /\ unslept' = 0
    /\ UNCHANGED <<standing, rows, wisdom, nights>>

Finish == dream = "phases" /\ affirm = 0 /\ todo = <<>> /\ Close(committed)

\* An insert raises: the session is closed as if it had committed nothing.
PhaseFails == dream \in {"patterns", "phases"} /\ Close(0)

\* The final marker cannot be written.
NoFinalMarker ==
    /\ dream \in {"patterns", "phases"}
    /\ dream' = "stuck" /\ todo' = <<>> /\ affirm' = 0 /\ committed' = 0
    /\ UNCHANGED <<standing, countVars, wisdom, marker, nights>>

\* The process ends and starts again, which forgets the last session: every
\* durable memory counts as new.
Restart ==
    /\ dream' = "idle" /\ todo' = <<>> /\ affirm' = 0 /\ committed' = 0
    /\ fresh' = rows
    /\ UNCHANGED <<standing, unslept, rows, wisdom, marker, nights>>

DreamerNext ==
    \/ \E i \in Intents, t \in Tiers : Experience(i, t) \/ Superseded(i, t)
    \/ Skip \/ OpenSession \/ NoMarker
    \/ FindPatterns \/ Affirm \/ Review \/ Finish \/ PhaseFails \/ NoFinalMarker
    \/ Restart

DreamerSpec == DreamerInit /\ [][DreamerNext]_dreamerVars

-----------------------------------------------------------------------------
(* Properties                                                              *)

\* WISDOM never contradicts WISDOM: however experience turns after a session,
\* whatever failed in it and however often the process was restarted, no intent
\* is held to succeed and to fail reliably.
NoContradictingWisdom ==
    \A v, w \in wisdom : v[1] = w[1] => v = w

\* "A session that crashes or times out ... writes a partial-session marker"
\* recording the committed candidates (dreaming.py:11, specs/dreaming.md:37).
MarkersTellCommits == marker.told = marker.were

\* "A session is skipped if fewer than DREAM_MIN_NEW_DURABLE ... durable
\* memories have been added since the last session" (specs/dreaming.md:23).
SkipsOnlyWhenLittleIsNew == [][Skip => unslept < MinNewDurable]_dreamerVars
=============================================================================

---------------------------- MODULE SelfBootstrap ----------------------------
(***************************************************************************)
(* The bootstrap of a self, self_bootstrap.py and bootstrap_cli.py: the    *)
(* item bank, the facets, one answer per item and the mood, written row by *)
(* row by command-line processes that an operator starts, that may end at  *)
(* any point and that may run at the same time.  Every insert commits by   *)
(* itself; what keeps processes apart are the keys of the tables.          *)
(***************************************************************************)
EXTENDS Naturals

CONSTANTS
    Installers,     \* the processes
    BankSize,       \* items of the bank, 200 in the code
    FacetCount,     \* facets of the profile, 24 in the code
    MaxLaunches     \* bound: times the command is started

ASSUME BootstrapAssumption == BankSize \in Nat /\ FacetCount \in Nat

VARIABLES
    itemRows,       \* items inserted
    facetRows,      \* facets inserted
    answerRows,     \* item -> answers there are
    checkpoint,     \* last_item_number, or NoRow
    moodRow,        \* the self has a mood: it was finalized
    narrative,      \* its first working memory was seeded
    boot,           \* process -> what it does, the item it is at, whether it resumes
    launches,
    resumed         \* some process was started with --resume

bootRows == <<itemRows, facetRows, answerRows, checkpoint, moodRow, narrative>>
bootstrapVars == <<bootRows, boot, launches, resumed>>

BankItems == 1..BankSize
NoRow == BankSize + 1

Ended == [does |-> "none", at |-> 0, resumes |-> FALSE]

BootstrapInit ==
    /\ itemRows = 0 /\ facetRows = 0 /\ answerRows = [i \in BankItems |-> 0]
    /\ checkpoint = NoRow /\ moodRow = FALSE /\ narrative = FALSE
    /\ boot = [p \in Installers |-> Ended]
    /\ launches = 0 /\ resumed = FALSE

Goes(p, what, n) == boot' = [boot EXCEPT ![p].does = what, ![p].at = n]
Exits(p) == boot' = [boot EXCEPT ![p] = Ended] /\ UNCHANGED bootRows

Started(p, resume) ==
    /\ boot[p].does = "none" /\ launches < MaxLaunches
    /\ launches' = launches + 1
    /\ resumed' = (resumed \/ resume)
    /\ UNCHANGED bootRows

\* Of a self with facets, answers or a mood: AlreadyBootstrapped.
Bootstrapped == facetRows > 0 \/ (\E i \in BankItems : answerRows[i] > 0) \/ moodRow

RunAfresh(p) ==
    /\ Started(p, FALSE)
    /\ boot' = [boot EXCEPT ![p] =
                  IF Bootstrapped THEN Ended
                  ELSE [does |-> "progress", at |-> 0, resumes |-> FALSE]]

\* --resume: from the item after the checkpoint; without one, nothing to resume.
X_Resume(p) ==
    /\ Started(p, TRUE)
    /\ boot' = [boot EXCEPT ![p] =
                  IF checkpoint = NoRow THEN Ended
                  ELSE [does |-> "items", at |-> checkpoint + 2, resumes |-> TRUE]]
Resume(p) ==
    /\ Started(p, TRUE)
    /\ boot' = [boot EXCEPT ![p] =
                  IF checkpoint = NoRow THEN Ended
                  ELSE [does |-> "items", at |-> checkpoint + 1, resumes |-> TRUE]]

\* One row per self: a second insert fails.
StartProgress(p) ==
    /\ boot[p].does = "progress"
    /\ IF checkpoint = NoRow
       THEN /\ checkpoint' = 0
            /\ Goes(p, "items", 1)
            /\ UNCHANGED <<itemRows, facetRows, answerRows, moodRow, narrative>>
       ELSE Exits(p)
    /\ UNCHANGED <<launches, resumed>>

\* A bank that is loaded in part is refused.
CheckItems(p) ==
    /\ boot[p].does = "items"
    /\ \/ itemRows = BankSize
          /\ Goes(p, IF boot[p].resumes THEN "answers" ELSE "facets", boot[p].at)
          /\ UNCHANGED bootRows
       \/ itemRows \notin {0, BankSize} /\ Exits(p)
       \/ itemRows = 0 /\ Goes(p, "loading", boot[p].at) /\ UNCHANGED bootRows
    /\ UNCHANGED <<launches, resumed>>

\* A process that began with an empty bank inserts its items in order; an item
\* that another process inserted meanwhile fails.
InsertItem(p, n) ==
    /\ boot[p].does = "loading"
    /\ IF n = itemRows + 1
       THEN /\ itemRows' = n
            /\ IF n < BankSize THEN UNCHANGED boot
               ELSE Goes(p, IF boot[p].resumes THEN "answers" ELSE "facets", boot[p].at)
            /\ UNCHANGED <<facetRows, answerRows, checkpoint, moodRow, narrative>>
       ELSE Exits(p)
    /\ UNCHANGED <<launches, resumed>>

InsertFacet(p) ==
    /\ boot[p].does = "facets"
    /\ IF facetRows < FacetCount
       THEN /\ facetRows' = facetRows + 1
            /\ IF facetRows' < FacetCount THEN UNCHANGED boot ELSE Goes(p, "answers", 1)
            /\ UNCHANGED <<itemRows, answerRows, checkpoint, moodRow, narrative>>
       ELSE Exits(p)
    /\ UNCHANGED <<launches, resumed>>

\* The model answers an item and the answer is stored ...
InsertAnswer(p) ==
    /\ boot[p].does = "answers" /\ boot[p].at \in BankItems
    /\ answerRows' = [answerRows EXCEPT ![boot[p].at] = @ + 1]
    /\ Goes(p, "answered", boot[p].at)
    /\ UNCHANGED <<itemRows, facetRows, checkpoint, moodRow, narrative, launches, resumed>>

\* ... and then the checkpoint (if it is still there).
X_UpdateProgress(p) ==
    /\ boot[p].does = "answered"
    /\ checkpoint' = IF checkpoint = NoRow THEN NoRow ELSE BankSize
    /\ Goes(p, "answers", boot[p].at + 1)
    /\ UNCHANGED <<itemRows, facetRows, answerRows, moodRow, narrative, launches, resumed>>
UpdateProgress(p) ==
    /\ boot[p].does = "answered"
    /\ checkpoint' = IF checkpoint = NoRow THEN NoRow ELSE boot[p].at
    /\ Goes(p, "answers", boot[p].at + 1)
    /\ UNCHANGED <<itemRows, facetRows, answerRows, moodRow, narrative, launches, resumed>>

\* The third attempt at an answer fails too.
NoAnswer(p) ==
    /\ boot[p].does = "answers" /\ boot[p].at \in BankItems
    /\ Exits(p) /\ UNCHANGED <<launches, resumed>>

\* finalize(): the mood, of which there is one per self ...
InsertMood(p) ==
    /\ boot[p].does = "answers" /\ boot[p].at > BankSize
    /\ IF moodRow
       THEN Exits(p)
       ELSE /\ moodRow' = TRUE
            /\ Goes(p, "mood", 0)
            /\ UNCHANGED <<itemRows, facetRows, answerRows, checkpoint, narrative>>
    /\ UNCHANGED <<launches, resumed>>

\* ... and the end of the checkpoint.
DeleteProgress(p) ==
    /\ boot[p].does = "mood"
    /\ checkpoint' = NoRow
    /\ Goes(p, "narrative", 0)
    /\ UNCHANGED <<itemRows, facetRows, answerRows, moodRow, narrative, launches, resumed>>

\* The first notes about itself, if the model answers.
SeedNarrative(p, replies) ==
    /\ boot[p].does = "narrative"
    /\ narrative' = (narrative \/ replies)
    /\ Goes(p, "none", 0)
    /\ UNCHANGED <<itemRows, facetRows, answerRows, checkpoint, moodRow, launches, resumed>>

\* The process ends.
Killed(p) ==
    /\ boot[p].does # "none"
    /\ Exits(p) /\ UNCHANGED <<launches, resumed>>

BootstrapNext ==
    \E p \in Installers :
        \/ RunAfresh(p) \/ Resume(p) \/ StartProgress(p) \/ CheckItems(p)
        \/ \E n \in BankItems : InsertItem(p, n)
        \/ InsertFacet(p)
        \/ InsertAnswer(p) \/ UpdateProgress(p) \/ NoAnswer(p)
        \/ InsertMood(p) \/ DeleteProgress(p)
        \/ \E replies \in BOOLEAN : SeedNarrative(p, replies)
        \/ Killed(p)

BootstrapSpec == BootstrapInit /\ [][BootstrapNext]_bootstrapVars

-----------------------------------------------------------------------------
(* Properties                                                              *)

\* The checkpoint never runs ahead of the answers, whoever moved it and wherever
\* a process ended: a resumed bootstrap skips no item.
CheckpointIsEarned ==
    checkpoint # NoRow => \A i \in 1..checkpoint : answerRows[i] > 0

\* A self with a mood has answered every item, and a self that nobody resumed
\* has all its facets and answered no item twice.
FinishedIsComplete ==
    /\ moodRow => \A i \in BankItems : answerRows[i] > 0
    /\ ~resumed => /\ moodRow => facetRows = FacetCount
                   /\ \A i \in BankItems : answerRows[i] <= 1

\* A bootstrap leaves a complete self behind or can be seen not to have.
BootstrapIsSound == CheckpointIsEarned /\ FinishedIsComplete

\* "a run aborted at item 87, then resumed, produces 200 total answers"
\* (specs/self-bootstrap.md:52): an item is not asked again.
AnsweredAtMostOnce == \A i \in BankItems : answerRows[i] <= 1

\* "Write 24 PersonalityFacet rows in a single transaction"
\* (specs/self-bootstrap.md:45): whoever is finished has them all.
FinishedHasFacets == moodRow => facetRows = FacetCount
=============================================================================

----------------------------- MODULE SelfProofs -----------------------------
(***************************************************************************)
(* The self of Project Turing for any items, requests, questionnaires,     *)
(* skills and passions: its bootstrap (SelfBootstrap), the conduit it is   *)
(* to its requests (SelfConduit), what its producers do of their own       *)
(* accord (OwnAccord), the desk of the chat server (TuringChat), the nodes *)
(* its tools write and the skills it practises (SelfGrowth).  Each theorem *)
(* is about its part's own specification, the last about the parts         *)
(* together.                                                               *)
(***************************************************************************)
EXTENDS MCTuring, SetLemmas, SequenceTheorems

-----------------------------------------------------------------------------
(* The bootstrap                                                            *)

BootDoings == {"none", "progress", "items", "loading", "facets", "answers", "answered", "mood",
           "narrative"}
BootTypeOK ==
    /\ facetRows \in 0..FacetCount
    /\ answerRows \in [BankItems -> Nat]
    /\ checkpoint \in 0..NoRow
    /\ moodRow \in BOOLEAN /\ resumed \in BOOLEAN
    /\ boot \in [Installers -> [does : BootDoings, at : 0..NoRow, resumes : BOOLEAN]]

\* Every item before n has an answer.
AnsweredBefore(n) == \A i \in BankItems : i < n => answerRows[i] > 0

\* A process is at an item only after every one before it was answered.
ProcessesSkipNothing ==
    \A p \in Installers :
        /\ boot[p].does \in {"items", "loading", "facets", "answers"} =>
              AnsweredBefore(boot[p].at)
        /\ boot[p].does = "answered" =>
              boot[p].at \in BankItems /\ AnsweredBefore(boot[p].at + 1)

RowsSkipNothing ==
    /\ checkpoint # NoRow => AnsweredBefore(checkpoint + 1)
    /\ moodRow => AnsweredBefore(NoRow)

\* Between its checkpoint and the end of it a process is alone, unless one resumes.
AtWork(p) == boot[p].does \in {"items", "loading", "facets", "answers", "answered", "mood"}
OneAtWork ==
    /\ \A p \in Installers : ~boot[p].resumes
    /\ \A p, q \in Installers : AtWork(p) /\ AtWork(q) => p = q
    /\ \A p \in Installers : AtWork(p) => checkpoint # NoRow

\* So the facets come before the answers, and the answers in their order.
FacetsComeFirst ==
    /\ moodRow => facetRows = FacetCount
    /\ \A p \in Installers :
          boot[p].does \in {"answers", "answered", "mood"} => facetRows = FacetCount
    /\ facetRows # FacetCount => \A i \in BankItems : answerRows[i] = 0

AnswersComeOnce ==
    /\ \A i \in BankItems : answerRows[i] <= 1
    /\ \A p \in Installers, i \in BankItems :
          /\ boot[p].does = "answers" /\ i >= boot[p].at => answerRows[i] = 0
          /\ boot[p].does = "answered" /\ i > boot[p].at => answerRows[i] = 0

BootInv ==
    /\ BootTypeOK /\ ProcessesSkipNothing /\ RowsSkipNothing
    /\ ~resumed => OneAtWork /\ FacetsComeFirst /\ AnswersComeOnce

LEMMA BootInitially == BootstrapAssumption /\ BootstrapInit => BootInv
<1> SUFFICES ASSUME BootstrapAssumption, BootstrapInit PROVE BootInv
  OBVIOUS
<1> USE DEF BootstrapInit, BootstrapAssumption, Ended, NoRow
<1>1. BootTypeOK
  <2>1. facetRows \in 0..FacetCount /\ checkpoint \in 0..NoRow /\ 0 \in 0..NoRow
    OBVIOUS
  <2>2. answerRows \in [BankItems -> Nat]
    OBVIOUS
  <2>3. boot \in [Installers -> [does : BootDoings, at : 0..NoRow, resumes : BOOLEAN]]
    BY <2>1 DEF BootDoings
  <2> QED
    BY <2>1, <2>2, <2>3 DEF BootTypeOK
<1>2. ProcessesSkipNothing /\ RowsSkipNothing
  BY DEF ProcessesSkipNothing, RowsSkipNothing
<1>3. OneAtWork /\ FacetsComeFirst /\ AnswersComeOnce
  BY DEF OneAtWork, AtWork, FacetsComeFirst, AnswersComeOnce
<1> QED
  BY <1>1, <1>2, <1>3 DEF BootInv

\* A process goes on, and the others stay where they are.
LEMMA ProcessGoes ==
  ASSUME BootTypeOK, NEW p \in Installers, NEW what \in BootDoings, NEW n \in 0..NoRow, Goes(p, what, n)
  PROVE  /\ boot' \in [Installers -> [does : BootDoings, at : 0..NoRow, resumes : BOOLEAN]]
         /\ boot'[p].does = what /\ boot'[p].at = n /\ boot'[p].resumes = boot[p].resumes
         /\ \A q \in Installers : q # p => boot'[q] = boot[q]
BY DEF BootTypeOK, Goes

LEMMA ProcessEnded ==
  ASSUME BootstrapAssumption, BootTypeOK, NEW p \in Installers, boot' = [boot EXCEPT ![p] = Ended]
  PROVE  /\ boot' \in [Installers -> [does : BootDoings, at : 0..NoRow, resumes : BOOLEAN]]
         /\ boot'[p].does = "none" /\ ~boot'[p].resumes
         /\ \A q \in Installers : q # p => boot'[q] = boot[q]
BY DEF BootTypeOK, Ended, BootDoings, BootstrapAssumption, NoRow

\* A process that ends, or has not begun, disturbs nothing.
LEMMA RestKeeps ==
  ASSUME BootstrapAssumption, BootInv, NEW p \in Installers,
         boot' \in [Installers -> [does : BootDoings, at : 0..NoRow, resumes : BOOLEAN]],
         boot'[p].does \in {"none", "progress"}, boot'[p].resumes => boot[p].resumes,
         \A q \in Installers : q # p => boot'[q] = boot[q],
         resumed' \in BOOLEAN, resumed => resumed', UNCHANGED bootRows
  PROVE  BootInv'
<1> USE DEF BootInv
<1>1. BootTypeOK'
  BY DEF BootTypeOK, bootRows
<1>2. ProcessesSkipNothing' /\ RowsSkipNothing'
  BY DEF ProcessesSkipNothing, RowsSkipNothing, AnsweredBefore, bootRows
<1>3. ASSUME ~resumed' PROVE OneAtWork' /\ FacetsComeFirst' /\ AnswersComeOnce'
  <2>1. OneAtWork /\ FacetsComeFirst /\ AnswersComeOnce
    BY <1>3
  <2>2. OneAtWork'
    BY <2>1 DEF OneAtWork, AtWork, bootRows, BootTypeOK
  <2>3. FacetsComeFirst' /\ AnswersComeOnce'
    BY <2>1 DEF FacetsComeFirst, AnswersComeOnce, bootRows
  <2> QED
    BY <2>2, <2>3
<1> QED
  BY <1>1, <1>2, <1>3

LEMMA ExitKeeps ==
  ASSUME BootstrapAssumption, BootInv, NEW p \in Installers, Exits(p), UNCHANGED resumed
  PROVE  BootInv'
<1>1. boot' = [boot EXCEPT ![p] = Ended] /\ UNCHANGED bootRows
  BY DEF Exits
<1>2. resumed \in BOOLEAN
  BY DEF BootInv, BootTypeOK
<1> QED
  BY <1>1, <1>2, ProcessEnded, RestKeeps DEF BootInv

LEMMA RunAfreshKeeps ==
  ASSUME BootstrapAssumption, BootInv, NEW p \in Installers, RunAfresh(p)
  PROVE  BootInv'
<1> DEFINE to == IF Bootstrapped THEN Ended ELSE [does |-> "progress", at |-> 0, resumes |-> FALSE]
<1>1. to \in [does : BootDoings, at : 0..NoRow, resumes : BOOLEAN]
      /\ to.does \in {"none", "progress"} /\ ~to.resumes
  BY DEF Ended, BootDoings, NoRow, BootstrapAssumption
<1>2. boot' = [boot EXCEPT ![p] = to] /\ resumed' = resumed /\ UNCHANGED bootRows
  BY DEF RunAfresh, Started, BootInv, BootTypeOK
<1> HIDE DEF to
<1>3. /\ boot' \in [Installers -> [does : BootDoings, at : 0..NoRow, resumes : BOOLEAN]]
      /\ boot'[p] = to /\ \A q \in Installers : q # p => boot'[q] = boot[q]
      /\ resumed' \in BOOLEAN
  BY <1>1, <1>2 DEF BootInv, BootTypeOK
<1> QED
  BY <1>1, <1>2, <1>3, RestKeeps

LEMMA ResumeKeeps ==
  ASSUME BootstrapAssumption, BootInv, NEW p \in Installers, Resume(p)
  PROVE  BootInv'
<1> DEFINE to == IF checkpoint = NoRow THEN Ended
                 ELSE [does |-> "items", at |-> checkpoint + 1, resumes |-> TRUE]
<1>1. to \in [does : BootDoings, at : 0..NoRow, resumes : BOOLEAN]
  BY DEF Ended, BootDoings, NoRow, BootstrapAssumption, BootInv, BootTypeOK
<1>2. /\ to.does \in {"none", "items"}
      /\ to.does = "items" => checkpoint # NoRow /\ to.at = checkpoint + 1
  BY DEF Ended
<1>3. boot' = [boot EXCEPT ![p] = to] /\ resumed' = TRUE /\ UNCHANGED bootRows
  BY DEF Resume, Started
<1> HIDE DEF to
<1>4. /\ boot' \in [Installers -> [does : BootDoings, at : 0..NoRow, resumes : BOOLEAN]]
      /\ boot'[p] = to /\ \A q \in Installers : q # p => boot'[q] = boot[q]
  BY <1>1, <1>3 DEF BootInv, BootTypeOK
<1>5. BootTypeOK' /\ RowsSkipNothing'
  BY <1>3, <1>4 DEF BootInv, BootTypeOK, RowsSkipNothing, AnsweredBefore, bootRows
<1>6. ProcessesSkipNothing'
  BY <1>2, <1>3, <1>4 DEF BootInv, ProcessesSkipNothing, RowsSkipNothing, AnsweredBefore, bootRows
<1> QED
  BY <1>3, <1>5, <1>6 DEF BootInv

LEMMA StartProgressKeeps ==
  ASSUME BootstrapAssumption, BootInv, NEW p \in Installers, StartProgress(p)
  PROVE  BootInv'
<1>1. CASE checkpoint # NoRow
  BY <1>1, ExitKeeps DEF StartProgress
<1>2. CASE checkpoint = NoRow
  <2>1. /\ checkpoint' = 0 /\ Goes(p, "items", 1) /\ boot[p].does = "progress"
        /\ UNCHANGED <<facetRows, answerRows, moodRow, resumed>>
    BY <1>2 DEF StartProgress
  <2>2. /\ boot' \in [Installers -> [does : BootDoings, at : 0..NoRow, resumes : BOOLEAN]]
        /\ boot'[p].does = "items" /\ boot'[p].at = 1 /\ boot'[p].resumes = boot[p].resumes
        /\ \A q \in Installers : q # p => boot'[q] = boot[q]
    <3>1. "items" \in BootDoings /\ 1 \in 0..NoRow
      BY DEF BootDoings, NoRow, BootstrapAssumption
    <3> QED
      BY <2>1, <3>1, ProcessGoes DEF BootInv
  <2>3. AnsweredBefore(1)' /\ 0 # NoRow
    BY DEF AnsweredBefore, BankItems, NoRow, BootstrapAssumption
  <2>4. BootTypeOK'
    BY <2>1, <2>2 DEF BootInv, BootTypeOK, NoRow, BootstrapAssumption
  <2>5. RowsSkipNothing'
    BY <2>1, <2>3 DEF BootInv, RowsSkipNothing, AnsweredBefore
  <2>6. ProcessesSkipNothing'
    BY <2>1, <2>2, <2>3 DEF BootInv, ProcessesSkipNothing, AnsweredBefore
  <2>7. ASSUME ~resumed' PROVE OneAtWork' /\ FacetsComeFirst' /\ AnswersComeOnce'
    <3>1. OneAtWork /\ FacetsComeFirst /\ AnswersComeOnce
      BY <2>1, <2>7 DEF BootInv
    <3>2. \A q \in Installers : ~AtWork(q)
      BY <1>2, <3>1 DEF OneAtWork
    <3>3. OneAtWork'
      BY <2>1, <2>2, <2>3, <3>1, <3>2 DEF OneAtWork, AtWork
    <3>4. FacetsComeFirst' /\ AnswersComeOnce'
      BY <2>1, <2>2, <3>1 DEF FacetsComeFirst, AnswersComeOnce
    <3> QED
      BY <3>3, <3>4
  <2> QED
    BY <2>4, <2>5, <2>6, <2>7 DEF BootInv
<1> QED
  BY <1>1, <1>2

\* The bank is there: on to the facets, or to the answers where they were left.
LEMMA BankKeeps ==
  ASSUME BootstrapAssumption, BootInv, NEW p \in Installers, boot[p].does \in {"items", "loading"},
         NEW what \in {"items", "loading", IF boot[p].resumes THEN "answers" ELSE "facets"},
         \/ Goes(p, what, boot[p].at)
         \/ UNCHANGED boot,
         UNCHANGED <<facetRows, answerRows, checkpoint, moodRow, resumed>>
  PROVE  BootInv'
<1>1. CASE Goes(p, what, boot[p].at)
  <2>1. what \in BootDoings /\ boot[p].at \in 0..NoRow
    BY DEF BootDoings, BootInv, BootTypeOK
  <2>2. /\ boot' \in [Installers -> [does : BootDoings, at : 0..NoRow, resumes : BOOLEAN]]
        /\ boot'[p].does = what /\ boot'[p].at = boot[p].at
        /\ boot'[p].resumes = boot[p].resumes
        /\ \A q \in Installers : q # p => boot'[q] = boot[q]
    BY <1>1, <2>1, ProcessGoes DEF BootInv
  <2>3. BootTypeOK' /\ RowsSkipNothing'
    BY <2>2 DEF BootInv, BootTypeOK, RowsSkipNothing, AnsweredBefore
  <2>4. ProcessesSkipNothing'
    BY <2>2 DEF BootInv, ProcessesSkipNothing, AnsweredBefore
  <2>5. ASSUME ~resumed' PROVE OneAtWork' /\ FacetsComeFirst' /\ AnswersComeOnce'
    <3>1. OneAtWork /\ FacetsComeFirst /\ AnswersComeOnce
      BY <2>5 DEF BootInv
    <3>2. what \in {"items", "loading", "facets"} /\ AtWork(p)
      BY <3>1 DEF OneAtWork, AtWork
    <3>3. OneAtWork'
      BY <2>2, <3>1, <3>2 DEF OneAtWork, AtWork
    <3>4. FacetsComeFirst' /\ AnswersComeOnce'
      BY <2>2, <3>1, <3>2 DEF FacetsComeFirst, AnswersComeOnce
    <3> QED
      BY <3>3, <3>4
  <2> QED
    BY <2>3, <2>4, <2>5 DEF BootInv
<1>2. CASE UNCHANGED boot
  BY <1>2 DEF BootInv, BootTypeOK, ProcessesSkipNothing, RowsSkipNothing, AnsweredBefore,
              OneAtWork, AtWork, FacetsComeFirst, AnswersComeOnce
<1> QED
  BY <1>1, <1>2

LEMMA InsertFacetKeeps ==
  ASSUME BootstrapAssumption, BootInv, NEW p \in Installers, InsertFacet(p)
  PROVE  BootInv'
<1>1. CASE ~(facetRows < FacetCount)
  BY <1>1, ExitKeeps DEF InsertFacet
<1>2. CASE facetRows < FacetCount
  <2>1. /\ facetRows' = facetRows + 1 /\ boot[p].does = "facets"
        /\ \/ facetRows' < FacetCount /\ UNCHANGED boot
           \/ facetRows' = FacetCount /\ Goes(p, "answers", 1)
        /\ UNCHANGED <<answerRows, checkpoint, moodRow, resumed>>
    BY <1>2 DEF InsertFacet, BootInv, BootTypeOK, BootstrapAssumption
  <2>2. facetRows' \in 0..FacetCount
    BY <1>2, <2>1 DEF BootInv, BootTypeOK, BootstrapAssumption
  <2>3. RowsSkipNothing'
    BY <2>1 DEF BootInv, RowsSkipNothing, AnsweredBefore
  <2>4. CASE facetRows' < FacetCount /\ UNCHANGED boot
    <3>1. BootTypeOK' /\ ProcessesSkipNothing'
      BY <2>1, <2>2, <2>4 DEF BootInv, BootTypeOK, ProcessesSkipNothing, AnsweredBefore
    <3>2. ASSUME ~resumed' PROVE OneAtWork' /\ FacetsComeFirst' /\ AnswersComeOnce'
      <4>1. OneAtWork /\ FacetsComeFirst /\ AnswersComeOnce
        BY <2>1, <3>2 DEF BootInv
      <4>2. OneAtWork' /\ AnswersComeOnce'
        BY <2>1, <2>4, <4>1 DEF OneAtWork, AtWork, AnswersComeOnce
      <4>3. facetRows # FacetCount
        BY <1>2 DEF BootInv, BootTypeOK, BootstrapAssumption
      <4>4. FacetsComeFirst'
        BY <2>1, <2>4, <4>1, <4>3 DEF FacetsComeFirst
      <4> QED
        BY <4>2, <4>4
    <3> QED
      BY <2>3, <3>1, <3>2 DEF BootInv
  <2>5. CASE facetRows' = FacetCount /\ Goes(p, "answers", 1)
    <3>1. "answers" \in BootDoings /\ 1 \in 0..NoRow
      BY DEF BootDoings, NoRow, BootstrapAssumption
    <3>2. /\ boot' \in [Installers -> [does : BootDoings, at : 0..NoRow, resumes : BOOLEAN]]
          /\ boot'[p].does = "answers" /\ boot'[p].at = 1 /\ boot'[p].resumes = boot[p].resumes
          /\ \A q \in Installers : q # p => boot'[q] = boot[q]
      BY <2>5, <3>1, ProcessGoes DEF BootInv
    <3>3. BootTypeOK'
      BY <2>1, <2>2, <3>2 DEF BootInv, BootTypeOK
    <3>4. AnsweredBefore(1)'
      BY DEF AnsweredBefore, BankItems, BootstrapAssumption
    <3>5. ProcessesSkipNothing'
      BY <2>1, <3>2, <3>4 DEF BootInv, ProcessesSkipNothing, AnsweredBefore
    <3>6. ASSUME ~resumed' PROVE OneAtWork' /\ FacetsComeFirst' /\ AnswersComeOnce'
      <4>1. OneAtWork /\ FacetsComeFirst /\ AnswersComeOnce
        BY <2>1, <3>6 DEF BootInv
      <4>2. OneAtWork'
        BY <2>1, <3>2, <4>1 DEF OneAtWork, AtWork
      <4>3. facetRows # FacetCount
        BY <1>2 DEF BootInv, BootTypeOK, BootstrapAssumption
      <4>4. \A i \in BankItems : answerRows'[i] = 0
        BY <2>1, <4>1, <4>3 DEF FacetsComeFirst
      <4>5. FacetsComeFirst' /\ AnswersComeOnce'
        BY <2>5, <4>4 DEF FacetsComeFirst, AnswersComeOnce
      <4> QED
        BY <4>2, <4>5
    <3> QED
      BY <2>3, <3>3, <3>5, <3>6 DEF BootInv
  <2> QED
    BY <2>1, <2>4, <2>5
<1> QED
  BY <1>1, <1>2

LEMMA InsertAnswerKeeps ==
  ASSUME BootstrapAssumption, BootInv, NEW p \in Installers, InsertAnswer(p)
  PROVE  BootInv'
<1> PICK n : n = boot[p].at
  OBVIOUS
<1>1. /\ boot[p].does = "answers" /\ n \in BankItems
      /\ answerRows' = [answerRows EXCEPT ![n] = @ + 1]
      /\ Goes(p, "answered", n)
      /\ UNCHANGED <<facetRows, checkpoint, moodRow, resumed>>
  BY DEF InsertAnswer
<1>2. /\ boot' \in [Installers -> [does : BootDoings, at : 0..NoRow, resumes : BOOLEAN]]
      /\ boot'[p].does = "answered" /\ boot'[p].at = n /\ boot'[p].resumes = boot[p].resumes
      /\ \A q \in Installers : q # p => boot'[q] = boot[q]
  <2>1. "answered" \in BootDoings /\ n \in 0..NoRow
    BY DEF BootDoings, BootInv, BootTypeOK
  <2> QED
    BY <1>1, <2>1, ProcessGoes DEF BootInv
<1>3. /\ answerRows' \in [BankItems -> Nat]
      /\ \A i \in BankItems : answerRows'[i] = IF i = n THEN answerRows[i] + 1 ELSE answerRows[i]
  BY <1>1 DEF BootInv, BootTypeOK
<1>4. BootTypeOK'
  BY <1>1, <1>2, <1>3 DEF BootInv, BootTypeOK
<1>5. \A k \in 0..(NoRow + 1) : AnsweredBefore(k) => AnsweredBefore(k)'
  BY <1>3 DEF AnsweredBefore, BootInv, BootTypeOK
<1>6. RowsSkipNothing'
  BY <1>1, <1>5 DEF BootInv, BootTypeOK, RowsSkipNothing, NoRow, BootstrapAssumption
<1>7. AnsweredBefore(n + 1)'
  <2>1. AnsweredBefore(n)
    BY <1>1 DEF BootInv, ProcessesSkipNothing
  <2> QED
    <3>1. ASSUME NEW i \in BankItems, i < n + 1 PROVE answerRows'[i] > 0
      <4>1. CASE i = n
        BY <1>3, <4>1 DEF BootInv, BootTypeOK
      <4>2. CASE i # n
        <5>1. i < n
          BY <1>1, <3>1, <4>2 DEF BankItems, BootstrapAssumption
        <5> QED
          BY <1>3, <2>1, <4>2, <5>1 DEF AnsweredBefore
      <4> QED
        BY <4>1, <4>2
    <3> QED
      BY <3>1 DEF AnsweredBefore
<1>8. ProcessesSkipNothing'
  <2> SUFFICES ASSUME NEW q \in Installers
               PROVE  /\ boot'[q].does \in {"items", "loading", "facets", "answers"} =>
                            AnsweredBefore(boot[q].at)'
                      /\ boot'[q].does = "answered" =>
                            boot'[q].at \in BankItems /\ AnsweredBefore(boot[q].at + 1)'
    BY DEF ProcessesSkipNothing
  <2>1. CASE q = p
    BY <1>1, <1>2, <1>7, <2>1
  <2>2. CASE q # p
    BY <1>2, <1>5, <2>2 DEF BootInv, BootTypeOK, ProcessesSkipNothing, NoRow, BootstrapAssumption
  <2> QED
    BY <2>1, <2>2
<1>9. ASSUME ~resumed' PROVE OneAtWork' /\ FacetsComeFirst' /\ AnswersComeOnce'
  <2>1. OneAtWork /\ FacetsComeFirst /\ AnswersComeOnce
    BY <1>1, <1>9 DEF BootInv
  <2>2. OneAtWork'
    BY <1>1, <1>2, <2>1 DEF OneAtWork, AtWork
  <2>3. facetRows = FacetCount
    BY <1>1, <2>1 DEF FacetsComeFirst
  <2>4. FacetsComeFirst'
    BY <1>1, <2>3 DEF FacetsComeFirst
  <2>5. answerRows[n] = 0 /\ \A i \in BankItems : i >= n => answerRows[i] = 0
    BY <1>1, <2>1 DEF AnswersComeOnce, BankItems
  <2>6. \A q \in Installers : q # p => boot'[q].does \notin {"answers", "answered"}
    BY <1>1, <1>2, <2>1 DEF OneAtWork, AtWork
  <2>7. \A i \in BankItems : /\ answerRows'[i] <= 1
                             /\ i > n => answerRows'[i] = 0
    BY <1>1, <1>3, <2>1, <2>5 DEF AnswersComeOnce, BankItems
  <2>8. AnswersComeOnce'
    BY <1>2, <2>6, <2>7 DEF AnswersComeOnce
  <2> QED
    BY <2>2, <2>4, <2>8
<1> QED
  BY <1>4, <1>6, <1>8, <1>9 DEF BootInv

LEMMA UpdateProgressKeeps ==
  ASSUME BootstrapAssumption, BootInv, NEW p \in Installers, UpdateProgress(p)
  PROVE  BootInv'
<1> DEFINE n == boot[p].at
<1>1. /\ boot[p].does = "answered"
      /\ checkpoint' = IF checkpoint = NoRow THEN NoRow ELSE n
      /\ Goes(p, "answers", n + 1)
      /\ UNCHANGED <<facetRows, answerRows, moodRow, resumed>>
  BY DEF UpdateProgress
<1>2. n \in BankItems /\ AnsweredBefore(n + 1)
  BY <1>1 DEF BootInv, ProcessesSkipNothing
<1> HIDE DEF n
<1>3. n \in 1..BankSize /\ n + 1 \in 0..NoRow /\ n \in 0..NoRow /\ NoRow \in 0..NoRow
  BY <1>2 DEF BankItems, NoRow, BootstrapAssumption
<1>4. /\ boot' \in [Installers -> [does : BootDoings, at : 0..NoRow, resumes : BOOLEAN]]
      /\ boot'[p].does = "answers" /\ boot'[p].at = n + 1
      /\ boot'[p].resumes = boot[p].resumes
      /\ \A q \in Installers : q # p => boot'[q] = boot[q]
  <2>1. "answers" \in BootDoings
    BY DEF BootDoings
  <2> QED
    BY <1>1, <1>3, <2>1, ProcessGoes DEF BootInv
<1>5. BootTypeOK'
  BY <1>1, <1>3, <1>4 DEF BootInv, BootTypeOK
<1>6. RowsSkipNothing'
  BY <1>1, <1>2 DEF BootInv, RowsSkipNothing, AnsweredBefore
<1>7. ProcessesSkipNothing'
  BY <1>1, <1>2, <1>4 DEF BootInv, ProcessesSkipNothing, AnsweredBefore
<1>8. ASSUME ~resumed' PROVE OneAtWork' /\ FacetsComeFirst' /\ AnswersComeOnce'
  <2>1. OneAtWork /\ FacetsComeFirst /\ AnswersComeOnce
    BY <1>1, <1>8 DEF BootInv
  <2>2. n # NoRow
    BY <1>3 DEF NoRow, BootstrapAssumption
  <2>3. OneAtWork'
    BY <1>1, <1>4, <2>1, <2>2 DEF OneAtWork, AtWork
  <2>4. FacetsComeFirst'
    BY <1>1, <1>4, <2>1 DEF FacetsComeFirst
  <2>5. \A i \in BankItems : i >= n + 1 => answerRows[i] = 0
    BY <1>1, <1>3, <2>1 DEF AnswersComeOnce, n, BankItems
  <2>6. AnswersComeOnce'
    BY <1>1, <1>4, <2>1, <2>5 DEF AnswersComeOnce
  <2> QED
    BY <2>3, <2>4, <2>6
<1> QED
  BY <1>5, <1>6, <1>7, <1>8 DEF BootInv

LEMMA InsertMoodKeeps ==
  ASSUME BootstrapAssumption, BootInv, NEW p \in Installers, InsertMood(p)
  PROVE  BootInv'
<1>1. CASE moodRow
  BY <1>1, ExitKeeps DEF InsertMood
<1>2. CASE ~moodRow
  <2>1. /\ boot[p].does = "answers" /\ boot[p].at > BankSize
        /\ moodRow' = TRUE /\ Goes(p, "mood", 0)
        /\ UNCHANGED <<facetRows, answerRows, checkpoint, resumed>>
    BY <1>2 DEF InsertMood
  <2>2. /\ boot' \in [Installers -> [does : BootDoings, at : 0..NoRow, resumes : BOOLEAN]]
        /\ boot'[p].does = "mood" /\ boot'[p].resumes = boot[p].resumes
        /\ \A q \in Installers : q # p => boot'[q] = boot[q]
    <3>1. "mood" \in BootDoings /\ 0 \in 0..NoRow
      BY DEF BootDoings, NoRow, BootstrapAssumption
    <3> QED
      BY <2>1, <3>1, ProcessGoes DEF BootInv
  <2>3. BootTypeOK'
    BY <2>1, <2>2 DEF BootInv, BootTypeOK
  <2>4. RowsSkipNothing'
    <3>1. boot[p].at = NoRow
      BY <2>1 DEF BootInv, BootTypeOK, NoRow, BootstrapAssumption
    <3>2. AnsweredBefore(NoRow)
      BY <2>1, <3>1 DEF BootInv, ProcessesSkipNothing
    <3> QED
      BY <2>1, <3>2 DEF BootInv, RowsSkipNothing, AnsweredBefore
  <2>5. ProcessesSkipNothing'
    BY <2>1, <2>2 DEF BootInv, ProcessesSkipNothing, AnsweredBefore
  <2>6. ASSUME ~resumed' PROVE OneAtWork' /\ FacetsComeFirst' /\ AnswersComeOnce'
    <3>1. OneAtWork /\ FacetsComeFirst /\ AnswersComeOnce
      BY <2>1, <2>6 DEF BootInv
    <3>2. OneAtWork'
      BY <2>1, <2>2, <3>1 DEF OneAtWork, AtWork
    <3>3. FacetsComeFirst' /\ AnswersComeOnce'
      BY <2>1, <2>2, <3>1 DEF FacetsComeFirst, AnswersComeOnce
    <3> QED
      BY <3>2, <3>3
  <2> QED
    BY <2>3, <2>4, <2>5, <2>6 DEF BootInv
<1> QED
  BY <1>1, <1>2

LEMMA DeleteProgressKeeps ==
  ASSUME BootstrapAssumption, BootInv, NEW p \in Installers, DeleteProgress(p)
  PROVE  BootInv'
<1>1. /\ boot[p].does = "mood" /\ checkpoint' = NoRow /\ Goes(p, "narrative", 0)
      /\ UNCHANGED <<facetRows, answerRows, moodRow, resumed>>
  BY DEF DeleteProgress
<1>2. /\ boot' \in [Installers -> [does : BootDoings, at : 0..NoRow, resumes : BOOLEAN]]
      /\ boot'[p].does = "narrative" /\ boot'[p].resumes = boot[p].resumes
      /\ \A q \in Installers : q # p => boot'[q] = boot[q]
  <2>1. "narrative" \in BootDoings /\ 0 \in 0..NoRow
    BY DEF BootDoings, NoRow, BootstrapAssumption
  <2> QED
    BY <1>1, <2>1, ProcessGoes DEF BootInv
<1>3. BootTypeOK'
  BY <1>1, <1>2 DEF BootInv, BootTypeOK, NoRow, BootstrapAssumption
<1>4. RowsSkipNothing' /\ ProcessesSkipNothing'
  BY <1>1, <1>2 DEF BootInv, RowsSkipNothing, ProcessesSkipNothing, AnsweredBefore
<1>5. ASSUME ~resumed' PROVE OneAtWork' /\ FacetsComeFirst' /\ AnswersComeOnce'
  <2>1. OneAtWork /\ FacetsComeFirst /\ AnswersComeOnce
    BY <1>1, <1>5 DEF BootInv
  <2>2. \A q \in Installers : ~AtWork(q)'
    BY <1>1, <1>2, <2>1 DEF OneAtWork, AtWork
  <2>3. OneAtWork'
    BY <1>2, <2>1, <2>2 DEF OneAtWork
  <2>4. FacetsComeFirst' /\ AnswersComeOnce'
    BY <1>1, <1>2, <2>1 DEF FacetsComeFirst, AnswersComeOnce
  <2> QED
    BY <2>3, <2>4
<1> QED
  BY <1>3, <1>4, <1>5 DEF BootInv

LEMMA SeedNarrativeKeeps ==
  ASSUME BootstrapAssumption, BootInv, NEW p \in Installers, NEW parses \in BOOLEAN,
         SeedNarrative(p, parses)
  PROVE  BootInv'
<1>1. /\ Goes(p, "none", 0)
      /\ UNCHANGED <<facetRows, answerRows, checkpoint, moodRow, resumed>>
  BY DEF SeedNarrative
<1>2. /\ boot' \in [Installers -> [does : BootDoings, at : 0..NoRow, resumes : BOOLEAN]]
      /\ boot'[p].does = "none" /\ boot'[p].resumes = boot[p].resumes
      /\ \A q \in Installers : q # p => boot'[q] = boot[q]
  <2>1. "none" \in BootDoings /\ 0 \in 0..NoRow
    BY DEF BootDoings, NoRow, BootstrapAssumption
  <2> QED
    BY <1>1, <2>1, ProcessGoes DEF BootInv
<1>3. BootTypeOK' /\ RowsSkipNothing' /\ ProcessesSkipNothing'
  BY <1>1, <1>2 DEF BootInv, BootTypeOK, RowsSkipNothing, ProcessesSkipNothing, AnsweredBefore
<1>4. ASSUME ~resumed' PROVE OneAtWork' /\ FacetsComeFirst' /\ AnswersComeOnce'
  BY <1>1, <1>2, <1>4 DEF BootInv, OneAtWork, AtWork, FacetsComeFirst, AnswersComeOnce
<1> QED
  BY <1>3, <1>4 DEF BootInv

LEMMA BootStep == BootstrapAssumption /\ BootInv /\ [BootstrapNext]_bootstrapVars => BootInv'
<1> SUFFICES ASSUME BootstrapAssumption, BootInv, [BootstrapNext]_bootstrapVars PROVE BootInv'
  OBVIOUS
<1>1. ASSUME NEW p \in Installers, CheckItems(p) PROVE BootInv'
  <2>1. CASE Exits(p) /\ UNCHANGED resumed
    BY <2>1, ExitKeeps
  <2>2. CASE ~Exits(p)
    <3>1. PICK what \in {"loading", IF boot[p].resumes THEN "answers" ELSE "facets"} :
             Goes(p, what, boot[p].at) /\ UNCHANGED bootRows
      BY <1>1, <2>2 DEF CheckItems
    <3>2. boot[p].does = "items" /\ UNCHANGED resumed
      BY <1>1 DEF CheckItems
    <3>3. UNCHANGED <<facetRows, answerRows, checkpoint, moodRow>>
      BY <3>1 DEF bootRows
    <3> QED
      BY <3>1, <3>2, <3>3, BankKeeps
  <2> QED
    BY <1>1, <2>1, <2>2 DEF CheckItems
<1>2. ASSUME NEW p \in Installers, NEW n \in BankItems, InsertItem(p, n) PROVE BootInv'
  <2>1. boot[p].does = "loading" /\ UNCHANGED resumed
    BY <1>2 DEF InsertItem
  <2>2. CASE Exits(p)
    BY <2>1, <2>2, ExitKeeps
  <2>3. CASE ~Exits(p)
    <3>1. /\ \/ UNCHANGED boot
             \/ Goes(p, IF boot[p].resumes THEN "answers" ELSE "facets", boot[p].at)
          /\ UNCHANGED <<facetRows, answerRows, checkpoint, moodRow>>
      BY <1>2, <2>3 DEF InsertItem
    <3> DEFINE what == IF boot[p].resumes THEN "answers" ELSE "facets"
    <3>2. what \in {"items", "loading", what}
      OBVIOUS
    <3> QED
      BY <2>1, <3>1, <3>2, BankKeeps
  <2> QED
    BY <2>2, <2>3
<1>3. ASSUME NEW p \in Installers, NoAnswer(p) \/ Killed(p) PROVE BootInv'
  BY <1>3, ExitKeeps DEF NoAnswer, Killed
<1>4. CASE UNCHANGED bootstrapVars
  BY <1>4 DEF bootstrapVars, bootRows, BootInv, BootTypeOK, ProcessesSkipNothing, RowsSkipNothing,
              AnsweredBefore, OneAtWork, AtWork, FacetsComeFirst, AnswersComeOnce
<1> QED
  BY <1>1, <1>2, <1>3, <1>4, RunAfreshKeeps, ResumeKeeps, StartProgressKeeps, InsertFacetKeeps,
     InsertAnswerKeeps, UpdateProgressKeeps, InsertMoodKeeps, DeleteProgressKeeps,
     SeedNarrativeKeeps DEF BootstrapNext

LEMMA BootInvHolds == BootstrapAssumption /\ BootInv => BootstrapIsSound
<1> SUFFICES ASSUME BootstrapAssumption, BootInv PROVE BootstrapIsSound
  OBVIOUS
<1> USE DEF BootInv, RowsSkipNothing, AnsweredBefore, BootTypeOK, NoRow, BankItems,
            BootstrapAssumption
<1>1. CheckpointIsEarned
  BY DEF CheckpointIsEarned
<1>2. FinishedIsComplete
  BY DEF FinishedIsComplete, FacetsComeFirst, AnswersComeOnce
<1> QED
  BY <1>1, <1>2 DEF BootstrapIsSound

\* Wherever processes that bootstrap a self end, and whoever resumes them: the checkpoint
\* never runs ahead of the answers, a self with a mood has answered every item, and one
\* that nobody resumed has all its facets and no item answered twice.
THEOREM BootstrapIsAlwaysSound == BootstrapSpec => []BootstrapIsSound
<1> USE BootstrapAssumption
<1>1. BootstrapInit => BootInv
  BY BootInitially
<1>2. BootInv /\ [BootstrapNext]_bootstrapVars => BootInv'
  BY BootStep
<1>3. BootInv => BootstrapIsSound
  BY BootInvHolds
<1> QED
  BY <1>1, <1>2, <1>3, PTL DEF BootstrapSpec

-----------------------------------------------------------------------------
(* The self as a conduit                                                    *)

Observation(r) == Mirrored(r, "observation", TRUE)
Opinion(r) == Mirrored(r, "opinion", FALSE)
Decided == {"200 content", "200 filtered", "500 error"}

PerceptionTypeOK ==
    /\ asked \in [Callers -> Answers \cup {"idle", "stuck", "perceiving"}]
    /\ lockHolder \in Callers \cup {Free}
    /\ decided \in BOOLEAN

\* The lock is of the request that is perceived, which has made no decision yet.
LockIsOfThePerceived ==
    /\ \A r \in Callers : (lockHolder = r) <=> (asked[r] = "perceiving")
    /\ (\E r \in Callers : asked[r] = "perceiving") => ~decided
    /\ refusedTools = {}

\* A request has its observation exactly when it was dispatched, and an opinion beside it.
MemoriesOfTheDispatched ==
    /\ \A m \in mirrored : \E r \in Callers : m \in {Observation(r), Opinion(r)}
    /\ \A r \in Callers : /\ Observation(r) \in mirrored <=> asked[r] \in Decided
                          /\ Opinion(r) \in mirrored => Observation(r) \in mirrored

BlocksKeepTheSelf ==
    \A r \in Callers :
        shown[r] \in {{}, Sections, Sections \ {"todos"}, {"identity", "mood"}}

ShownTypeOK == shown \in [Callers -> SUBSET Sections]

PerceptionInv ==
    /\ PerceptionTypeOK /\ LockIsOfThePerceived /\ MemoriesOfTheDispatched
    /\ ShownTypeOK /\ BlocksKeepTheSelf

LEMMA PerceptionInitially == PerceptionAssumption /\ ConduitSelfInit => PerceptionInv
<1> SUFFICES ASSUME PerceptionAssumption, ConduitSelfInit PROVE PerceptionInv
  OBVIOUS
<1>1. PerceptionTypeOK /\ LockIsOfThePerceived
  BY DEF ConduitSelfInit, PerceptionTypeOK, LockIsOfThePerceived, PerceptionAssumption, Free
<1>2. MemoriesOfTheDispatched
  BY DEF ConduitSelfInit, MemoriesOfTheDispatched, Decided
<1>3. ShownTypeOK /\ BlocksKeepTheSelf
  BY DEF ConduitSelfInit, ShownTypeOK, BlocksKeepTheSelf
<1> QED
  BY <1>1, <1>2, <1>3 DEF PerceptionInv

\* A request that is not dispatched goes on without a trace in the memory.
LEMMA AskedMoves ==
  ASSUME MemoriesOfTheDispatched, asked \in [Callers -> Answers \cup {"idle", "stuck", "perceiving"}],
         NEW r \in Callers, NEW status, status \notin Decided, asked[r] \notin Decided,
         asked' = [asked EXCEPT ![r] = status], UNCHANGED mirrored
  PROVE  MemoriesOfTheDispatched'
BY DEF MemoriesOfTheDispatched, Observation, Opinion

LEMMA RefuseKeeps ==
  ASSUME PerceptionInv, NEW r \in Callers,
         NEW status \in Answers \cup {"stuck"}, status \notin Decided,
         asked[r] \in {"idle", "stuck"}, asked' = [asked EXCEPT ![r] = status],
         UNCHANGED <<lockHolder, decided, refusedTools, shown, mirrored>>
  PROVE  PerceptionInv'
<1>1. MemoriesOfTheDispatched'
  BY AskedMoves DEF PerceptionInv, PerceptionTypeOK, Decided
<1>2. PerceptionTypeOK'
  BY DEF PerceptionInv, PerceptionTypeOK
<1>3. LockIsOfThePerceived'
  BY DEF PerceptionInv, PerceptionTypeOK, LockIsOfThePerceived, Answers
<1>4. ShownTypeOK' /\ BlocksKeepTheSelf'
  BY DEF PerceptionInv, ShownTypeOK, BlocksKeepTheSelf
<1> QED
  BY <1>1, <1>2, <1>3, <1>4 DEF PerceptionInv

LEMMA HandleKeeps ==
  ASSUME PerceptionAssumption, PerceptionInv, NEW r \in Callers, NEW blocked \in BOOLEAN, NEW size,
         Handle(r, blocked, size)
  PROVE  PerceptionInv'
<1>1. ASSUME NEW status \in {"503 not bootstrapped", "400 blocked", "stuck"}, Refuse(r, status)
      PROVE  PerceptionInv'
  <2>1. asked[r] = "idle"
    BY DEF Handle
  <2>2. status \in Answers \cup {"stuck"} /\ status \notin Decided
    BY <1>1 DEF Answers, Decided
  <2> QED
    BY <1>1, <2>1, <2>2, RefuseKeeps DEF Refuse
<1>2. CASE /\ lockHolder = Free /\ lockHolder' = r /\ decided' = FALSE
           /\ shown' = [shown EXCEPT ![r] = MinimalBlock(size)]
           /\ asked' = [asked EXCEPT ![r] = "perceiving"]
           /\ UNCHANGED <<refusedTools, mirrored>>
  <2>1. asked[r] = "idle"
    BY DEF Handle
  <2>2. \A q \in Callers : asked[q] # "perceiving"
    BY <1>2 DEF PerceptionInv, LockIsOfThePerceived, PerceptionAssumption, Free
  <2>3. LockIsOfThePerceived'
    BY <1>2, <2>1, <2>2 DEF PerceptionInv, PerceptionTypeOK, LockIsOfThePerceived
  <2>4. PerceptionTypeOK'
    BY <1>2 DEF PerceptionInv, PerceptionTypeOK
  <2>5. MemoriesOfTheDispatched'
    BY <1>2, <2>1, AskedMoves DEF PerceptionInv, PerceptionTypeOK, Decided
  <2>6. MinimalBlock(size) \in {Sections, Sections \ {"todos"}, {"identity", "mood"}}
    BY DEF MinimalBlock
  <2>7. MinimalBlock(size) \subseteq Sections
    BY <2>6 DEF Sections
  <2>8. ShownTypeOK' /\ BlocksKeepTheSelf'
    <3>1. \A q \in Callers : shown'[q] = IF q = r THEN MinimalBlock(size) ELSE shown[q]
      BY <1>2 DEF PerceptionInv, ShownTypeOK
    <3>2. ShownTypeOK'
      BY <1>2, <2>7 DEF PerceptionInv, ShownTypeOK
    <3>3. ASSUME NEW q \in Callers
          PROVE  shown'[q] \in {{}, Sections, Sections \ {"todos"}, {"identity", "mood"}}
      <4>1. CASE q = r
        BY <3>1, <2>6, <4>1
      <4>2. CASE q # r
        BY <3>1, <4>2 DEF PerceptionInv, BlocksKeepTheSelf
      <4> QED
        BY <4>1, <4>2
    <3> QED
      BY <3>2, <3>3 DEF BlocksKeepTheSelf
  <2> QED
    BY <2>3, <2>4, <2>5, <2>8 DEF PerceptionInv
<1> QED
  BY <1>1, <1>2 DEF Handle

\* A request that leaves is the only one that was perceived.
LEMMA LeaveKeeps ==
  ASSUME PerceptionAssumption, PerceptionInv, NEW r \in Callers, asked[r] = "perceiving",
         NEW status \in Answers, Leave(r, status)
  PROVE  decided' \in BOOLEAN => PerceptionTypeOK'
BY DEF Leave, PerceptionInv, PerceptionTypeOK

LEMMA LeaveFrees ==
  ASSUME PerceptionAssumption, PerceptionInv, NEW r \in Callers, asked[r] = "perceiving",
         NEW status \in Answers, Leave(r, status)
  PROVE  LockIsOfThePerceived' /\ ShownTypeOK' /\ BlocksKeepTheSelf'
<1>1. \A q \in Callers : asked'[q] # "perceiving"
  BY DEF Leave, PerceptionInv, PerceptionTypeOK, LockIsOfThePerceived, Answers
<1>2. \A q \in Callers : lockHolder' # q
  BY DEF Leave, PerceptionAssumption, Free
<1>3. LockIsOfThePerceived'
  BY <1>1, <1>2 DEF Leave, PerceptionInv, LockIsOfThePerceived
<1> QED
  BY <1>3 DEF Leave, PerceptionInv, ShownTypeOK, BlocksKeepTheSelf

LEMMA UndecidedLeaveKeeps ==
  ASSUME PerceptionAssumption, PerceptionInv, NEW r \in Callers, asked[r] = "perceiving",
         NEW status \in Answers, status \notin Decided,
         Leave(r, status), UNCHANGED <<decided, mirrored>>
  PROVE  PerceptionInv'
<1>1. MemoriesOfTheDispatched'
  BY AskedMoves DEF Leave, PerceptionInv, PerceptionTypeOK, Decided
<1> QED
  BY <1>1, LeaveKeeps, LeaveFrees DEF PerceptionInv, PerceptionTypeOK

LEMMA DecideKeeps ==
  ASSUME PerceptionAssumption, PerceptionInv, NEW r \in Callers, NEW decision \in Decisions,
         NEW opinionFails \in BOOLEAN, NEW blocked \in BOOLEAN,
         Decide(r, decision, opinionFails, blocked)
  PROVE  PerceptionInv'
<1> DEFINE status == Outcome(decision, opinionFails, blocked)
<1>1. status \in Decided
  BY DEF Outcome, Decided
<1>2. status \in Answers
  BY DEF Outcome, Answers
<1> HIDE DEF status
<1>3. asked[r] = "perceiving" /\ Leave(r, status) /\ decided' = TRUE
  BY DEF Decide, status
<1>4. \/ mirrored' = mirrored \cup {Observation(r)}
      \/ mirrored' = mirrored \cup {Observation(r), Opinion(r)}
  BY DEF Decide, Recorded, Observation, Opinion
<1>5. MemoriesOfTheDispatched'
  <2>1. asked' = [asked EXCEPT ![r] = status]
    BY <1>3 DEF Leave
  <2>2. \A q \in Callers : asked'[q] = IF q = r THEN status ELSE asked[q]
    BY <2>1 DEF PerceptionInv, PerceptionTypeOK
  <2>3. \A q \in Callers : /\ q # r => Observation(q) \notin {Observation(r), Opinion(r)}
                           /\ q # r => Opinion(q) \notin {Observation(r), Opinion(r)}
                           /\ Observation(q) # Opinion(q)
    BY DEF Observation, Opinion, Mirrored
  <2>4. \A m \in mirrored' : \E q \in Callers : m \in {Observation(q), Opinion(q)}
    BY <1>4 DEF PerceptionInv, MemoriesOfTheDispatched
  <2>5. ASSUME NEW q \in Callers
        PROVE  /\ Observation(q) \in mirrored' <=> asked'[q] \in Decided
               /\ Opinion(q) \in mirrored' => Observation(q) \in mirrored'
    BY <1>1, <1>4, <2>2, <2>3 DEF PerceptionInv, MemoriesOfTheDispatched
  <2> QED
    BY <2>4, <2>5 DEF MemoriesOfTheDispatched, Observation, Opinion
<1> QED
  BY <1>2, <1>3, <1>5, LeaveKeeps, LeaveFrees DEF PerceptionInv

LEMMA PerceptionStep ==
  PerceptionAssumption /\ PerceptionInv /\ [ConduitSelfNext]_conduitVars => PerceptionInv'
<1> SUFFICES ASSUME PerceptionAssumption, PerceptionInv, [ConduitSelfNext]_conduitVars
             PROVE  PerceptionInv'
  OBVIOUS
<1> USE DEF PerceptionInv
<1>1. ASSUME UNCHANGED <<asked, lockHolder, decided, refusedTools, shown, mirrored>>
      PROVE  PerceptionInv'
  BY <1>1 DEF PerceptionTypeOK, LockIsOfThePerceived, MemoriesOfTheDispatched, ShownTypeOK,
              BlocksKeepTheSelf
<1>2. CASE Grow
  BY <1>1, <1>2 DEF Grow
<1>3. ASSUME NEW r \in Callers, NEW blocked \in BOOLEAN, NEW size, Handle(r, blocked, size)
      PROVE  PerceptionInv'
  BY <1>3, HandleKeeps
<1>4. ASSUME NEW r \in Callers, GiveUp(r) PROVE PerceptionInv'
  <2>1. "503 busy" \in Answers \cup {"stuck"} /\ "503 busy" \notin Decided
    BY DEF Answers, Decided
  <2> QED
    BY <1>4, <2>1, RefuseKeeps DEF GiveUp
<1>5. ASSUME NEW r \in Callers, ModelAnswers(r) PROVE PerceptionInv'
  BY <1>1, <1>5 DEF ModelAnswers
<1>6. ASSUME NEW r \in Callers, Invoke(r) PROVE PerceptionInv'
  <2>1. ~decided /\ refusedTools = {}
    BY <1>6 DEF Invoke, LockIsOfThePerceived
  <2> QED
    BY <1>1, <1>6, <2>1 DEF Invoke
<1>7. ASSUME NEW r \in Callers,
             PerceptionTimesOut(r) \/ Disconnect(r) \/ RoutingFails(r) \/ RecordFails(r)
      PROVE  PerceptionInv'
  <2>1. PICK status \in {"raised timeout", "raised cancelled", "500 routing", "raised error"} :
           /\ Leave(r, status)
           /\ asked[r] = "perceiving" /\ UNCHANGED <<decided, mirrored>>
    BY <1>7 DEF PerceptionTimesOut, Disconnect, RoutingFails, RecordFails
  <2>2. status \in Answers /\ status \notin Decided
    BY DEF Answers, Decided
  <2> QED
    BY <2>1, <2>2, UndecidedLeaveKeeps
<1>8. ASSUME NEW r \in Callers, NEW d \in Decisions, NEW f \in BOOLEAN, NEW b \in BOOLEAN,
             Decide(r, d, f, b)
      PROVE  PerceptionInv'
  BY <1>8, DecideKeeps
<1>9. CASE UNCHANGED conduitVars
  BY <1>1, <1>9 DEF conduitVars
<1> QED
  BY <1>2, <1>3, <1>4, <1>5, <1>6, <1>7, <1>8, <1>9 DEF ConduitSelfNext

LEMMA PerceptionInvHolds == PerceptionInv => ConduitIsOrderly
<1> SUFFICES ASSUME PerceptionInv PROVE ConduitIsOrderly
  OBVIOUS
<1>1. OnePerceives
  BY DEF PerceptionInv, LockIsOfThePerceived, OnePerceives
<1>2. \A r \in Callers, m \in mirrored :
         m.of = r => m \in {Observation(r), Opinion(r)}
  BY DEF PerceptionInv, MemoriesOfTheDispatched, Observation, Opinion, Mirrored
<1>3. DecisionsAreRemembered
  <2> SUFFICES ASSUME NEW r \in Callers
               PROVE  /\ asked[r] \in {"200 content", "200 filtered"} =>
                            Cardinality(Of(r, "observation")) = 1
                      /\ Of(r, "opinion") # {} => Of(r, "observation") # {}
                      /\ mirrored \intersect [of : {r}, tier : {"observation", "opinion"},
                                              tagged : BOOLEAN] # {}
                            => asked[r] \in {"200 content", "200 filtered", "500 error"}
    BY DEF DecisionsAreRemembered
  <2>1. Of(r, "observation") \subseteq {Observation(r)} /\ Of(r, "opinion") \subseteq {Opinion(r)}
    BY <1>2 DEF Of, Observation, Opinion, Mirrored
  <2>2. Observation(r) \in mirrored => Observation(r) \in Of(r, "observation")
    BY DEF Of, Observation, Mirrored
  <2>3. ASSUME asked[r] \in {"200 content", "200 filtered"}
        PROVE  Cardinality(Of(r, "observation")) = 1
    <3>1. Of(r, "observation") = {Observation(r)}
      BY <2>1, <2>2, <2>3 DEF PerceptionInv, MemoriesOfTheDispatched, Decided
    <3> QED
      BY <3>1, FS_Singleton
  <2>4. Of(r, "opinion") # {} => Opinion(r) \in mirrored
    BY <2>1 DEF Of
  <2>5. Opinion(r) \in mirrored => Observation(r) \in mirrored /\ asked[r] \in Decided
    BY DEF PerceptionInv, MemoriesOfTheDispatched
  <2>6. ASSUME NEW m \in mirrored, m.of = r PROVE asked[r] \in Decided
    BY <1>2, <2>5, <2>6 DEF PerceptionInv, MemoriesOfTheDispatched
  <2> QED
    BY <2>2, <2>3, <2>4, <2>5, <2>6 DEF Decided
<1>4. BlockIsWhole
  BY DEF PerceptionInv, BlocksKeepTheSelf, BlockIsWhole, Sections
<1> QED
  BY <1>1, <1>3, <1>4 DEF ConduitIsOrderly

\* However requests meet: one at a time is perceived, and it holds the lock; content is
\* answered only once its decision is remembered, and a request that was refused leaves no
\* memory; a perceived request sees who it is.
THEOREM ConduitIsAlwaysOrderly == ConduitSelfSpec => []ConduitIsOrderly
<1> USE PerceptionAssumption
<1>1. ConduitSelfInit => PerceptionInv
  BY PerceptionInitially
<1>2. PerceptionInv /\ [ConduitSelfNext]_conduitVars => PerceptionInv'
  BY PerceptionStep
<1>3. PerceptionInv => ConduitIsOrderly
  BY PerceptionInvHolds
<1> QED
  BY <1>1, <1>2, <1>3, PTL DEF ConduitSelfSpec

-----------------------------------------------------------------------------
(* What Turing does of its own accord                                       *)

ProducerKinds == {"curiosity", "hobby", "emotional", "blog", "reflection"}
StepsOf(k) ==
    CASE k = "curiosity" -> {"complete", "memory", "interest"}
      [] k = "hobby" -> {"complete", "memory", "mood"}
      [] k = "emotional" -> {"complete", "memory", "todo", "mood", "journal"}
      [] k = "blog" -> {"complete", "publish", "memory", "reward", "mood"}
      [] k = "reflection" -> {"check", "complete", "snapshot", "memory", "index"}
AfterMemory == {"reward", "mood", "todo", "interest", "index", "journal"}
StepNames == {"check", "complete", "publish", "snapshot", "memory"} \cup AfterMemory
Moods == [valence : -1..1, arousal : 0..1]
JobRecords == [kind : ProducerKinds, subject : Subjects \cup {"none"}, urgent : BOOLEAN,
               at : StepNames \cup {"queued", "ended"}, life : Nat, tick : Nat, was : Moods]

\* What follows a step, in lists of three and of five.
LEMMA FollowsOfThree ==
  ASSUME NEW a, NEW b, NEW c, a # b, a # c, b # c, NEW k \in ProducerKinds, Steps[k] = <<a, b, c>>
  PROVE  /\ StepAfter(k, a) = b /\ StepAfter(k, b) = c /\ StepAfter(k, c) = "ended"
         /\ Steps[k][1] = a
<1> DEFINE place(s) == CHOOSE i \in DOMAIN Steps[k] : Steps[k][i] = s
<1>1. /\ DOMAIN Steps[k] = 1..3 /\ Len(Steps[k]) = 3
      /\ Steps[k][1] = a /\ Steps[k][2] = b /\ Steps[k][3] = c
  OBVIOUS
<1>2. place(a) = 1 /\ place(b) = 2 /\ place(c) = 3
  BY <1>1
<1> HIDE DEF place
<1>3. \A s : StepAfter(k, s) = IF place(s) = 3 THEN "ended" ELSE Steps[k][place(s) + 1]
  BY <1>1 DEF StepAfter, place
<1> QED
  BY <1>1, <1>2, <1>3

LEMMA FollowsOfFive ==
  ASSUME NEW a, NEW b, NEW c, NEW d, NEW e, a \notin {b, c, d, e}, b \notin {c, d, e},
         c \notin {d, e}, d # e, NEW k \in ProducerKinds, Steps[k] = <<a, b, c, d, e>>
  PROVE  /\ StepAfter(k, a) = b /\ StepAfter(k, b) = c /\ StepAfter(k, c) = d
         /\ StepAfter(k, d) = e /\ StepAfter(k, e) = "ended" /\ Steps[k][1] = a
<1> DEFINE place(s) == CHOOSE i \in DOMAIN Steps[k] : Steps[k][i] = s
<1>1. /\ DOMAIN Steps[k] = 1..5 /\ Len(Steps[k]) = 5
      /\ Steps[k][1] = a /\ Steps[k][2] = b /\ Steps[k][3] = c /\ Steps[k][4] = d
      /\ Steps[k][5] = e
  OBVIOUS
<1>2. place(a) = 1 /\ place(b) = 2 /\ place(c) = 3 /\ place(d) = 4 /\ place(e) = 5
  BY <1>1
<1> HIDE DEF place
<1>3. \A s : StepAfter(k, s) = IF place(s) = 5 THEN "ended" ELSE Steps[k][place(s) + 1]
  BY <1>1 DEF StepAfter, place
<1> QED
  BY <1>1, <1>2, <1>3

\* The memory comes before whatever counts, a post before its memory, a snapshot too.
LEMMA StepsFollow ==
  ASSUME NEW k \in ProducerKinds, NEW s \in StepsOf(k)
  PROVE  /\ s \in StepNames /\ StepAfter(k, s) \in StepsOf(k) \cup {"ended"}
         /\ StepAfter(k, s) \in AfterMemory => s \in {"memory"} \cup AfterMemory
         /\ k = "blog" /\ StepAfter(k, s) = "memory" => s = "publish"
         /\ k = "reflection" /\ StepAfter(k, s) = "memory" => s = "snapshot"
         /\ k = "reflection" /\ StepAfter(k, s) = "snapshot" => s = "complete"
         /\ k = "reflection" /\ StepAfter(k, s) = "complete" => s = "check"
         /\ StepAfter(k, s) # "check"
         /\ Steps[k][1] \in {"check", "complete"} /\ Steps[k][1] \in StepsOf(k)
         /\ k = "reflection" => Steps[k][1] = "check"
<1>1. CASE k = "curiosity"
  <2>1. Steps[k] = <<"complete", "memory", "interest">>
    BY <1>1 DEF Steps, CuriositySteps
  <2>2. /\ StepAfter(k, "complete") = "memory" /\ StepAfter(k, "memory") = "interest"
        /\ StepAfter(k, "interest") = "ended" /\ Steps[k][1] = "complete"
    BY <2>1, FollowsOfThree
  <2> QED
    BY <1>1, <2>2 DEF StepsOf, StepNames, AfterMemory
<1>2. CASE k = "hobby"
  <2>1. Steps[k] = <<"complete", "memory", "mood">>
    BY <1>2 DEF Steps, HobbySteps
  <2>2. /\ StepAfter(k, "complete") = "memory" /\ StepAfter(k, "memory") = "mood"
        /\ StepAfter(k, "mood") = "ended" /\ Steps[k][1] = "complete"
    BY <2>1, FollowsOfThree
  <2> QED
    BY <1>2, <2>2 DEF StepsOf, StepNames, AfterMemory
<1>3. CASE k = "emotional"
  <2>1. Steps[k] = <<"complete", "memory", "todo", "mood", "journal">>
    BY <1>3 DEF Steps, EmotionalSteps
  <2>2. /\ StepAfter(k, "complete") = "memory" /\ StepAfter(k, "memory") = "todo"
        /\ StepAfter(k, "todo") = "mood" /\ StepAfter(k, "mood") = "journal"
        /\ StepAfter(k, "journal") = "ended" /\ Steps[k][1] = "complete"
    BY <2>1, FollowsOfFive
  <2> QED
    BY <1>3, <2>2 DEF StepsOf, StepNames, AfterMemory
<1>4. CASE k = "blog"
  <2>1. Steps[k] = <<"complete", "publish", "memory", "reward", "mood">>
    BY <1>4 DEF Steps, BlogSteps
  <2>2. /\ StepAfter(k, "complete") = "publish" /\ StepAfter(k, "publish") = "memory"
        /\ StepAfter(k, "memory") = "reward" /\ StepAfter(k, "reward") = "mood"
        /\ StepAfter(k, "mood") = "ended" /\ Steps[k][1] = "complete"
    BY <2>1, FollowsOfFive
  <2> QED
    BY <1>4, <2>2 DEF StepsOf, StepNames, AfterMemory
<1>5. CASE k = "reflection"
  <2>1. Steps[k] = <<"check", "complete", "snapshot", "memory", "index">>
    BY <1>5 DEF Steps, ReflectionSteps
  <2>2. /\ StepAfter(k, "check") = "complete" /\ StepAfter(k, "complete") = "snapshot"
        /\ StepAfter(k, "snapshot") = "memory" /\ StepAfter(k, "memory") = "index"
        /\ StepAfter(k, "index") = "ended" /\ Steps[k][1] = "check"
    BY <2>1, FollowsOfFive
  <2> QED
    BY <1>5, <2>2 DEF StepsOf, StepNames, AfterMemory
<1> QED
  BY <1>1, <1>2, <1>3, <1>4, <1>5 DEF ProducerKinds

LEMMA DomainOfSteps == DOMAIN Steps = ProducerKinds
BY DEF Steps, ProducerKinds

\* A job moves the mood within its ranges.
LEMMA MoodsMove ==
  ASSUME NEW m \in Moods
  PROVE  HobbyMoves(m) \in Moods /\ BlogMoves(m) \in Moods /\ EmotionMoves(m) \in Moods
<1>1. m.valence \in -1..1 /\ m.arousal \in 0..1 /\ m = [valence |-> m.valence, arousal |-> m.arousal]
  BY DEF Moods
<1>2. Clamp(m.valence + 1, -1, 1) \in -1..1 /\ Clamp(m.arousal - 1, 0, 1) \in 0..1
  BY <1>1 DEF Clamp
<1>3. m.valence + (IF m.valence < 0 THEN 1 ELSE -1) \in -1..1
  BY <1>1
<1>4. BlogMoves(m) = [valence |-> Clamp(m.valence + 1, -1, 1), arousal |-> m.arousal]
  BY <1>1 DEF BlogMoves
<1> QED
  BY <1>1, <1>2, <1>3, <1>4 DEF HobbyMoves, EmotionMoves, Moods

ProducerTypeOK ==
    /\ jobs \in Seq(JobRecords) /\ effects \in Seq(SUBSET StepNames) /\ Len(effects) = Len(jobs)
    /\ falls \in Nat /\ seeded \in Nat /\ urgeTick \in Nat
    /\ submittedAt \in [ProducerKinds -> Nat] /\ mood \in Moods
    /\ interests \in [Subjects -> Nat] /\ snapshots \in [Subjects -> Nat]

\* A job knows what it is about, and takes the steps of its producer.
JobsAreOfTheirKind ==
    \A j \in DOMAIN jobs :
        /\ jobs[j].kind \in {"curiosity", "reflection"} => jobs[j].subject \in Subjects
        /\ jobs[j].kind = "hobby" => seeded > 0
        /\ jobs[j].at \in StepsOf(jobs[j].kind) \cup {"queued", "ended"}
        /\ effects[j] \subseteq StepsOf(jobs[j].kind)

\* Where a job is, and what it did, tells what it did before.
JobsGoInOrder ==
    \A j \in DOMAIN jobs :
        /\ jobs[j].at \in AfterMemory \/ effects[j] \cap AfterMemory # {} => "memory" \in effects[j]
        /\ jobs[j].kind = "blog" /\ (jobs[j].at = "memory" \/ "memory" \in effects[j]) =>
              "publish" \in effects[j]
        /\ jobs[j].kind = "reflection" /\ (jobs[j].at = "memory" \/ "memory" \in effects[j]) =>
              "snapshot" \in effects[j]

OneInHand ==
    \A i, j \in DOMAIN jobs :
        jobs[i].at \notin {"queued", "ended"} /\ jobs[j].at \notin {"queued", "ended"} => i = j

\* A content that is reflected on has no snapshot before this one.
SnapshotsAreFirst ==
    \A j \in DOMAIN jobs :
        /\ jobs[j].kind = "reflection" /\ jobs[j].at \in {"complete", "snapshot"} =>
              snapshots[jobs[j].subject] = 0
        /\ "snapshot" \in effects[j] => snapshots[jobs[j].subject] = j

InterestsAreKept ==
    \A t \in Subjects :
        /\ interests[t] # 0 => /\ interests[t] \in DOMAIN jobs /\ jobs[interests[t]].subject = t
                               /\ "interest" \in effects[interests[t]]
        /\ \A j \in DOMAIN jobs :
              jobs[j].subject = t /\ "interest" \in effects[j] => interests[t] # 0

\* The producer remembers its last job of this life.
ProducersKeepDistance ==
    /\ \A k \in ProducerKinds : submittedAt[k] <= urgeTick
    /\ \A j \in DOMAIN jobs :
          /\ jobs[j].life <= falls
          /\ jobs[j].life = falls => jobs[j].tick <= submittedAt[jobs[j].kind]
    /\ \A i, j \in DOMAIN jobs :
          i < j /\ jobs[i].kind = jobs[j].kind /\ jobs[i].life = jobs[j].life =>
              jobs[j].tick - jobs[i].tick >= Urges

ProducerInv ==
    /\ ProducerTypeOK /\ JobsAreOfTheirKind /\ JobsGoInOrder /\ OneInHand
    /\ SnapshotsAreFirst /\ InterestsAreKept /\ ProducersKeepDistance

LEMMA ProducersInitially == ProducersInit => ProducerInv
<1> SUFFICES ASSUME ProducersInit PROVE ProducerInv
  OBVIOUS
<1> USE DEF ProducersInit
<1>1. ProducerTypeOK
  <2>1. Neutral \in Moods
    BY DEF Neutral, Moods
  <2>2. jobs \in Seq(JobRecords) /\ effects \in Seq(SUBSET StepNames) /\ Len(effects) = Len(jobs)
    OBVIOUS
  <2> QED
    BY <2>1, <2>2, DomainOfSteps DEF ProducerTypeOK
<1>2. DOMAIN jobs = {}
  OBVIOUS
<1>3. JobsAreOfTheirKind /\ JobsGoInOrder /\ OneInHand /\ SnapshotsAreFirst
  BY <1>2 DEF JobsAreOfTheirKind, JobsGoInOrder, OneInHand, SnapshotsAreFirst
<1>4. InterestsAreKept /\ ProducersKeepDistance
  BY <1>2, DomainOfSteps DEF InterestsAreKept, ProducersKeepDistance
<1> QED
  BY <1>1, <1>3, <1>4 DEF ProducerInv

\* The clock, the hobbies and the loop leave the jobs alone.
LEMMA ClockKeeps ==
  ASSUME ProducerInv, UNCHANGED <<submittedAt, jobs, effects, storeVars, falls>>,
         seeded' \in Nat, seeded' >= seeded, urgeTick' \in Nat, urgeTick' >= urgeTick
  PROVE  ProducerInv'
<1> USE DEF ProducerInv, storeVars
<1>1. ProducerTypeOK'
  BY DEF ProducerTypeOK
<1>2. JobsAreOfTheirKind'
  BY DEF JobsAreOfTheirKind, ProducerTypeOK
<1>3. JobsGoInOrder' /\ OneInHand' /\ SnapshotsAreFirst' /\ InterestsAreKept'
  BY DEF JobsGoInOrder, OneInHand, SnapshotsAreFirst, InterestsAreKept
<1>4. ProducersKeepDistance'
  <2>1. \A k \in ProducerKinds : submittedAt'[k] <= urgeTick'
    BY DEF ProducersKeepDistance, ProducerTypeOK
  <2> QED
    BY <2>1 DEF ProducersKeepDistance
<1> QED
  BY <1>1, <1>2, <1>3, <1>4

LEMMA CandidatesAreOfProducers ==
  ASSUME NEW c \in Candidates
  PROVE  /\ c.kind \in ProducerKinds /\ c.subject \in Subjects \cup {"none"} /\ c.urgent \in BOOLEAN
         /\ c.kind \in {"curiosity", "reflection"} => c.subject \in Subjects
         /\ c.kind = "hobby" => seeded # 0
<1> USE DEF Candidate, ProducerKinds
<1>1. CASE c \in CuriosityCandidates
  <2>1. PICK t \in Subjects : c = [kind |-> "curiosity", subject |-> t, urgent |-> FALSE]
    BY <1>1 DEF CuriosityCandidates
  <2> QED
    BY <2>1
<1>2. CASE c \in ReflectionCandidates
  <2>1. PICK t \in Subjects : c = [kind |-> "reflection", subject |-> t, urgent |-> FALSE]
    BY <1>2 DEF ReflectionCandidates
  <2> QED
    BY <2>1
<1>3. CASE c \in HobbyCandidates
  <2>1. seeded # 0 /\ c = [kind |-> "hobby", subject |-> "none", urgent |-> FALSE]
    BY <1>3 DEF HobbyCandidates
  <2> QED
    BY <2>1
<1>4. CASE c \in EmotionalCandidates
  <2>1. PICK u \in BOOLEAN : c = [kind |-> "emotional", subject |-> "none", urgent |-> u]
    BY <1>4 DEF EmotionalCandidates
  <2> QED
    BY <2>1
<1>5. CASE c \in BlogCandidates
  <2>1. c = [kind |-> "blog", subject |-> "none", urgent |-> FALSE]
    BY <1>5 DEF BlogCandidates
  <2> QED
    BY <2>1
<1> QED
  BY <1>1, <1>2, <1>3, <1>4, <1>5 DEF Candidates

LEMMA SubmitKeeps ==
  ASSUME UrgesAssumption, ProducerInv, NEW c \in Candidates, Submit(c)
  PROVE  ProducerInv'
<1> DEFINE n == Len(jobs)
           r == [kind |-> c.kind, subject |-> c.subject, urgent |-> c.urgent,
                 at |-> "queued", life |-> falls, tick |-> urgeTick, was |-> Neutral]
<1>1. /\ c.kind \in ProducerKinds /\ c.subject \in Subjects \cup {"none"} /\ c.urgent \in BOOLEAN
      /\ c.kind \in {"curiosity", "reflection"} => c.subject \in Subjects
      /\ c.kind = "hobby" => seeded # 0
  BY CandidatesAreOfProducers
<1>2. /\ jobs' = Append(jobs, r) /\ effects' = Append(effects, {})
      /\ submittedAt' = [submittedAt EXCEPT ![c.kind] = urgeTick]
      /\ urgeTick - submittedAt[c.kind] >= Urges
      /\ UNCHANGED <<seeded, urgeTick, storeVars, falls>>
  BY DEF Submit
<1>3. jobs \in Seq(JobRecords) /\ effects \in Seq(SUBSET StepNames) /\ Len(effects) = n
      /\ n \in Nat /\ DOMAIN jobs = 1..n /\ DOMAIN effects = 1..n
  BY DEF ProducerInv, ProducerTypeOK
<1>4. r \in JobRecords
  <2>1. Neutral \in Moods
    BY DEF Neutral, Moods
  <2> QED
    BY <1>1, <2>1 DEF JobRecords, ProducerInv, ProducerTypeOK
<1>5. /\ r.kind = c.kind /\ r.subject = c.subject /\ r.at = "queued" /\ r.life = falls
      /\ r.tick = urgeTick
  OBVIOUS
<1> HIDE DEF r
<1>6. /\ jobs' \in Seq(JobRecords) /\ DOMAIN jobs' = 1..(n + 1) /\ Len(jobs') = n + 1
      /\ jobs'[n + 1] = r /\ \A i \in 1..n : jobs'[i] = jobs[i]
  BY <1>2, <1>3, <1>4, AppendProperties
<1>7. /\ effects' \in Seq(SUBSET StepNames) /\ Len(effects') = n + 1
      /\ effects'[n + 1] = {} /\ \A i \in 1..n : effects'[i] = effects[i]
  BY <1>2, <1>3, AppendProperties
<1> HIDE DEF n
<1>8. ProducerTypeOK'
  BY <1>1, <1>2, <1>6, <1>7 DEF ProducerInv, ProducerTypeOK, storeVars
<1>9. \A j \in 1..(n + 1) : j = n + 1 \/ j \in 1..n
  BY <1>3
<1>10. JobsAreOfTheirKind'
  BY <1>1, <1>2, <1>3, <1>5, <1>6, <1>7, <1>9
     DEF ProducerInv, ProducerTypeOK, JobsAreOfTheirKind
<1>11. JobsGoInOrder'
  BY <1>3, <1>5, <1>6, <1>7, <1>9 DEF ProducerInv, JobsGoInOrder, AfterMemory
<1>12. OneInHand'
  BY <1>3, <1>5, <1>6, <1>9 DEF ProducerInv, OneInHand
<1>13. SnapshotsAreFirst'
  BY <1>2, <1>3, <1>5, <1>6, <1>7, <1>9 DEF ProducerInv, SnapshotsAreFirst, storeVars
<1>14. InterestsAreKept'
  BY <1>2, <1>3, <1>5, <1>6, <1>7, <1>9 DEF ProducerInv, InterestsAreKept, storeVars
<1>15. ProducersKeepDistance'
  <2>1. \A k \in ProducerKinds : /\ submittedAt'[k] = IF k = c.kind THEN urgeTick ELSE submittedAt[k]
                             /\ submittedAt'[k] \in Nat /\ submittedAt[k] <= submittedAt'[k]
                             /\ submittedAt'[k] <= urgeTick
    BY <1>1, <1>2 DEF ProducerInv, ProducerTypeOK, ProducersKeepDistance
  <2>2. \A j \in 1..n : jobs[j].tick \in Nat /\ jobs[j].kind \in ProducerKinds /\ jobs[j].life \in Nat
    <3>1. \A j \in 1..n : jobs[j] \in JobRecords
      BY <1>3
    <3> QED
      BY <3>1 DEF JobRecords
  <2>3. ASSUME NEW j \in 1..(n + 1)
        PROVE  /\ jobs'[j].life <= falls
               /\ jobs'[j].life = falls => jobs'[j].tick <= submittedAt'[jobs'[j].kind]
    <3>1. CASE j = n + 1
      BY <1>1, <1>5, <1>6, <2>1, <3>1 DEF ProducerInv, ProducerTypeOK
    <3>2. CASE j \in 1..n
      <4>1. /\ jobs[j].life <= falls
            /\ jobs[j].life = falls => jobs[j].tick <= submittedAt[jobs[j].kind]
        BY <1>3, <3>2 DEF ProducerInv, ProducersKeepDistance
      <4>2. submittedAt[jobs[j].kind] \in Nat
        BY <2>2, <3>2 DEF ProducerInv, ProducerTypeOK
      <4> QED
        BY <1>6, <2>1, <2>2, <3>2, <4>1, <4>2
    <3> QED
      BY <1>9, <3>1, <3>2
  <2>4. ASSUME NEW i \in 1..(n + 1), NEW j \in 1..(n + 1), i < j,
               jobs'[i].kind = jobs'[j].kind, jobs'[i].life = jobs'[j].life
        PROVE  jobs'[j].tick - jobs'[i].tick >= Urges
    <3>1. i \in 1..n
      BY <1>3, <2>4
    <3>2. CASE j = n + 1
      <4>1. jobs[i].kind = c.kind /\ jobs[i].life = falls /\ jobs'[j].tick = urgeTick
        BY <1>5, <1>6, <2>4, <3>1, <3>2
      <4>2. jobs[i].tick <= submittedAt[c.kind]
        BY <1>3, <3>1, <4>1 DEF ProducerInv, ProducersKeepDistance
      <4>3. submittedAt[c.kind] \in Nat /\ urgeTick \in Nat /\ jobs'[i].tick = jobs[i].tick
        BY <1>1, <1>6, <3>1 DEF ProducerInv, ProducerTypeOK
      <4> QED
        BY <1>2, <2>2, <3>1, <4>1, <4>2, <4>3 DEF UrgesAssumption
    <3>3. CASE j \in 1..n
      BY <1>3, <1>6, <2>4, <3>1, <3>3 DEF ProducerInv, ProducersKeepDistance
    <3> QED
      BY <1>9, <3>2, <3>3
  <2> QED
    BY <1>2, <1>6, <2>1, <2>3, <2>4 DEF ProducersKeepDistance
<1> QED
  BY <1>8, <1>10, <1>11, <1>12, <1>13, <1>14, <1>15 DEF ProducerInv

\* Jobs that move along keep what they are.
SameJobs ==
    /\ jobs' \in Seq(JobRecords) /\ Len(jobs') = Len(jobs) /\ DOMAIN jobs' = DOMAIN jobs
    /\ \A i \in DOMAIN jobs :
          /\ jobs'[i].kind = jobs[i].kind /\ jobs'[i].subject = jobs[i].subject
          /\ jobs'[i].life = jobs[i].life /\ jobs'[i].tick = jobs[i].tick

LEMMA SameJobsKeepDistance ==
  ASSUME ProducerInv, SameJobs, UNCHANGED <<submittedAt, urgeTick, falls>>
  PROVE  ProducersKeepDistance'
BY DEF ProducerInv, SameJobs, ProducersKeepDistance

LEMMA JobMoves ==
  ASSUME ProducerInv, NEW j \in DOMAIN jobs, NEW to \in StepNames \cup {"queued", "ended"}, NEW m \in Moods,
         jobs' = [jobs EXCEPT ![j] = [jobs[j] EXCEPT !.at = to, !.was = m]]
  PROVE  /\ SameJobs /\ jobs'[j].at = to /\ jobs'[j].was = m
         /\ \A i \in DOMAIN jobs : i # j => jobs'[i].at = jobs[i].at
<1>1. jobs \in Seq(JobRecords) /\ DOMAIN jobs = 1..Len(jobs)
  BY DEF ProducerInv, ProducerTypeOK
<1>2. PICK r : r = [jobs[j] EXCEPT !.at = to, !.was = m]
  OBVIOUS
<1>3. jobs[j] \in JobRecords
  BY <1>1
<1>4. /\ r \in JobRecords /\ r.at = to /\ r.was = m /\ r.kind = jobs[j].kind
      /\ r.subject = jobs[j].subject /\ r.life = jobs[j].life /\ r.tick = jobs[j].tick
  BY <1>2, <1>3 DEF JobRecords
<1>5. /\ jobs' \in Seq(JobRecords) /\ Len(jobs') = Len(jobs) /\ DOMAIN jobs' = DOMAIN jobs
      /\ \A i \in DOMAIN jobs : jobs'[i] = IF i = j THEN r ELSE jobs[i]
  BY <1>1, <1>2, <1>4, ExceptSeq
<1> QED
  BY <1>4, <1>5 DEF SameJobs

LEMMA JobBeginsKeeps ==
  ASSUME ProducerInv, NEW j \in DOMAIN jobs, JobBegins(j)
  PROVE  ProducerInv'
<1> DEFINE to == Steps[jobs[j].kind][1]
<1>1. jobs[j] \in JobRecords
  BY DEF ProducerInv, ProducerTypeOK
<1>2. jobs[j].kind \in ProducerKinds
  BY <1>1 DEF JobRecords
<1>3. /\ to \in {"check", "complete"} /\ to \in StepsOf(jobs[j].kind)
      /\ jobs[j].kind = "reflection" => to = "check"
  <2>1. \E s : s \in StepsOf(jobs[j].kind)
    BY <1>2 DEF StepsOf, ProducerKinds
  <2> QED
    BY <1>2, <2>1, StepsFollow
<1>4. /\ jobs' = [jobs EXCEPT ![j] = [jobs[j] EXCEPT !.at = to, !.was = mood]]
      /\ UNCHANGED <<seeded, urgeTick, submittedAt, effects, storeVars, falls>>
      /\ JobInHand = {}
  BY DEF JobBegins
<1> HIDE DEF to
<1>5. to \in StepNames \cup {"queued", "ended"} /\ mood \in Moods
  BY <1>3 DEF StepNames, ProducerInv, ProducerTypeOK
<1>6. /\ SameJobs /\ jobs'[j].at = to
      /\ \A i \in DOMAIN jobs : i # j => jobs'[i].at = jobs[i].at
  BY <1>4, <1>5, JobMoves
<1>7. DOMAIN jobs' = DOMAIN jobs
  BY <1>6 DEF SameJobs
<1>8. ProducerTypeOK'
  BY <1>4, <1>6 DEF ProducerInv, ProducerTypeOK, SameJobs, storeVars
<1>9. JobsAreOfTheirKind'
  BY <1>3, <1>4, <1>6 DEF ProducerInv, JobsAreOfTheirKind, SameJobs
<1>10. JobsGoInOrder'
  BY <1>3, <1>4, <1>6 DEF ProducerInv, JobsGoInOrder, SameJobs, AfterMemory
<1>11. OneInHand'
  BY <1>4, <1>6, <1>7 DEF OneInHand, JobInHand
<1>12. SnapshotsAreFirst'
  BY <1>3, <1>4, <1>6 DEF ProducerInv, SnapshotsAreFirst, SameJobs, storeVars
<1>13. InterestsAreKept'
  BY <1>4, <1>6 DEF ProducerInv, InterestsAreKept, SameJobs, storeVars
<1> QED
  BY <1>4, <1>6, <1>8, <1>9, <1>10, <1>11, <1>12, <1>13, SameJobsKeepDistance DEF ProducerInv

\* Jobs that end, with what they did or with a post out besides.
LEMMA JobsEndKeep ==
  ASSUME ProducerInv, SameJobs,
         \A i \in DOMAIN jobs : jobs'[i].at \in {jobs[i].at, "ended"},
         effects' \in Seq(SUBSET StepNames), Len(effects') = Len(effects),
         \A i \in DOMAIN jobs :
            \/ effects'[i] = effects[i]
            \/ jobs[i].at = "publish" /\ effects'[i] = effects[i] \cup {"publish"},
         UNCHANGED <<seeded, storeVars>>, falls' \in Nat, urgeTick' \in Nat,
         submittedAt' \in [ProducerKinds -> Nat], ProducersKeepDistance'
  PROVE  ProducerInv'
<1> USE DEF ProducerInv, SameJobs
<1>1. ProducerTypeOK'
  BY DEF ProducerTypeOK, storeVars
<1>2. JobsAreOfTheirKind'
  <2> SUFFICES ASSUME NEW i \in DOMAIN jobs
               PROVE  /\ jobs[i].kind \in {"curiosity", "reflection"} => jobs[i].subject \in Subjects
                      /\ jobs[i].kind = "hobby" => seeded > 0
                      /\ jobs'[i].at \in StepsOf(jobs[i].kind) \cup {"queued", "ended"}
                      /\ effects'[i] \subseteq StepsOf(jobs[i].kind)
    BY DEF JobsAreOfTheirKind
  <2>1. /\ jobs[i].at \in StepsOf(jobs[i].kind) \cup {"queued", "ended"}
        /\ effects[i] \subseteq StepsOf(jobs[i].kind)
        /\ jobs[i].kind \in {"curiosity", "reflection"} => jobs[i].subject \in Subjects
        /\ jobs[i].kind = "hobby" => seeded > 0
    BY DEF JobsAreOfTheirKind
  <2>2. jobs'[i].at \in {jobs[i].at, "ended"}
    OBVIOUS
  <2>3. effects'[i] \subseteq StepsOf(jobs[i].kind)
    BY <2>1
  <2> QED
    BY <2>1, <2>2, <2>3
<1>3. JobsGoInOrder'
  BY DEF JobsGoInOrder, AfterMemory
<1>4. OneInHand'
  BY DEF OneInHand
<1>5. SnapshotsAreFirst'
  BY DEF SnapshotsAreFirst, storeVars
<1>6. InterestsAreKept'
  <2>1. \A i \in DOMAIN jobs : "interest" \in effects'[i] <=> "interest" \in effects[i]
    OBVIOUS
  <2> QED
    BY <2>1 DEF InterestsAreKept, storeVars
<1> QED
  BY <1>1, <1>2, <1>3, <1>4, <1>5, <1>6

LEMMA StepRaisesKeeps ==
  ASSUME ProducerInv, NEW j \in DOMAIN jobs, StepRaises(j)
  PROVE  ProducerInv'
<1>1. jobs \in Seq(JobRecords) /\ jobs[j] \in JobRecords /\ effects \in Seq(SUBSET StepNames)
      /\ DOMAIN effects = DOMAIN jobs /\ Len(effects) = Len(jobs) /\ DOMAIN jobs = 1..Len(jobs)
  BY DEF ProducerInv, ProducerTypeOK
<1>2. jobs' = [jobs EXCEPT ![j] = [jobs[j] EXCEPT !.at = "ended", !.was = jobs[j].was]]
  BY <1>1 DEF StepRaises, JobRecords
<1>3. "ended" \in StepNames \cup {"queued", "ended"} /\ jobs[j].was \in Moods
  BY <1>1 DEF JobRecords
<1>4. /\ SameJobs /\ jobs'[j].at = "ended"
      /\ \A i \in DOMAIN jobs : i # j => jobs'[i].at = jobs[i].at
  BY <1>2, <1>3, JobMoves
<1>5. /\ effects' \in Seq(SUBSET StepNames) /\ Len(effects') = Len(effects)
      /\ \A i \in DOMAIN jobs :
            \/ effects'[i] = effects[i]
            \/ jobs[i].at = "publish" /\ effects'[i] = effects[i] \cup {"publish"}
  <2>1. CASE UNCHANGED effects
    BY <1>1, <2>1
  <2>2. CASE jobs[j].at = "publish" /\ effects' = [effects EXCEPT ![j] = @ \cup {"publish"}]
    <3>1. effects[j] \cup {"publish"} \in SUBSET StepNames
      BY <1>1 DEF StepNames
    <3> QED
      BY <1>1, <2>2, <3>1, ExceptSeq
  <2> QED
    BY <2>1, <2>2 DEF StepRaises
<1>6. UNCHANGED <<seeded, urgeTick, submittedAt, storeVars, falls>>
  BY DEF StepRaises
<1>7. falls' \in Nat /\ urgeTick' \in Nat /\ submittedAt' \in [ProducerKinds -> Nat]
  BY <1>6 DEF ProducerInv, ProducerTypeOK
<1> QED
  BY <1>4, <1>5, <1>6, <1>7, JobsEndKeep, SameJobsKeepDistance

LEMMA FallsKeeps ==
  ASSUME UrgesAssumption, ProducerInv, Falls
  PROVE  ProducerInv'
<1>1. jobs \in Seq(JobRecords) /\ DOMAIN jobs = 1..Len(jobs) /\ Len(jobs) \in Nat
  BY DEF ProducerInv, ProducerTypeOK
<1>2. jobs' = [j \in 1..Len(jobs) |-> [jobs[j] EXCEPT !.at = "ended"]]
  BY <1>1 DEF Falls
<1>3. ASSUME NEW j \in 1..Len(jobs)
      PROVE  /\ [jobs[j] EXCEPT !.at = "ended"] \in JobRecords
             /\ jobs'[j].kind = jobs[j].kind /\ jobs'[j].subject = jobs[j].subject
             /\ jobs'[j].life = jobs[j].life /\ jobs'[j].tick = jobs[j].tick
             /\ jobs'[j].at = "ended"
  <2>1. jobs[j] \in JobRecords
    BY <1>1
  <2>2. PICK r : r = [jobs[j] EXCEPT !.at = "ended"]
    OBVIOUS
  <2>3. /\ r \in JobRecords /\ r.at = "ended" /\ r.kind = jobs[j].kind
        /\ r.subject = jobs[j].subject /\ r.life = jobs[j].life /\ r.tick = jobs[j].tick
    BY <2>1, <2>2 DEF JobRecords
  <2> QED
    BY <1>2, <2>2, <2>3
<1>4. jobs' \in [1..Len(jobs) -> JobRecords] /\ DOMAIN jobs' = 1..Len(jobs)
  BY <1>2, <1>3
<1>5. jobs' \in Seq(JobRecords)
  BY <1>1, <1>4, SeqDef
<1>6. Len(jobs') = Len(jobs)
  BY <1>1, <1>4, <1>5, LenProperties
<1>7. SameJobs
  BY <1>1, <1>3, <1>4, <1>5, <1>6 DEF SameJobs
<1>8. /\ falls' = falls + 1 /\ urgeTick' = 0 /\ submittedAt' = [k \in ProducerKinds |-> 0]
      /\ UNCHANGED <<seeded, effects, storeVars>>
  BY DomainOfSteps DEF Falls
<1>9. ProducersKeepDistance'
  <2>1. \A j \in DOMAIN jobs : jobs[j].life <= falls /\ jobs[j].life \in Nat
    <3>1. \A j \in DOMAIN jobs : jobs[j] \in JobRecords
      BY <1>1
    <3> QED
      BY <3>1 DEF ProducerInv, ProducersKeepDistance, JobRecords
  <2>2. \A j \in DOMAIN jobs' : jobs'[j].life < falls'
    BY <1>7, <1>8, <2>1 DEF SameJobs, ProducerInv, ProducerTypeOK
  <2>3. falls' \in Nat /\ \A j \in DOMAIN jobs' : jobs'[j].life \in Nat
    <3>1. DOMAIN jobs' = DOMAIN jobs /\ \A j \in DOMAIN jobs : jobs'[j].life = jobs[j].life
      BY <1>7 DEF SameJobs
    <3>2. falls' \in Nat
      BY <1>8 DEF ProducerInv, ProducerTypeOK
    <3> QED
      BY <2>1, <3>1, <3>2
  <2>4. \A j \in DOMAIN jobs' : jobs'[j].life <= falls' /\ jobs'[j].life # falls'
    BY <2>2, <2>3
  <2>5. \A i, j \in DOMAIN jobs' :
          i < j /\ jobs'[i].kind = jobs'[j].kind /\ jobs'[i].life = jobs'[j].life =>
              jobs'[j].tick - jobs'[i].tick >= Urges
    BY <1>7 DEF SameJobs, ProducerInv, ProducersKeepDistance
  <2>6. \A k \in ProducerKinds : submittedAt'[k] <= urgeTick'
    BY <1>8
  <2> QED
    BY <2>4, <2>5, <2>6 DEF ProducersKeepDistance
<1>10. /\ effects' \in Seq(SUBSET StepNames) /\ Len(effects') = Len(effects)
       /\ falls' \in Nat /\ urgeTick' \in Nat /\ submittedAt' \in [ProducerKinds -> Nat]
  BY <1>8 DEF ProducerInv, ProducerTypeOK
<1> QED
  BY <1>1, <1>3, <1>7, <1>8, <1>9, <1>10, JobsEndKeep

LEMMA DoStepKeeps ==
  ASSUME ProducerInv, NEW j \in DOMAIN jobs, DoStep(j)
  PROVE  ProducerInv'
<1> PICK s, k, t, to : /\ s = jobs[j].at /\ k = jobs[j].kind /\ t = jobs[j].subject
                       /\ to = IF Skips(j) THEN "ended" ELSE StepAfter(k, s)
  OBVIOUS
<1>1. /\ jobs \in Seq(JobRecords) /\ jobs[j] \in JobRecords /\ effects \in Seq(SUBSET StepNames)
      /\ DOMAIN effects = DOMAIN jobs /\ Len(effects) = Len(jobs) /\ DOMAIN jobs = 1..Len(jobs)
      /\ Len(jobs) \in Nat /\ j # 0
  BY DEF ProducerInv, ProducerTypeOK
<1>2. k \in ProducerKinds
  BY <1>1 DEF JobRecords
<1>3. s \in StepsOf(k) /\ s \notin {"queued", "ended"}
  BY DEF ProducerInv, JobsAreOfTheirKind, DoStep, JobInHand
<1>4. \A i \in DOMAIN jobs : i # j => jobs[i].at \in {"queued", "ended"}
  BY <1>3 DEF ProducerInv, OneInHand
<1>5. jobs' = [jobs EXCEPT ![j] = [jobs[j] EXCEPT !.at = to, !.was = jobs[j].was]]
  <2>1. jobs' = [jobs EXCEPT ![j] = [jobs[j] EXCEPT !.at = to]]
    BY DEF DoStep
  <2>2. [jobs[j] EXCEPT !.at = to] = [jobs[j] EXCEPT !.at = to, !.was = jobs[j].was]
    BY <1>1 DEF JobRecords
  <2> QED
    BY <2>1, <2>2
<1>6. /\ s \in StepNames /\ StepAfter(k, s) \in StepsOf(k) \cup {"ended"}
      /\ StepAfter(k, s) \in StepNames \cup {"ended"}
  <2>1. s \in StepNames /\ StepAfter(k, s) \in StepsOf(k) \cup {"ended"}
    BY <1>2, <1>3, StepsFollow
  <2>2. StepsOf(k) \subseteq StepNames
    BY <1>2, StepsFollow
  <2> QED
    BY <2>1, <2>2
<1>7. to \in StepNames \cup {"queued", "ended"} /\ to \in StepsOf(k) \cup {"ended"}
      /\ jobs[j].was \in Moods
  BY <1>1, <1>6 DEF JobRecords
<1>8. /\ SameJobs /\ jobs'[j].at = to
      /\ \A i \in DOMAIN jobs : i # j => jobs'[i].at = jobs[i].at
  <2>1. PICK r : r = [jobs[j] EXCEPT !.at = to, !.was = jobs[j].was]
    OBVIOUS
  <2>2. /\ r \in JobRecords /\ r.at = to /\ r.kind = jobs[j].kind
        /\ r.subject = jobs[j].subject /\ r.life = jobs[j].life /\ r.tick = jobs[j].tick
    BY <1>1, <1>7, <2>1 DEF JobRecords
  <2>3. /\ jobs' \in Seq(JobRecords) /\ Len(jobs') = Len(jobs) /\ DOMAIN jobs' = DOMAIN jobs
        /\ \A i \in DOMAIN jobs : jobs'[i] = IF i = j THEN r ELSE jobs[i]
    BY <1>1, <1>5, <2>1, <2>2, ExceptSeq
  <2> QED
    BY <2>2, <2>3 DEF SameJobs
<1>9. PICK did \in {effects[j], effects[j] \cup {s}} :
         /\ effects' = [effects EXCEPT ![j] = did]
         /\ s # "todo" /\ ~Skips(j) => did = effects[j] \cup {s}
         /\ Skips(j) => did = effects[j]
  BY <1>1 DEF DoStep
<1>10. did \in SUBSET StepNames /\ effects[j] \subseteq did /\ did \subseteq effects[j] \cup {s}
  BY <1>1, <1>6, <1>9
<1>11. /\ effects' \in Seq(SUBSET StepNames) /\ Len(effects') = Len(effects)
       /\ effects'[j] = did /\ \A i \in DOMAIN jobs : i # j => effects'[i] = effects[i]
  BY <1>1, <1>9, <1>10, ExceptSeq
<1>12. mood' \in Moods
  <2>1. Moved(j) \in Moods
    BY <1>1, MoodsMove DEF Moved, JobRecords
  <2> QED
    BY <2>1 DEF DoStep, ProducerInv, ProducerTypeOK
<1>13. k \in {"curiosity", "reflection"} => t \in Subjects
  BY DEF ProducerInv, JobsAreOfTheirKind
<1>14. /\ s = "interest" => k = "curiosity"
       /\ s \in {"check", "snapshot"} => k = "reflection"
  BY <1>2, <1>3 DEF StepsOf, ProducerKinds
<1>15. UNCHANGED <<seeded, urgeTick, submittedAt, falls>>
  BY DEF DoStep
<1>16. /\ interests' = IF s = "interest"
                      THEN [interests EXCEPT ![t] = IF interests[t] = 0 THEN j ELSE interests[t]]
                      ELSE interests
       /\ snapshots' = IF s = "snapshot"
                      THEN [snapshots EXCEPT ![t] = IF snapshots[t] = 0 THEN j ELSE snapshots[t]]
                      ELSE snapshots
  BY DEF DoStep, InsertInterest, UpsertSnapshot
<1>17. interests' \in [Subjects -> Nat] /\ snapshots' \in [Subjects -> Nat]
  <2>1. j \in Nat /\ interests \in [Subjects -> Nat] /\ snapshots \in [Subjects -> Nat]
    BY <1>1 DEF ProducerInv, ProducerTypeOK
  <2>2. s \in {"interest", "snapshot"} => t \in Subjects
    BY <1>13, <1>14
  <2>3. interests' \in [Subjects -> Nat]
    BY <1>16, <2>1, <2>2
  <2>4. snapshots' \in [Subjects -> Nat]
    BY <1>16, <2>1, <2>2
  <2> QED
    BY <2>3, <2>4
<1>18. ProducerTypeOK'
  BY <1>1, <1>8, <1>11, <1>12, <1>15, <1>17 DEF ProducerInv, ProducerTypeOK, SameJobs
<1>19. JobsAreOfTheirKind'
  <2> SUFFICES ASSUME NEW i \in DOMAIN jobs
               PROVE  /\ jobs[i].kind \in {"curiosity", "reflection"} => jobs[i].subject \in Subjects
                      /\ jobs[i].kind = "hobby" => seeded > 0
                      /\ jobs'[i].at \in StepsOf(jobs[i].kind) \cup {"queued", "ended"}
                      /\ effects'[i] \subseteq StepsOf(jobs[i].kind)
    BY <1>8, <1>15 DEF JobsAreOfTheirKind, SameJobs
  <2>1. /\ jobs[i].at \in StepsOf(jobs[i].kind) \cup {"queued", "ended"}
        /\ effects[i] \subseteq StepsOf(jobs[i].kind)
        /\ jobs[i].kind \in {"curiosity", "reflection"} => jobs[i].subject \in Subjects
        /\ jobs[i].kind = "hobby" => seeded > 0
    BY DEF ProducerInv, JobsAreOfTheirKind
  <2>2. CASE i = j
    BY <1>3, <1>7, <1>8, <1>10, <1>11, <2>1, <2>2
  <2>3. CASE i # j
    BY <1>8, <1>11, <2>1, <2>3
  <2> QED
    BY <2>2, <2>3
<1>20. JobsGoInOrder'
  <2> SUFFICES ASSUME NEW i \in DOMAIN jobs
               PROVE  /\ jobs'[i].at \in AfterMemory \/ effects'[i] \cap AfterMemory # {} =>
                            "memory" \in effects'[i]
                      /\ jobs[i].kind = "blog" /\ (jobs'[i].at = "memory" \/ "memory" \in effects'[i])
                            => "publish" \in effects'[i]
                      /\ jobs[i].kind = "reflection"
                            /\ (jobs'[i].at = "memory" \/ "memory" \in effects'[i]) =>
                         "snapshot" \in effects'[i]
    BY <1>8 DEF JobsGoInOrder, SameJobs
  <2>1. /\ jobs[i].at \in AfterMemory \/ effects[i] \cap AfterMemory # {} =>
             "memory" \in effects[i]
        /\ jobs[i].kind = "blog" /\ (jobs[i].at = "memory" \/ "memory" \in effects[i]) =>
             "publish" \in effects[i]
        /\ jobs[i].kind = "reflection" /\ (jobs[i].at = "memory" \/ "memory" \in effects[i]) =>
             "snapshot" \in effects[i]
    BY DEF ProducerInv, JobsGoInOrder
  <2>2. CASE i # j
    BY <1>8, <1>11, <2>1, <2>2
  <2>3. CASE i = j
    <3>1. /\ to \in AfterMemory => s \in {"memory"} \cup AfterMemory
          /\ k = "blog" /\ to = "memory" => s = "publish"
          /\ k = "reflection" /\ to = "memory" => s = "snapshot"
      <4>1. "ended" \notin AfterMemory \cup {"memory"}
        BY DEF AfterMemory
      <4> QED
        BY <1>2, <1>3, <4>1, StepsFollow
    <3>2. to # "ended" => ~Skips(j)
      OBVIOUS
    <3>3. "memory" \notin AfterMemory /\ "todo" \notin {"memory", "publish", "snapshot"}
      BY DEF AfterMemory
    <3>4. to \in AfterMemory \/ did \cap AfterMemory # {} => "memory" \in did
      <4>1. "ended" \notin AfterMemory
        BY DEF AfterMemory
      <4>2. ASSUME to \in AfterMemory PROVE "memory" \in did
        <5>1. CASE s = "memory"
          BY <1>9, <3>2, <3>3, <4>1, <4>2, <5>1
        <5>2. CASE s \in AfterMemory
          BY <1>10, <2>1, <2>3, <5>2
        <5> QED
          BY <3>1, <4>2, <5>1, <5>2
      <4>3. ASSUME did \cap AfterMemory # {} PROVE "memory" \in did
        <5>1. effects[j] \cap AfterMemory # {} \/ s \in AfterMemory
          BY <1>10, <4>3
        <5> QED
          BY <1>10, <2>1, <2>3, <5>1
      <4> QED
        BY <4>2, <4>3
    <3>5. ASSUME k = "blog", to = "memory" \/ "memory" \in did PROVE "publish" \in did
      <4>1. CASE to = "memory"
        BY <1>9, <3>1, <3>2, <3>3, <3>5, <4>1
      <4>2. CASE "memory" \in did
        <5>1. s = "memory" \/ "memory" \in effects[j]
          BY <1>10, <4>2
        <5> QED
          BY <1>10, <2>1, <2>3, <3>5, <5>1
      <4> QED
        BY <3>5, <4>1, <4>2
    <3>6. ASSUME k = "reflection", to = "memory" \/ "memory" \in did PROVE "snapshot" \in did
      <4>1. CASE to = "memory"
        BY <1>9, <3>1, <3>2, <3>3, <3>6, <4>1
      <4>2. CASE "memory" \in did
        <5>1. s = "memory" \/ "memory" \in effects[j]
          BY <1>10, <4>2
        <5> QED
          BY <1>10, <2>1, <2>3, <3>6, <5>1
      <4> QED
        BY <3>6, <4>1, <4>2
    <3> QED
      BY <1>8, <1>11, <2>3, <3>4, <3>5, <3>6
  <2> QED
    BY <2>2, <2>3
<1>21. OneInHand'
  BY <1>4, <1>8 DEF OneInHand, SameJobs
<1>22. SnapshotsAreFirst'
  <2>1. CASE s = "snapshot"
    <3>1. k = "reflection" /\ t \in Subjects /\ snapshots[t] = 0
      BY <1>13, <1>14, <2>1 DEF ProducerInv, SnapshotsAreFirst
    <3>2. snapshots' = [snapshots EXCEPT ![t] = j]
      BY <1>16, <2>1, <3>1
    <3>3. \A u \in Subjects : snapshots'[u] = IF u = t THEN j ELSE snapshots[u]
      BY <3>2 DEF ProducerInv, ProducerTypeOK
    <3>4. to \notin {"complete", "snapshot"}
      BY <1>2, <1>3, <2>1, <3>1, StepsFollow
    <3>5. ASSUME NEW i \in DOMAIN jobs
          PROVE  /\ jobs'[i].kind = "reflection" /\ jobs'[i].at \in {"complete", "snapshot"} =>
                       snapshots'[jobs'[i].subject] = 0
                 /\ "snapshot" \in effects'[i] => snapshots'[jobs'[i].subject] = i
      <4>1. CASE i = j
        BY <1>8, <3>1, <3>3, <3>4, <4>1 DEF SameJobs
      <4>2. CASE i # j
        <5>1. jobs'[i].at \notin {"complete", "snapshot"}
          BY <1>4, <1>8, <4>2
        <5>2. ASSUME "snapshot" \in effects'[i] PROVE snapshots'[jobs'[i].subject] = i
          <6>1. "snapshot" \in effects[i] /\ snapshots[jobs[i].subject] = i
            BY <1>11, <4>2, <5>2 DEF ProducerInv, SnapshotsAreFirst
          <6>2. jobs[i].kind = "reflection"
            <7>1. "snapshot" \in StepsOf(jobs[i].kind) /\ jobs[i] \in JobRecords
              BY <1>1, <6>1 DEF ProducerInv, JobsAreOfTheirKind
            <7>2. jobs[i].kind \in ProducerKinds
              BY <7>1 DEF JobRecords
            <7> QED
              BY <7>1, <7>2 DEF StepsOf, ProducerKinds
          <6>3. jobs[i].subject \in Subjects
            BY <6>2 DEF ProducerInv, JobsAreOfTheirKind
          <6>4. jobs[i].subject # t
            BY <1>1, <3>1, <6>1
          <6> QED
            BY <1>8, <3>3, <6>1, <6>3, <6>4 DEF SameJobs
        <5> QED
          BY <5>1, <5>2
      <4> QED
        BY <4>1, <4>2
    <3> QED
      BY <1>8, <3>5 DEF SnapshotsAreFirst, SameJobs
  <2>2. CASE s # "snapshot"
    <3>1. snapshots' = snapshots
      BY <1>16, <2>2
    <3>2. k = "reflection" /\ to \in {"complete", "snapshot"} => snapshots[t] = 0
      <4>1. k = "reflection" /\ to = "complete" => s = "check" /\ ~Skips(j)
        BY <1>2, <1>3, StepsFollow
      <4>2. k = "reflection" /\ to = "snapshot" => s = "complete"
        BY <1>2, <1>3, StepsFollow
      <4> QED
        BY <4>1, <4>2 DEF Skips, ProducerInv, SnapshotsAreFirst
    <3>3. "snapshot" \in did => "snapshot" \in effects[j]
      BY <1>10, <2>2
    <3>4. ASSUME NEW i \in DOMAIN jobs
          PROVE  /\ jobs'[i].kind = "reflection" /\ jobs'[i].at \in {"complete", "snapshot"} =>
                       snapshots'[jobs'[i].subject] = 0
                 /\ "snapshot" \in effects'[i] => snapshots'[jobs'[i].subject] = i
      <4>1. /\ jobs'[i].kind = jobs[i].kind /\ jobs'[i].subject = jobs[i].subject
            /\ jobs[i].kind = "reflection" /\ jobs[i].at \in {"complete", "snapshot"} =>
                  snapshots[jobs[i].subject] = 0
            /\ "snapshot" \in effects[i] => snapshots[jobs[i].subject] = i
        BY <1>8 DEF SameJobs, ProducerInv, SnapshotsAreFirst
      <4>2. CASE i = j
        BY <1>8, <1>11, <3>1, <3>2, <3>3, <4>1, <4>2
      <4>3. CASE i # j
        BY <1>8, <1>11, <3>1, <4>1, <4>3
      <4> QED
        BY <4>2, <4>3
    <3> QED
      BY <1>8, <3>4 DEF SnapshotsAreFirst, SameJobs
  <2> QED
    BY <2>1, <2>2
<1>23. InterestsAreKept'
  <2>1. \A u \in Subjects : interests'[u] = IF s = "interest" /\ u = t /\ interests[t] = 0
                                            THEN j ELSE interests[u]
    BY <1>13, <1>14, <1>16 DEF ProducerInv, ProducerTypeOK
  <2>2. s = "interest" => "interest" \in did
    <3>1. s = "interest" => ~Skips(j)
      BY DEF Skips
    <3> QED
      BY <1>9, <3>1
  <2>3. \A i \in DOMAIN jobs : "interest" \in effects[i] => "interest" \in effects'[i]
    BY <1>10, <1>11
  <2>4. \A i \in DOMAIN jobs : "interest" \in effects'[i] =>
            "interest" \in effects[i] \/ (i = j /\ s = "interest")
    BY <1>10, <1>11
  <2>5. ASSUME NEW u \in Subjects
        PROVE  /\ interests'[u] # 0 => /\ interests'[u] \in DOMAIN jobs
                                       /\ jobs[interests'[u]].subject = u
                                       /\ "interest" \in effects'[interests'[u]]
               /\ \A i \in DOMAIN jobs :
                     jobs[i].subject = u /\ "interest" \in effects'[i] => interests'[u] # 0
    <3>1. /\ interests[u] # 0 => /\ interests[u] \in DOMAIN jobs /\ jobs[interests[u]].subject = u
                                 /\ "interest" \in effects[interests[u]]
          /\ \A i \in DOMAIN jobs :
                jobs[i].subject = u /\ "interest" \in effects[i] => interests[u] # 0
      BY DEF ProducerInv, InterestsAreKept
    <3>2. CASE s = "interest" /\ u = t /\ interests[t] = 0
      <4>1. interests'[u] = j
        BY <2>1, <3>2
      <4> QED
        BY <1>1, <1>11, <2>2, <3>2, <4>1
    <3>3. CASE ~(s = "interest" /\ u = t /\ interests[t] = 0)
      <4>1. interests'[u] = interests[u]
        BY <2>1, <3>3
      <4> QED
        BY <2>3, <2>4, <3>1, <3>3, <4>1
    <3> QED
      BY <3>2, <3>3
  <2> QED
    BY <1>8, <2>5 DEF InterestsAreKept, SameJobs
<1> QED
  BY <1>8, <1>15, <1>18, <1>19, <1>20, <1>21, <1>22, <1>23, SameJobsKeepDistance DEF ProducerInv

LEMMA ProducerStep == UrgesAssumption /\ ProducerInv /\ [ProducersNext]_producerVars => ProducerInv'
<1> SUFFICES ASSUME UrgesAssumption, ProducerInv, [ProducersNext]_producerVars PROVE ProducerInv'
  OBVIOUS
<1>1. CASE SeedHobby \/ FindHobbies \/ NextTick \/ UNCHANGED producerVars
  <2>1. UNCHANGED <<submittedAt, jobs, effects, storeVars, falls>>
    BY <1>1 DEF SeedHobby, FindHobbies, NextTick, producerVars, storeVars
  <2>2. seeded' \in Nat /\ seeded' >= seeded /\ urgeTick' \in Nat /\ urgeTick' >= urgeTick
    BY <1>1 DEF SeedHobby, FindHobbies, NextTick, producerVars, ProducerInv, ProducerTypeOK
  <2> QED
    BY <2>1, <2>2, ClockKeeps
<1> QED
  BY <1>1, SubmitKeeps, JobBeginsKeeps, DoStepKeeps, StepRaisesKeeps, FallsKeeps DEF ProducersNext

LEMMA ProducerInvHolds == ProducerInv => OwnAccordIsSound
<1> SUFFICES ASSUME ProducerInv PROVE OwnAccordIsSound
  OBVIOUS
<1> USE DEF ProducerInv
<1>1. ASSUME NEW j \in DOMAIN jobs
      PROVE  /\ effects[j] \cap {"reward", "mood", "todo", "interest", "index", "journal"} # {} =>
                  "memory" \in effects[j]
             /\ "memory" \in effects[j] /\ jobs[j].kind = "blog" => "publish" \in effects[j]
             /\ jobs[j].kind = "hobby" => seeded > 0
             /\ \A i \in 1..j-1 :
                   jobs[i].kind = jobs[j].kind /\ jobs[i].life = jobs[j].life =>
                       jobs[j].tick - jobs[i].tick >= Urges
  <2>1. \A i \in 1..j-1 : i \in DOMAIN jobs /\ i < j
    BY DEF ProducerTypeOK
  <2> QED
    BY <2>1 DEF JobsGoInOrder, JobsAreOfTheirKind, ProducersKeepDistance, AfterMemory
<1>2. ASSUME NEW t \in Subjects
      PROVE  /\ Cardinality(Reflections(t)) <= 1
             /\ Reflections(t) # {} => snapshots[t] \in Reflections(t)
             /\ LET noticed == {j \in DOMAIN jobs : jobs[j].subject = t /\ "interest" \in effects[j]}
                IN  IF noticed = {} THEN interests[t] = 0 ELSE interests[t] \in noticed
  <2>1. \A j \in Reflections(t) : j = snapshots[t]
    BY DEF Reflections, JobsGoInOrder, SnapshotsAreFirst
  <2>2. Cardinality(Reflections(t)) <= 1
    <3>1. Reflections(t) = {} \/ Reflections(t) = {snapshots[t]}
      BY <2>1
    <3>2. Cardinality({}) = 0 /\ Cardinality({snapshots[t]}) = 1
      BY FS_EmptySet, FS_Singleton
    <3> QED
      BY <3>1, <3>2
  <2> QED
    BY <2>1, <2>2 DEF InterestsAreKept
<1>3. mood.valence \in -1..1 /\ mood.arousal \in 0..1
  BY DEF ProducerTypeOK, Moods
<1> QED
  BY <1>1, <1>2, <1>3 DEF OwnAccordIsSound

\* Wherever jobs fail and processes end: what a job leaves behind is remembered before it
\* counts, a content is remembered once at most and never without its snapshot, a topic has
\* one interest, and a producer keeps its distance within a life.
THEOREM OwnAccordIsAlwaysSound == ProducersSpec => []OwnAccordIsSound
<1> USE UrgesAssumption
<1>1. ProducersInit => ProducerInv
  BY ProducersInitially
<1>2. ProducerInv /\ [ProducersNext]_producerVars => ProducerInv'
  BY ProducerStep
<1>3. ProducerInv => OwnAccordIsSound
  BY ProducerInvHolds
<1> QED
  BY <1>1, <1>2, <1>3, PTL DEF ProducersSpec

-----------------------------------------------------------------------------
(* The desk of the chat server                                              *)

ChatRecords == [way : {"simple", "openai"}, at : {"waiting", "timeout", "replied", "unread", "shown"},
                blocks : Seq(DbKinds \cup SlowKinds), seen : Nat]

BlockTypeOK ==
    /\ desk \in {"serving", "stopped", "closed", "gone"}
    /\ chat \in [DeskChats -> ChatRecords]
    /\ blockDone \in Seq(DeskChats \X Nat \X {"refused", "written"})
    /\ slow \subseteq DeskChats \X Nat

\* Only a request that was answered, and by the one endpoint, has blocks looked at.
RepliesAreRead ==
    \A c \in DeskChats :
        /\ chat[c].seen <= Len(chat[c].blocks)
        /\ chat[c].seen > 0 => chat[c].at \in {"replied", "shown"} /\ chat[c].way = "openai"
        /\ chat[c].at = "shown" /\ chat[c].way = "openai" => chat[c].seen = Len(chat[c].blocks)

\* A block that was looked at is under way or has one outcome, another has none.
BlocksAreActedUpon ==
    /\ \A n \in DOMAIN blockDone : blockDone[n][2] \in 1..chat[blockDone[n][1]].seen
    /\ \A b \in slow : b[2] \in 1..chat[b[1]].seen /\ chat[b[1]].blocks[b[2]] \notin DbKinds
    /\ \A n \in DOMAIN blockDone : <<blockDone[n][1], blockDone[n][2]>> \notin slow
    /\ \A m, n \in DOMAIN blockDone :
          blockDone[m][1] = blockDone[n][1] /\ blockDone[m][2] = blockDone[n][2] => m = n
    /\ \A c \in DeskChats : \A k \in 1..chat[c].seen :
          <<c, k>> \in slow \/ Outcomes(c, k) # {}

RowsAreWritten ==
    desk = "serving" =>
        \A n \in DOMAIN blockDone :
            chat[blockDone[n][1]].blocks[blockDone[n][2]] \in DbKinds \ {"goal"} =>
                blockDone[n][3] = "written"

BlocksInv ==
    /\ BlockTypeOK /\ RepliesAreRead /\ BlocksAreActedUpon /\ RowsAreWritten
    /\ desk = "gone" => slow = {}

\* A message has its points when it was answered and nothing is left to be credited.
Created(c) == {n \in DOMAIN points : points[n] = <<c, "creation">>}
PointsInv ==
    /\ points \in Seq(DeskChats \X {"creation", "up", "down"})
    /\ crediting \in DeskChats \cup {Nobody}
    /\ \A c \in DeskChats : \A m, n \in Created(c) : m = n
    /\ \A c \in DeskChats : crediting = c => Created(c) = {}
    /\ \A c \in DeskChats : crediting = c \/ Created(c) # {} =>
          chat[c].at \in {"replied", "unread", "shown"}

\* A rating that was let through saw none of its message.
IsRating(n, m) == points[n] \in {<<m, "up">>, <<m, "down">>}
RatersInv ==
    /\ rater \in [Raters -> [at : {"idle", "refused", "award", "rated"},
                             message : DeskChats \cup {Nobody}, seen : Nat, gave : Nat]]
    /\ \A f \in Raters :
          /\ rater[f].at \in {"award", "rated"} => rater[f].message \in DeskChats
          /\ rater[f].seen <= Len(points)
          /\ rater[f].at \in {"award", "rated"} =>
                \A n \in DOMAIN points : n <= rater[f].seen => ~IsRating(n, rater[f].message)
          /\ rater[f].at = "rated" =>
                rater[f].gave \in DOMAIN points /\ IsRating(rater[f].gave, rater[f].message)

DeskInv == BlocksInv /\ PointsInv /\ RatersInv

LEMMA DeskInitially == DeskAssumption /\ DeskInit => DeskInv
<1> SUFFICES ASSUME DeskAssumption, DeskInit PROVE DeskInv
  OBVIOUS
<1> USE DEF DeskInit
<1>1. \A c \in DeskChats : chat[c] \in ChatRecords /\ chat[c].seen = 0 /\ chat[c].at = "waiting"
                           /\ chat[c].blocks = <<>>
  <2> SUFFICES ASSUME NEW c \in DeskChats
               PROVE  chat[c] \in ChatRecords /\ chat[c].seen = 0 /\ chat[c].at = "waiting"
                      /\ chat[c].blocks = <<>>
    OBVIOUS
  <2>1. PICK w \in {"simple", "openai"} :
           chat[c] = [way |-> w, at |-> "waiting", blocks |-> <<>>, seen |-> 0]
    OBVIOUS
  <2>2. <<>> \in Seq(DbKinds \cup SlowKinds)
    OBVIOUS
  <2> QED
    BY <2>1, <2>2 DEF ChatRecords
<1>2. DOMAIN blockDone = {} /\ DOMAIN points = {}
  OBVIOUS
<1>3. BlockTypeOK
  <2>1. chat \in [DeskChats -> ChatRecords]
    BY <1>1
  <2> QED
    BY <2>1 DEF BlockTypeOK
<1>4. BlocksInv
  BY <1>1, <1>2, <1>3 DEF BlocksInv, RepliesAreRead, BlocksAreActedUpon, RowsAreWritten
<1>5. PointsInv
  BY <1>2 DEF PointsInv, Created, Nobody, DeskAssumption
<1>6. RatersInv
  BY <1>2 DEF RatersInv
<1> QED
  BY <1>4, <1>5, <1>6 DEF DeskInv

-----------------------------------------------------------------------------
\* A chat that goes on without a block being looked at.
LEMMA ChatGoes ==
  ASSUME BlocksInv, NEW c \in DeskChats, NEW r \in ChatRecords, chat' = [chat EXCEPT ![c] = r],
         r.seen = chat[c].seen, r.way = chat[c].way,
         r.blocks = chat[c].blocks \/ chat[c].seen = 0,
         r.seen > 0 => r.at \in {"replied", "shown"},
         r.at = "shown" /\ r.way = "openai" => r.seen = Len(r.blocks),
         UNCHANGED <<desk, blockDone, slow>>
  PROVE  BlocksInv'
<1> USE DEF BlocksInv
<1>1. \A d \in DeskChats : chat'[d] = IF d = c THEN r ELSE chat[d]
  BY DEF BlockTypeOK
<1>2. BlockTypeOK'
  BY DEF BlockTypeOK
<1>3. /\ \A d \in DeskChats : chat[d].seen \in Nat /\ chat'[d].seen = chat[d].seen
      /\ r.seen \in Nat /\ Len(r.blocks) \in Nat
  BY <1>1 DEF BlockTypeOK, ChatRecords
<1>4. RepliesAreRead'
  <2> SUFFICES ASSUME NEW d \in DeskChats
               PROVE  /\ chat'[d].seen <= Len(chat'[d].blocks)
                      /\ chat'[d].seen > 0 =>
                            chat'[d].at \in {"replied", "shown"} /\ chat'[d].way = "openai"
                      /\ chat'[d].at = "shown" /\ chat'[d].way = "openai" =>
                            chat'[d].seen = Len(chat'[d].blocks)
    BY DEF RepliesAreRead
  <2>1. CASE d = c
    BY <1>1, <1>3, <2>1 DEF RepliesAreRead
  <2>2. CASE d # c
    BY <1>1, <2>2 DEF RepliesAreRead
  <2> QED
    BY <2>1, <2>2
<1>5. \A n \in DOMAIN blockDone : blockDone[n][1] \in DeskChats /\ blockDone[n][2] \in Nat
  BY DEF BlockTypeOK
<1>6. \A b \in slow : b[1] \in DeskChats /\ b[2] \in Nat
  BY DEF BlockTypeOK
<1>7. ASSUME NEW d \in DeskChats, NEW k \in 1..chat[d].seen
      PROVE  chat'[d].blocks[k] = chat[d].blocks[k]
  BY <1>1, <1>3
<1>8. BlocksAreActedUpon'
  BY <1>3, <1>5, <1>6, <1>7 DEF BlocksAreActedUpon, Outcomes
<1>9. RowsAreWritten'
  BY <1>5, <1>7 DEF RowsAreWritten, BlocksAreActedUpon
<1> QED
  BY <1>2, <1>4, <1>8, <1>9

LEMMA AnswerKeepsBlocks ==
  ASSUME DeskAssumption, BlocksInv, NEW c \in DeskChats, NEW blocks \in BlockLists, NEW turns, NEW outcome,
         Answer(c, blocks, turns, outcome)
  PROVE  BlocksInv'
<1>1. chat[c] \in ChatRecords /\ chat[c].seen = 0 /\ chat[c].at \in {"waiting", "timeout"}
  BY DEF BlocksInv, BlockTypeOK, RepliesAreRead, Answer, ChatRecords
<1>2. PICK at \in {"replied", "unread"} :
         chat' = [chat EXCEPT ![c] = [chat[c] EXCEPT !.at = at, !.blocks = blocks]]
  BY DEF Answer, BlocksInv, BlockTypeOK, ChatRecords
<1>3. PICK r : r = [chat[c] EXCEPT !.at = at, !.blocks = blocks]
  OBVIOUS
<1>4. /\ r \in ChatRecords /\ r.seen = 0 /\ r.way = chat[c].way /\ r.at \in {"replied", "unread"}
      /\ r.blocks = blocks
  BY <1>1, <1>3 DEF ChatRecords, DeskAssumption
<1>5. chat' = [chat EXCEPT ![c] = r] /\ UNCHANGED <<desk, blockDone, slow>>
  BY <1>2, <1>3 DEF Answer
<1>6. ~(r.seen > 0) /\ r.at # "shown" /\ r.seen = chat[c].seen
  BY <1>1, <1>4
<1> QED
  BY <1>1, <1>4, <1>5, <1>6, ChatGoes

LEMMA WeariesKeepsBlocks ==
  ASSUME BlocksInv, NEW c \in DeskChats, Wearies(c)
  PROVE  BlocksInv'
<1>1. chat[c] \in ChatRecords /\ chat[c].seen = 0
  BY DEF BlocksInv, BlockTypeOK, RepliesAreRead, Wearies, ChatRecords
<1>2. PICK r : r = [chat[c] EXCEPT !.at = "timeout"]
  OBVIOUS
<1>3. /\ r \in ChatRecords /\ r.seen = chat[c].seen /\ r.way = chat[c].way /\ r.at = "timeout"
      /\ r.blocks = chat[c].blocks
  BY <1>1, <1>2 DEF ChatRecords
<1>4. chat' = [chat EXCEPT ![c] = r] /\ UNCHANGED <<desk, blockDone, slow>>
  BY <1>2 DEF Wearies
<1>5. ~(r.seen > 0) /\ r.at # "shown"
  BY <1>1, <1>3
<1> QED
  BY <1>3, <1>4, <1>5, ChatGoes

LEMMA ReplyKeepsBlocks ==
  ASSUME BlocksInv, NEW c \in DeskChats, Reply(c)
  PROVE  BlocksInv'
<1>1. chat[c] \in ChatRecords /\ (chat[c].way = "openai" => chat[c].seen = Len(chat[c].blocks))
  BY DEF BlocksInv, BlockTypeOK, Reply
<1>2. PICK r : r = [chat[c] EXCEPT !.at = "shown"]
  OBVIOUS
<1>3. /\ r \in ChatRecords /\ r.seen = chat[c].seen /\ r.way = chat[c].way /\ r.at = "shown"
      /\ r.blocks = chat[c].blocks
  BY <1>1, <1>2 DEF ChatRecords
<1>4. chat' = [chat EXCEPT ![c] = r] /\ UNCHANGED <<desk, blockDone, slow>>
  BY <1>2 DEF Reply
<1> QED
  BY <1>1, <1>3, <1>4, ChatGoes

\* The next block gets its outcome, or a thread.
LEMMA ActOnBlockKeepsBlocks ==
  ASSUME BlocksInv, NEW c \in DeskChats, ActOnBlock(c)
  PROVE  BlocksInv'
<1> PICK k : k = chat[c].seen + 1
  OBVIOUS
<1> USE DEF BlocksInv
<1>1. /\ chat[c] \in ChatRecords /\ chat[c].seen \in Nat /\ k \in Nat
      /\ chat[c].at = "replied" /\ chat[c].way = "openai" /\ chat[c].seen < Len(chat[c].blocks)
      /\ desk # "gone" /\ k = chat[c].seen + 1 /\ Len(chat[c].blocks) \in Nat
  <2>1. chat[c] \in ChatRecords
    BY DEF BlockTypeOK
  <2>2. chat[c].seen \in Nat /\ chat[c].blocks \in Seq(DbKinds \cup SlowKinds)
    BY <2>1 DEF ChatRecords
  <2>3. Len(chat[c].blocks) \in Nat
    BY <2>2
  <2> QED
    BY <2>1, <2>2, <2>3 DEF ActOnBlock
<1>2. PICK r : r = [chat[c] EXCEPT !.seen = k]
  OBVIOUS
<1>3. /\ r \in ChatRecords /\ r.seen = k /\ r.at = "replied" /\ r.way = "openai"
      /\ r.blocks = chat[c].blocks
  BY <1>1, <1>2 DEF ChatRecords
<1>4. chat' = [chat EXCEPT ![c] = r] /\ desk' = desk
  BY <1>2 DEF ActOnBlock
<1>5. \A d \in DeskChats : /\ chat'[d] = IF d = c THEN r ELSE chat[d]
                           /\ chat'[d].blocks = chat[d].blocks
                           /\ chat[d].seen \in Nat
                           /\ d # c => chat'[d].seen = chat[d].seen
  BY <1>3, <1>4 DEF BlockTypeOK, ChatRecords
<1>6. RepliesAreRead'
  <2> SUFFICES ASSUME NEW d \in DeskChats
               PROVE  /\ chat'[d].seen <= Len(chat'[d].blocks)
                      /\ chat'[d].seen > 0 =>
                            chat'[d].at \in {"replied", "shown"} /\ chat'[d].way = "openai"
                      /\ chat'[d].at = "shown" /\ chat'[d].way = "openai" =>
                            chat'[d].seen = Len(chat'[d].blocks)
    BY DEF RepliesAreRead
  <2>1. CASE d = c
    BY <1>1, <1>3, <1>5, <2>1
  <2>2. CASE d # c
    BY <1>5, <2>2 DEF RepliesAreRead
  <2> QED
    BY <2>1, <2>2
<1>7. /\ \A n \in DOMAIN blockDone : blockDone[n][1] \in DeskChats /\ blockDone[n][2] \in Nat
      /\ \A b \in slow : b[1] \in DeskChats /\ b[2] \in Nat
      /\ \A b \in slow : b = <<b[1], b[2]>>
  BY DEF BlockTypeOK
<1>8. /\ \A n \in DOMAIN blockDone : ~(blockDone[n][1] = c /\ blockDone[n][2] = k)
      /\ <<c, k>> \notin slow
  BY <1>1, <1>7 DEF BlocksAreActedUpon
<1>9. chat[c].blocks[k] \in DbKinds \cup SlowKinds
  <2>1. k \in 1..Len(chat[c].blocks) /\ chat[c].blocks \in Seq(DbKinds \cup SlowKinds)
    BY <1>1 DEF ChatRecords
  <2> QED
    BY <2>1
<1>10. CASE chat[c].blocks[k] \in DbKinds
  <2> PICK w : w = Written(c)
    OBVIOUS
  <2>1. blockDone' = Append(blockDone, <<c, k, w>>) /\ slow' = slow
    BY <1>10, <1>1 DEF ActOnBlock
  <2>2. /\ w \in {"refused", "written"}
        /\ desk = "serving" /\ chat[c].blocks[k] # "goal" => w = "written"
    BY <1>1 DEF Written
  <2> PICK l : l = Len(blockDone)
    OBVIOUS
  <2>3. blockDone \in Seq(DeskChats \X Nat \X {"refused", "written"}) /\ l \in Nat
        /\ DOMAIN blockDone = 1..l
    BY DEF BlockTypeOK
  <2>4. <<c, k, w>> \in DeskChats \X Nat \X {"refused", "written"}
    BY <1>1, <2>2
  <2>5. /\ blockDone' \in Seq(DeskChats \X Nat \X {"refused", "written"})
        /\ Len(blockDone') = l + 1 /\ DOMAIN blockDone' = 1..(l + 1)
        /\ \A n \in 1..l : blockDone'[n] = blockDone[n]
        /\ blockDone'[l + 1] = <<c, k, w>>
    BY <2>1, <2>3, <2>4, AppendProperties
  <2>6. /\ blockDone'[l + 1][1] = c /\ blockDone'[l + 1][2] = k /\ blockDone'[l + 1][3] = w
        /\ \A n \in 1..(l + 1) : n = l + 1 \/ n \in 1..l
    BY <2>3, <2>5
  <2>7. BlockTypeOK'
    BY <1>3, <1>4, <2>1, <2>5 DEF BlockTypeOK
  <2>8. BlocksAreActedUpon'
    <3>1. ASSUME NEW n \in 1..(l + 1) PROVE blockDone'[n][2] \in 1..chat'[blockDone'[n][1]].seen
      <4>1. CASE n = l + 1
        BY <1>1, <1>3, <1>5, <2>6, <4>1
      <4>2. CASE n \in 1..l
        <5>1. blockDone[n][2] \in 1..chat[blockDone[n][1]].seen /\ blockDone[n][1] \in DeskChats
          BY <1>7, <2>3, <4>2 DEF BlocksAreActedUpon
        <5>2. PICK d \in DeskChats : d = blockDone[n][1]
          BY <5>1
        <5>3. chat[d].seen \in Nat /\ chat'[d].seen \in Nat /\ chat[d].seen <= chat'[d].seen
          <6>1. CASE d = c
            BY <1>1, <1>3, <1>5, <6>1
          <6>2. CASE d # c
            BY <1>5, <6>2
          <6> QED
            BY <6>1, <6>2
        <5>4. blockDone'[n] = blockDone[n]
          BY <2>5, <4>2
        <5>5. blockDone[n][2] \in 1..chat'[d].seen
          BY <5>1, <5>2, <5>3
        <5> QED
          BY <5>2, <5>4, <5>5
      <4> QED
        BY <2>6, <4>1, <4>2
    <3>2. ASSUME NEW b \in slow
          PROVE  b[2] \in 1..chat'[b[1]].seen /\ chat'[b[1]].blocks[b[2]] \notin DbKinds
      <4>1. /\ b[1] \in DeskChats /\ b[2] \in 1..chat[b[1]].seen
            /\ chat[b[1]].blocks[b[2]] \notin DbKinds
        BY <1>7 DEF BlocksAreActedUpon
      <4>2. chat'[b[1]].seen \in Nat /\ chat[b[1]].seen <= chat'[b[1]].seen
        BY <1>1, <1>3, <1>5, <4>1
      <4> QED
        BY <1>5, <4>1, <4>2
    <3>3. \A n \in 1..(l + 1) : <<blockDone'[n][1], blockDone'[n][2]>> \notin slow
      BY <1>8, <2>3, <2>5, <2>6 DEF BlocksAreActedUpon
    <3>4. ASSUME NEW m \in 1..(l + 1), NEW n \in 1..(l + 1),
                 blockDone'[m][1] = blockDone'[n][1], blockDone'[m][2] = blockDone'[n][2]
          PROVE  m = n
      <4>1. CASE m \in 1..l /\ n \in 1..l
        <5>1. m \in DOMAIN blockDone /\ n \in DOMAIN blockDone
          BY <2>3, <4>1
        <5>2. blockDone[m][1] = blockDone[n][1] /\ blockDone[m][2] = blockDone[n][2]
          BY <2>3, <2>5, <3>4, <4>1
        <5> QED
          BY <5>1, <5>2 DEF BlocksAreActedUpon
      <4>2. CASE m = l + 1 /\ n \in 1..l
        <5>1. n \in DOMAIN blockDone /\ blockDone[n][1] = c /\ blockDone[n][2] = k
          BY <2>3, <2>5, <2>6, <3>4, <4>2
        <5> QED
          BY <1>8, <5>1
      <4>3. CASE m \in 1..l /\ n = l + 1
        <5>1. m \in DOMAIN blockDone /\ blockDone[m][1] = c /\ blockDone[m][2] = k
          BY <2>3, <2>5, <2>6, <3>4, <4>3
        <5> QED
          BY <1>8, <5>1
      <4> QED
        BY <2>6, <4>1, <4>2, <4>3
    <3>5. ASSUME NEW d \in DeskChats, NEW i \in 1..chat'[d].seen
          PROVE  <<d, i>> \in slow \/ Outcomes(d, i)' # {}
      <4>1. CASE d = c /\ i = k
        <5>1. l + 1 \in Outcomes(d, i)'
          BY <2>3, <2>5, <2>6, <4>1 DEF Outcomes
        <5> QED
          BY <5>1
      <4>2. CASE ~(d = c /\ i = k)
        <5>1. i \in 1..chat[d].seen
          BY <1>1, <1>3, <1>5, <4>2
        <5>2. <<d, i>> \in slow \/ Outcomes(d, i) # {}
          BY <5>1 DEF BlocksAreActedUpon
        <5>3. Outcomes(d, i) \subseteq Outcomes(d, i)'
          BY <2>3, <2>5 DEF Outcomes
        <5> QED
          BY <5>2, <5>3
      <4> QED
        BY <4>1, <4>2
    <3> QED
      BY <2>1, <2>5, <3>1, <3>2, <3>3, <3>4, <3>5 DEF BlocksAreActedUpon
  <2>9. RowsAreWritten'
    <3> SUFFICES ASSUME desk = "serving", NEW n \in 1..(l + 1),
                        chat'[blockDone'[n][1]].blocks[blockDone'[n][2]] \in DbKinds \ {"goal"}
                 PROVE  blockDone'[n][3] = "written"
      BY <1>4, <2>5 DEF RowsAreWritten
    <3>1. CASE n = l + 1
      <4>1. chat'[c].blocks[k] = chat[c].blocks[k]
        BY <1>5
      <4> QED
        BY <2>2, <2>6, <3>1, <4>1
    <3>2. CASE n \in 1..l
      <4>1. n \in DOMAIN blockDone /\ blockDone'[n] = blockDone[n]
        BY <2>3, <2>5, <3>2
      <4>2. chat'[blockDone[n][1]].blocks = chat[blockDone[n][1]].blocks
        BY <1>5, <1>7, <4>1
      <4> QED
        BY <4>1, <4>2 DEF RowsAreWritten
    <3> QED
      BY <2>6, <3>1, <3>2
  <2> QED
    BY <1>1, <1>4, <1>6, <2>7, <2>8, <2>9
<1>11. CASE chat[c].blocks[k] \notin DbKinds
  <2>1. slow' = slow \cup {<<c, k>>} /\ blockDone' = blockDone
    BY <1>1, <1>11 DEF ActOnBlock
  <2>2. BlockTypeOK'
    BY <1>1, <1>3, <1>4, <2>1 DEF BlockTypeOK
  <2>3. \A d \in DeskChats : chat'[d].seen \in Nat /\ chat[d].seen <= chat'[d].seen
    BY <1>1, <1>3, <1>5
  <2>4. BlocksAreActedUpon'
    <3>1. ASSUME NEW n \in DOMAIN blockDone PROVE blockDone[n][2] \in 1..chat'[blockDone[n][1]].seen
      <4>1. blockDone[n][2] \in 1..chat[blockDone[n][1]].seen /\ blockDone[n][1] \in DeskChats
        BY <1>7 DEF BlocksAreActedUpon
      <4> QED
        BY <1>5, <2>3, <4>1
    <3>2. ASSUME NEW b \in slow'
          PROVE  b[2] \in 1..chat'[b[1]].seen /\ chat'[b[1]].blocks[b[2]] \notin DbKinds
      <4>1. CASE b = <<c, k>>
        <5>1. b[1] = c /\ b[2] = k
          BY <4>1
        <5> QED
          BY <1>1, <1>3, <1>5, <1>11, <5>1
      <4>2. CASE b \in slow
        <5>1. /\ b[1] \in DeskChats /\ b[2] \in 1..chat[b[1]].seen
              /\ chat[b[1]].blocks[b[2]] \notin DbKinds
          BY <1>7, <4>2 DEF BlocksAreActedUpon
        <5> QED
          BY <1>5, <2>3, <5>1
      <4> QED
        BY <2>1, <4>1, <4>2
    <3>3. \A n \in DOMAIN blockDone : <<blockDone[n][1], blockDone[n][2]>> \notin slow'
      BY <1>8, <2>1 DEF BlocksAreActedUpon
    <3>4. ASSUME NEW d \in DeskChats, NEW i \in 1..chat'[d].seen
          PROVE  <<d, i>> \in slow' \/ Outcomes(d, i) # {}
      <4>1. CASE d = c /\ i = k
        BY <2>1, <4>1
      <4>2. CASE ~(d = c /\ i = k)
        <5>1. i \in 1..chat[d].seen
          BY <1>1, <1>3, <1>5, <4>2
        <5> QED
          BY <2>1, <5>1 DEF BlocksAreActedUpon
      <4> QED
        BY <4>1, <4>2
    <3>5. \A d, i : Outcomes(d, i)' = Outcomes(d, i)
      BY <2>1 DEF Outcomes
    <3> QED
      BY <2>1, <3>1, <3>2, <3>3, <3>4, <3>5 DEF BlocksAreActedUpon
  <2>5. RowsAreWritten'
    BY <1>4, <1>5, <1>7, <2>1 DEF RowsAreWritten
  <2> QED
    BY <1>1, <1>4, <1>6, <2>2, <2>4, <2>5
<1> QED
  BY <1>10, <1>11

LEMMA SlowEndsKeepsBlocks ==
  ASSUME BlocksInv, NEW b \in slow, NEW fails \in BOOLEAN, SlowEnds(b, fails)
  PROVE  BlocksInv'
<1> USE DEF BlocksInv
<1>1. PICK c \in DeskChats, k \in Nat : b = <<c, k>>
  BY DEF BlockTypeOK
<1>2. b[1] = c /\ b[2] = k
  BY <1>1
<1>3. PICK w \in {"refused", "written"} : blockDone' = Append(blockDone, <<c, k, w>>)
  BY <1>2 DEF SlowEnds
<1>4. slow' = slow \ {b} /\ UNCHANGED <<desk, chat>>
  BY DEF SlowEnds
<1> PICK l : l = Len(blockDone)
  OBVIOUS
<1>5. blockDone \in Seq(DeskChats \X Nat \X {"refused", "written"}) /\ l \in Nat
      /\ DOMAIN blockDone = 1..l
  BY DEF BlockTypeOK
<1>6. <<c, k, w>> \in DeskChats \X Nat \X {"refused", "written"}
  OBVIOUS
<1>7. /\ blockDone' \in Seq(DeskChats \X Nat \X {"refused", "written"})
      /\ Len(blockDone') = l + 1 /\ DOMAIN blockDone' = 1..(l + 1)
      /\ \A n \in 1..l : blockDone'[n] = blockDone[n]
      /\ blockDone'[l + 1] = <<c, k, w>>
  BY <1>3, <1>5, <1>6, AppendProperties
<1>8. /\ blockDone'[l + 1][1] = c /\ blockDone'[l + 1][2] = k
      /\ \A n \in 1..(l + 1) : n = l + 1 \/ n \in 1..l
  BY <1>5, <1>7
<1>9. BlockTypeOK' /\ RepliesAreRead'
  BY <1>4, <1>7 DEF BlockTypeOK, RepliesAreRead
<1>10. k \in 1..chat[c].seen /\ chat[c].blocks[k] \notin DbKinds
  BY <1>2 DEF BlocksAreActedUpon
<1>11. \A n \in 1..l : ~(blockDone[n][1] = c /\ blockDone[n][2] = k)
  BY <1>1, <1>5 DEF BlocksAreActedUpon
<1>12. BlocksAreActedUpon'
  <2>1. \A n \in 1..(l + 1) : blockDone'[n][2] \in 1..chat[blockDone'[n][1]].seen
    BY <1>5, <1>7, <1>8, <1>10 DEF BlocksAreActedUpon
  <2>2. \A n \in 1..(l + 1) : <<blockDone'[n][1], blockDone'[n][2]>> \notin slow'
    BY <1>1, <1>4, <1>5, <1>7, <1>8 DEF BlocksAreActedUpon
  <2>3. ASSUME NEW m \in 1..(l + 1), NEW n \in 1..(l + 1),
               blockDone'[m][1] = blockDone'[n][1], blockDone'[m][2] = blockDone'[n][2]
        PROVE  m = n
    <3>1. CASE m \in 1..l /\ n \in 1..l
      <4>1. m \in DOMAIN blockDone /\ n \in DOMAIN blockDone
        BY <1>5, <3>1
      <4>2. blockDone[m][1] = blockDone[n][1] /\ blockDone[m][2] = blockDone[n][2]
        BY <1>5, <1>7, <2>3, <3>1
      <4> QED
        BY <4>1, <4>2 DEF BlocksAreActedUpon
    <3>2. CASE m = l + 1 /\ n \in 1..l
      <4>1. blockDone[n][1] = c /\ blockDone[n][2] = k
        BY <1>5, <1>7, <1>8, <2>3, <3>2
      <4> QED
        BY <1>11, <3>2, <4>1
    <3>3. CASE m \in 1..l /\ n = l + 1
      <4>1. blockDone[m][1] = c /\ blockDone[m][2] = k
        BY <1>5, <1>7, <1>8, <2>3, <3>3
      <4> QED
        BY <1>11, <3>3, <4>1
    <3> QED
      BY <1>8, <3>1, <3>2, <3>3
  <2>4. ASSUME NEW d \in DeskChats, NEW i \in 1..chat[d].seen
        PROVE  <<d, i>> \in slow' \/ Outcomes(d, i)' # {}
    <3>1. CASE d = c /\ i = k
      <4>1. l + 1 \in Outcomes(d, i)'
        BY <1>5, <1>7, <1>8, <3>1 DEF Outcomes
      <4> QED
        BY <4>1
    <3>2. CASE ~(d = c /\ i = k)
      <4>1. <<d, i>> \in slow \/ Outcomes(d, i) # {}
        BY DEF BlocksAreActedUpon
      <4>2. Outcomes(d, i) \subseteq Outcomes(d, i)'
        BY <1>5, <1>7 DEF Outcomes
      <4>3. <<d, i>> # b
        BY <1>1, <3>2
      <4> QED
        BY <1>4, <4>1, <4>2, <4>3
    <3> QED
      BY <3>1, <3>2
  <2> QED
    BY <1>4, <1>7, <2>1, <2>2, <2>3, <2>4 DEF BlocksAreActedUpon
<1>13. RowsAreWritten'
  BY <1>4, <1>5, <1>7, <1>8, <1>10 DEF RowsAreWritten
<1> QED
  BY <1>4, <1>9, <1>12, <1>13

-----------------------------------------------------------------------------
Answereds == {"replied", "unread", "shown"}

LEMMA PointsAreKept ==
  ASSUME PointsInv, UNCHANGED <<points, crediting>>,
         \A d \in DeskChats : chat[d].at \in Answereds => chat'[d].at \in Answereds
  PROVE  PointsInv'
<1>1. \A d : Created(d)' = Created(d)
  BY DEF Created
<1> QED
  BY <1>1 DEF PointsInv, Answereds

LEMMA RatersAreKept ==
  ASSUME RatersInv, UNCHANGED <<points, rater>>
  PROVE  RatersInv'
BY DEF RatersInv, IsRating

LEMMA AnswerKeepsPoints ==
  ASSUME DeskAssumption, BlocksInv, PointsInv, NEW c \in DeskChats, NEW blocks, NEW turns,
         NEW outcome, Answer(c, blocks, turns, outcome)
  PROVE  PointsInv'
<1>1. /\ crediting = Nobody /\ crediting' = c /\ points' = points
      /\ chat[c].at \in {"waiting", "timeout"}
  BY DEF Answer
<1>2. \A d \in DeskChats :
         chat'[d].at = IF d = c THEN (IF chat[c].at = "waiting" THEN "replied" ELSE "unread")
                       ELSE chat[d].at
  BY DEF Answer, BlocksInv, BlockTypeOK, ChatRecords
<1>3. \A d : Created(d)' = Created(d)
  BY <1>1 DEF Created
<1>4. Created(c) = {}
  BY <1>1 DEF PointsInv
<1>5. points' \in Seq(DeskChats \X {"creation", "up", "down"}) /\ crediting' \in DeskChats \cup {Nobody}
  BY <1>1 DEF PointsInv
<1>6. /\ \A d \in DeskChats : \A m, n \in Created(d)' : m = n
      /\ \A d \in DeskChats : crediting' = d => Created(d)' = {}
  BY <1>1, <1>3, <1>4 DEF PointsInv
<1>7. ASSUME NEW d \in DeskChats, crediting' = d \/ Created(d)' # {}
      PROVE  chat'[d].at \in {"replied", "unread", "shown"}
  <2>1. CASE d = c
    BY <1>2, <2>1
  <2>2. CASE d # c
    BY <1>1, <1>2, <1>3, <1>7, <2>2 DEF PointsInv
  <2> QED
    BY <2>1, <2>2
<1> QED
  BY <1>5, <1>6, <1>7 DEF PointsInv

LEMMA CreditKeepsPoints ==
  ASSUME DeskAssumption, PointsInv, Credit
  PROVE  PointsInv'
<1>1. PICK c \in DeskChats : c = crediting
  BY DEF Credit, PointsInv
<1>2. points' = Append(points, <<c, "creation">>) /\ crediting' = Nobody /\ chat' = chat
  BY <1>1 DEF Credit
<1> PICK l : l = Len(points)
  OBVIOUS
<1>3. points \in Seq(DeskChats \X {"creation", "up", "down"}) /\ l \in Nat /\ DOMAIN points = 1..l
  BY DEF PointsInv
<1>4. <<c, "creation">> \in DeskChats \X {"creation", "up", "down"}
  OBVIOUS
<1>5. /\ points' \in Seq(DeskChats \X {"creation", "up", "down"})
      /\ DOMAIN points' = 1..(l + 1) /\ points'[l + 1] = <<c, "creation">>
      /\ \A n \in 1..l : points'[n] = points[n]
  BY <1>2, <1>3, <1>4, AppendProperties
<1>6. \A n \in 1..(l + 1) : n = l + 1 \/ n \in 1..l
  BY <1>3
<1>7. \A d \in DeskChats : Created(d)' = IF d = c THEN {l + 1} ELSE Created(d)
  <2> SUFFICES ASSUME NEW d \in DeskChats PROVE Created(d)' = IF d = c THEN {l + 1} ELSE Created(d)
    OBVIOUS
  <2>1. CASE d = c
    <3>1. Created(c) = {}
      BY <1>1 DEF PointsInv
    <3>2. \A n \in 1..l : points'[n] # <<c, "creation">>
      BY <1>3, <1>5, <3>1 DEF Created
    <3>3. l + 1 \in 1..(l + 1)
      BY <1>3
    <3> QED
      BY <1>5, <1>6, <2>1, <3>2, <3>3 DEF Created
  <2>2. CASE d # c
    <3>1. \A n \in 1..l : n \in 1..(l + 1)
      BY <1>3
    <3> QED
      BY <1>3, <1>5, <1>6, <2>2, <3>1 DEF Created
  <2> QED
    BY <2>1, <2>2
<1>8. \A d \in DeskChats : \A m, n \in Created(d)' : m = n
  BY <1>7 DEF PointsInv
<1>9. Nobody \notin DeskChats
  BY DEF DeskAssumption, Nobody
<1>10. \A d \in DeskChats : Created(d)' # {} => chat[d].at \in {"replied", "unread", "shown"}
  BY <1>1, <1>7 DEF PointsInv
<1> QED
  BY <1>2, <1>5, <1>8, <1>9, <1>10 DEF PointsInv

LEMMA GiveRatingKeepsPoints ==
  ASSUME PointsInv, RatersInv, NEW f \in Raters, NEW type \in {"up", "down"}, GiveRating(f, type)
  PROVE  PointsInv'
<1>1. PICK c \in DeskChats : c = rater[f].message
  BY DEF GiveRating, RatersInv
<1>2. points' = Append(points, <<c, type>>) /\ crediting' = crediting /\ chat' = chat
  BY <1>1 DEF GiveRating
<1> PICK l : l = Len(points)
  OBVIOUS
<1>3. points \in Seq(DeskChats \X {"creation", "up", "down"}) /\ l \in Nat /\ DOMAIN points = 1..l
  BY DEF PointsInv
<1>4. <<c, type>> \in DeskChats \X {"creation", "up", "down"}
  OBVIOUS
<1>5. /\ points' \in Seq(DeskChats \X {"creation", "up", "down"})
      /\ DOMAIN points' = 1..(l + 1) /\ points'[l + 1] = <<c, type>>
      /\ \A n \in 1..l : points'[n] = points[n]
  BY <1>2, <1>3, <1>4, AppendProperties
<1>6. \A n \in 1..(l + 1) : n = l + 1 \/ n \in 1..l
  BY <1>3
<1>7. \A n \in 1..l : n \in 1..(l + 1)
  BY <1>3
<1>8. \A d : Created(d)' = Created(d)
  BY <1>3, <1>5, <1>6, <1>7 DEF Created
<1> QED
  BY <1>2, <1>5, <1>8 DEF PointsInv

\* Points that are given leave what a rating saw as it was.
LEMMA PointsLeaveRaters ==
  ASSUME PointsInv, RatersInv, NEW p \in DeskChats \X {"creation", "up", "down"},
         points' = Append(points, p)
  PROVE  \A f \in Raters :
            /\ rater[f].seen <= Len(points')
            /\ rater[f].at \in {"award", "rated"} =>
                  \A n \in DOMAIN points' : n <= rater[f].seen =>
                     points'[n] \notin {<<rater[f].message, "up">>, <<rater[f].message, "down">>}
            /\ rater[f].at = "rated" =>
                  /\ rater[f].gave \in DOMAIN points'
                  /\ points'[rater[f].gave] \in {<<rater[f].message, "up">>, <<rater[f].message, "down">>}
<1> PICK l : l = Len(points)
  OBVIOUS
<1>3. points \in Seq(DeskChats \X {"creation", "up", "down"}) /\ l \in Nat /\ DOMAIN points = 1..l
  BY DEF PointsInv
<1>5. /\ points' \in Seq(DeskChats \X {"creation", "up", "down"})
      /\ Len(points') = l + 1 /\ DOMAIN points' = 1..(l + 1)
      /\ \A n \in 1..l : points'[n] = points[n]
  BY <1>3, AppendProperties
<1> SUFFICES ASSUME NEW f \in Raters
             PROVE  /\ rater[f].seen <= Len(points')
                    /\ rater[f].at \in {"award", "rated"} =>
                          \A n \in DOMAIN points' :
                             n <= rater[f].seen => points'[n] \notin {<<rater[f].message, "up">>, <<rater[f].message, "down">>}
                    /\ rater[f].at = "rated" =>
                          /\ rater[f].gave \in DOMAIN points'
                          /\ points'[rater[f].gave] \in {<<rater[f].message, "up">>, <<rater[f].message, "down">>}
  OBVIOUS
<1>6. rater[f].seen \in Nat /\ rater[f].seen <= l
  BY DEF RatersInv
<1>7. ASSUME rater[f].at \in {"award", "rated"}, NEW n \in 1..(l + 1), n <= rater[f].seen
      PROVE  points'[n] \notin {<<rater[f].message, "up">>, <<rater[f].message, "down">>}
  <2>1. n \in 1..l
    BY <1>3, <1>6, <1>7
  <2>2. points'[n] = points[n] /\ n \in DOMAIN points
    BY <1>3, <1>5, <2>1
  <2> QED
    BY <1>7, <2>2 DEF RatersInv, IsRating
<1>8. ASSUME rater[f].at = "rated"
      PROVE  /\ rater[f].gave \in DOMAIN points'
             /\ points'[rater[f].gave] \in {<<rater[f].message, "up">>, <<rater[f].message, "down">>}
  <2>1. /\ rater[f].gave \in 1..l
        /\ points[rater[f].gave] \in {<<rater[f].message, "up">>, <<rater[f].message, "down">>}
    BY <1>3, <1>8 DEF RatersInv, IsRating
  <2>2. rater[f].gave \in 1..(l + 1) /\ points'[rater[f].gave] = points[rater[f].gave]
    BY <1>3, <1>5, <2>1
  <2> QED
    BY <1>5, <2>1, <2>2
<1> QED
  BY <1>3, <1>5, <1>6, <1>7, <1>8

LEMMA CreditKeepsRaters ==
  ASSUME PointsInv, RatersInv, Credit
  PROVE  RatersInv'
<1>1. PICK p \in DeskChats \X {"creation", "up", "down"} : points' = Append(points, p)
  BY DEF Credit, PointsInv
<1>2. rater' = rater
  BY DEF Credit
<1> QED
  BY <1>1, <1>2, PointsLeaveRaters DEF RatersInv, IsRating

LEMMA GiveRatingKeepsRaters ==
  ASSUME PointsInv, RatersInv, NEW f \in Raters, NEW type \in {"up", "down"}, GiveRating(f, type)
  PROVE  RatersInv'
<1>1. PICK c \in DeskChats : c = rater[f].message /\ rater[f].at = "award"
  BY DEF GiveRating, RatersInv
<1>2. PICK p \in DeskChats \X {"creation", "up", "down"} : p = <<c, type>> /\ points' = Append(points, p)
  BY <1>1 DEF GiveRating
<1> PICK l : l = Len(points)
  OBVIOUS
<1>3. points \in Seq(DeskChats \X {"creation", "up", "down"}) /\ l \in Nat
  BY DEF PointsInv
<1>4. Len(points') = l + 1 /\ DOMAIN points' = 1..(l + 1) /\ points'[l + 1] = <<c, type>>
  BY <1>2, <1>3, AppendProperties
<1>5. PICK r : r = [rater[f] EXCEPT !.at = "rated", !.gave = Len(points')]
  OBVIOUS
<1>6. rater' = [rater EXCEPT ![f] = r]
  BY <1>5 DEF GiveRating, RatersInv
<1>7. rater[f] \in [at : {"idle", "refused", "award", "rated"},
                   message : DeskChats \cup {Nobody}, seen : Nat, gave : Nat]
  BY DEF RatersInv
<1>8. /\ r \in [at : {"idle", "refused", "award", "rated"},
                message : DeskChats \cup {Nobody}, seen : Nat, gave : Nat]
      /\ r.at = "rated" /\ r.message = c /\ r.seen = rater[f].seen /\ r.gave = l + 1
  <2>1. l + 1 \in Nat /\ Len(points') = l + 1
    BY <1>3, <1>4
  <2>2. PICK q : q = l + 1
    OBVIOUS
  <2>3. r = [rater[f] EXCEPT !.at = "rated", !.gave = q] /\ q \in Nat
    BY <1>5, <2>1, <2>2
  <2> QED
    BY <1>1, <1>7, <2>2, <2>3
<1>9. \A g \in Raters : rater'[g] = IF g = f THEN r ELSE rater[g]
  BY <1>6 DEF RatersInv
<1>10. rater' \in [Raters -> [at : {"idle", "refused", "award", "rated"},
                             message : DeskChats \cup {Nobody}, seen : Nat, gave : Nat]]
  BY <1>6, <1>8 DEF RatersInv
<1>11. /\ rater[f].seen <= Len(points')
       /\ \A n \in DOMAIN points' : n <= rater[f].seen => points'[n] \notin {<<c, "up">>, <<c, "down">>}
  BY <1>1, <1>2, PointsLeaveRaters
<1>12. l + 1 \in DOMAIN points' /\ points'[l + 1] \in {<<c, "up">>, <<c, "down">>}
  BY <1>3, <1>4
<1>13. ASSUME NEW g \in Raters
       PROVE  /\ rater'[g].at \in {"award", "rated"} => rater'[g].message \in DeskChats
              /\ rater'[g].seen <= Len(points')
              /\ rater'[g].at \in {"award", "rated"} =>
                    \A n \in DOMAIN points' : n <= rater'[g].seen =>
                       points'[n] \notin {<<rater'[g].message, "up">>, <<rater'[g].message, "down">>}
              /\ rater'[g].at = "rated" =>
                    /\ rater'[g].gave \in DOMAIN points'
                    /\ points'[rater'[g].gave] \in {<<rater'[g].message, "up">>, <<rater'[g].message, "down">>}
  <2>1. CASE g = f
    BY <1>8, <1>9, <1>11, <1>12, <2>1
  <2>2. CASE g # f
    BY <1>2, <1>9, <2>2, PointsLeaveRaters DEF RatersInv, IsRating
  <2> QED
    BY <2>1, <2>2
<1> QED
  BY <1>10, <1>13 DEF RatersInv, IsRating

LEMMA RateKeepsRaters ==
  ASSUME PointsInv, RatersInv, NEW f \in Raters, NEW c \in DeskChats, Rate(f, c)
  PROVE  RatersInv'
<1>1. PICK r : r = [at |-> IF HasFeedback(c) THEN "refused" ELSE "award",
                    message |-> c, seen |-> Len(points), gave |-> 0]
  OBVIOUS
<1>2. rater' = [rater EXCEPT ![f] = r] /\ points' = points
  BY <1>1 DEF Rate
<1>3. Len(points) \in Nat
  BY DEF PointsInv
<1>4. /\ r \in [at : {"idle", "refused", "award", "rated"},
                message : DeskChats \cup {Nobody}, seen : Nat, gave : Nat]
      /\ r.at \in {"refused", "award"} /\ r.message = c /\ r.seen = Len(points)
      /\ r.at = "award" => ~HasFeedback(c)
  BY <1>1, <1>3
<1>5. \A g \in Raters : rater'[g] = IF g = f THEN r ELSE rater[g]
  BY <1>2 DEF RatersInv
<1>6. rater' \in [Raters -> [at : {"idle", "refused", "award", "rated"},
                            message : DeskChats \cup {Nobody}, seen : Nat, gave : Nat]]
  BY <1>2, <1>4 DEF RatersInv
<1>7. r.at = "award" => \A n \in DOMAIN points : ~IsRating(n, c)
  BY <1>4 DEF HasFeedback, Ratings, IsRating
<1>8. ASSUME NEW g \in Raters
      PROVE  /\ rater'[g].at \in {"award", "rated"} => rater'[g].message \in DeskChats
             /\ rater'[g].seen <= Len(points)
             /\ rater'[g].at \in {"award", "rated"} =>
                   \A n \in DOMAIN points : n <= rater'[g].seen => ~IsRating(n, rater'[g].message)
             /\ rater'[g].at = "rated" =>
                   rater'[g].gave \in DOMAIN points /\ IsRating(rater'[g].gave, rater'[g].message)
  <2>1. CASE g = f
    BY <1>3, <1>4, <1>5, <1>7, <2>1
  <2>2. CASE g # f
    BY <1>5, <2>2 DEF RatersInv
  <2> QED
    BY <2>1, <2>2
<1> QED
  BY <1>2, <1>6, <1>8 DEF RatersInv, IsRating

LEMMA BlocksAreKept ==
  ASSUME BlocksInv, UNCHANGED <<chat, blockDone, slow>>,
         desk' = desk \/ desk' \in {"stopped", "closed"} \/ (desk' = "gone" /\ slow = {})
  PROVE  BlocksInv'
<1>1. desk' \in {"serving", "stopped", "closed", "gone"} /\ (desk' = "serving" => desk = "serving")
  BY DEF BlocksInv, BlockTypeOK
<1>2. BlockTypeOK' /\ RepliesAreRead' /\ RowsAreWritten'
  BY <1>1 DEF BlocksInv, BlockTypeOK, RepliesAreRead, RowsAreWritten
<1>3. BlocksAreActedUpon'
  BY DEF BlocksInv, BlocksAreActedUpon, Outcomes
<1> QED
  BY <1>2, <1>3 DEF BlocksInv

LEMMA DeskStep == DeskAssumption /\ DeskInv /\ [DeskNext]_deskVars => DeskInv'
<1> SUFFICES ASSUME DeskAssumption, BlocksInv, PointsInv, RatersInv, [DeskNext]_deskVars
             PROVE  DeskInv'
  BY DEF DeskInv
<1>0. \A c \in DeskChats : chat[c].at \in {"waiting", "timeout", "replied", "unread", "shown"}
  BY DEF BlocksInv, BlockTypeOK, ChatRecords
<1>1. ASSUME NEW c \in DeskChats, NEW blocks \in BlockLists, NEW turns, NEW outcome,
             Answer(c, blocks, turns, outcome)
      PROVE  DeskInv'
  <2>1. UNCHANGED <<points, rater>>
    BY <1>1 DEF Answer
  <2> QED
    BY <1>1, <2>1, AnswerKeepsBlocks, AnswerKeepsPoints, RatersAreKept DEF DeskInv
<1>2. ASSUME NEW c \in DeskChats, Wearies(c) \/ ActOnBlock(c) \/ Reply(c) PROVE DeskInv'
  <2>1. UNCHANGED <<points, crediting, rater>>
    BY <1>2 DEF Wearies, ActOnBlock, Reply
  <2>2. \A d \in DeskChats : chat[d].at \in Answereds => chat'[d].at \in Answereds
    BY <1>2 DEF Wearies, ActOnBlock, Reply, Answereds, BlocksInv, BlockTypeOK, ChatRecords
  <2>3. BlocksInv'
    BY <1>2, WeariesKeepsBlocks, ActOnBlockKeepsBlocks, ReplyKeepsBlocks
  <2> QED
    BY <2>1, <2>2, <2>3, PointsAreKept, RatersAreKept DEF DeskInv
<1>3. ASSUME NEW b \in slow, NEW fails \in BOOLEAN, SlowEnds(b, fails) PROVE DeskInv'
  <2>1. UNCHANGED <<points, crediting, rater, chat>>
    BY <1>3 DEF SlowEnds
  <2> QED
    BY <1>3, <2>1, SlowEndsKeepsBlocks, PointsAreKept, RatersAreKept DEF DeskInv
<1>4. ASSUME NEW f \in Raters, NEW c \in DeskChats, Rate(f, c) PROVE DeskInv'
  <2>1. UNCHANGED <<desk, chat, crediting, blockDone, slow, points>>
    BY <1>4 DEF Rate
  <2> QED
    BY <1>4, <2>1, BlocksAreKept, PointsAreKept, RateKeepsRaters DEF DeskInv
<1>5. ASSUME NEW f \in Raters, NEW type \in {"up", "down"}, GiveRating(f, type) PROVE DeskInv'
  <2>1. UNCHANGED <<desk, chat, blockDone, slow>>
    BY <1>5 DEF GiveRating
  <2> QED
    BY <1>5, <2>1, BlocksAreKept, GiveRatingKeepsPoints, GiveRatingKeepsRaters DEF DeskInv
<1>6. CASE Credit
  <2>1. UNCHANGED <<desk, chat, blockDone, slow>>
    BY <1>6 DEF Credit
  <2> QED
    BY <1>6, <2>1, BlocksAreKept, CreditKeepsPoints, CreditKeepsRaters DEF DeskInv
<1>7. CASE SavePrompt \/ LoopStops \/ RepoCloses \/ ProcessEnds \/ UNCHANGED deskVars
  <2>1. UNCHANGED <<chat, crediting, blockDone, slow, rater, points>>
    BY <1>7 DEF SavePrompt, LoopStops, RepoCloses, ProcessEnds, deskVars
  <2>2. desk' = desk \/ desk' \in {"stopped", "closed"} \/ (desk' = "gone" /\ slow = {})
    BY <1>7 DEF SavePrompt, LoopStops, RepoCloses, ProcessEnds, deskVars
  <2> QED
    BY <2>1, <2>2, BlocksAreKept, PointsAreKept, RatersAreKept DEF DeskInv
<1> QED
  BY <1>1, <1>2, <1>3, <1>4, <1>5, <1>6, <1>7 DEF DeskNext

LEMMA DeskInvHolds == DeskInv => DeskIsSound
<1> SUFFICES ASSUME BlocksInv, PointsInv, RatersInv PROVE DeskIsSound
  BY DEF DeskInv
<1>1. \A c \in DeskChats : chat[c] \in ChatRecords /\ chat[c].seen \in Nat /\ Len(chat[c].blocks) \in Nat
  <2> SUFFICES ASSUME NEW c \in DeskChats
               PROVE  chat[c] \in ChatRecords /\ chat[c].seen \in Nat /\ Len(chat[c].blocks) \in Nat
    OBVIOUS
  <2>1. chat[c] \in ChatRecords
    BY DEF BlocksInv, BlockTypeOK
  <2>2. chat[c].seen \in Nat /\ chat[c].blocks \in Seq(DbKinds \cup SlowKinds)
    BY <2>1 DEF ChatRecords
  <2> QED
    BY <2>1, <2>2
<1>2. ASSUME NEW c \in DeskChats, NEW k \in 1..Len(chat[c].blocks)
      PROVE  /\ Cardinality(Outcomes(c, k)) + (IF <<c, k>> \in slow THEN 1 ELSE 0)
                    = (IF k <= chat[c].seen THEN 1 ELSE 0)
             /\ chat[c].at = "shown" => (k <= chat[c].seen) = (chat[c].way = "openai")
             /\ chat[c].seen > 0 => chat[c].at \in {"replied", "shown"}
             /\ desk = "serving" /\ chat[c].blocks[k] \in DbKinds \ {"goal"} =>
                   \A n \in Outcomes(c, k) : blockDone[n][3] = "written"
  <2>0. k \in Nat /\ k >= 1 /\ k <= Len(chat[c].blocks)
    BY <1>1
  <2>1. CASE k <= chat[c].seen
    <3>1. k \in 1..chat[c].seen
      BY <1>1, <2>0, <2>1
    <3>2. ASSUME <<c, k>> \in slow
          PROVE  Cardinality(Outcomes(c, k)) + (IF <<c, k>> \in slow THEN 1 ELSE 0)
                    = (IF k <= chat[c].seen THEN 1 ELSE 0)
      <4>1. Outcomes(c, k) = {}
        BY <3>2 DEF Outcomes, BlocksInv, BlocksAreActedUpon
      <4> QED
        <5>1. Cardinality(Outcomes(c, k)) = 0
          BY <4>1, FS_EmptySet
        <5>2. (IF <<c, k>> \in slow THEN 1 ELSE 0) = 1 /\ (IF k <= chat[c].seen THEN 1 ELSE 0) = 1
          BY <2>1, <3>2
        <5> QED
          BY <5>1, <5>2
    <3>3. ASSUME <<c, k>> \notin slow
          PROVE  Cardinality(Outcomes(c, k)) + (IF <<c, k>> \in slow THEN 1 ELSE 0)
                    = (IF k <= chat[c].seen THEN 1 ELSE 0)
      <4>1. PICK n : n \in Outcomes(c, k)
        BY <3>1, <3>3 DEF BlocksInv, BlocksAreActedUpon
      <4>2. \A m \in Outcomes(c, k) : m = n
        BY <4>1 DEF Outcomes, BlocksInv, BlocksAreActedUpon
      <4>3. Outcomes(c, k) = {n}
        BY <4>1, <4>2
      <4>4. Cardinality(Outcomes(c, k)) = 1
        BY <4>3, FS_Singleton
      <4> QED
        <5>1. (IF <<c, k>> \in slow THEN 1 ELSE 0) = 0 /\ (IF k <= chat[c].seen THEN 1 ELSE 0) = 1
          BY <2>1, <3>3
        <5> QED
          BY <4>4, <5>1
    <3>4. Cardinality(Outcomes(c, k)) + (IF <<c, k>> \in slow THEN 1 ELSE 0)
             = (IF k <= chat[c].seen THEN 1 ELSE 0)
      BY <3>2, <3>3
    <3>5. chat[c].way = "openai" /\ chat[c].at \in {"replied", "shown"}
      BY <1>1, <2>0, <2>1 DEF BlocksInv, RepliesAreRead
    <3>6. desk = "serving" /\ chat[c].blocks[k] \in DbKinds \ {"goal"} =>
             \A n \in Outcomes(c, k) : blockDone[n][3] = "written"
      BY DEF Outcomes, BlocksInv, RowsAreWritten
    <3> QED
      BY <2>1, <3>4, <3>5, <3>6
  <2>2. CASE ~(k <= chat[c].seen)
    <3>1. k \notin 1..chat[c].seen
      BY <1>1, <2>0, <2>2
    <3>2. Outcomes(c, k) = {}
      BY <3>1 DEF Outcomes, BlocksInv, BlocksAreActedUpon
    <3>3. <<c, k>> \notin slow
      <4>1. <<c, k>>[1] = c /\ <<c, k>>[2] = k
        OBVIOUS
      <4> QED
        BY <3>1, <4>1, Zenon DEF BlocksInv, BlocksAreActedUpon
    <3>4. Cardinality(Outcomes(c, k)) = 0
      BY <3>2, FS_EmptySet
    <3>5. /\ chat[c].at = "shown" => chat[c].way # "openai"
          /\ chat[c].seen > 0 => chat[c].at \in {"replied", "shown"}
      BY <1>1, <2>0, <2>2 DEF BlocksInv, RepliesAreRead
    <3> QED
      BY <2>2, <3>2, <3>3, <3>4, <3>5
  <2> QED
    BY <2>1, <2>2
<1>3. desk = "gone" => slow = {}
  BY DEF BlocksInv
<1>4. ASSUME NEW c \in DeskChats
      PROVE  Cardinality({n \in DOMAIN points : points[n] = <<c, "creation">>}) <= 1
  <2>1. CASE Created(c) = {}
    BY <2>1, FS_EmptySet DEF Created
  <2>2. CASE Created(c) # {}
    <3>1. PICK n : n \in Created(c)
      BY <2>2
    <3>2. Created(c) = {n}
      BY <3>1 DEF PointsInv
    <3>3. Cardinality(Created(c)) = 1
      BY <3>2, FS_Singleton
    <3> QED
      BY <3>3 DEF Created
  <2> QED
    BY <2>1, <2>2
<1>5. ASSUME NEW f \in Raters, NEW g \in Raters, rater[f].at = "rated", rater[g].at = "rated",
             rater[f].message = rater[g].message
      PROVE  rater[g].seen < rater[f].gave
  <2>1. rater[g].seen \in Nat /\ rater[f].gave \in Nat
    BY DEF RatersInv
  <2>2. rater[f].gave \in DOMAIN points /\ IsRating(rater[f].gave, rater[g].message)
    BY <1>5 DEF RatersInv
  <2>3. ~(rater[f].gave <= rater[g].seen)
    BY <1>5, <2>2 DEF RatersInv
  <2> QED
    BY <2>1, <2>3
<1> QED
  BY <1>2, <1>3, <1>4, <1>5 DEF DeskIsSound

\* Whatever is under way when the process is stopped: a block of a reply is acted upon
\* once, what has a thread of its own ends before the process does, and a message is
\* rewarded once and rated twice only by raters that passed each other.
THEOREM DeskIsAlwaysSound == DeskSpec => []DeskIsSound
<1> USE DeskAssumption
<1>1. DeskInit => DeskInv
  BY DeskInitially
<1>2. DeskInv /\ [DeskNext]_deskVars => DeskInv'
  BY DeskStep
<1>3. DeskInv => DeskIsSound
  BY DeskInvHolds
<1> QED
  BY <1>1, <1>2, <1>3, PTL DEF DeskSpec

-----------------------------------------------------------------------------
(* The nodes of a self                                                      *)

Doings == {"none", "insert", "wire", "up", "down", "revise", "completed", "archived",
           "number", "history", "scores", "answers", "row"}
CallRecords ==
    {c \in [does : Doings, order : Seq(Passions \cup Nat), at : Nat, text : Nat] :
        c.does \in {"revise", "number", "history"} => \E t \in Passions \cup Nat : c.order = <<t>>}

NodeRowsOK ==
    /\ rank \in [Passions -> Nat \cup {Unranked}]
    /\ selfTodo \in [text : Nat, status : {"active", "completed", "archived"}]
    /\ todoHistory \in Seq([before : Passions \cup Nat, after : Nat])
    /\ score \in Nat /\ extraAnswers \in Nat /\ retestRows \in Nat

NodesTypeOK ==
    /\ NodeRowsOK
    /\ call \in [Hands -> CallRecords]
    /\ \A h \in Hands : call[h].does = "none" => call[h] = NoCall

OneCall == \A g, h \in Hands : call[g] # NoCall /\ call[h] # NoCall => g = h

\* The call that runs, where there is at most one.
CurrentOf(f) ==
    IF \A h \in Hands : f[h] = NoCall THEN NoCall ELSE f[CHOOSE h \in Hands : f[h] # NoCall]

\* A rerank moves the passions there are, and has put in place those it came by.
RerankGoes(c) ==
    c.does \in {"up", "down"} =>
        /\ c.order \in [1..Count -> Noted] /\ \A i, j \in 1..Count : c.order[i] = c.order[j] => i = j
        /\ c.at \in 1..Count
        /\ c.does = "down" => \A i \in 1..(c.at - 1) : rank[c.order[i]] = i - 1

\* Of calls that were not cut.
RanksFit(c) ==
    /\ c.does \notin {"up", "down"} => {rank[p] : p \in Noted} = 0..(Count - 1)
    /\ c.does = "insert" => \E p \in Passions \ Noted : c.order = <<p>> /\ c.at = Count
    /\ c.does = "wire" => \E p \in Passions : c.order = <<p>> /\ Noted \ {p} \subseteq wired
    /\ c.does # "wire" => Noted \subseteq wired
    /\ c.does \in {"up", "down"} =>
          /\ c.text = Count + RankGap /\ \A p \in Noted : \E i \in 1..Count : c.order[i] = p
    /\ c.does = "up" =>
          /\ \A i \in 1..(c.at - 1) : rank[c.order[i]] = i - 1 + c.text
          /\ \A i \in c.at..Count : rank[c.order[i]] < Count
    /\ c.does = "down" => \A i \in c.at..Count : rank[c.order[i]] = i - 1 + c.text

Told == IF todoHistory = <<>> THEN 0 ELSE todoHistory[Len(todoHistory)].after
TodoFits(c) ==
    /\ \A i \in 2..Len(todoHistory) : todoHistory[i].before = todoHistory[i - 1].after
    /\ c.does \notin {"number", "history"} => selfTodo.text = Told
    /\ c.does \in {"number", "history"} => selfTodo.text = c.text /\ c.order = <<Told>>
    /\ c.does = "revise" => c.order = <<selfTodo.text>>
    /\ c.does \in {"completed", "archived"} => c.text = selfTodo.text
    /\ c.does = "history" => c.at = Len(todoHistory) + 1

RetestFits(c) ==
    /\ c.does = "scores" => c.text = score /\ c.at = 0
    /\ c.does \notin {"answers", "row"} =>
          score = retestRows /\ extraAnswers = RetestAnswers * retestRows
    /\ c.does = "answers" =>
          /\ score = retestRows + 1 /\ c.at < RetestAnswers
          /\ extraAnswers = RetestAnswers * retestRows + c.at
    /\ c.does = "row" =>
          score = retestRows + 1 /\ extraAnswers = RetestAnswers * retestRows + RetestAnswers

WholeEffect(c) == ~collided /\ RanksFit(c) /\ TodoFits(c) /\ RetestFits(c)

NodesInv ==
    ~overlapped =>
        /\ NodesTypeOK /\ OneCall /\ RerankGoes(CurrentOf(call))
        /\ ~cutOff => WholeEffect(CurrentOf(call))

-----------------------------------------------------------------------------
LEMMA NotNothing == NoCall.does = "none" /\ NoCall \in CallRecords /\ CurrentOf([h \in Hands |-> NoCall]) = NoCall
<1>1. NoCall.does = "none" /\ NoCall.order = <<>>
  BY DEF NoCall
<1>2. <<>> \in Seq(Passions \cup Nat)
  OBVIOUS
<1>3. NoCall \in CallRecords
  BY <1>2 DEF NoCall, CallRecords, Doings
<1> QED
  BY <1>1, <1>3 DEF CurrentOf

LEMMA NotedIsFinite ==
  ASSUME NodesAssumption
  PROVE  IsFiniteSet(Noted) /\ Count \in Nat /\ Noted \subseteq Passions
<1>1. Noted \subseteq Passions
  BY DEF Noted
<1> QED
  BY <1>1, FS_Subset, FS_CardinalityType DEF NodesAssumption, Count

LEMMA NodesInitially == NodesAssumption /\ NodesInit => NodesInv
<1> SUFFICES ASSUME NodesAssumption, NodesInit PROVE NodesInv
  OBVIOUS
<1> USE DEF NodesInit
<1>1. Noted = {} /\ Count = 0
  <2>1. Noted = {}
    BY DEF Noted
  <2> QED
    BY <2>1, FS_EmptySet DEF Count
<1>2. CurrentOf(call) = NoCall
  BY DEF CurrentOf
<1>3. NodesTypeOK
  BY NotNothing DEF NodesTypeOK, NodeRowsOK, Unranked
<1>4. OneCall
  BY DEF OneCall
<1>5. RerankGoes(NoCall)
  BY NotNothing DEF RerankGoes
<1>6. RanksFit(NoCall)
  <2>1. {rank[p] : p \in Noted} = 0..(Count - 1)
    BY <1>1
  <2> QED
    BY <1>1, <2>1, NotNothing DEF RanksFit
<1>7. TodoFits(NoCall)
  BY NotNothing DEF TodoFits, Told
<1>8. RetestFits(NoCall)
  BY NotNothing DEF RetestFits, NodesAssumption
<1> QED
  BY <1>2, <1>3, <1>4, <1>5, <1>6, <1>7, <1>8 DEF NodesInv, WholeEffect

LEMMA CurrentIs ==
  ASSUME NEW f, NEW h \in Hands, \A g \in Hands : g # h => f[g] = NoCall
  PROVE  CurrentOf(f) = f[h]
BY DEF CurrentOf

\* A hand that goes on is the only one.
LEMMA HandGoesOn ==
  ASSUME NodesTypeOK, OneCall, NEW h \in Hands, call[h].does # "none",
         NEW d \in CallRecords, d = NoCall \/ d.does # "none", call' = [call EXCEPT ![h] = d]
  PROVE  /\ CurrentOf(call) = call[h] /\ CurrentOf(call') = d
         /\ OneCall' /\ call' \in [Hands -> CallRecords]
         /\ \A g \in Hands : call'[g].does = "none" => call'[g] = NoCall
<1>1. call[h] # NoCall
  BY NotNothing
<1>2. \A g \in Hands : g # h => call[g] = NoCall
  BY <1>1 DEF OneCall
<1>3. \A g \in Hands : call'[g] = IF g = h THEN d ELSE call[g]
  BY DEF NodesTypeOK
<1>4. CurrentOf(call) = call[h]
  BY <1>2, CurrentIs
<1>5. CurrentOf(call') = call'[h]
  BY <1>2, <1>3, CurrentIs
<1> QED
  BY <1>2, <1>3, <1>4, <1>5 DEF OneCall, NodesTypeOK

LEMMA HandBegins ==
  ASSUME NodesTypeOK, NEW h \in Hands, NEW d \in CallRecords, d.does # "none",
         Begin(h, d), ~overlapped'
  PROVE  /\ CurrentOf(call) = NoCall /\ CurrentOf(call') = d
         /\ OneCall' /\ call' \in [Hands -> CallRecords]
         /\ \A g \in Hands : call'[g].does = "none" => call'[g] = NoCall
<1>1. \A g \in Hands : call[g] = NoCall
  BY DEF Begin
<1>2. \A g \in Hands : call'[g] = IF g = h THEN d ELSE NoCall
  BY <1>1 DEF NodesTypeOK, Begin
<1>3. CurrentOf(call) = NoCall
  BY <1>1 DEF CurrentOf
<1>4. CurrentOf(call') = d
  BY <1>2, CurrentIs
<1>5. call' \in [Hands -> CallRecords]
  BY DEF NodesTypeOK, Begin
<1> QED
  BY <1>2, <1>3, <1>4, <1>5 DEF OneCall

LEMMA RanksStay ==
  ASSUME UNCHANGED <<rank, wired>>, NEW c, NEW d, RanksFit(c),
         c.does \notin {"insert", "wire", "up", "down"}, d.does \notin {"insert", "wire", "up", "down"}
  PROVE  RanksFit(d)'
BY DEF RanksFit, Noted, Count

LEMMA TodoStays ==
  ASSUME UNCHANGED <<selfTodo, todoHistory>>, NEW c, NEW d, TodoFits(c),
         c.does \notin {"revise", "completed", "archived", "number", "history"},
         d.does \notin {"revise", "completed", "archived", "number", "history"}
  PROVE  TodoFits(d)'
BY DEF TodoFits, Told

LEMMA RetestStays ==
  ASSUME UNCHANGED <<score, extraAnswers, retestRows>>, NEW c, NEW d, RetestFits(c),
         c.does \notin {"scores", "answers", "row"}, d.does \notin {"scores", "answers", "row"}
  PROVE  RetestFits(d)'
BY DEF RetestFits

LEMMA GoingOn ==
  ASSUME NodesInv, ~overlapped, UNCHANGED <<overlapped, cutOff>>,
         NEW h \in Hands, call[h].does # "none",
         NEW d \in CallRecords, d = NoCall \/ d.does # "none", call' = [call EXCEPT ![h] = d],
         NodeRowsOK',
         RerankGoes(call[h]) => RerankGoes(d)',
         ~cutOff /\ RerankGoes(call[h]) /\ WholeEffect(call[h]) => WholeEffect(d)'
  PROVE  NodesInv'
<1>1. /\ NodesTypeOK /\ OneCall /\ RerankGoes(CurrentOf(call))
      /\ ~cutOff => WholeEffect(CurrentOf(call))
  BY DEF NodesInv
<1>2. /\ CurrentOf(call) = call[h] /\ CurrentOf(call') = d
      /\ OneCall' /\ call' \in [Hands -> CallRecords]
      /\ \A g \in Hands : call'[g].does = "none" => call'[g] = NoCall
  BY <1>1, HandGoesOn
<1>3. NodesTypeOK'
  BY <1>2 DEF NodesTypeOK
<1>4. RerankGoes(d)' /\ (~cutOff => WholeEffect(d)')
  BY <1>1, <1>2
<1>5. RerankGoes(CurrentOf(call))' /\ (~cutOff' => WholeEffect(CurrentOf(call))')
  <2>1. RerankGoes(CurrentOf(call))'
    BY <1>2, <1>4 DEF RerankGoes
  <2>2. ASSUME ~cutOff PROVE WholeEffect(CurrentOf(call))'
    <3>1. WholeEffect(d)' /\ CurrentOf(call') = d
      BY <1>2, <1>4, <2>2
    <3>2. ~collided' /\ RanksFit(d)' /\ TodoFits(d)' /\ RetestFits(d)'
      BY <3>1 DEF WholeEffect
    <3>3. RanksFit(CurrentOf(call))'
      BY <3>1, <3>2 DEF RanksFit
    <3>4. TodoFits(CurrentOf(call))'
      BY <3>1, <3>2 DEF TodoFits
    <3>5. RetestFits(CurrentOf(call))'
      BY <3>1, <3>2 DEF RetestFits
    <3> QED
      BY <3>2, <3>3, <3>4, <3>5 DEF WholeEffect
  <2> QED
    BY <2>1, <2>2
<1> QED
  BY <1>2, <1>3, <1>5 DEF NodesInv

LEMMA Beginning ==
  ASSUME NodesInv, ~overlapped', NEW h \in Hands, NEW d \in CallRecords, d.does # "none", Begin(h, d),
         RerankGoes(d),
         ~cutOff /\ WholeEffect(NoCall) => WholeEffect(d)
  PROVE  NodesInv'
<1>1. ~overlapped /\ UNCHANGED <<nodeRows, cutOff, collided>>
  BY DEF Begin
<1>2. /\ NodesTypeOK /\ OneCall /\ RerankGoes(CurrentOf(call))
      /\ ~cutOff => WholeEffect(CurrentOf(call))
  BY <1>1 DEF NodesInv
<1>3. /\ CurrentOf(call) = NoCall /\ CurrentOf(call') = d
      /\ OneCall' /\ call' \in [Hands -> CallRecords]
      /\ \A g \in Hands : call'[g].does = "none" => call'[g] = NoCall
  BY <1>2, HandBegins
<1>4. NodesTypeOK'
  BY <1>1, <1>2, <1>3 DEF NodesTypeOK, NodeRowsOK, nodeRows
<1>5. RerankGoes(d) /\ (~cutOff => WholeEffect(d))
  BY <1>2, <1>3
<1>6. RerankGoes(CurrentOf(call))' /\ (~cutOff' => WholeEffect(CurrentOf(call))')
  BY <1>1, <1>3, <1>5 DEF RerankGoes, WholeEffect, RanksFit, TodoFits, RetestFits, nodeRows,
                          Noted, Count, Told
<1> QED
  BY <1>3, <1>4, <1>6 DEF NodesInv

LEMMA CutOffKeeps ==
  ASSUME NodesInv, NEW h \in Hands, CutOff(h)
  PROVE  NodesInv'
<1>1. SUFFICES ASSUME ~overlapped PROVE NodesInv'
  BY DEF CutOff, NodesInv
<1>2. NodesTypeOK /\ OneCall
  BY <1>1 DEF NodesInv
<1>3. call[h].does # "none"
  BY <1>2 DEF NodesTypeOK, CutOff
<1>4. /\ CurrentOf(call') = NoCall
      /\ OneCall' /\ call' \in [Hands -> CallRecords]
      /\ \A g \in Hands : call'[g].does = "none" => call'[g] = NoCall
  BY <1>2, <1>3, NotNothing, HandGoesOn DEF CutOff
<1>5. NodesTypeOK'
  BY <1>2, <1>4 DEF NodesTypeOK, NodeRowsOK, nodeRows, CutOff
<1>6. RerankGoes(CurrentOf(call))'
  BY <1>4, NotNothing DEF RerankGoes
<1>7. cutOff'
  BY DEF CutOff
<1> QED
  BY <1>4, <1>5, <1>6, <1>7 DEF NodesInv

-----------------------------------------------------------------------------
(* Passions                                                                 *)

LEMMA RankMoves ==
  ASSUME NodesTypeOK, NEW p, p \in Noted, NEW place, place \in Nat, rank' = [rank EXCEPT ![p] = place]
  PROVE  /\ rank' \in [Passions -> Nat \cup {Unranked}]
         /\ Noted' = Noted /\ Count' = Count
<1>1. /\ rank' \in [Passions -> Nat \cup {Unranked}]
      /\ \A q \in Passions : rank'[q] = IF q = p THEN place ELSE rank[q]
      /\ p \in Passions
  BY DEF NodesTypeOK, NodeRowsOK, Noted
<1>2. rank[p] # Unranked /\ place # Unranked
  BY DEF Noted, Unranked
<1>3. Noted' = Noted
  BY <1>1, <1>2 DEF Noted
<1> QED
  BY <1>1, <1>3 DEF Count, Noted

LEMMA LastRank ==
  ASSUME NodesAssumption, NodesTypeOK, NEW p \in Passions, p \notin Noted
  PROVE  /\ Max({rank[q] : q \in Passions}) + 1 \in Nat
         /\ {rank[q] : q \in Noted} = 0..(Count - 1) => Max({rank[q] : q \in Passions}) + 1 = Count
<1>1. PICK S : S = {rank[q] : q \in Passions}
  OBVIOUS
<1>2. IsFiniteSet(S)
  <2>1. rank \in Surjection(Passions, S)
    <3>1. DOMAIN rank = Passions /\ rank = [q \in Passions |-> rank[q]]
      BY DEF NodesTypeOK, NodeRowsOK
    <3>2. rank \in [Passions -> S]
      BY <1>1, <3>1
    <3> QED
      BY <1>1, <3>2 DEF Surjection
  <2> QED
    BY <2>1, FS_Surjection DEF NodesAssumption
<1>3. \A q \in Passions : rank[q] \in Int /\ rank[q] >= 0 - 1 /\ rank[q] \in S
  BY <1>1 DEF NodesTypeOK, NodeRowsOK, Unranked
<1>4. rank[p] = 0 - 1
  BY DEF Noted, Unranked
<1>5. S # {} /\ S \subseteq Int
  BY <1>1, <1>3
<1>6. PICK m : m = Max(S) /\ m \in S /\ \A n \in S : n <= m
  BY <1>2, <1>5, GreatestInteger
<1>7. m \in Int /\ m >= 0 - 1
  BY <1>3, <1>4, <1>5, <1>6
<1>8. ASSUME {rank[q] : q \in Noted} = 0..(Count - 1) PROVE m + 1 = Count
  <2>1. Count \in Nat
    BY NotedIsFinite
  <2>2. PICK q \in Passions : rank[q] = m
    BY <1>1, <1>6
  <2>3. CASE Count = 0
    <3>1. {rank[x] : x \in Noted} = {}
      <4>1. 0..(Count - 1) = {}
        BY <2>3
      <4> QED
        BY <1>8, <4>1
    <3>2. q \notin Noted
      BY <3>1
    <3> QED
      BY <2>2, <2>3, <3>2 DEF Noted, Unranked
  <2>4. CASE Count > 0
    <3>1. Count - 1 \in {rank[x] : x \in Noted}
      BY <1>8, <2>1, <2>4
    <3>2. Count - 1 <= m
      BY <1>3, <1>6, <3>1 DEF Noted
    <3>3. m >= 0
      BY <1>7, <2>1, <2>4, <3>2
    <3>4. q \in Noted
      BY <2>2, <3>3 DEF Noted, Unranked
    <3>5. m \in 0..(Count - 1)
      BY <1>8, <2>2, <3>4
    <3> QED
      BY <1>7, <2>1, <3>2, <3>5
  <2> QED
    BY <2>1, <2>3, <2>4
<1> QED
  BY <1>1, <1>6, <1>7, <1>8

LEMMA NotePassionKeeps ==
  ASSUME NodesAssumption, NodesInv, ~overlapped', NEW h \in Hands, NEW p \in Passions, NotePassion(h, p)
  PROVE  NodesInv'
<1>1. PICK n : n = Max({rank[q] : q \in Passions}) + 1
  OBVIOUS
<1>2. PICK d : d = Call("insert", <<p>>, n, 0)
  OBVIOUS
<1>3. Begin(h, d) /\ p \notin Noted
  BY <1>1, <1>2 DEF NotePassion
<1>4. NodesTypeOK
  BY <1>3 DEF NodesInv, Begin
<1>5. n \in Nat /\ ({rank[q] : q \in Noted} = 0..(Count - 1) => n = Count)
  BY <1>1, <1>3, <1>4, LastRank
<1>6. d \in CallRecords /\ d.does = "insert" /\ d.order = <<p>> /\ d.at = n
  <2>1. <<p>> \in Seq(Passions \cup Nat)
    OBVIOUS
  <2> QED
    BY <1>2, <1>5, <2>1 DEF CallRecords, Call, Doings
<1>7. RerankGoes(d)
  BY <1>6 DEF RerankGoes
<1>8. ASSUME WholeEffect(NoCall) PROVE WholeEffect(d)
  <2>1. RanksFit(d)
    BY <1>3, <1>5, <1>6, <1>8, NotNothing DEF WholeEffect, RanksFit
  <2>2. TodoFits(d)
    BY <1>6, <1>8, NotNothing DEF WholeEffect, TodoFits
  <2>3. RetestFits(d)
    BY <1>6, <1>8, NotNothing DEF WholeEffect, RetestFits
  <2> QED
    BY <1>8, <2>1, <2>2, <2>3 DEF WholeEffect
<1> QED
  BY <1>3, <1>6, <1>7, <1>8, Beginning

\* What a collision leaves, and that it needs a call that was cut.
LEMMA CollidesKeeps ==
  ASSUME NodesInv, ~overlapped, NEW h \in Hands, call[h].does # "none", Collides(h),
         ~(~cutOff /\ RerankGoes(call[h]) /\ WholeEffect(call[h]))
  PROVE  NodesInv'
<1>1. NodeRowsOK'
  BY DEF NodesInv, NodesTypeOK, NodeRowsOK, Collides, nodeRows
<1>2. RerankGoes(NoCall)'
  BY NotNothing DEF RerankGoes
<1> QED
  BY <1>1, <1>2, NotNothing, GoingOn DEF Collides, Onward

LEMMA InsertPassionKeeps ==
  ASSUME NodesAssumption, NodesInv, ~overlapped, NEW h \in Hands, InsertPassion(h)
  PROVE  NodesInv'
<1>0. NodesTypeOK /\ OneCall
  BY DEF NodesInv
<1>1. PICK c : c = call[h]
  OBVIOUS
<1>2. c \in CallRecords /\ c.does = "insert"
  BY <1>0, <1>1 DEF NodesTypeOK, InsertPassion
<1>3. CASE \E q \in Noted : rank[q] = c.at \/ q = c.order[1]
  <2>1. Collides(h)
    BY <1>1, <1>3 DEF InsertPassion
  <2>2. ASSUME WholeEffect(c) PROVE FALSE
    <3>1. PICK p \in Passions \ Noted : c.order = <<p>> /\ c.at = Count
      BY <1>2, <2>2 DEF WholeEffect, RanksFit
    <3>2. c.order[1] = p
      BY <3>1
    <3>3. \A q \in Noted : rank[q] \in 0..(Count - 1)
      BY <1>2, <2>2 DEF WholeEffect, RanksFit
    <3> QED
      BY <1>3, <3>1, <3>2, <3>3, NotedIsFinite
  <2> QED
    BY <1>1, <1>2, <2>1, <2>2, CollidesKeeps
<1>4. CASE ~ \E q \in Noted : rank[q] = c.at \/ q = c.order[1]
  <2>1. PICK d : d = [c EXCEPT !.does = "wire"]
    OBVIOUS
  <2>2. d \in CallRecords /\ d.does = "wire" /\ d.order = c.order
    BY <1>2, <2>1 DEF CallRecords, Doings
  <2>3. /\ rank' = [rank EXCEPT ![c.order[1]] = c.at]
        /\ call' = [call EXCEPT ![h] = d] /\ UNCHANGED <<overlapped, cutOff>>
        /\ UNCHANGED <<wired, selfTodo, todoHistory, score, extraAnswers, retestRows, collided>>
    BY <1>1, <1>4, <2>1 DEF InsertPassion, Onward
  <2>4. c.at \in Nat
    BY <1>2 DEF CallRecords
  <2>5. NodeRowsOK'
    BY <1>0, <2>3, <2>4 DEF NodesTypeOK, NodeRowsOK
  <2>6. RerankGoes(d)'
    BY <2>2 DEF RerankGoes
  <2>7. ASSUME WholeEffect(c) PROVE WholeEffect(d)'
    <3>1. PICK p \in Passions \ Noted : c.order = <<p>> /\ c.at = Count
      BY <1>2, <2>7 DEF WholeEffect, RanksFit
    <3>2. c.order[1] = p /\ Count \in Nat
      BY <3>1, NotedIsFinite
    <3>3. \A q \in Passions : rank'[q] = IF q = p THEN Count ELSE rank[q]
      BY <1>0, <2>3, <3>1, <3>2 DEF NodesTypeOK, NodeRowsOK
    <3>4. Noted' = Noted \cup {p}
      BY <3>1, <3>2, <3>3 DEF Noted, Unranked
    <3>5. Count' = Count + 1
      BY <3>1, <3>4, NotedIsFinite, FS_AddElement DEF Count
    <3>6. {rank[q] : q \in Noted} = 0..(Count - 1) /\ Noted \subseteq wired
      BY <1>2, <2>7 DEF WholeEffect, RanksFit
    <3>7. {rank[q] : q \in Noted}' = 0..Count
      <4>1. {rank[q] : q \in Noted}' = {rank[q] : q \in Noted} \cup {Count}
        BY <3>1, <3>3, <3>4 DEF Noted
      <4> QED
        BY <3>2, <3>6, <4>1
    <3>8. Count' - 1 = Count
      BY <3>2, <3>5
    <3>9. RanksFit(d)'
      BY <2>2, <2>3, <3>1, <3>4, <3>6, <3>7, <3>8 DEF RanksFit
    <3>10. TodoFits(d)' /\ RetestFits(d)'
      BY <1>2, <2>2, <2>3, <2>7, TodoStays, RetestStays DEF WholeEffect
    <3> QED
      BY <2>3, <2>7, <3>9, <3>10 DEF WholeEffect
  <2> QED
    BY <1>1, <1>2, <2>2, <2>3, <2>5, <2>6, <2>7, GoingOn
<1> QED
  BY <1>3, <1>4

LEMMA WireKeeps ==
  ASSUME NodesInv, ~overlapped, NEW h \in Hands, Wire(h)
  PROVE  NodesInv'
<1>1. PICK c : c = call[h]
  OBVIOUS
<1>2. c.does = "wire" /\ c.does # "none"
  BY <1>1 DEF Wire
<1>3. /\ wired' = wired \cup Range(c.order) /\ call' = [call EXCEPT ![h] = NoCall]
      /\ UNCHANGED <<overlapped, cutOff, rank, selfTodo, todoHistory, score, extraAnswers, retestRows,
                     collided>>
  BY <1>1 DEF Wire, Onward
<1>4. NodeRowsOK'
  BY <1>3 DEF NodesInv, NodesTypeOK, NodeRowsOK
<1>5. RerankGoes(NoCall)'
  BY NotNothing DEF RerankGoes
<1>6. ASSUME WholeEffect(c) PROVE WholeEffect(NoCall)'
  <2>1. PICK p \in Passions : c.order = <<p>> /\ Noted \ {p} \subseteq wired
    BY <1>2, <1>6 DEF WholeEffect, RanksFit
  <2>2. p \in Range(c.order)
    <3>1. 1 \in DOMAIN c.order /\ c.order[1] = p
      BY <2>1
    <3> QED
      BY <3>1 DEF Range
  <2>3. Noted' = Noted /\ Count' = Count
    BY <1>3 DEF Noted, Count
  <2>4. Noted \subseteq wired'
    BY <1>3, <2>1, <2>2
  <2>5. RanksFit(NoCall)'
    BY <1>2, <1>3, <1>6, <2>3, <2>4, NotNothing DEF WholeEffect, RanksFit
  <2>6. TodoFits(NoCall)' /\ RetestFits(NoCall)'
    BY <1>2, <1>3, <1>6, NotNothing, TodoStays, RetestStays DEF WholeEffect
  <2> QED
    BY <1>3, <1>6, <2>5, <2>6 DEF WholeEffect
<1> QED
  BY <1>1, <1>2, <1>3, <1>4, <1>5, <1>6, NotNothing, GoingOn

LEMMA RerankKeeps ==
  ASSUME NodesAssumption, NodesInv, ~overlapped', NEW h \in Hands,
         NEW order \in SetToSeqs(Noted), Rerank(h, order)
  PROVE  NodesInv'
<1>1. PICK d : d = Call("up", order, 1, Count + RankGap)
  OBVIOUS
<1>2. Begin(h, d) /\ Noted # {} /\ Range(order) = Noted
  BY <1>1 DEF Rerank
<1>3. /\ order \in [1..Count -> Noted] /\ \A i, j \in 1..Count : order[i] = order[j] => i = j
      /\ IsFiniteSet(Noted) /\ Count \in Nat /\ Noted \subseteq Passions
  BY NotedIsFinite DEF SetToSeqs, Count
<1>4. Count >= 1 /\ 1 \in 1..Count
  BY <1>2, <1>3, FS_EmptySet DEF Count
<1>5. order \in Seq(Passions \cup Nat)
  <2>1. order \in [1..Count -> Passions \cup Nat]
    BY <1>3
  <2> QED
    BY <1>3, <2>1, SeqDef
<1>6. d \in CallRecords /\ d.does = "up" /\ d.order = order /\ d.at = 1 /\ d.text = Count + RankGap
  <2>1. Count + RankGap \in Nat
    BY <1>3 DEF NodesAssumption
  <2>2. PICK n \in Nat : n = Count + RankGap
    BY <2>1
  <2>3. d = Call("up", order, 1, n)
    BY <1>1, <2>2
  <2> QED
    BY <1>5, <2>2, <2>3 DEF CallRecords, Call, Doings
<1>7. RerankGoes(d)
  BY <1>3, <1>4, <1>6 DEF RerankGoes
<1>8. ASSUME WholeEffect(NoCall) PROVE WholeEffect(d)
  <2>1. {rank[p] : p \in Noted} = 0..(Count - 1) /\ Noted \subseteq wired
    BY <1>8, NotNothing DEF WholeEffect, RanksFit
  <2>2. ASSUME NEW i \in 1..Count PROVE rank[order[i]] < Count
    <3>1. rank[order[i]] \in 0..(Count - 1)
      BY <1>3, <2>1
    <3> QED
      BY <1>3, <3>1
  <2>3. \A i \in 1..(d.at - 1) : FALSE
    BY <1>6
  <2>4. \A p \in Noted : \E i \in 1..Count : d.order[i] = p
    BY <1>2, <1>3, <1>6 DEF Range
  <2>5. RanksFit(d)
    BY <1>6, <2>1, <2>2, <2>3, <2>4 DEF RanksFit
  <2>6. TodoFits(d)
    BY <1>6, <1>8, NotNothing DEF WholeEffect, TodoFits
  <2>7. RetestFits(d)
    BY <1>6, <1>8, NotNothing DEF WholeEffect, RetestFits
  <2> QED
    BY <1>8, <2>5, <2>6, <2>7 DEF WholeEffect
<1> QED
  BY <1>2, <1>6, <1>7, <1>8, Beginning

\* What the calls of a rerank know.
LEMMA RerankKnows ==
  ASSUME NodesAssumption, NodesTypeOK, NEW c \in CallRecords, c.does \in {"up", "down"}, RerankGoes(c)
  PROVE  /\ Count \in Nat /\ Len(c.order) = Count
         /\ c.at \in 1..Count /\ c.at \in Nat /\ c.text \in Nat
         /\ c.order[c.at] \in Noted
         /\ \A i \in 1..Count : c.order[i] \in Noted /\ (i # c.at => c.order[i] # c.order[c.at])
<1>1. Count \in Nat /\ c.at \in 1..Count /\ c.order \in [1..Count -> Noted] /\ c.text \in Nat
  BY NotedIsFinite DEF RerankGoes, CallRecords
<1>2. c.order \in Seq(Passions \cup Nat) /\ DOMAIN c.order = 1..Count
  BY <1>1 DEF CallRecords
<1>3. Len(c.order) = Count
  BY <1>1, <1>2
<1> QED
  BY <1>1, <1>3 DEF RerankGoes

LEMMA MoveUpKeeps ==
  ASSUME NodesAssumption, NodesInv, ~overlapped, NEW h \in Hands, MoveUp(h)
  PROVE  NodesInv'
<1>0. NodesTypeOK /\ OneCall
  BY DEF NodesInv
<1>1. PICK c : c = call[h]
  OBVIOUS
<1>2. c \in CallRecords /\ c.does = "up"
  BY <1>0, <1>1 DEF NodesTypeOK, MoveUp, MovePassion
<1>3. RerankGoes(c)
  BY <1>0, <1>1, <1>2, NotNothing, CurrentIs DEF NodesInv, OneCall
<1> PICK n : n = Count
  OBVIOUS
<1> PICK a : a = c.at
  OBVIOUS
<1>4. /\ n \in Nat /\ Len(c.order) = n /\ a \in 1..n /\ a \in Nat /\ c.text \in Nat
      /\ n = Count /\ a = c.at
      /\ c.order[a] \in Noted
      /\ \A i \in 1..n : c.order[i] \in Noted /\ (i # a => c.order[i] # c.order[a])
  BY <1>0, <1>2, <1>3, RerankKnows
<1> PICK p \in Noted : p = c.order[a]
  BY <1>4
<1>11. PICK place : place = a - 1 + c.text
  OBVIOUS
<1>5. place \in Nat /\ place = a - 1 + c.text /\ p = c.order[a]
  BY <1>4, <1>11
<1>6. CASE \E q \in Noted \ {p} : rank[q] = place
  <2>1. Collides(h)
    BY <1>1, <1>4, <1>5, <1>6 DEF MoveUp, MovePassion
  <2>2. ASSUME WholeEffect(c) PROVE FALSE
    <3>1. PICK q \in Noted : q # p /\ rank[q] = place
      BY <1>6
    <3>2. PICK j \in 1..n : c.order[j] = q
      BY <1>2, <1>4, <2>2, <3>1 DEF WholeEffect, RanksFit
    <3>3. j # a /\ j \in Nat
      BY <1>4, <1>5, <3>1, <3>2
    <3>4. CASE j < a
      <4>1. j \in 1..(a - 1)
        BY <1>4, <3>2, <3>3, <3>4
      <4>2. rank[q] = j - 1 + c.text
        BY <1>2, <1>4, <2>2, <3>2, <4>1 DEF WholeEffect, RanksFit
      <4> QED
        BY <1>4, <1>5, <3>1, <3>3, <4>2
    <3>5. CASE j > a
      <4>1. j \in a..n
        BY <1>4, <3>2, <3>3, <3>5
      <4>2. rank[q] < n
        BY <1>2, <1>4, <2>2, <3>2, <4>1 DEF WholeEffect, RanksFit
      <4>3. c.text = n + RankGap
        BY <1>2, <1>4, <2>2 DEF WholeEffect, RanksFit
      <4> QED
        BY <1>4, <1>5, <3>1, <4>2, <4>3 DEF NodesAssumption
    <3> QED
      BY <1>4, <3>3, <3>4, <3>5
  <2> QED
    BY <1>1, <1>2, <1>3, <2>1, <2>2, CollidesKeeps
<1>7. CASE ~ \E q \in Noted \ {p} : rank[q] = place
  <2>1. PICK d : d = IF a < n THEN [c EXCEPT !.at = a + 1] ELSE [c EXCEPT !.does = "down", !.at = 1]
    OBVIOUS
  <2>2. /\ d \in CallRecords /\ d.order = c.order /\ d.text = c.text
        /\ a < n => d.does = "up" /\ d.at = a + 1
        /\ ~(a < n) => d.does = "down" /\ d.at = 1 /\ a = n
    <3>1. CASE a < n
      <4>1. PICK b \in Nat : b = a + 1
        BY <1>4
      <4>2. d = [c EXCEPT !.at = b]
        BY <2>1, <3>1, <4>1
      <4> QED
        BY <1>2, <3>1, <4>1, <4>2 DEF CallRecords, Doings
    <3>2. CASE ~(a < n)
      <4>1. d = [c EXCEPT !.does = "down", !.at = 1]
        BY <2>1, <3>2
      <4>2. a = n
        BY <1>4, <3>2
      <4> QED
        BY <1>2, <3>2, <4>1, <4>2 DEF CallRecords, Doings
    <3> QED
      BY <3>1, <3>2
  <2>3. /\ rank' = [rank EXCEPT ![p] = place]
        /\ UNCHANGED <<wired, selfTodo, todoHistory, score, extraAnswers, retestRows, collided,
                       overlapped, cutOff>>
    BY <1>1, <1>4, <1>5, <1>7 DEF MoveUp, MovePassion, Onward
  <2>4. call' = [call EXCEPT ![h] = d]
    BY <1>1, <1>4, <1>5, <1>7, <2>1 DEF MoveUp, MovePassion, Onward
  <2>5. /\ rank' \in [Passions -> Nat \cup {Unranked}] /\ Noted' = Noted /\ Count' = n
        /\ \A q \in Noted : rank'[q] = IF q = p THEN place ELSE rank[q]
    <3>1. p \in Noted /\ place \in Nat /\ rank' = [rank EXCEPT ![p] = place]
      BY <1>5, <2>3
    <3>2. rank' \in [Passions -> Nat \cup {Unranked}] /\ Noted' = Noted /\ Count' = Count
      BY <1>0, <3>1, RankMoves, Zenon
    <3>3. \A q \in Noted : rank'[q] = IF q = p THEN place ELSE rank[q]
      BY <1>0, <3>1 DEF NodesTypeOK, NodeRowsOK, Noted
    <3> QED
      BY <1>4, <3>2, <3>3
  <2>6. NodeRowsOK'
    BY <1>0, <2>3, <2>5 DEF NodesTypeOK, NodeRowsOK
  <2>7. RerankGoes(d)'
    <3>1. d.at \in 1..n /\ (d.does = "down" => \A i \in 1..(d.at - 1) : FALSE)
      BY <1>4, <2>2
    <3> QED
      BY <1>2, <1>3, <1>4, <2>2, <2>5, <3>1 DEF RerankGoes
  <2>8. ASSUME WholeEffect(c) PROVE WholeEffect(d)'
    <3>1. /\ Noted \subseteq wired /\ c.text = n + RankGap
          /\ \A q \in Noted : \E i \in 1..n : c.order[i] = q
      BY <1>2, <1>4, <2>8 DEF WholeEffect, RanksFit
    <3>2. ASSUME NEW i \in 1..a PROVE rank'[c.order[i]] = i - 1 + c.text
      <4>1. CASE i = a
        BY <1>4, <1>5, <2>5, <4>1
      <4>2. CASE i # a
        <5>1. i \in 1..(a - 1) /\ i \in 1..n
          BY <1>4, <4>2
        <5>2. rank[c.order[i]] = i - 1 + c.text
          BY <1>2, <1>4, <2>8, <5>1 DEF WholeEffect, RanksFit
        <5> QED
          BY <1>4, <1>5, <2>5, <4>2, <5>1, <5>2
      <4> QED
        BY <4>1, <4>2
    <3>3. ASSUME NEW i \in (a + 1)..n PROVE rank'[c.order[i]] < n
      <4>1. i \in a..n /\ i \in 1..n /\ i # a
        BY <1>4
      <4>2. rank[c.order[i]] < n
        BY <1>2, <1>4, <2>8, <4>1 DEF WholeEffect, RanksFit
      <4> QED
        BY <1>4, <1>5, <2>5, <4>1, <4>2
    <3>4. RanksFit(d)'
      <4>1. CASE a < n
        <5>1. d.at - 1 = a
          BY <1>4, <2>2, <4>1
        <5> QED
          BY <2>2, <2>3, <2>5, <3>1, <3>2, <3>3, <4>1, <5>1 DEF RanksFit
      <4>2. CASE ~(a < n)
        BY <2>2, <2>3, <2>5, <3>1, <3>2, <4>2 DEF RanksFit
      <4> QED
        BY <4>1, <4>2
    <3>5. d.does \in {"up", "down"}
      BY <2>2
    <3>6. TodoFits(d)' /\ RetestFits(d)'
      BY <1>2, <2>3, <2>8, <3>5, TodoStays, RetestStays DEF WholeEffect
    <3> QED
      BY <2>3, <2>8, <3>4, <3>6 DEF WholeEffect
  <2> QED
    BY <1>1, <1>2, <2>2, <2>3, <2>4, <2>6, <2>7, <2>8, GoingOn
<1> QED
  BY <1>6, <1>7

LEMMA MoveDownKeeps ==
  ASSUME NodesAssumption, NodesInv, ~overlapped, NEW h \in Hands, MoveDown(h)
  PROVE  NodesInv'
<1>0. NodesTypeOK /\ OneCall
  BY DEF NodesInv
<1>1. PICK c : c = call[h]
  OBVIOUS
<1>2. c \in CallRecords /\ c.does = "down"
  BY <1>0, <1>1 DEF NodesTypeOK, MoveDown, MovePassion
<1>3. RerankGoes(c)
  BY <1>0, <1>1, <1>2, NotNothing, CurrentIs DEF NodesInv, OneCall
<1> PICK n : n = Count
  OBVIOUS
<1> PICK a : a = c.at
  OBVIOUS
<1>4. /\ n \in Nat /\ Len(c.order) = n /\ a \in 1..n /\ a \in Nat /\ c.text \in Nat
      /\ n = Count /\ a = c.at
      /\ c.order[a] \in Noted
      /\ \A i \in 1..n : c.order[i] \in Noted /\ (i # a => c.order[i] # c.order[a])
  BY <1>0, <1>2, <1>3, RerankKnows
<1> PICK p \in Noted : p = c.order[a]
  BY <1>4
<1>11. PICK place : place = a - 1
  OBVIOUS
<1>5. place \in Nat /\ place = a - 1 /\ p = c.order[a]
  BY <1>4, <1>11
<1>6. \A i \in 1..(a - 1) : rank[c.order[i]] = i - 1
  BY <1>2, <1>3, <1>4 DEF RerankGoes
<1>7. CASE \E q \in Noted \ {p} : rank[q] = place
  <2>1. Collides(h)
    BY <1>1, <1>4, <1>5, <1>7 DEF MoveDown, MovePassion
  <2>2. ASSUME WholeEffect(c) PROVE FALSE
    <3>1. PICK q \in Noted : q # p /\ rank[q] = place
      BY <1>7
    <3>2. PICK j \in 1..n : c.order[j] = q
      BY <1>2, <1>4, <2>2, <3>1 DEF WholeEffect, RanksFit
    <3>3. j # a /\ j \in Nat
      BY <1>4, <1>5, <3>1, <3>2
    <3>4. CASE j < a
      <4>1. j \in 1..(a - 1)
        BY <1>4, <3>2, <3>3, <3>4
      <4>2. rank[q] = j - 1
        BY <1>6, <3>2, <4>1
      <4> QED
        BY <1>4, <1>5, <3>1, <3>3, <4>2
    <3>5. CASE j > a
      <4>1. j \in a..n
        BY <1>4, <3>2, <3>3, <3>5
      <4>2. rank[q] = j - 1 + c.text
        BY <1>2, <1>4, <2>2, <3>2, <4>1 DEF WholeEffect, RanksFit
      <4> QED
        BY <1>4, <1>5, <3>1, <3>3, <3>5, <4>2
    <3> QED
      BY <1>4, <3>3, <3>4, <3>5
  <2> QED
    BY <1>1, <1>2, <1>3, <2>1, <2>2, CollidesKeeps
<1>8. CASE ~ \E q \in Noted \ {p} : rank[q] = place
  <2>1. PICK d : d = IF a < n THEN [c EXCEPT !.at = a + 1] ELSE NoCall
    OBVIOUS
  <2>2. /\ d \in CallRecords
        /\ a < n => d.does = "down" /\ d.at = a + 1 /\ d.order = c.order /\ d.text = c.text
        /\ ~(a < n) => d = NoCall /\ d.does = "none" /\ a = n
    <3>1. CASE a < n
      <4>1. PICK b \in Nat : b = a + 1
        BY <1>4
      <4>2. d = [c EXCEPT !.at = b]
        BY <2>1, <3>1, <4>1
      <4> QED
        BY <1>2, <3>1, <4>1, <4>2 DEF CallRecords, Doings
    <3>2. CASE ~(a < n)
      BY <1>4, <2>1, <3>2, NotNothing
    <3> QED
      BY <3>1, <3>2
  <2>3. /\ rank' = [rank EXCEPT ![p] = place]
        /\ UNCHANGED <<wired, selfTodo, todoHistory, score, extraAnswers, retestRows, collided,
                       overlapped, cutOff>>
    BY <1>1, <1>4, <1>5, <1>8 DEF MoveDown, MovePassion, Onward
  <2>4. call' = [call EXCEPT ![h] = d]
    BY <1>1, <1>4, <1>5, <1>8, <2>1 DEF MoveDown, MovePassion, Onward
  <2>5. /\ rank' \in [Passions -> Nat \cup {Unranked}] /\ Noted' = Noted /\ Count' = n
        /\ \A q \in Noted : rank'[q] = IF q = p THEN place ELSE rank[q]
    <3>1. p \in Noted /\ place \in Nat /\ rank' = [rank EXCEPT ![p] = place]
      BY <1>5, <2>3
    <3>2. rank' \in [Passions -> Nat \cup {Unranked}] /\ Noted' = Noted /\ Count' = Count
      BY <1>0, <3>1, RankMoves, Zenon
    <3>3. \A q \in Noted : rank'[q] = IF q = p THEN place ELSE rank[q]
      BY <1>0, <3>1 DEF NodesTypeOK, NodeRowsOK, Noted
    <3> QED
      BY <1>4, <3>2, <3>3
  <2>6. NodeRowsOK'
    BY <1>0, <2>3, <2>5 DEF NodesTypeOK, NodeRowsOK
  <2>7. ASSUME NEW i \in 1..a PROVE rank'[c.order[i]] = i - 1
    <3>1. CASE i = a
      BY <1>4, <1>5, <2>5, <3>1
    <3>2. CASE i # a
      <4>1. i \in 1..(a - 1) /\ i \in 1..n
        BY <1>4, <3>2
      <4> QED
        BY <1>4, <1>5, <1>6, <2>5, <3>2, <4>1
    <3> QED
      BY <3>1, <3>2
  <2>8. RerankGoes(d)'
    <3>1. CASE a < n
      <4>1. d.at \in 1..n /\ d.at - 1 = a
        BY <1>4, <2>2, <3>1
      <4> QED
        BY <1>2, <1>3, <1>4, <2>2, <2>5, <2>7, <3>1, <4>1 DEF RerankGoes
    <3>2. CASE ~(a < n)
      BY <2>2, <3>2 DEF RerankGoes
    <3> QED
      BY <3>1, <3>2
  <2>9. ASSUME WholeEffect(c) PROVE WholeEffect(d)'
    <3>1. /\ Noted \subseteq wired /\ c.text = n + RankGap
          /\ \A q \in Noted : \E i \in 1..n : c.order[i] = q
      BY <1>2, <1>4, <2>9 DEF WholeEffect, RanksFit
    <3>2. ASSUME NEW i \in (a + 1)..n PROVE rank'[c.order[i]] = i - 1 + c.text
      <4>1. i \in a..n /\ i \in 1..n /\ i # a
        BY <1>4
      <4>2. rank[c.order[i]] = i - 1 + c.text
        BY <1>2, <1>4, <2>9, <4>1 DEF WholeEffect, RanksFit
      <4> QED
        BY <1>4, <1>5, <2>5, <4>1, <4>2
    <3>3. RanksFit(d)'
      <4>1. CASE a < n
        BY <2>2, <2>3, <2>5, <3>1, <3>2, <4>1 DEF RanksFit
      <4>2. CASE ~(a < n)
        <5>1. \A i \in 1..n : rank'[c.order[i]] = i - 1
          BY <2>2, <2>7, <4>2
        <5>2. ASSUME NEW q \in Noted PROVE rank'[q] \in 0..(n - 1)
          <6>1. PICK i \in 1..n : c.order[i] = q
            BY <3>1
          <6> QED
            BY <1>4, <5>1, <6>1
        <5>3. ASSUME NEW v \in 0..(n - 1) PROVE \E q \in Noted : rank'[q] = v
          <6>1. PICK i \in 1..n : i - 1 = v
            <7>1. v + 1 \in 1..n /\ (v + 1) - 1 = v
              BY <1>4
            <7> QED
              BY <7>1
          <6>2. c.order[i] \in Noted /\ rank'[c.order[i]] = v
            BY <1>4, <5>1, <6>1
          <6> QED
            BY <6>2
        <5>4. {rank'[q] : q \in Noted} = 0..(n - 1)
          BY <5>2, <5>3
        <5> QED
          BY <2>2, <2>3, <2>5, <3>1, <4>2, <5>4 DEF RanksFit
      <4> QED
        BY <4>1, <4>2
    <3>4. d.does \in {"none", "down"}
      BY <2>2
    <3>5. TodoFits(d)' /\ RetestFits(d)'
      BY <1>2, <2>3, <2>9, <3>4, TodoStays, RetestStays DEF WholeEffect
    <3> QED
      BY <2>3, <2>9, <3>3, <3>5 DEF WholeEffect
  <2> QED
    BY <1>1, <1>2, <2>2, <2>3, <2>4, <2>6, <2>8, <2>9, GoingOn
<1> QED
  BY <1>7, <1>8

-----------------------------------------------------------------------------
(* The todo and the retest                                                  *)

\* A todo is read, or a retest begins.
LEMMA ReadKeeps ==
  ASSUME NodesInv, ~overlapped', NEW h \in Hands,
         \/ \E text \in {1, 2} : ReviseTodo(h, text)
         \/ CompleteTodo(h) \/ ArchiveTodo(h) \/ Retest(h)
  PROVE  NodesInv'
<1>0. ~overlapped
  BY DEF ReviseTodo, CompleteTodo, ArchiveTodo, Retest, Begin
<1>1. selfTodo.text \in Nat /\ score \in Nat
  BY <1>0 DEF NodesInv, NodesTypeOK, NodeRowsOK
<1>2. PICK does \in {"revise", "completed", "archived", "scores"},
           order \in {<<>>, <<selfTodo.text>>}, text \in Nat :
         /\ Begin(h, Call(does, order, 0, text))
         /\ does = "revise" <=> order = <<selfTodo.text>>
         /\ does \in {"completed", "archived"} => text = selfTodo.text
         /\ does = "scores" => text = score
  <2>1. <<>> # <<selfTodo.text>>
    OBVIOUS
  <2>2. ASSUME NEW t \in {1, 2}, ReviseTodo(h, t) PROVE Begin(h, Call("revise", <<selfTodo.text>>, 0, t)) /\ t \in Nat
    BY <2>2 DEF ReviseTodo
  <2>3. CompleteTodo(h) => Begin(h, Call("completed", <<>>, 0, selfTodo.text))
    BY DEF CompleteTodo
  <2>4. ArchiveTodo(h) => Begin(h, Call("archived", <<>>, 0, selfTodo.text))
    BY DEF ArchiveTodo
  <2>5. Retest(h) => Begin(h, Call("scores", <<>>, 0, score))
    BY DEF Retest
  <2> QED
    BY <1>1, <2>1, <2>2, <2>3, <2>4, <2>5
<1>3. PICK d : d = Call(does, order, 0, text)
  OBVIOUS
<1>4. d \in CallRecords /\ d.does = does /\ d.order = order /\ d.at = 0 /\ d.text = text
  <2>1. order \in Seq(Passions \cup Nat)
    <3>1. selfTodo.text \in Passions \cup Nat
      BY <1>1
    <3>2. <<>> \in Seq(Passions \cup Nat) /\ <<selfTodo.text>> \in Seq(Passions \cup Nat)
      BY <3>1
    <3> QED
      BY <3>2
  <2>2. does = "revise" => \E t \in Passions \cup Nat : order = <<t>>
    BY <1>1, <1>2
  <2> QED
    BY <1>3, <2>1, <2>2 DEF CallRecords, Call, Doings
<1>5. RerankGoes(d)
  BY <1>4 DEF RerankGoes
<1>6. ASSUME WholeEffect(NoCall) PROVE WholeEffect(d)
  <2>1. RanksFit(d)
    BY <1>4, <1>6, NotNothing DEF WholeEffect, RanksFit
  <2>2. TodoFits(d)
    BY <1>2, <1>4, <1>6, NotNothing DEF WholeEffect, TodoFits
  <2>3. RetestFits(d)
    BY <1>2, <1>4, <1>6, NotNothing DEF WholeEffect, RetestFits
  <2> QED
    BY <1>6, <2>1, <2>2, <2>3 DEF WholeEffect
<1> QED
  BY <1>2, <1>3, <1>4, <1>5, <1>6, Beginning

LEMMA UpdateTodoKeeps ==
  ASSUME NodesInv, ~overlapped, NEW h \in Hands,
         (\E status \in {"completed", "archived"} : EndTodo(h, status)) \/ UpdateText(h)
  PROVE  NodesInv'
<1>0. NodesTypeOK
  BY DEF NodesInv
<1>1. PICK c : c = call[h]
  OBVIOUS
<1>2. PICK d :
         /\ call' = [call EXCEPT ![h] = d]
         /\ UNCHANGED <<rank, wired, todoHistory, score, extraAnswers, retestRows, collided,
                        overlapped, cutOff>>
         /\ \/ c.does \in {"completed", "archived"} /\ d = NoCall
            \/ c.does = "revise" /\ d = [c EXCEPT !.does = "number"]
  BY <1>1 DEF EndTodo, UpdateText, UpdateTodo, Onward
<1>9. PICK status \in {"active", "completed", "archived"} :
         selfTodo' = [text |-> c.text, status |-> status]
  BY <1>1 DEF EndTodo, UpdateText, UpdateTodo
<1>3. c \in CallRecords /\ c.does # "none"
  BY <1>0, <1>1, <1>2 DEF NodesTypeOK
<1>4. /\ d \in CallRecords /\ (d = NoCall \/ d.does # "none") /\ d.does \in {"none", "number"}
      /\ c.does = "revise" => d.does = "number" /\ d.order = c.order /\ d.text = c.text
      /\ c.does # "revise" => d.does = "none"
  BY <1>2, <1>3, NotNothing DEF CallRecords, Doings
<1>5. c.text \in Nat
  BY <1>3 DEF CallRecords
<1>6. NodeRowsOK'
  BY <1>0, <1>2, <1>5, <1>9 DEF NodesTypeOK, NodeRowsOK
<1>7. RerankGoes(d)'
  BY <1>4 DEF RerankGoes
<1>8. ASSUME WholeEffect(c) PROVE WholeEffect(d)'
  <2>1. RanksFit(d)' /\ RetestFits(d)'
    BY <1>2, <1>4, <1>8, RanksStay, RetestStays DEF WholeEffect
  <2>2. Told' = Told /\ selfTodo'.text = c.text
    BY <1>2, <1>9 DEF Told
  <2>3. TodoFits(d)'
    BY <1>2, <1>4, <1>8, <2>2 DEF WholeEffect, TodoFits
  <2> QED
    BY <1>2, <1>8, <2>1, <2>3 DEF WholeEffect
<1> QED
  BY <1>1, <1>2, <1>3, <1>4, <1>6, <1>7, <1>8, GoingOn

LEMMA ReadNumberKeeps ==
  ASSUME NodesInv, ~overlapped, NEW h \in Hands, ReadNumber(h)
  PROVE  NodesInv'
<1>0. NodesTypeOK
  BY DEF NodesInv
<1>1. PICK c : c = call[h]
  OBVIOUS
<1>2. c \in CallRecords /\ c.does = "number"
  BY <1>0, <1>1 DEF NodesTypeOK, ReadNumber
<1>3. PICK n : n = Len(todoHistory) + 1
  OBVIOUS
<1>4. n \in Nat
  BY <1>0, <1>3 DEF NodesTypeOK, NodeRowsOK
<1>5. PICK d : d = [c EXCEPT !.does = "history", !.at = n]
  OBVIOUS
<1>6. d \in CallRecords /\ d.does = "history" /\ d.order = c.order /\ d.at = n /\ d.text = c.text
  BY <1>2, <1>4, <1>5 DEF CallRecords, Doings
<1>7. call' = [call EXCEPT ![h] = d] /\ UNCHANGED <<nodeRows, collided, overlapped, cutOff>>
  BY <1>1, <1>3, <1>5 DEF ReadNumber, Onward
<1>8. NodeRowsOK'
  BY <1>0, <1>7 DEF NodesTypeOK, NodeRowsOK, nodeRows
<1>9. RerankGoes(d)'
  BY <1>6 DEF RerankGoes
<1>10. ASSUME WholeEffect(c) PROVE WholeEffect(d)'
  <2>1. RanksFit(d)' /\ RetestFits(d)'
    BY <1>2, <1>6, <1>7, <1>10, RanksStay, RetestStays DEF WholeEffect, nodeRows
  <2>2. TodoFits(d)'
    BY <1>2, <1>3, <1>6, <1>7, <1>10 DEF WholeEffect, TodoFits, Told, nodeRows
  <2> QED
    BY <1>7, <1>10, <2>1, <2>2 DEF WholeEffect
<1> QED
  BY <1>1, <1>2, <1>6, <1>7, <1>8, <1>9, <1>10, GoingOn

LEMMA InsertRevisionKeeps ==
  ASSUME NodesInv, ~overlapped, NEW h \in Hands, InsertRevision(h)
  PROVE  NodesInv'
<1>0. NodesTypeOK
  BY DEF NodesInv
<1>1. PICK c : c = call[h]
  OBVIOUS
<1>2. c \in CallRecords /\ c.does = "history"
  BY <1>0, <1>1 DEF NodesTypeOK, InsertRevision
<1>3. CASE c.at # Len(todoHistory) + 1
  <2>1. Collides(h)
    BY <1>1, <1>3 DEF InsertRevision
  <2>2. ~WholeEffect(c)
    BY <1>2, <1>3 DEF WholeEffect, TodoFits
  <2> QED
    BY <1>1, <1>2, <2>1, <2>2, CollidesKeeps
<1>4. CASE c.at = Len(todoHistory) + 1
  <2>1. PICK t \in Passions \cup Nat : c.order = <<t>>
    BY <1>2 DEF CallRecords
  <2>2. PICK row : row = [before |-> t, after |-> c.text]
    OBVIOUS
  <2>3. /\ todoHistory' = Append(todoHistory, row) /\ call' = [call EXCEPT ![h] = NoCall]
        /\ UNCHANGED <<rank, wired, selfTodo, score, extraAnswers, retestRows, collided, overlapped,
                       cutOff>>
    <3>1. c.order[1] = t
      BY <2>1
    <3> QED
      BY <1>1, <1>4, <2>2, <3>1 DEF InsertRevision, Onward
  <2>4. row \in [before : Passions \cup Nat, after : Nat] /\ row.before = t /\ row.after = c.text
    BY <1>2, <2>2 DEF CallRecords
  <2>5. PICK l : l = Len(todoHistory)
    OBVIOUS
  <2>6. todoHistory \in Seq([before : Passions \cup Nat, after : Nat]) /\ l \in Nat
        /\ DOMAIN todoHistory = 1..l
    BY <1>0, <2>5 DEF NodesTypeOK, NodeRowsOK
  <2>7. /\ todoHistory' \in Seq([before : Passions \cup Nat, after : Nat])
        /\ Len(todoHistory') = l + 1 /\ todoHistory' # <<>>
        /\ \A i \in 1..l : todoHistory'[i] = todoHistory[i]
        /\ todoHistory'[l + 1] = row
    BY <2>3, <2>4, <2>5, <2>6, AppendProperties
  <2>8. NodeRowsOK'
    BY <1>0, <2>3, <2>7 DEF NodesTypeOK, NodeRowsOK
  <2>9. RerankGoes(NoCall)'
    BY NotNothing DEF RerankGoes
  <2>10. ASSUME WholeEffect(c) PROVE WholeEffect(NoCall)'
    <3>1. RanksFit(NoCall)' /\ RetestFits(NoCall)'
      BY <1>2, <2>3, <2>10, NotNothing, RanksStay, RetestStays DEF WholeEffect
    <3>2. /\ selfTodo.text = c.text /\ t = Told
          /\ \A i \in 2..l : todoHistory[i].before = todoHistory[i - 1].after
      <4>1. /\ selfTodo.text = c.text /\ c.order = <<Told>>
            /\ \A i \in 2..l : todoHistory[i].before = todoHistory[i - 1].after
        BY <1>2, <2>5, <2>10 DEF WholeEffect, TodoFits
      <4>2. c.order[1] = t /\ c.order[1] = Told
        BY <2>1, <4>1
      <4> QED
        BY <4>1, <4>2
    <3>3. Told' = c.text
      BY <2>4, <2>7 DEF Told
    <3>4. ASSUME NEW i \in 2..(l + 1) PROVE todoHistory'[i].before = todoHistory'[i - 1].after
      <4>1. CASE i = l + 1
        <5>1. l \in 1..l /\ i - 1 = l /\ todoHistory # <<>>
          BY <2>6, <4>1
        <5>2. Told = todoHistory[l].after
          BY <2>5, <5>1 DEF Told
        <5>3. todoHistory'[i - 1] = todoHistory[l]
          BY <2>7, <5>1
        <5> QED
          BY <2>4, <2>7, <3>2, <4>1, <5>2, <5>3
      <4>2. CASE i # l + 1
        <5>1. i \in 2..l /\ i \in 1..l /\ i - 1 \in 1..l
          BY <2>6, <4>2
        <5> QED
          BY <2>7, <3>2, <5>1
      <4> QED
        BY <4>1, <4>2
    <3>5. TodoFits(NoCall)'
      BY <2>3, <2>7, <3>2, <3>3, <3>4, NotNothing DEF TodoFits
    <3> QED
      BY <2>3, <2>10, <3>1, <3>5 DEF WholeEffect
  <2> QED
    BY <1>1, <1>2, <2>3, <2>8, <2>9, <2>10, NotNothing, GoingOn
<1> QED
  BY <1>3, <1>4

LEMMA MoveScoresKeeps ==
  ASSUME NodesAssumption, NodesInv, ~overlapped, NEW h \in Hands, MoveScores(h)
  PROVE  NodesInv'
<1>0. NodesTypeOK
  BY DEF NodesInv
<1>1. PICK c : c = call[h]
  OBVIOUS
<1>2. c \in CallRecords /\ c.does = "scores"
  BY <1>0, <1>1 DEF NodesTypeOK, MoveScores
<1>3. PICK d : d = [c EXCEPT !.does = "answers"]
  OBVIOUS
<1>4. d \in CallRecords /\ d.does = "answers" /\ d.at = c.at
  BY <1>2, <1>3 DEF CallRecords, Doings
<1>5. /\ score' = c.text + 1 /\ call' = [call EXCEPT ![h] = d]
      /\ UNCHANGED <<rank, wired, selfTodo, todoHistory, extraAnswers, retestRows, collided, overlapped,
                     cutOff>>
  BY <1>1, <1>3 DEF MoveScores, Onward
<1>6. c.text + 1 \in Nat
  BY <1>2 DEF CallRecords
<1>7. NodeRowsOK'
  BY <1>0, <1>5, <1>6 DEF NodesTypeOK, NodeRowsOK
<1>8. RerankGoes(d)'
  BY <1>4 DEF RerankGoes
<1>9. ASSUME WholeEffect(c) PROVE WholeEffect(d)'
  <2>1. RanksFit(d)' /\ TodoFits(d)'
    BY <1>2, <1>4, <1>5, <1>9, RanksStay, TodoStays DEF WholeEffect
  <2>2. c.text = retestRows /\ c.at = 0 /\ extraAnswers = RetestAnswers * retestRows
    BY <1>2, <1>9 DEF WholeEffect, RetestFits
  <2>3. /\ score' = retestRows' + 1 /\ d.at < RetestAnswers
        /\ extraAnswers' = RetestAnswers * retestRows' + d.at
    <3>1. PICK x : x = RetestAnswers * retestRows
      OBVIOUS
    <3>2. extraAnswers = x /\ extraAnswers \in Nat
      BY <1>0, <2>2, <3>1 DEF NodesTypeOK, NodeRowsOK
    <3> QED
      BY <1>4, <1>5, <2>2, <3>1, <3>2 DEF NodesAssumption
  <2>4. RetestFits(d)'
    BY <1>4, <2>3 DEF RetestFits
  <2> QED
    BY <1>5, <1>9, <2>1, <2>4 DEF WholeEffect
<1> QED
  BY <1>1, <1>2, <1>4, <1>5, <1>7, <1>8, <1>9, GoingOn

LEMMA AddAnswerKeeps ==
  ASSUME NodesAssumption, NodesInv, ~overlapped, NEW h \in Hands, AddAnswer(h)
  PROVE  NodesInv'
<1>0. NodesTypeOK
  BY DEF NodesInv
<1>1. PICK c : c = call[h]
  OBVIOUS
<1>2. c \in CallRecords /\ c.does = "answers"
  BY <1>0, <1>1 DEF NodesTypeOK, AddAnswer
<1>3. PICK d : d = IF c.at + 1 < RetestAnswers THEN [c EXCEPT !.at = @ + 1] ELSE [c EXCEPT !.does = "row"]
  OBVIOUS
<1>4. /\ d \in CallRecords /\ d.does \in {"answers", "row"} /\ c.at \in Nat
      /\ d.does = "answers" => d.at = c.at + 1 /\ c.at + 1 < RetestAnswers
      /\ d.does = "row" => ~(c.at + 1 < RetestAnswers)
  <2>0. c.at \in Nat
    BY <1>2 DEF CallRecords
  <2>1. CASE c.at + 1 < RetestAnswers
    <3>1. PICK n \in Nat : n = c.at + 1
      BY <2>0
    <3>2. d = [c EXCEPT !.at = n]
      BY <1>3, <2>1, <3>1
    <3>3. d \in CallRecords /\ d.does = "answers" /\ d.at = n
      BY <1>2, <3>2 DEF CallRecords, Doings
    <3> QED
      BY <2>0, <2>1, <3>1, <3>3
  <2>2. CASE ~(c.at + 1 < RetestAnswers)
    <3>1. d = [c EXCEPT !.does = "row"]
      BY <1>3, <2>2
    <3>2. d \in CallRecords /\ d.does = "row"
      BY <1>2, <3>1 DEF CallRecords, Doings
    <3> QED
      BY <2>0, <2>2, <3>2
  <2> QED
    BY <2>1, <2>2
<1>5. /\ extraAnswers' = extraAnswers + 1 /\ call' = [call EXCEPT ![h] = d]
      /\ UNCHANGED <<rank, wired, selfTodo, todoHistory, score, retestRows, collided, overlapped,
                     cutOff>>
  BY <1>1, <1>3 DEF AddAnswer, Onward
<1>6. extraAnswers \in Nat /\ retestRows \in Nat
  BY <1>0 DEF NodesTypeOK, NodeRowsOK
<1>7. NodeRowsOK'
  BY <1>0, <1>5, <1>6 DEF NodesTypeOK, NodeRowsOK
<1>8. RerankGoes(d)'
  BY <1>4 DEF RerankGoes
<1>9. ASSUME WholeEffect(c) PROVE WholeEffect(d)'
  <2>1. RanksFit(d)' /\ TodoFits(d)'
    <3>1. d.does \in {"answers", "row"}
      BY <1>4
    <3> QED
      BY <1>2, <1>5, <1>9, <3>1, RanksStay, TodoStays DEF WholeEffect
  <2>2. PICK x : x = RetestAnswers * retestRows
    OBVIOUS
  <2>3. x \in Nat
    BY <1>6, <2>2 DEF NodesAssumption
  <2>4. score = retestRows + 1 /\ c.at < RetestAnswers /\ extraAnswers = x + c.at
    BY <1>2, <1>9, <2>2 DEF WholeEffect, RetestFits
  <2>5. d.does = "row" => extraAnswers' = x + RetestAnswers
    BY <1>4, <1>5, <2>3, <2>4 DEF NodesAssumption
  <2>6. d.does = "answers" => extraAnswers' = x + d.at /\ d.at < RetestAnswers
    BY <1>4, <1>5, <2>3, <2>4 DEF NodesAssumption
  <2>7. RetestAnswers * retestRows' = x
    BY <1>5, <2>2
  <2>8. RetestFits(d)'
    BY <1>4, <1>5, <2>4, <2>5, <2>6, <2>7 DEF RetestFits
  <2> QED
    BY <1>5, <1>9, <2>1, <2>8 DEF WholeEffect
<1>10. d.does # "none"
  BY <1>4
<1> QED
  BY <1>1, <1>2, <1>4, <1>5, <1>7, <1>8, <1>9, <1>10, GoingOn

LEMMA AddRetestRowKeeps ==
  ASSUME NodesAssumption, NodesInv, ~overlapped, NEW h \in Hands, AddRetestRow(h)
  PROVE  NodesInv'
<1>0. NodesTypeOK
  BY DEF NodesInv
<1>1. PICK c : c = call[h]
  OBVIOUS
<1>2. c.does = "row" /\ c.does # "none"
  BY <1>1 DEF AddRetestRow
<1>3. /\ retestRows' = retestRows + 1 /\ call' = [call EXCEPT ![h] = NoCall]
      /\ UNCHANGED <<rank, wired, selfTodo, todoHistory, score, extraAnswers, collided, overlapped,
                     cutOff>>
  BY <1>1 DEF AddRetestRow, Onward
<1>4. retestRows \in Nat
  BY <1>0 DEF NodesTypeOK, NodeRowsOK
<1>5. NodeRowsOK'
  BY <1>0, <1>3, <1>4 DEF NodesTypeOK, NodeRowsOK
<1>6. RerankGoes(NoCall)'
  BY NotNothing DEF RerankGoes
<1>7. ASSUME WholeEffect(c) PROVE WholeEffect(NoCall)'
  <2>1. RanksFit(NoCall)' /\ TodoFits(NoCall)'
    BY <1>2, <1>3, <1>7, NotNothing, RanksStay, TodoStays DEF WholeEffect
  <2>2. score = retestRows + 1 /\ extraAnswers = RetestAnswers * retestRows + RetestAnswers
    BY <1>2, <1>7 DEF WholeEffect, RetestFits
  <2>3. RetestAnswers * (retestRows + 1) = RetestAnswers * retestRows + RetestAnswers
    BY <1>4 DEF NodesAssumption
  <2>4. RetestFits(NoCall)'
    BY <1>3, <2>2, <2>3, NotNothing DEF RetestFits
  <2> QED
    BY <1>3, <1>7, <2>1, <2>4 DEF WholeEffect
<1> QED
  BY <1>1, <1>2, <1>3, <1>5, <1>6, <1>7, NotNothing, GoingOn

LEMMA NodesStep == NodesAssumption /\ NodesInv /\ [NodesNext]_nodeVars => NodesInv'
<1> SUFFICES ASSUME NodesAssumption, NodesInv, [NodesNext]_nodeVars, ~overlapped' PROVE NodesInv'
  BY DEF NodesInv
<1>1. CASE UNCHANGED nodeVars
  <2>1. /\ UNCHANGED <<nodeRows, call, overlapped, cutOff, collided>>
        /\ UNCHANGED <<rank, wired, selfTodo, todoHistory, score, extraAnswers, retestRows>>
    BY <1>1 DEF nodeVars, nodeRows
  <2>2. Noted' = Noted /\ Count' = Count /\ Told' = Told
    BY <2>1 DEF Noted, Count, Told
  <2>3. NodesTypeOK' = NodesTypeOK /\ OneCall' = OneCall
    BY <2>1 DEF NodesTypeOK, NodeRowsOK, OneCall
  <2>4. PICK c : c = CurrentOf(call)
    OBVIOUS
  <2>5. c = CurrentOf(call)'
    BY <2>1, <2>4 DEF CurrentOf
  <2>6. RerankGoes(c)' = RerankGoes(c)
    BY <2>1, <2>2 DEF RerankGoes
  <2>7. WholeEffect(c) => WholeEffect(c)'
    BY <2>1, <2>2 DEF WholeEffect, RanksFit, TodoFits, RetestFits
  <2>8. RerankGoes(CurrentOf(call))' /\ (~cutOff => WholeEffect(CurrentOf(call))')
    <3>1. ~overlapped /\ RerankGoes(c) /\ (~cutOff => WholeEffect(c))
      BY <2>1, <2>4 DEF NodesInv
    <3>2. RerankGoes(c)' /\ (~cutOff => WholeEffect(c)')
      BY <2>6, <2>7, <3>1
    <3>3. RerankGoes(CurrentOf(call))'
      BY <2>5, <3>2 DEF RerankGoes
    <3>4. ASSUME ~cutOff PROVE WholeEffect(CurrentOf(call))'
      <4>1. ~collided' /\ RanksFit(c)' /\ TodoFits(c)' /\ RetestFits(c)'
        BY <3>2, <3>4 DEF WholeEffect
      <4>2. RanksFit(CurrentOf(call))'
        BY <2>5, <4>1 DEF RanksFit
      <4>3. TodoFits(CurrentOf(call))' /\ RetestFits(CurrentOf(call))'
        BY <2>5, <4>1 DEF TodoFits, RetestFits
      <4> QED
        BY <4>1, <4>2, <4>3 DEF WholeEffect
    <3> QED
      BY <3>3, <3>4
  <2> QED
    BY <2>1, <2>3, <2>8 DEF NodesInv
<1>2. ASSUME NEW h \in Hands, NEW p \in Passions, NotePassion(h, p) PROVE NodesInv'
  BY <1>2, NotePassionKeeps
<1>3. ASSUME NEW h \in Hands, NEW order \in SetToSeqs(Noted), Rerank(h, order) PROVE NodesInv'
  BY <1>3, RerankKeeps
<1>4. ASSUME NEW h \in Hands, InsertPassion(h) \/ Wire(h) \/ MoveUp(h) \/ MoveDown(h) PROVE NodesInv'
  <2>1. ~overlapped
    BY <1>4 DEF InsertPassion, Wire, MoveUp, MoveDown, MovePassion, Onward, Collides
  <2> QED
    BY <1>4, <2>1, InsertPassionKeeps, WireKeeps, MoveUpKeeps, MoveDownKeeps
<1>5. ASSUME NEW h \in Hands, (\E text \in {1, 2} : ReviseTodo(h, text))
                              \/ CompleteTodo(h) \/ ArchiveTodo(h) \/ Retest(h) PROVE NodesInv'
  BY <1>5, ReadKeeps
<1>6. ASSUME NEW h \in Hands,
             (\E status \in {"completed", "archived"} : EndTodo(h, status)) \/ UpdateText(h)
      PROVE  NodesInv'
  <2>1. ~overlapped
    BY <1>6 DEF EndTodo, UpdateText, UpdateTodo, Onward
  <2> QED
    BY <1>6, <2>1, UpdateTodoKeeps
<1>7. ASSUME NEW h \in Hands, ReadNumber(h) \/ InsertRevision(h) PROVE NodesInv'
  <2>1. ~overlapped
    BY <1>7 DEF ReadNumber, InsertRevision, Onward, Collides
  <2> QED
    BY <1>7, <2>1, ReadNumberKeeps, InsertRevisionKeeps
<1>8. ASSUME NEW h \in Hands, MoveScores(h) \/ AddAnswer(h) \/ AddRetestRow(h) PROVE NodesInv'
  <2>1. ~overlapped
    BY <1>8 DEF MoveScores, AddAnswer, AddRetestRow, Onward
  <2> QED
    BY <1>8, <2>1, MoveScoresKeeps, AddAnswerKeeps, AddRetestRowKeeps
<1>9. ASSUME NEW h \in Hands, CutOff(h) PROVE NodesInv'
  BY <1>9, CutOffKeeps
<1> QED
  BY <1>1, <1>2, <1>3, <1>4, <1>5, <1>6, <1>7, <1>8, <1>9 DEF NodesNext

LEMMA NodesInvHolds == NodesInv => NodesAreSound
<1> SUFFICES ASSUME NodesInv, ~overlapped PROVE NodesAreSound
  BY DEF NodesAreSound, CallsTakeEffect, RerankRepairs
<1>1. /\ NodesTypeOK /\ OneCall /\ RerankGoes(CurrentOf(call))
      /\ ~cutOff => WholeEffect(CurrentOf(call))
  BY DEF NodesInv
<1>2. CallsTakeEffect
  <2> SUFFICES ASSUME ~cutOff, Quiet
               PROVE  /\ {rank[p] : p \in Noted} = 0..(Count - 1) /\ Noted \subseteq wired
                      /\ selfTodo.text = (IF todoHistory = <<>> THEN 0 ELSE Last(todoHistory).after)
                      /\ \A i \in 2..Len(todoHistory) :
                            todoHistory[i].before = todoHistory[i - 1].after
                      /\ score = retestRows /\ extraAnswers = RetestAnswers * retestRows
    BY <1>1 DEF CallsTakeEffect, WholeEffect
  <2>1. CurrentOf(call) = NoCall
    BY DEF CurrentOf, Quiet
  <2>2. WholeEffect(NoCall)
    BY <1>1, <2>1
  <2> QED
    BY <2>2, NotNothing DEF WholeEffect, RanksFit, TodoFits, RetestFits, Told, Last
<1>3. RerankRepairs
  <2> SUFFICES ASSUME NEW h \in Hands, call[h].does = "down"
               PROVE  \A i \in 1..(call[h].at - 1) : rank[call[h].order[i]] = i - 1
    BY DEF RerankRepairs
  <2>1. \A g \in Hands : g # h => call[g] = NoCall
    BY <1>1, NotNothing DEF OneCall
  <2>2. RerankGoes(call[h])
    BY <1>1, <2>1, CurrentIs
  <2> QED
    BY <2>2 DEF RerankGoes
<1> QED
  BY <1>2, <1>3 DEF NodesAreSound

\* Calls of the tools that never overlapped take their whole effect unless they are cut,
\* and a rerank that was begun puts in place what it comes by, whatever an earlier one that
\* was cut has left behind.
THEOREM NodesAreAlwaysSound == NodesSpec => []NodesAreSound
<1> USE NodesAssumption
<1>1. NodesInit => NodesInv
  BY NodesInitially
<1>2. NodesInv /\ [NodesNext]_nodeVars => NodesInv'
  BY NodesStep
<1>3. NodesInv => NodesAreSound
  BY NodesInvHolds
<1> QED
  BY <1>1, <1>2, <1>3, PTL DEF NodesSpec

-----------------------------------------------------------------------------
(* The skills of a self                                                     *)

\* What the attempts make of a new skill, over the sets of places in T.
Replays(g, attempts, T) ==
    g = [s \in T |-> IF s = {} THEN FirstLevel
                     ELSE After(g[s \ {Max(s)}], attempts[Max(s)])]

Replayed(attempts) == FoldLeft(After, FirstLevel, attempts)

LEMMA ReplaysExist ==
  ASSUME NEW S, S \subseteq Nat, IsFiniteSet(S), NEW f
  PROVE  \E g : Replays(g, f, SUBSET S)
<1> DEFINE T(n) == { s \in SUBSET S : Cardinality(s) <= n }
           Bad == { n \in Nat : ~ \E g : Replays(g, f, T(n)) }
<1>1. \A s \in SUBSET S : IsFiniteSet(s) /\ Cardinality(s) \in Nat /\ (s # {} => Max(s) \in s)
  <2> SUFFICES ASSUME NEW s \in SUBSET S
               PROVE  IsFiniteSet(s) /\ Cardinality(s) \in Nat /\ (s # {} => Max(s) \in s)
    OBVIOUS
  <2>1. IsFiniteSet(s)
    BY FS_Subset
  <2> QED
    BY <2>1, FS_CardinalityType, GreatestNatural
<1>2. Bad = {}
  <2> SUFFICES ASSUME NEW e \in Bad PROVE FALSE
    OBVIOUS
  <2>1. PICK m \in Bad : \A n \in Bad : m <= n
    <3>1. Bad \subseteq Nat
      OBVIOUS
    <3> HIDE DEF Bad
    <3> QED
      BY <3>1, LeastNatural
  <2>2. m # 0
    <3>1. \A s \in T(0) : s = {}
      BY <1>1, FS_EmptySet
    <3>2. Replays([s \in T(0) |-> FirstLevel], f, T(0))
      BY <3>1 DEF Replays
    <3> QED
      BY <3>2
  <2>3. PICK h : Replays(h, f, T(m - 1))
    <3>1. m - 1 \in Nat /\ m - 1 < m
      BY <2>1, <2>2
    <3>2. m - 1 \notin Bad
      <4>1. \A n \in Bad : m <= n /\ n \in Nat
        BY <2>1
      <4> HIDE DEF Bad
      <4> QED
        BY <3>1, <4>1
    <3> QED
      BY <3>1, <3>2
  <2> DEFINE g == [s \in T(m) |-> IF s = {} THEN FirstLevel ELSE After(h[s \ {Max(s)}], f[Max(s)])]
  <2>4. \A s \in T(m) : s # {} => s \ {Max(s)} \in T(m - 1)
    <3> SUFFICES ASSUME NEW s \in T(m), s # {} PROVE s \ {Max(s)} \in T(m - 1)
      OBVIOUS
    <3>1. Max(s) \in s
      BY <1>1
    <3>2. Cardinality(s \ {Max(s)}) = Cardinality(s) - 1
      BY <3>1, <1>1, FS_RemoveElement
    <3>3. Cardinality(s) \in Nat /\ Cardinality(s) <= m /\ m \in Nat
      BY <1>1, <2>1
    <3>4. Cardinality(s \ {Max(s)}) <= m - 1
      BY <3>2, <3>3
    <3>5. s \ {Max(s)} \in SUBSET S
      OBVIOUS
    <3> QED
      BY <3>4, <3>5
  <2>5. \A s \in T(m - 1) : s \in T(m) /\ g[s] = h[s]
    <3> SUFFICES ASSUME NEW s \in T(m - 1) PROVE s \in T(m) /\ g[s] = h[s]
      OBVIOUS
    <3>1. s \in T(m)
      BY <1>1, <2>1
    <3>2. h[s] = IF s = {} THEN FirstLevel ELSE After(h[s \ {Max(s)}], f[Max(s)])
      BY <2>3 DEF Replays
    <3> QED
      BY <3>1, <3>2
  <2>6. Replays(g, f, T(m))
    <3>1. \A s \in T(m) : s # {} => h[s \ {Max(s)}] = g[s \ {Max(s)}]
      BY <2>4, <2>5
    <3>2. \A s \in T(m) :
             (IF s = {} THEN FirstLevel ELSE After(h[s \ {Max(s)}], f[Max(s)]))
             = (IF s = {} THEN FirstLevel ELSE After(g[s \ {Max(s)}], f[Max(s)]))
      <4> HIDE DEF g, T
      <4> QED
        BY <3>1
    <3>3. g = [s \in T(m) |-> IF s = {} THEN FirstLevel ELSE After(g[s \ {Max(s)}], f[Max(s)])]
      <4> HIDE DEF T
      <4> QED
        BY <3>2
    <3> QED
      BY <3>3 DEF Replays
  <2> QED
    BY <2>6
<1>3. T(Cardinality(S)) = SUBSET S
  BY FS_Subset
<1> QED
  BY <1>2, <1>3, FS_CardinalityType

LEMMA ReplayIsOfReplays ==
  ASSUME NEW n \in Nat, NEW f, DOMAIN f = 1..n
  PROVE  \E g : Replays(g, f, SUBSET (1..n)) /\ Replayed(f) = g[1..n]
<1> DEFINE g == CHOOSE g : Replays(g, f, SUBSET (1..n))
<1>1. IsFiniteSet(1..n) /\ 1..n \subseteq Nat
  BY FS_Interval
<1>2. Replays(g, f, SUBSET (1..n))
  BY <1>1, ReplaysExist
<1>3. Replayed(f) = g[1..n]
  BY DEF Replayed, FoldLeft, MapThenFoldSet, Replays
<1> QED
  BY <1>2, <1>3

\* The levels that attempts can lead to.
Levels == 0..TopLevel

LEMMA AfterIsLevel ==
  ASSUME SkillsAssumption, NEW a \in Levels, NEW outcome \in DOMAIN Gain
  PROVE  /\ After(a, outcome) \in Levels
         /\ Distance(a, After(a, outcome)) <= 2
         /\ \A b \in Levels : Distance(After(a, outcome), After(b, outcome)) <= Distance(a, b)
<1>1. Gain[outcome] \in {2, 1, 0 - 1}
  BY DEF Gain
<1>2. PICK g : g = Gain[outcome]
  OBVIOUS
<1>3. g \in Int /\ g <= 2 /\ g >= 0 - 1 /\ TopLevel \in Nat /\ a \in Nat /\ a <= TopLevel
  BY <1>1, <1>2 DEF SkillsAssumption, Levels
<1>4. \A b \in Levels : /\ b \in Nat /\ b <= TopLevel
                        /\ After(b, outcome) = IF b + g < 0 THEN 0 ELSE IF b + g > TopLevel THEN TopLevel ELSE b + g
  BY <1>2, <1>3 DEF After, Clamped, Levels
<1>5. PICK x : x = After(a, outcome)
  OBVIOUS
<1>6. x = IF a + g < 0 THEN 0 ELSE IF a + g > TopLevel THEN TopLevel ELSE a + g
  BY <1>4, <1>5
<1>7. x \in Nat /\ x <= TopLevel
  BY <1>3, <1>6
<1>8. x - a <= 2 /\ a - x <= 2
  BY <1>3, <1>6, <1>7
<1>9. Distance(a, x) <= 2
  BY <1>3, <1>7, <1>8 DEF Distance
<1>10. ASSUME NEW b \in Levels PROVE Distance(x, After(b, outcome)) <= Distance(a, b)
  <2>1. PICK y : y = After(b, outcome)
    OBVIOUS
  <2>2. y = IF b + g < 0 THEN 0 ELSE IF b + g > TopLevel THEN TopLevel ELSE b + g
    BY <1>4, <2>1
  <2>3. b \in Nat /\ b <= TopLevel /\ y \in Nat
    BY <1>3, <1>4, <2>2
  <2>4. CASE a < b
    <3>1. x <= y /\ y - x <= b - a
      BY <1>3, <1>6, <2>2, <2>3, <2>4
    <3>2. Distance(a, b) = b - a
      BY <2>4 DEF Distance
    <3>3. Distance(x, y) = y - x
      BY <1>7, <2>3, <3>1 DEF Distance
    <3> QED
      BY <2>1, <3>1, <3>2, <3>3
  <2>5. CASE ~(a < b)
    <3>1. y <= x /\ x - y <= a - b
      BY <1>3, <1>6, <2>2, <2>3, <2>5
    <3>2. Distance(a, b) = a - b
      BY <2>5 DEF Distance
    <3>3. Distance(x, y) = x - y
      BY <1>7, <2>3, <3>1 DEF Distance
    <3> QED
      BY <2>1, <3>1, <3>2, <3>3
  <2> QED
    BY <2>4, <2>5
<1> QED
  BY <1>5, <1>7, <1>9, <1>10 DEF Levels

LEMMA DistanceIsShort ==
  ASSUME NEW a \in Nat, NEW b \in Nat, NEW c \in Nat
  PROVE  /\ Distance(a, b) \in Nat /\ Distance(a, b) = Distance(b, a)
         /\ Distance(a, c) <= Distance(a, b) + Distance(b, c)
         /\ Distance(a, a) = 0
BY DEF Distance

\* The greatest of a first part of the naturals.
LEMMA GreatestPlace ==
  ASSUME NEW n \in Nat, n > 0
  PROVE  Max(1..n) = n /\ (1..n) \ {n} = 1..(n - 1)
<1>1. \A x \in 1..n : x <= n
  OBVIOUS
<1>2. n \in 1..n
  OBVIOUS
<1>3. \A m \in 1..n : (\A y \in 1..n : m >= y) <=> m = n
  BY <1>1, <1>2
<1> QED
  BY <1>2, <1>3 DEF Max

\* A new attempt is made of what the attempts before it have made.
LEMMA ReplayGoesOn ==
  ASSUME SkillsAssumption, NEW attempts \in Seq(DOMAIN Gain), NEW outcome \in DOMAIN Gain
  PROVE  /\ Replayed(attempts) \in Levels
         /\ Replayed(Append(attempts, outcome)) = After(Replayed(attempts), outcome)
<1>1. PICK n \in Nat : n = Len(attempts) /\ DOMAIN attempts = 1..n
  OBVIOUS
<1>2. PICK more : more = Append(attempts, outcome)
  OBVIOUS
<1>3. /\ DOMAIN more = 1..(n + 1) /\ more[n + 1] = outcome
      /\ \A i \in 1..n : more[i] = attempts[i] /\ attempts[i] \in DOMAIN Gain
  BY <1>1, <1>2, AppendProperties
<1>4. n + 1 \in Nat
  OBVIOUS
<1>5. PICK g : Replays(g, attempts, SUBSET (1..n)) /\ Replayed(attempts) = g[1..n]
  BY <1>1, ReplayIsOfReplays
<1>6. PICK h : Replays(h, more, SUBSET (1..(n + 1))) /\ Replayed(more) = h[1..(n + 1)]
  BY <1>3, <1>4, ReplayIsOfReplays
<1>7. ASSUME NEW i \in Nat, i > 0, i <= n
      PROVE  /\ g[1..i] = After(g[1..(i - 1)], attempts[i])
             /\ h[1..i] = After(h[1..(i - 1)], attempts[i])
  <2>1. 1..i # {} /\ 1..i \in SUBSET (1..n) /\ 1..i \in SUBSET (1..(n + 1)) /\ i \in 1..n
    <3>1. 1 \in 1..i /\ i \in 1..n
      BY <1>7
    <3>2. \A x \in 1..i : x \in 1..n /\ x \in 1..(n + 1)
      BY <1>7
    <3> QED
      BY <3>1, <3>2
  <2>2. Max(1..i) = i /\ (1..i) \ {i} = 1..(i - 1)
    BY <1>7, GreatestPlace
  <2>3. g[1..i] = After(g[(1..i) \ {Max(1..i)}], attempts[Max(1..i)])
    BY <1>5, <2>1 DEF Replays
  <2>4. h[1..i] = After(h[(1..i) \ {Max(1..i)}], more[Max(1..i)])
    BY <1>6, <2>1 DEF Replays
  <2> QED
    BY <1>3, <2>1, <2>2, <2>3, <2>4
<1>8. g[1..0] = FirstLevel /\ h[1..0] = FirstLevel
  <2>1. 1..0 = {} /\ 1..0 \in SUBSET (1..n) /\ 1..0 \in SUBSET (1..(n + 1))
    OBVIOUS
  <2> QED
    BY <1>5, <1>6, <2>1 DEF Replays
<1>9. \A i \in 0..n : g[1..i] \in Levels /\ h[1..i] = g[1..i]
  <2> DEFINE Good(i) == g[1..i] \in Levels /\ h[1..i] = g[1..i]
             Bad == {i \in 0..n : ~Good(i)}
  <2> SUFFICES ASSUME NEW e \in Bad PROVE FALSE
    OBVIOUS
  <2>1. PICK m \in Bad : \A i \in Bad : m <= i
    <3>1. Bad \subseteq Nat
      OBVIOUS
    <3> HIDE DEF Bad
    <3> QED
      BY <3>1, LeastNatural
  <2>2. m \in Nat /\ m <= n /\ ~Good(m)
    BY <2>1
  <2>3. m # 0
    BY <1>8, <2>2 DEF SkillsAssumption, Levels
  <2>4. m - 1 \in 0..n /\ ~(m <= m - 1)
    BY <2>2, <2>3
  <2>5. Good(m - 1)
    <3>1. m - 1 \notin Bad
      <4> HIDE DEF Bad
      <4> QED
        BY <2>1, <2>4
    <3> QED
      BY <2>4, <3>1
  <2>6. m > 0 /\ m \in 1..n
    BY <2>2, <2>3
  <2>7. Good(m)
    BY <1>3, <1>7, <2>2, <2>5, <2>6, AfterIsLevel
  <2> QED
    BY <2>2, <2>7
<1>10. n \in 0..n
  OBVIOUS
<1>11. h[1..(n + 1)] = After(h[1..n], outcome)
  <2>1. 1..(n + 1) # {} /\ 1..(n + 1) \in SUBSET (1..(n + 1))
    <3>1. 1 \in 1..(n + 1)
      OBVIOUS
    <3> QED
      BY <3>1
  <2>2. n + 1 > 0
    OBVIOUS
  <2>3. Max(1..(n + 1)) = n + 1 /\ (1..(n + 1)) \ {n + 1} = 1..((n + 1) - 1)
    BY <1>4, <2>2, GreatestPlace
  <2>4. (n + 1) - 1 = n
    OBVIOUS
  <2>5. h[1..(n + 1)] = After(h[(1..(n + 1)) \ {Max(1..(n + 1))}], more[Max(1..(n + 1))])
    BY <1>6, <2>1 DEF Replays
  <2> QED
    BY <1>3, <2>3, <2>4, <2>5
<1> QED
  BY <1>2, <1>5, <1>6, <1>9, <1>10, <1>11

LEMMA ReplayOfNothing == Replayed(<<>>) = FirstLevel
<1>1. PICK g : Replays(g, <<>>, SUBSET (1..0)) /\ Replayed(<<>>) = g[1..0]
  <2>1. DOMAIN <<>> = 1..0 /\ 0 \in Nat
    OBVIOUS
  <2> QED
    BY <2>1, ReplayIsOfReplays
<1>2. 1..0 = {} /\ {} \in SUBSET (1..0)
  OBVIOUS
<1> QED
  BY <1>1, <1>2 DEF Replays

\* How many attempts there are.
LengthsOf(rows_, S) == [s \in S |-> Len(rows_[s])]
LengthSums(g, rows_, S) ==
    g = [t \in SUBSET S |-> IF t = {} THEN 0
                           ELSE Len(rows_[CHOOSE x \in t : TRUE]) + g[t \ {CHOOSE x \in t : TRUE}]]

LEMMA LengthsAdd ==
  ASSUME NEW S, IsFiniteSet(S), NEW r
  PROVE  MapThenSumSet(LAMBDA s : Len(r[s]), S) = SumFunction(LengthsOf(r, S))
<1> PICK f : f = LengthsOf(r, S)
  OBVIOUS
<1>0. DOMAIN f = S /\ \A x \in S : f[x] = Len(r[x])
  BY DEF LengthsOf
<1>1. ASSUME NEW g PROVE Sums(g, f, SUBSET S) <=> LengthSums(g, r, S)
  <2>1. \A t \in SUBSET S :
           (IF t = {} THEN 0 ELSE f[CHOOSE x \in t : TRUE] + g[t \ {CHOOSE x \in t : TRUE}])
           = (IF t = {} THEN 0 ELSE Len(r[CHOOSE x \in t : TRUE]) + g[t \ {CHOOSE x \in t : TRUE}])
    <3> SUFFICES ASSUME NEW t \in SUBSET S, t # {}
                 PROVE  f[CHOOSE x \in t : TRUE] = Len(r[CHOOSE x \in t : TRUE])
      OBVIOUS
    <3>1. (CHOOSE x \in t : TRUE) \in t
      OBVIOUS
    <3> QED
      BY <1>0, <3>1
  <2>2. [t \in SUBSET S |-> IF t = {} THEN 0 ELSE f[CHOOSE x \in t : TRUE] + g[t \ {CHOOSE x \in t : TRUE}]]
        = [t \in SUBSET S |-> IF t = {} THEN 0 ELSE Len(r[CHOOSE x \in t : TRUE]) + g[t \ {CHOOSE x \in t : TRUE}]]
    BY <2>1
  <2> QED
    BY <2>2 DEF Sums, LengthSums
<1> DEFINE h == CHOOSE h : LengthSums(h, r, S)
<1>2. LengthSums(h, r, S)
  <2>1. \E g : LengthSums(g, r, S)
    BY <1>1, SumsExist
  <2> QED
    BY <2>1
<1>3. MapThenSumSet(LAMBDA s : Len(r[s]), S) = h[S]
  BY DEF MapThenSumSet, MapThenFoldSet, LengthSums
<1>4. Sums(h, f, SUBSET S)
  BY <1>1, <1>2
<1> HIDE DEF h
<1>5. SumFunctionOnSet(f, S) = h[S]
  BY <1>4, SumOnSubset
<1>6. SumFunction(f) = SumFunctionOnSet(f, S)
  BY <1>0 DEF SumFunction
<1> QED
  BY <1>3, <1>5, <1>6

-----------------------------------------------------------------------------
Outcomes3 == {"success", "partial", "fail"}
HandRecords ==
    [does : {"none", "memory", "todo", "level"}, kind : {"none", "invention", "building", "practice"},
     about : ConceptNames \cup SkillNames \cup {"none"}, outcome : Outcomes3 \cup {"none"}]

SkillsTypeOK ==
    /\ conceptRows \in [ConceptNames -> {"none", "little", "much"}]
    /\ skillLevel \in [SkillNames -> Levels \cup {NoSkill}]
    /\ attemptRows \in [SkillNames -> Seq(DOMAIN Gain)]
    /\ todoRows \subseteq Skills
    /\ tellings \in [Kinds -> Nat] /\ cuts \in [Kinds -> Nat] /\ agenda \in [Agenda -> Nat]

\* What a dispatch goes on with.
HandFits ==
    /\ hand \in HandRecords
    /\ hand.kind = "none" => hand = IdleHand
    /\ hand.does = "none" => hand = IdleHand
    /\ hand.does = "memory" => hand.kind \in {"invention", "practice"}
    /\ hand.does = "todo" => hand.kind = "building" /\ hand.about \in Skills \ todoRows
    /\ hand.does = "level" =>
          hand.kind = "practice" /\ hand.about \in Skills /\ hand.outcome \in DOMAIN Gain

\* Only a skill is practised.
PracticeIsOfSkills ==
    /\ \A s \in SkillNames : s \notin Skills => attemptRows[s] = <<>>
    /\ \A i \in Agenda : i.kind = "practice" /\ agenda[i] > 0 => i.about \in Skills

\* The level that is still to be set is made of one that is off by the cuts.
LevelsFit ==
    \A s \in Skills :
        /\ hand.does = "level" /\ hand.about = s =>
              \E r \in Levels : /\ Replayed(attemptRows[s]) = After(r, hand.outcome)
                               /\ Distance(skillLevel[s], r) <= 2 * cuts["practice"]
        /\ ~(hand.does = "level" /\ hand.about = s) =>
              Distance(skillLevel[s], Replayed(attemptRows[s])) <= 2 * cuts["practice"]

NamesDiffer == \A s, t \in Skills : LowerCase[s] = LowerCase[t] => s = t

\* What is not told yet will be, unless it is cut.
Untold(kind) == IF hand.kind = kind THEN 1 ELSE 0
ToldFits(kind, done) ==
    /\ tellings[kind] + Untold(kind) <= done
    /\ done <= tellings[kind] + cuts[kind] + Untold(kind)
Invented == {c \in ConceptNames : conceptRows[c] # "none"}
Attempts == SumFunction(LengthsOf(attemptRows, SkillNames))
TodosFit == Cardinality(Skills \ todoRows) <= cuts["building"] + Untold("building")

SkillsBase == SkillsTypeOK /\ HandFits /\ PracticeIsOfSkills
SkillsTold == ToldFits("invention", Cardinality(Invented)) /\ ToldFits("practice", Attempts) /\ TodosFit
SkillsInv == SkillsBase /\ LevelsFit /\ NamesDiffer /\ SkillsTold

LEMMA GainsAre == DOMAIN Gain = Outcomes3
BY DEF Gain, Outcomes3

LEMMA IdleIs ==
  /\ IdleHand.does = "none" /\ IdleHand.kind = "none" /\ IdleHand \in HandRecords
BY DEF IdleHand, HandRecords

LEMMA SkillsAreFinite ==
  ASSUME SkillsAssumption
  PROVE  /\ IsFiniteSet(Skills) /\ IsFiniteSet(Skills \ todoRows) /\ IsFiniteSet(Invented)
         /\ Cardinality(Skills \ todoRows) \in Nat /\ Cardinality(Invented) \in Nat
<1>1. Skills \subseteq SkillNames /\ Skills \ todoRows \subseteq SkillNames /\ Invented \subseteq ConceptNames
  BY DEF Skills, Invented
<1> QED
  BY <1>1, FS_Subset, FS_CardinalityType DEF SkillsAssumption

LEMMA AttemptsAreNumber ==
  ASSUME SkillsAssumption, attemptRows \in [SkillNames -> Seq(DOMAIN Gain)]
  PROVE  LengthsOf(attemptRows, SkillNames) \in [SkillNames -> Int] /\ Attempts \in Int
<1>1. \A s \in SkillNames : Len(attemptRows[s]) \in Int
  OBVIOUS
<1>2. LengthsOf(attemptRows, SkillNames) \in [SkillNames -> Int]
  BY <1>1 DEF LengthsOf
<1> QED
  BY <1>2, SumIsNumber DEF Attempts, SkillsAssumption

LEMMA SkillsInitially == SkillsAssumption /\ SkillsInit => SkillsInv
<1> SUFFICES ASSUME SkillsAssumption, SkillsInit PROVE SkillsInv
  OBVIOUS
<1> USE DEF SkillsInit
<1>1. Skills = {} /\ Invented = {}
  BY DEF Skills, Invented
<1>2. SkillsTypeOK
  <2>1. <<>> \in Seq(DOMAIN Gain)
    OBVIOUS
  <2> QED
    BY <1>1, <2>1 DEF SkillsTypeOK
<1>3. HandFits
  BY IdleIs DEF HandFits
<1>4. PracticeIsOfSkills
  BY DEF PracticeIsOfSkills
<1>5. LevelsFit /\ NamesDiffer
  BY <1>1 DEF LevelsFit, NamesDiffer
<1>6. Untold("invention") = 0 /\ Untold("practice") = 0 /\ Untold("building") = 0
  BY IdleIs DEF Untold
<1>7. tellings["invention"] = 0 /\ tellings["practice"] = 0
      /\ cuts["invention"] = 0 /\ cuts["practice"] = 0 /\ cuts["building"] = 0
  BY DEF Kinds
<1>8. Attempts = 0
  <2>1. LengthsOf(attemptRows, SkillNames) = [s \in SkillNames |-> 0]
    BY DEF LengthsOf
  <2> QED
    BY <2>1, SumOfZeros DEF Attempts, SkillsAssumption
<1>9. Cardinality(Invented) = 0 /\ Cardinality(Skills \ todoRows) = 0
  <2>1. Skills \ todoRows = {}
    BY <1>1
  <2> QED
    BY <1>1, <2>1, FS_EmptySet
<1>10. SkillsTold
  BY <1>6, <1>7, <1>8, <1>9 DEF SkillsTold, ToldFits, TodosFit
<1> QED
  BY <1>2, <1>3, <1>4, <1>5, <1>10 DEF SkillsInv, SkillsBase

-----------------------------------------------------------------------------
LEMMA QueuedKeeps ==
  ASSUME SkillsInv, NEW kind, NEW about, Queued(kind, about), kind = "practice" => about \in Skills
  PROVE  SkillsInv'
<1>1. UNCHANGED <<conceptRows, skillLevel, attemptRows, todoRows, tellings, hand, cuts>>
  BY DEF Queued, skillRowVars
<1>2. Skills' = Skills /\ Invented' = Invented /\ Attempts' = Attempts
  BY <1>1 DEF Skills, Invented, Attempts, LengthsOf
<1>3. agenda \in [Agenda -> Nat]
  BY DEF SkillsInv, SkillsBase, SkillsTypeOK
<1>4. PICK i0 : i0 = [kind |-> kind, about |-> about]
  OBVIOUS
<1>5. agenda' = [agenda EXCEPT ![i0] = agenda[i0] + 1]
  BY <1>4 DEF Queued
<1>6. agenda' \in [Agenda -> Nat] /\ \A i \in Agenda : agenda'[i] > 0 => agenda[i] > 0 \/ i = i0
  <2>1. ASSUME NEW i \in Agenda PROVE agenda'[i] \in Nat /\ (agenda'[i] > 0 => agenda[i] > 0 \/ i = i0)
    <3>1. agenda[i] \in Nat
      BY <1>3
    <3>2. CASE i = i0
      BY <1>3, <1>5, <3>1, <3>2
    <3>3. CASE i # i0
      BY <1>3, <1>5, <3>1, <3>3
    <3> QED
      BY <3>2, <3>3
  <2>2. agenda' \in [Agenda -> Nat]
    BY <1>3, <1>5, <2>1
  <2> QED
    BY <2>1, <2>2
<1>7. SkillsTypeOK'
  BY <1>1, <1>2, <1>6 DEF SkillsInv, SkillsBase, SkillsTypeOK
<1>8. HandFits'
  BY <1>1, <1>2 DEF SkillsInv, SkillsBase, HandFits
<1>9. PracticeIsOfSkills'
  <2>1. i0.kind = kind /\ i0.about = about
    BY <1>4
  <2> QED
    BY <1>1, <1>2, <1>6, <2>1 DEF SkillsInv, SkillsBase, PracticeIsOfSkills
<1>10. LevelsFit'
  BY <1>1, <1>2 DEF SkillsInv, LevelsFit
<1>11. NamesDiffer' /\ SkillsTold'
  BY <1>1, <1>2 DEF SkillsInv, NamesDiffer, SkillsTold, ToldFits, TodosFit, Untold
<1> QED
  BY <1>7, <1>8, <1>9, <1>10, <1>11 DEF SkillsInv, SkillsBase

\* An item that is taken leaves the agenda as it was.
LEMMA TakenLeaves ==
  ASSUME SkillsTypeOK, NEW kind, NEW about, Taken(kind, about)
  PROVE  /\ agenda' \in [Agenda -> Nat] /\ \A i \in Agenda : agenda'[i] > 0 => agenda[i] > 0
         /\ cuts' = cuts /\ hand = IdleHand
<1>1. PICK i0 : i0 = [kind |-> kind, about |-> about]
  OBVIOUS
<1>2. agenda[i0] > 0 /\ agenda' = [agenda EXCEPT ![i0] = agenda[i0] - 1] /\ cuts' = cuts /\ hand = IdleHand
  BY <1>1 DEF Taken
<1>3. agenda \in [Agenda -> Nat]
  BY DEF SkillsTypeOK
<1>4. ASSUME NEW i \in Agenda PROVE agenda'[i] \in Nat /\ (agenda'[i] > 0 => agenda[i] > 0)
  <2>1. agenda[i] \in Nat
    BY <1>3
  <2>2. CASE i = i0
    BY <1>2, <1>3, <2>1, <2>2
  <2>3. CASE i # i0
    BY <1>2, <1>3, <2>1, <2>3
  <2> QED
    BY <2>2, <2>3
<1>5. agenda' \in [Agenda -> Nat]
  BY <1>2, <1>3, <1>4
<1> QED
  BY <1>2, <1>4, <1>5

\* A dispatch that comes to nothing.
LEMMA VainKeeps ==
  ASSUME SkillsInv, NEW kind, NEW about, Taken(kind, about),
         UNCHANGED <<conceptRows, skillLevel, attemptRows, todoRows, hand>>,
         tellings' \in [Kinds -> Nat], tellings'["invention"] = tellings["invention"],
         tellings'["practice"] = tellings["practice"]
  PROVE  SkillsInv'
<1>1. /\ agenda' \in [Agenda -> Nat] /\ \A i \in Agenda : agenda'[i] > 0 => agenda[i] > 0
      /\ cuts' = cuts
  BY TakenLeaves DEF SkillsInv, SkillsBase
<1>2. Skills' = Skills /\ Invented' = Invented /\ Attempts' = Attempts
  BY DEF Skills, Invented, Attempts, LengthsOf
<1>3. SkillsTypeOK'
  BY <1>1, <1>2 DEF SkillsInv, SkillsBase, SkillsTypeOK
<1>4. HandFits'
  BY <1>2 DEF SkillsInv, SkillsBase, HandFits
<1>5. PracticeIsOfSkills'
  BY <1>1, <1>2 DEF SkillsInv, SkillsBase, PracticeIsOfSkills
<1>6. LevelsFit'
  BY <1>1, <1>2 DEF SkillsInv, LevelsFit
<1>7. NamesDiffer' /\ SkillsTold'
  BY <1>1, <1>2 DEF SkillsInv, NamesDiffer, SkillsTold, ToldFits, TodosFit, Untold
<1> QED
  BY <1>3, <1>4, <1>5, <1>6, <1>7 DEF SkillsInv, SkillsBase

\* How the tables of the skills and what is told may change.
LEMMA SameSkills ==
  ASSUME UNCHANGED skillLevel
  PROVE  Skills' = Skills
BY DEF Skills

LEMMA InventKeeps ==
  ASSUME SkillsAssumption, SkillsInv, NEW c \in ConceptNames, NEW matters \in {"little", "much"},
         Taken("invention", "anything"), conceptRows[c] = "none",
         conceptRows' = [conceptRows EXCEPT ![c] = matters],
         Then("memory", "invention", c, "none"),
         UNCHANGED <<skillLevel, attemptRows, todoRows, tellings>>
  PROVE  SkillsInv'
<1>1. /\ agenda' \in [Agenda -> Nat] /\ \A i \in Agenda : agenda'[i] > 0 => agenda[i] > 0
      /\ cuts' = cuts /\ hand = IdleHand
  BY TakenLeaves DEF SkillsInv, SkillsBase
<1>2. Skills' = Skills /\ Attempts' = Attempts
  BY DEF Skills, Attempts, LengthsOf
<1>3. conceptRows \in [ConceptNames -> {"none", "little", "much"}]
  BY DEF SkillsInv, SkillsBase, SkillsTypeOK
<1>4. PICK h : h = [does |-> "memory", kind |-> "invention", about |-> c, outcome |-> "none"]
  OBVIOUS
<1>5. hand' = h /\ h \in HandRecords /\ h.does = "memory" /\ h.kind = "invention"
  BY <1>4 DEF Then, HandRecords
<1>6. SkillsTypeOK'
  BY <1>1, <1>2, <1>3 DEF SkillsInv, SkillsBase, SkillsTypeOK
<1>7. HandFits'
  BY <1>5 DEF HandFits
<1>8. PracticeIsOfSkills'
  BY <1>1, <1>2 DEF SkillsInv, SkillsBase, PracticeIsOfSkills
<1>9. hand.does = "none" /\ hand.kind = "none"
  BY <1>1, IdleIs
<1>10. LevelsFit'
  BY <1>1, <1>2, <1>5, <1>9 DEF SkillsInv, LevelsFit
<1>11. NamesDiffer'
  BY <1>2 DEF SkillsInv, NamesDiffer
<1>12. Cardinality(Invented)' = Cardinality(Invented) + 1 /\ Cardinality(Invented) \in Nat
  <2>1. Invented' = Invented \cup {c} /\ c \notin Invented
    BY <1>3 DEF Invented
  <2>2. IsFiniteSet(Invented) /\ Cardinality(Invented) \in Nat
    BY SkillsAreFinite
  <2> QED
    BY <2>1, <2>2, FS_AddElement
<1>13. /\ Untold("invention") = 0 /\ Untold("practice") = 0 /\ Untold("building") = 0
       /\ Untold("invention")' = 1 /\ Untold("practice")' = 0 /\ Untold("building")' = 0
  BY <1>5, <1>9 DEF Untold
<1>14. /\ tellings["invention"] \in Nat /\ cuts["invention"] \in Nat
  BY DEF SkillsInv, SkillsBase, SkillsTypeOK, Kinds
<1>15. ToldFits("invention", Cardinality(Invented))'
  <2>1. tellings["invention"] + 0 <= Cardinality(Invented)
        /\ Cardinality(Invented) <= tellings["invention"] + cuts["invention"] + 0
    BY <1>13 DEF SkillsInv, SkillsTold, ToldFits
  <2>2. tellings["invention"] + 1 <= Cardinality(Invented) + 1
        /\ Cardinality(Invented) + 1 <= tellings["invention"] + cuts["invention"] + 1
    BY <1>12, <1>14, <2>1
  <2> QED
    BY <1>1, <1>12, <1>13, <2>2 DEF ToldFits
<1>16. ToldFits("practice", Attempts)' /\ TodosFit'
  BY <1>1, <1>2, <1>13 DEF SkillsInv, SkillsTold, ToldFits, TodosFit
<1> QED
  BY <1>6, <1>7, <1>8, <1>10, <1>11, <1>15, <1>16 DEF SkillsInv, SkillsBase, SkillsTold

LEMMA BuildKeeps ==
  ASSUME SkillsAssumption, SkillsInv, NEW c \in ConceptNames, NEW s \in SkillNames,
         Taken("building", c), ~Known(s),
         skillLevel' = [skillLevel EXCEPT ![s] = FirstLevel],
         Then("todo", "building", s, "none"),
         UNCHANGED <<conceptRows, attemptRows, todoRows, tellings>>
  PROVE  SkillsInv'
<1>1. /\ agenda' \in [Agenda -> Nat] /\ \A i \in Agenda : agenda'[i] > 0 => agenda[i] > 0
      /\ cuts' = cuts /\ hand = IdleHand
  BY TakenLeaves DEF SkillsInv, SkillsBase
<1>2. hand.does = "none" /\ hand.kind = "none"
  BY <1>1, IdleIs
<1>3. Invented' = Invented /\ Attempts' = Attempts
  BY DEF Invented, Attempts, LengthsOf
<1>4. /\ skillLevel \in [SkillNames -> Levels \cup {NoSkill}] /\ todoRows \subseteq Skills
      /\ attemptRows \in [SkillNames -> Seq(DOMAIN Gain)]
  BY DEF SkillsInv, SkillsBase, SkillsTypeOK
<1>5. FirstLevel \in Levels /\ FirstLevel # NoSkill
  BY DEF SkillsAssumption, Levels, NoSkill
<1>6. s \notin Skills
  BY DEF Known
<1>7. Skills' = Skills \cup {s}
  BY <1>4, <1>5 DEF Skills
<1>8. PICK h : h = [does |-> "todo", kind |-> "building", about |-> s, outcome |-> "none"]
  OBVIOUS
<1>9. hand' = h /\ h \in HandRecords /\ h.does = "todo" /\ h.kind = "building" /\ h.about = s
  BY <1>8 DEF Then, HandRecords
<1>10. SkillsTypeOK'
  <2>1. skillLevel' \in [SkillNames -> Levels \cup {NoSkill}]
    BY <1>4, <1>5
  <2>2. todoRows' \subseteq Skills'
    BY <1>4, <1>7
  <2> QED
    BY <1>1, <2>1, <2>2 DEF SkillsInv, SkillsBase, SkillsTypeOK
<1>11. HandFits'
  <2>1. s \in Skills' \ todoRows'
    BY <1>4, <1>6, <1>7
  <2> QED
    BY <1>9, <2>1 DEF HandFits
<1>12. PracticeIsOfSkills'
  BY <1>1, <1>7 DEF SkillsInv, SkillsBase, PracticeIsOfSkills
<1>13. cuts["practice"] \in Nat /\ cuts["building"] \in Nat
  BY DEF SkillsInv, SkillsBase, SkillsTypeOK, Kinds
<1>14. LevelsFit'
  <2>1. ASSUME NEW t \in Skills'
        PROVE  Distance(skillLevel'[t], Replayed(attemptRows[t])) <= 2 * cuts["practice"]
    <3>1. CASE t = s
      <4>1. attemptRows[s] = <<>>
        BY <1>6 DEF SkillsInv, SkillsBase, PracticeIsOfSkills
      <4>2. skillLevel'[s] = FirstLevel
        BY <1>4
      <4>3. Distance(FirstLevel, FirstLevel) = 0
        BY <1>5, DistanceIsShort DEF Levels
      <4> QED
        BY <1>13, <3>1, <4>1, <4>2, <4>3, ReplayOfNothing
    <3>2. CASE t # s
      <4>1. t \in Skills /\ skillLevel'[t] = skillLevel[t]
        BY <1>4, <1>7, <3>2
      <4> QED
        BY <1>2, <4>1 DEF SkillsInv, LevelsFit
    <3> QED
      BY <3>1, <3>2
  <2> QED
    BY <1>1, <1>9, <2>1 DEF LevelsFit
<1>15. NamesDiffer'
  <2>1. \A t \in Skills : LowerCase[t] # LowerCase[s]
    BY DEF Known
  <2> QED
    BY <1>7, <2>1 DEF SkillsInv, NamesDiffer
<1>16. /\ Untold("invention") = 0 /\ Untold("practice") = 0 /\ Untold("building") = 0
       /\ Untold("invention")' = 0 /\ Untold("practice")' = 0 /\ Untold("building")' = 1
  BY <1>2, <1>9 DEF Untold
<1>17. TodosFit'
  <2>1. (Skills \ todoRows)' = (Skills \ todoRows) \cup {s} /\ s \notin Skills \ todoRows
    BY <1>4, <1>6, <1>7
  <2>2. IsFiniteSet(Skills \ todoRows) /\ Cardinality(Skills \ todoRows) \in Nat
    BY SkillsAreFinite
  <2>3. Cardinality(Skills \ todoRows)' = Cardinality(Skills \ todoRows) + 1
    BY <2>1, <2>2, FS_AddElement
  <2>4. Cardinality(Skills \ todoRows) <= cuts["building"] + 0
    BY <1>16 DEF SkillsInv, SkillsTold, TodosFit
  <2>5. Cardinality(Skills \ todoRows) + 1 <= cuts["building"] + 1
    BY <1>13, <2>2, <2>4
  <2> QED
    BY <1>1, <1>16, <2>3, <2>5 DEF TodosFit
<1>18. ToldFits("invention", Cardinality(Invented))' /\ ToldFits("practice", Attempts)'
  BY <1>1, <1>3, <1>16 DEF SkillsInv, SkillsTold, ToldFits
<1> QED
  BY <1>10, <1>11, <1>12, <1>14, <1>15, <1>17, <1>18 DEF SkillsInv, SkillsBase, SkillsTold

LEMMA AddTodoKeeps ==
  ASSUME SkillsAssumption, SkillsInv, AddTodo
  PROVE  SkillsInv'
<1>1. /\ hand.kind = "building" /\ hand.about \in Skills \ todoRows /\ hand.does = "todo"
      /\ todoRows' = todoRows \cup {hand.about} /\ hand' = IdleHand
      /\ UNCHANGED <<conceptRows, skillLevel, attemptRows, tellings, agenda, cuts>>
  BY DEF AddTodo, SkillsInv, SkillsBase, HandFits
<1>2. Skills' = Skills /\ Invented' = Invented /\ Attempts' = Attempts
  BY <1>1 DEF Skills, Invented, Attempts, LengthsOf
<1>3. SkillsTypeOK'
  BY <1>1, <1>2 DEF SkillsInv, SkillsBase, SkillsTypeOK
<1>4. HandFits'
  BY <1>1, IdleIs DEF HandFits
<1>5. PracticeIsOfSkills'
  BY <1>1, <1>2 DEF SkillsInv, SkillsBase, PracticeIsOfSkills
<1>6. LevelsFit'
  BY <1>1, <1>2, IdleIs DEF SkillsInv, LevelsFit
<1>7. NamesDiffer'
  BY <1>2 DEF SkillsInv, NamesDiffer
<1>8. /\ Untold("invention") = 0 /\ Untold("practice") = 0 /\ Untold("building") = 1
      /\ Untold("invention")' = 0 /\ Untold("practice")' = 0 /\ Untold("building")' = 0
  BY <1>1, IdleIs DEF Untold
<1>9. TodosFit'
  <2>1. (Skills \ todoRows)' = (Skills \ todoRows) \ {hand.about}
    BY <1>1, <1>2
  <2>2. IsFiniteSet(Skills \ todoRows) /\ Cardinality(Skills \ todoRows) \in Nat
    BY SkillsAreFinite
  <2>3. Cardinality(Skills \ todoRows)' = Cardinality(Skills \ todoRows) - 1
    BY <1>1, <2>1, <2>2, FS_RemoveElement
  <2>4. Cardinality(Skills \ todoRows) <= cuts["building"] + 1 /\ cuts["building"] \in Nat
    BY <1>8 DEF SkillsInv, SkillsTold, TodosFit, SkillsBase, SkillsTypeOK, Kinds
  <2>5. Cardinality(Skills \ todoRows) - 1 <= cuts["building"] + 0
    BY <2>2, <2>4
  <2> QED
    BY <1>1, <1>8, <2>3, <2>5 DEF TodosFit
<1>10. ToldFits("invention", Cardinality(Invented))' /\ ToldFits("practice", Attempts)'
  BY <1>1, <1>2, <1>8 DEF SkillsInv, SkillsTold, ToldFits
<1> QED
  BY <1>3, <1>4, <1>5, <1>6, <1>7, <1>9, <1>10 DEF SkillsInv, SkillsBase, SkillsTold

LEMMA PractiseKeeps ==
  ASSUME SkillsAssumption, SkillsInv, NEW s \in SkillNames, NEW outcome \in DOMAIN Gain,
         Practise(s, outcome)
  PROVE  SkillsInv'
<1>1. /\ agenda' \in [Agenda -> Nat] /\ \A i \in Agenda : agenda'[i] > 0 => agenda[i] > 0
      /\ cuts' = cuts /\ hand = IdleHand
  BY TakenLeaves DEF SkillsInv, SkillsBase, Practise
<1>2. hand.does = "none" /\ hand.kind = "none"
  BY <1>1, IdleIs
<1>3. s \in Skills
  <2>1. PICK i : i = [kind |-> "practice", about |-> s]
    OBVIOUS
  <2>2. i \in Agenda /\ i.kind = "practice" /\ i.about = s
    BY <2>1 DEF Agenda
  <2>3. agenda[i] > 0
    BY <2>1 DEF Practise, Taken
  <2> QED
    BY <2>2, <2>3 DEF SkillsInv, SkillsBase, PracticeIsOfSkills
<1>4. /\ skillLevel \in [SkillNames -> Levels \cup {NoSkill}]
      /\ attemptRows \in [SkillNames -> Seq(DOMAIN Gain)]
  BY DEF SkillsInv, SkillsBase, SkillsTypeOK
<1>5. /\ attemptRows' = [attemptRows EXCEPT ![s] = Append(attemptRows[s], outcome)]
      /\ UNCHANGED <<conceptRows, skillLevel, todoRows, tellings>>
  BY DEF Practise
<1>6. Skills' = Skills /\ Invented' = Invented
  BY <1>5 DEF Skills, Invented
<1>7. PICK h : h = [does |-> "level", kind |-> "practice", about |-> s, outcome |-> outcome]
  OBVIOUS
<1>8. hand' = h /\ h \in HandRecords /\ h.does = "level" /\ h.kind = "practice" /\ h.about = s
      /\ h.outcome = outcome
  BY <1>7, GainsAre DEF Practise, Then, HandRecords
<1>9. PICK old \in Seq(DOMAIN Gain) : old = attemptRows[s]
  BY <1>4
<1>10. PICK new : new = Append(old, outcome)
  OBVIOUS
<1>11. new \in Seq(DOMAIN Gain) /\ Len(new) = Len(old) + 1 /\ Len(old) \in Nat
  BY <1>10, AppendProperties
<1>12. attemptRows' \in [SkillNames -> Seq(DOMAIN Gain)] /\ attemptRows'[s] = new
       /\ \A t \in SkillNames : t # s => attemptRows'[t] = attemptRows[t]
  <2>1. attemptRows' = [attemptRows EXCEPT ![s] = new]
    BY <1>5, <1>9, <1>10
  <2> QED
    BY <1>4, <1>11, <2>1
<1>13. SkillsTypeOK'
  BY <1>1, <1>5, <1>6, <1>12 DEF SkillsInv, SkillsBase, SkillsTypeOK
<1>14. HandFits'
  BY <1>3, <1>6, <1>8 DEF HandFits
<1>15. PracticeIsOfSkills'
  BY <1>1, <1>3, <1>6, <1>12 DEF SkillsInv, SkillsBase, PracticeIsOfSkills
<1>16. LevelsFit'
  <2>1. Replayed(old) \in Levels /\ Replayed(new) = After(Replayed(old), outcome)
    BY <1>9, <1>10, ReplayGoesOn
  <2>2. Distance(skillLevel[s], Replayed(old)) <= 2 * cuts["practice"]
    BY <1>2, <1>3, <1>9 DEF SkillsInv, LevelsFit
  <2>3. ASSUME NEW t \in Skills, t # s
        PROVE  Distance(skillLevel[t], Replayed(attemptRows'[t])) <= 2 * cuts["practice"]
    <3>1. t \in SkillNames
      BY DEF Skills
    <3> QED
      BY <1>2, <1>12, <2>3, <3>1 DEF SkillsInv, LevelsFit
  <2> QED
    BY <1>1, <1>5, <1>6, <1>8, <1>12, <2>1, <2>2, <2>3 DEF LevelsFit
<1>17. NamesDiffer'
  BY <1>6 DEF SkillsInv, NamesDiffer
<1>18. /\ Untold("invention") = 0 /\ Untold("practice") = 0 /\ Untold("building") = 0
       /\ Untold("invention")' = 0 /\ Untold("practice")' = 1 /\ Untold("building")' = 0
  BY <1>2, <1>8 DEF Untold
<1>19. Attempts' = Attempts + 1 /\ Attempts \in Int
  <2>1. PICK f : f = LengthsOf(attemptRows, SkillNames)
    OBVIOUS
  <2>2. PICK e : e = LengthsOf(attemptRows', SkillNames)
    OBVIOUS
  <2>3. f \in [SkillNames -> Int] /\ e \in [SkillNames -> Int]
    <3>1. \A t \in SkillNames : Len(attemptRows[t]) \in Int /\ Len(attemptRows'[t]) \in Int
      BY <1>4, <1>12
    <3> QED
      BY <2>1, <2>2, <3>1 DEF LengthsOf
  <2>4. AddedAt(e, f, SkillNames, s, 1)
    <3>1. \A t \in SkillNames : f[t] = Len(attemptRows[t]) /\ e[t] = Len(attemptRows'[t])
      BY <2>1, <2>2 DEF LengthsOf
    <3>2. e[s] = f[s] + 1
      BY <1>9, <1>11, <1>12, <3>1
    <3>3. \A t \in SkillNames : t # s => e[t] = f[t]
      BY <1>12, <3>1
    <3> QED
      BY <3>2, <3>3 DEF AddedAt
  <2>5. IsFiniteSet(SkillNames)
    BY DEF SkillsAssumption
  <2>6. SumFunction(e) = SumFunction(f) + 1 /\ SumFunction(f) \in Int
    BY <2>3, <2>4, <2>5, SumGrows, SumIsNumber
  <2> QED
    BY <2>1, <2>2, <2>6 DEF Attempts
<1>20. tellings["practice"] \in Nat /\ cuts["practice"] \in Nat
  BY DEF SkillsInv, SkillsBase, SkillsTypeOK, Kinds
<1>21. ToldFits("practice", Attempts)'
  <2>1. tellings["practice"] + 0 <= Attempts /\ Attempts <= tellings["practice"] + cuts["practice"] + 0
    BY <1>18 DEF SkillsInv, SkillsTold, ToldFits
  <2>2. tellings["practice"] + 1 <= Attempts + 1
        /\ Attempts + 1 <= tellings["practice"] + cuts["practice"] + 1
    BY <1>19, <1>20, <2>1
  <2> QED
    BY <1>1, <1>5, <1>18, <1>19, <2>2 DEF ToldFits
<1>22. ToldFits("invention", Cardinality(Invented))' /\ TodosFit'
  BY <1>1, <1>5, <1>6, <1>18 DEF SkillsInv, SkillsTold, ToldFits, TodosFit
<1> QED
  BY <1>13, <1>14, <1>15, <1>16, <1>17, <1>21, <1>22 DEF SkillsInv, SkillsBase, SkillsTold

LEMMA RelevelKeeps ==
  ASSUME SkillsAssumption, SkillsInv, Relevel
  PROVE  SkillsInv'
<1>1. PICK s : s = hand.about
  OBVIOUS
<1>2. PICK outcome : outcome = hand.outcome
  OBVIOUS
<1>3. hand.does = "level" /\ hand.kind = "practice" /\ s \in Skills /\ outcome \in DOMAIN Gain
  BY <1>1, <1>2 DEF Relevel, SkillsInv, SkillsBase, HandFits
<1>4. /\ skillLevel' = [skillLevel EXCEPT ![s] = After(skillLevel[s], outcome)]
      /\ UNCHANGED <<conceptRows, attemptRows, todoRows, tellings, agenda, cuts>>
  BY <1>1, <1>2 DEF Relevel
<1>5. skillLevel \in [SkillNames -> Levels \cup {NoSkill}]
  BY DEF SkillsInv, SkillsBase, SkillsTypeOK
<1>6. s \in SkillNames /\ skillLevel[s] \in Levels
  BY <1>3, <1>5 DEF Skills
<1>7. After(skillLevel[s], outcome) \in Levels
  BY <1>3, <1>6, AfterIsLevel
<1>8. \A n \in Levels : n # NoSkill
  BY DEF Levels, NoSkill, SkillsAssumption
<1>9. Skills' = Skills
  BY <1>4, <1>5, <1>6, <1>7, <1>8 DEF Skills
<1>10. Invented' = Invented /\ Attempts' = Attempts
  BY <1>4 DEF Invented, Attempts, LengthsOf
<1>11. PICK h : h = [does |-> "memory", kind |-> "practice", about |-> s, outcome |-> outcome]
  OBVIOUS
<1>12. hand' = h /\ h \in HandRecords /\ h.does = "memory" /\ h.kind = "practice"
  BY <1>1, <1>2, <1>3, <1>6, <1>11, GainsAre DEF Relevel, Then, HandRecords
<1>13. SkillsTypeOK'
  <2>1. skillLevel' \in [SkillNames -> Levels \cup {NoSkill}]
    BY <1>4, <1>5, <1>7
  <2> QED
    BY <1>4, <1>9, <2>1 DEF SkillsInv, SkillsBase, SkillsTypeOK
<1>14. HandFits'
  BY <1>12 DEF HandFits
<1>15. PracticeIsOfSkills'
  BY <1>4, <1>9 DEF SkillsInv, SkillsBase, PracticeIsOfSkills
<1>16. LevelsFit'
  <2>1. PICK r \in Levels : /\ Replayed(attemptRows[s]) = After(r, outcome)
                            /\ Distance(skillLevel[s], r) <= 2 * cuts["practice"]
    BY <1>1, <1>2, <1>3 DEF SkillsInv, LevelsFit
  <2>2. Distance(After(skillLevel[s], outcome), After(r, outcome)) <= Distance(skillLevel[s], r)
    BY <1>3, <1>6, AfterIsLevel
  <2>3. cuts["practice"] \in Nat
    BY DEF SkillsInv, SkillsBase, SkillsTypeOK, Kinds
  <2>4. /\ Distance(After(skillLevel[s], outcome), After(r, outcome)) \in Nat
        /\ Distance(skillLevel[s], r) \in Nat
    <3>1. skillLevel[s] \in Nat /\ r \in Nat /\ After(skillLevel[s], outcome) \in Nat
          /\ After(r, outcome) \in Nat
      BY <1>3, <1>6, <1>7, AfterIsLevel DEF Levels
    <3> QED
      BY <3>1, DistanceIsShort
  <2>5. Distance(After(skillLevel[s], outcome), After(r, outcome)) <= 2 * cuts["practice"]
    BY <2>1, <2>2, <2>3, <2>4
  <2>6. Distance(skillLevel'[s], Replayed(attemptRows[s])) <= 2 * cuts["practice"]
    BY <1>4, <1>5, <1>6, <2>1, <2>5
  <2>7. ASSUME NEW t \in Skills, t # s
        PROVE  Distance(skillLevel'[t], Replayed(attemptRows[t])) <= 2 * cuts["practice"]
    <3>1. t \in SkillNames
      BY DEF Skills
    <3>2. skillLevel'[t] = skillLevel[t]
      BY <1>4, <1>5, <2>7, <3>1
    <3> QED
      BY <1>1, <2>7, <3>2 DEF SkillsInv, LevelsFit
  <2> QED
    BY <1>4, <1>9, <1>12, <2>6, <2>7 DEF LevelsFit
<1>17. NamesDiffer'
  BY <1>9 DEF SkillsInv, NamesDiffer
<1>18. Untold("invention")' = Untold("invention") /\ Untold("practice")' = Untold("practice")
       /\ Untold("building")' = Untold("building")
  BY <1>3, <1>12 DEF Untold
<1>19. SkillsTold'
  BY <1>4, <1>9, <1>10, <1>18 DEF SkillsInv, SkillsTold, ToldFits, TodosFit
<1> QED
  BY <1>13, <1>14, <1>15, <1>16, <1>17, <1>19 DEF SkillsInv, SkillsBase

LEMMA TellKeeps ==
  ASSUME SkillsAssumption, SkillsInv, Tell
  PROVE  SkillsInv'
<1>1. PICK k : k = hand.kind
  OBVIOUS
<1>2. k \in {"invention", "practice"} /\ hand.does = "memory" /\ hand.kind = k
  BY <1>1 DEF Tell, SkillsInv, SkillsBase, HandFits
<1>3. /\ tellings' = [tellings EXCEPT ![k] = tellings[k] + 1] /\ hand' = IdleHand
      /\ UNCHANGED <<conceptRows, skillLevel, attemptRows, todoRows, agenda, cuts>>
  BY <1>1 DEF Tell
<1>4. Skills' = Skills /\ Invented' = Invented /\ Attempts' = Attempts
  BY <1>3 DEF Skills, Invented, Attempts, LengthsOf
<1>5. k \in Kinds /\ tellings \in [Kinds -> Nat] /\ cuts \in [Kinds -> Nat]
  BY <1>2 DEF SkillsInv, SkillsBase, SkillsTypeOK, Kinds
<1>6. tellings' \in [Kinds -> Nat]
  BY <1>3, <1>5
<1>7. SkillsTypeOK'
  BY <1>3, <1>4, <1>6 DEF SkillsInv, SkillsBase, SkillsTypeOK
<1>8. HandFits'
  BY <1>3, IdleIs DEF HandFits
<1>9. PracticeIsOfSkills'
  BY <1>3, <1>4 DEF SkillsInv, SkillsBase, PracticeIsOfSkills
<1>10. LevelsFit'
  BY <1>2, <1>3, <1>4, IdleIs DEF SkillsInv, LevelsFit
<1>11. NamesDiffer'
  BY <1>4 DEF SkillsInv, NamesDiffer
<1>12. ASSUME NEW kind \in {"invention", "practice"}, NEW done, ToldFits(kind, done), done \in Int
       PROVE  /\ tellings'[kind] + Untold(kind)' <= done
              /\ done <= tellings'[kind] + cuts'[kind] + Untold(kind)'
  <2>1. kind \in Kinds /\ tellings[kind] \in Nat /\ cuts[kind] \in Nat
    BY <1>5 DEF Kinds
  <2>2. CASE kind = k
    <3>1. Untold(kind) = 1 /\ Untold(kind)' = 0 /\ tellings'[kind] = tellings[kind] + 1
      BY <1>2, <1>3, <1>5, <2>2, IdleIs DEF Untold
    <3>2. tellings[kind] + 1 <= done /\ done <= tellings[kind] + cuts[kind] + 1
      BY <1>12, <3>1 DEF ToldFits
    <3>3. tellings[kind] + 1 + 0 <= done /\ done <= tellings[kind] + 1 + cuts[kind] + 0
      BY <1>12, <2>1, <3>2
    <3> QED
      BY <1>3, <3>1, <3>3
  <2>3. CASE kind # k
    <3>1. Untold(kind) = 0 /\ Untold(kind)' = 0 /\ tellings'[kind] = tellings[kind]
      BY <1>2, <1>3, <1>5, <2>1, <2>3, IdleIs DEF Untold
    <3>2. tellings[kind] + 0 <= done /\ done <= tellings[kind] + cuts[kind] + 0
      BY <1>12, <3>1 DEF ToldFits
    <3> QED
      BY <1>3, <3>1, <3>2
  <2> QED
    BY <2>2, <2>3
<1>13. Cardinality(Invented) \in Int /\ Attempts \in Int
  BY SkillsAreFinite, AttemptsAreNumber DEF SkillsInv, SkillsBase, SkillsTypeOK
<1>14. ToldFits("invention", Cardinality(Invented))' /\ ToldFits("practice", Attempts)'
  <2>1. ToldFits("invention", Cardinality(Invented)) /\ ToldFits("practice", Attempts)
    BY DEF SkillsInv, SkillsTold
  <2>2. /\ tellings'["invention"] + Untold("invention")' <= Cardinality(Invented)
        /\ Cardinality(Invented) <= tellings'["invention"] + cuts'["invention"] + Untold("invention")'
    BY <1>12, <1>13, <2>1
  <2>3. /\ tellings'["practice"] + Untold("practice")' <= Attempts
        /\ Attempts <= tellings'["practice"] + cuts'["practice"] + Untold("practice")'
    BY <1>12, <1>13, <2>1
  <2>4. ToldFits("invention", Cardinality(Invented))'
    BY <1>4, <2>2 DEF ToldFits
  <2>5. ToldFits("practice", Attempts)'
    BY <1>4, <2>3 DEF ToldFits
  <2> QED
    BY <2>4, <2>5
<1>15. TodosFit'
  <2>1. Untold("building") = 0 /\ Untold("building")' = 0
    BY <1>2, <1>3, IdleIs DEF Untold
  <2> QED
    BY <1>3, <1>4, <2>1 DEF SkillsInv, SkillsTold, TodosFit
<1> QED
  BY <1>7, <1>8, <1>9, <1>10, <1>11, <1>14, <1>15 DEF SkillsInv, SkillsBase, SkillsTold

LEMMA CutKeeps ==
  ASSUME SkillsAssumption, SkillsInv, NEW processEnds, Cut(processEnds)
  PROVE  SkillsInv'
<1>1. PICK k : k = hand.kind
  OBVIOUS
<1>2. /\ k \in {"invention", "building", "practice"} /\ hand.kind = k
      /\ hand.does = "todo" => k = "building"
      /\ hand.does = "level" => k = "practice" /\ hand.about \in Skills /\ hand.outcome \in DOMAIN Gain
  BY <1>1 DEF Cut, SkillsInv, SkillsBase, HandFits, HandRecords
<1>3. /\ cuts' = [cuts EXCEPT ![k] = cuts[k] + 1] /\ hand' = IdleHand
      /\ agenda' = IF processEnds THEN [i \in Agenda |-> 0] ELSE agenda
      /\ UNCHANGED <<conceptRows, skillLevel, attemptRows, todoRows, tellings>>
  BY <1>1 DEF Cut, skillRowVars
<1>4. Skills' = Skills /\ Invented' = Invented /\ Attempts' = Attempts
  BY <1>3 DEF Skills, Invented, Attempts, LengthsOf
<1>5. /\ k \in Kinds /\ tellings \in [Kinds -> Nat] /\ cuts \in [Kinds -> Nat]
      /\ agenda \in [Agenda -> Nat]
  BY <1>2 DEF SkillsInv, SkillsBase, SkillsTypeOK, Kinds
<1>6. cuts' \in [Kinds -> Nat]
  BY <1>3, <1>5
<1>7. agenda' \in [Agenda -> Nat] /\ \A i \in Agenda : agenda'[i] > 0 => agenda[i] > 0
  BY <1>3, <1>5
<1>8. SkillsTypeOK'
  BY <1>3, <1>4, <1>6, <1>7 DEF SkillsInv, SkillsBase, SkillsTypeOK
<1>9. HandFits'
  BY <1>3, IdleIs DEF HandFits
<1>10. PracticeIsOfSkills'
  BY <1>3, <1>4, <1>7 DEF SkillsInv, SkillsBase, PracticeIsOfSkills
<1>11. \A kind \in Kinds : /\ cuts[kind] \in Nat /\ cuts'[kind] \in Nat
                           /\ cuts'[kind] = cuts[kind] + Untold(kind)
  <2> SUFFICES ASSUME NEW kind \in Kinds
               PROVE  cuts[kind] \in Nat /\ cuts'[kind] \in Nat /\ cuts'[kind] = cuts[kind] + Untold(kind)
    OBVIOUS
  <2>1. cuts[kind] \in Nat /\ cuts'[kind] \in Nat
    BY <1>5, <1>6
  <2>2. CASE kind = k
    <3>1. Untold(kind) = 1
      BY <1>2, <2>2 DEF Untold
    <3> QED
      BY <1>3, <1>5, <2>1, <2>2, <3>1
  <2>3. CASE kind # k
    <3>1. Untold(kind) = 0
      BY <1>2, <2>3 DEF Untold
    <3>2. cuts'[kind] = cuts[kind]
      BY <1>3, <1>5, <2>3
    <3> QED
      BY <2>1, <3>1, <3>2
  <2> QED
    BY <2>2, <2>3
<1>12. \A kind \in Kinds : Untold(kind) \in Nat /\ Untold(kind)' = 0
  <2>1. \A kind \in Kinds : kind # "none"
    BY DEF Kinds
  <2> QED
    BY <1>3, <2>1, IdleIs DEF Untold
<1>13. LevelsFit'
  <2> SUFFICES ASSUME NEW s \in Skills
               PROVE  Distance(skillLevel[s], Replayed(attemptRows[s])) <= 2 * cuts'["practice"]
    BY <1>3, <1>4, IdleIs DEF LevelsFit
  <2>1. s \in SkillNames /\ skillLevel[s] \in Levels /\ attemptRows[s] \in Seq(DOMAIN Gain)
    BY DEF Skills, SkillsInv, SkillsBase, SkillsTypeOK
  <2>2. cuts["practice"] \in Nat /\ cuts'["practice"] \in Nat
        /\ cuts'["practice"] = cuts["practice"] + Untold("practice")
    BY <1>11 DEF Kinds
  <2>3. CASE hand.does = "level" /\ hand.about = s
    <3>1. PICK outcome \in DOMAIN Gain : outcome = hand.outcome
      BY <1>2, <2>3
    <3>2. PICK r \in Levels : /\ Replayed(attemptRows[s]) = After(r, outcome)
                              /\ Distance(skillLevel[s], r) <= 2 * cuts["practice"]
      BY <2>3, <3>1 DEF SkillsInv, LevelsFit
    <3>3. Distance(r, After(r, outcome)) <= 2 /\ After(r, outcome) \in Levels
      BY AfterIsLevel
    <3>4. PICK a \in Nat : a = skillLevel[s]
      BY <2>1 DEF Levels
    <3>5. PICK b \in Nat : b = r
      BY DEF Levels
    <3>6. PICK d \in Nat : d = After(r, outcome)
      BY <3>3 DEF Levels
    <3>7. /\ Distance(a, b) \in Nat /\ Distance(b, d) \in Nat /\ Distance(a, d) \in Nat
          /\ Distance(a, d) <= Distance(a, b) + Distance(b, d)
      BY DistanceIsShort
    <3>8. Distance(a, b) <= 2 * cuts["practice"] /\ Distance(b, d) <= 2
      BY <3>2, <3>3, <3>4, <3>5, <3>6
    <3>9. Untold("practice") = 1
      BY <1>2, <2>3 DEF Untold
    <3>10. Distance(a, d) <= 2 * cuts'["practice"]
      BY <2>2, <3>7, <3>8, <3>9
    <3> QED
      BY <3>2, <3>4, <3>6, <3>10
  <2>4. CASE ~(hand.does = "level" /\ hand.about = s)
    <3>1. Distance(skillLevel[s], Replayed(attemptRows[s])) <= 2 * cuts["practice"]
      BY <2>4 DEF SkillsInv, LevelsFit
    <3>2. PICK outcome \in DOMAIN Gain : TRUE
      BY GainsAre DEF Outcomes3
    <3>3. Replayed(attemptRows[s]) \in Levels
      BY <2>1, <3>2, ReplayGoesOn
    <3>4. Distance(skillLevel[s], Replayed(attemptRows[s])) \in Nat
      <4>1. PICK a \in Nat : a = skillLevel[s]
        BY <2>1 DEF Levels
      <4>2. PICK b \in Nat : b = Replayed(attemptRows[s])
        BY <3>3 DEF Levels
      <4>3. Distance(a, b) \in Nat
        BY DistanceIsShort
      <4> QED
        BY <4>1, <4>2, <4>3
    <3>5. Untold("practice") \in Nat
      BY <1>12 DEF Kinds
    <3> QED
      BY <2>2, <3>1, <3>4, <3>5
  <2> QED
    BY <2>3, <2>4
<1>14. NamesDiffer'
  BY <1>4 DEF SkillsInv, NamesDiffer
<1>15. Cardinality(Invented) \in Int /\ Attempts \in Int /\ Cardinality(Skills \ todoRows) \in Nat
  BY SkillsAreFinite, AttemptsAreNumber DEF SkillsInv, SkillsBase, SkillsTypeOK
<1>16. ASSUME NEW kind \in Kinds, NEW done \in Int, ToldFits(kind, done)
       PROVE  /\ tellings'[kind] + Untold(kind)' <= done
              /\ done <= tellings'[kind] + cuts'[kind] + Untold(kind)'
  <2>1. tellings[kind] \in Nat /\ tellings'[kind] = tellings[kind]
    BY <1>3, <1>5
  <2>2. tellings[kind] + Untold(kind) <= done /\ done <= tellings[kind] + cuts[kind] + Untold(kind)
    BY <1>16 DEF ToldFits
  <2>3. tellings[kind] <= done
    BY <1>12, <2>1, <2>2
  <2>4. done <= tellings[kind] + cuts'[kind]
    BY <1>11, <1>12, <2>1, <2>2
  <2> QED
    BY <1>11, <1>12, <2>1, <2>3, <2>4
<1>17. ToldFits("invention", Cardinality(Invented))' /\ ToldFits("practice", Attempts)'
  <2>1. ToldFits("invention", Cardinality(Invented)) /\ ToldFits("practice", Attempts)
    BY DEF SkillsInv, SkillsTold
  <2>2. "invention" \in Kinds /\ "practice" \in Kinds
    BY DEF Kinds
  <2>3. /\ tellings'["invention"] + Untold("invention")' <= Cardinality(Invented)
        /\ Cardinality(Invented) <= tellings'["invention"] + cuts'["invention"] + Untold("invention")'
    BY <1>15, <1>16, <2>1, <2>2
  <2>4. /\ tellings'["practice"] + Untold("practice")' <= Attempts
        /\ Attempts <= tellings'["practice"] + cuts'["practice"] + Untold("practice")'
    BY <1>15, <1>16, <2>1, <2>2
  <2>5. ToldFits("invention", Cardinality(Invented))'
    BY <1>4, <2>3 DEF ToldFits
  <2>6. ToldFits("practice", Attempts)'
    BY <1>4, <2>4 DEF ToldFits
  <2> QED
    BY <2>5, <2>6
<1>18. TodosFit'
  <2>1. Cardinality(Skills \ todoRows) <= cuts["building"] + Untold("building")
    BY DEF SkillsInv, SkillsTold, TodosFit
  <2>2. "building" \in Kinds
    BY DEF Kinds
  <2>3. cuts'["building"] + Untold("building")' = cuts["building"] + Untold("building")
    BY <1>11, <1>12, <2>2
  <2>4. (Skills \ todoRows)' = Skills \ todoRows
    BY <1>3, <1>4
  <2> QED
    BY <2>1, <2>3, <2>4 DEF TodosFit
<1> QED
  BY <1>8, <1>9, <1>10, <1>13, <1>14, <1>17, <1>18 DEF SkillsInv, SkillsBase, SkillsTold

LEMMA SkillsStep ==
  ASSUME SkillsAssumption, SkillsInv, [SkillsNext]_skillVars
  PROVE  SkillsInv'
<1>1. CASE UNCHANGED skillVars
  <2>1. UNCHANGED <<conceptRows, skillLevel, attemptRows, todoRows, tellings, hand, cuts, agenda>>
    BY <1>1 DEF skillVars, skillRowVars
  <2>2. Skills' = Skills /\ Invented' = Invented /\ Attempts' = Attempts
    BY <2>1 DEF Skills, Invented, Attempts, LengthsOf
  <2>3. SkillsBase'
    BY <2>1, <2>2 DEF SkillsInv, SkillsBase, SkillsTypeOK, HandFits, PracticeIsOfSkills
  <2>4. LevelsFit' /\ NamesDiffer'
    BY <2>1, <2>2 DEF SkillsInv, LevelsFit, NamesDiffer
  <2>5. SkillsTold'
    BY <2>1, <2>2 DEF SkillsInv, SkillsTold, ToldFits, TodosFit, Untold
  <2> QED
    BY <2>3, <2>4, <2>5 DEF SkillsInv
<1>2. CASE SubmitInvention
  BY <1>2, QueuedKeeps DEF SubmitInvention
<1>3. ASSUME NEW c \in ConceptNames, SubmitBuilding(c) PROVE SkillsInv'
  BY <1>3, QueuedKeeps DEF SubmitBuilding
<1>4. ASSUME NEW s \in SkillNames, SubmitPractice(s) PROVE SkillsInv'
  BY <1>4, QueuedKeeps DEF SubmitPractice
<1>5. ASSUME NEW s \in SkillNames, SubmitRefinement(s) PROVE SkillsInv'
  BY <1>5, QueuedKeeps DEF SubmitRefinement
<1>6. tellings \in [Kinds -> Nat]
  BY DEF SkillsInv, SkillsBase, SkillsTypeOK
<1>7. ASSUME NEW s \in SkillNames, Refine(s) PROVE SkillsInv'
  <2>1. Taken("refinement", s) /\ UNCHANGED <<conceptRows, skillLevel, attemptRows, todoRows, hand>>
    BY <1>7 DEF Refine, skillRowVars
  <2>2. tellings' = tellings \/ tellings' = [tellings EXCEPT !["refinement"] = tellings["refinement"] + 1]
    BY <1>7 DEF Refine, skillRowVars
  <2>3. tellings' \in [Kinds -> Nat] /\ tellings'["invention"] = tellings["invention"]
        /\ tellings'["practice"] = tellings["practice"]
    BY <1>6, <2>2 DEF Kinds
  <2> QED
    BY <2>1, <2>3, VainKeeps
<1>8. ASSUME NEW i \in Agenda, NoReply(i) PROVE SkillsInv'
  BY <1>6, <1>8, VainKeeps DEF NoReply, skillRowVars
<1>9. ASSUME NEW c \in ConceptNames, NEW matters \in {"little", "much"}, Invent(c, matters) PROVE SkillsInv'
  <2>1. CASE conceptRows[c] # "none"
    BY <1>6, <1>9, <2>1, VainKeeps DEF Invent, skillRowVars
  <2>2. CASE conceptRows[c] = "none"
    BY <1>9, <2>2, InventKeeps DEF Invent
  <2> QED
    BY <2>1, <2>2
<1>10. ASSUME NEW c \in ConceptNames, NEW s \in SkillNames, Build(c, s) PROVE SkillsInv'
  <2>1. CASE Known(s)
    BY <1>6, <1>10, <2>1, VainKeeps DEF Build, skillRowVars
  <2>2. CASE ~Known(s)
    BY <1>10, <2>2, BuildKeeps DEF Build
  <2> QED
    BY <2>1, <2>2
<1>11. ASSUME NEW s \in SkillNames, NEW outcome \in DOMAIN Gain, Practise(s, outcome) PROVE SkillsInv'
  BY <1>11, PractiseKeeps
<1>12. ASSUME NEW processEnds \in BOOLEAN, Cut(processEnds) PROVE SkillsInv'
  BY <1>12, CutKeeps
<1> QED
  BY <1>1, <1>2, <1>3, <1>4, <1>5, <1>7, <1>8, <1>9, <1>10, <1>11, <1>12,
     AddTodoKeeps, RelevelKeeps, TellKeeps DEF SkillsNext

LEMMA SkillsInvHolds == SkillsAssumption /\ SkillsInv => SkillsAreSound
<1> SUFFICES ASSUME SkillsAssumption, SkillsInv PROVE SkillsAreSound
  OBVIOUS
<1>1. LevelIsEarned
  <2> SUFFICES ASSUME NEW s \in Skills
               PROVE  Distance(skillLevel[s], Replayed(attemptRows[s]))
                         <= 2 * (cuts["practice"] + Running("level", s))
    BY DEF LevelIsEarned, Replayed
  <2>1. s \in SkillNames /\ skillLevel[s] \in Levels /\ attemptRows[s] \in Seq(DOMAIN Gain)
        /\ cuts["practice"] \in Nat
    BY DEF Skills, SkillsInv, SkillsBase, SkillsTypeOK, Kinds
  <2>2. CASE hand.does = "level" /\ hand.about = s
    <3>1. PICK outcome \in DOMAIN Gain : outcome = hand.outcome
      BY <2>2 DEF SkillsInv, SkillsBase, HandFits
    <3>2. PICK r \in Levels : /\ Replayed(attemptRows[s]) = After(r, outcome)
                              /\ Distance(skillLevel[s], r) <= 2 * cuts["practice"]
      BY <2>2, <3>1 DEF SkillsInv, LevelsFit
    <3>3. Distance(r, After(r, outcome)) <= 2 /\ After(r, outcome) \in Levels
      BY AfterIsLevel
    <3>4. PICK a \in Nat : a = skillLevel[s]
      BY <2>1 DEF Levels
    <3>5. PICK b \in Nat : b = r
      BY DEF Levels
    <3>6. PICK d \in Nat : d = After(r, outcome)
      BY <3>3 DEF Levels
    <3>7. /\ Distance(a, b) \in Nat /\ Distance(b, d) \in Nat /\ Distance(a, d) \in Nat
          /\ Distance(a, d) <= Distance(a, b) + Distance(b, d)
      BY DistanceIsShort
    <3>8. Distance(a, b) <= 2 * cuts["practice"] /\ Distance(b, d) <= 2
      BY <3>2, <3>3, <3>4, <3>5, <3>6
    <3>9. Running("level", s) = 1
      BY <2>2 DEF Running
    <3>10. Distance(a, d) <= 2 * (cuts["practice"] + 1)
      BY <2>1, <3>7, <3>8
    <3> QED
      BY <3>2, <3>4, <3>6, <3>9, <3>10
  <2>3. CASE ~(hand.does = "level" /\ hand.about = s)
    <3>1. Distance(skillLevel[s], Replayed(attemptRows[s])) <= 2 * cuts["practice"]
      BY <2>3 DEF SkillsInv, LevelsFit
    <3>2. PICK outcome \in DOMAIN Gain : TRUE
      BY GainsAre DEF Outcomes3
    <3>3. Replayed(attemptRows[s]) \in Levels
      BY <2>1, <3>2, ReplayGoesOn
    <3>4. Distance(skillLevel[s], Replayed(attemptRows[s])) \in Nat
      <4>1. PICK a \in Nat : a = skillLevel[s]
        BY <2>1 DEF Levels
      <4>2. PICK b \in Nat : b = Replayed(attemptRows[s])
        BY <3>3 DEF Levels
      <4>3. Distance(a, b) \in Nat
        BY DistanceIsShort
      <4> QED
        BY <4>1, <4>2, <4>3
    <3>5. Running("level", s) \in Nat
      BY DEF Running
    <3> QED
      BY <2>1, <3>1, <3>4, <3>5
  <2> QED
    BY <2>2, <2>3
<1>2. WorkIsTold
  <2>1. Cardinality(Invented) \in Int /\ Attempts \in Int /\ Cardinality(Skills \ todoRows) \in Nat
    BY SkillsAreFinite, AttemptsAreNumber DEF SkillsInv, SkillsBase, SkillsTypeOK
  <2>2. /\ tellings["invention"] \in Nat /\ cuts["invention"] \in Nat
        /\ tellings["practice"] \in Nat /\ cuts["practice"] \in Nat /\ cuts["building"] \in Nat
    BY DEF SkillsInv, SkillsBase, SkillsTypeOK, Kinds
  <2>3. /\ tellings["invention"] + Untold("invention") <= Cardinality(Invented)
        /\ Cardinality(Invented) <= tellings["invention"] + cuts["invention"] + Untold("invention")
        /\ tellings["practice"] + Untold("practice") <= Attempts
        /\ Attempts <= tellings["practice"] + cuts["practice"] + Untold("practice")
    BY DEF SkillsInv, SkillsTold, ToldFits
  <2>4. Untold("invention") \in Nat /\ Untold("practice") \in Nat
    BY DEF Untold
  <2>5. Cardinality(Invented) \in tellings["invention"]..(tellings["invention"] + cuts["invention"] + Untold("invention"))
    BY <2>1, <2>2, <2>3, <2>4
  <2>6. Attempts \in tellings["practice"]..(tellings["practice"] + cuts["practice"] + Untold("practice"))
    BY <2>1, <2>2, <2>3, <2>4
  <2>7. MapThenSumSet(LAMBDA s : Len(attemptRows[s]), SkillNames) = Attempts
    BY LengthsAdd DEF Attempts, SkillsAssumption
  <2>8. Cardinality(Skills \ todoRows) <= cuts["building"] + Running("todo", "any")
    <3>1. Cardinality(Skills \ todoRows) <= cuts["building"] + Untold("building")
      BY DEF SkillsInv, SkillsTold, TodosFit
    <3>2. hand.kind = "building" => hand.does = "todo"
      BY IdleIs DEF SkillsInv, SkillsBase, HandFits, HandRecords
    <3>3. Untold("building") \in {0, 1} /\ Running("todo", "any") \in {0, 1}
          /\ (Untold("building") = 1 => Running("todo", "any") = 1)
      BY <3>2 DEF Untold, Running
    <3> QED
      BY <2>1, <2>2, <3>1, <3>3
  <2>9. todoRows \subseteq Skills /\ \A s, t \in Skills : LowerCase[s] = LowerCase[t] => s = t
    BY DEF SkillsInv, SkillsBase, SkillsTypeOK, NamesDiffer
  <2> QED
    BY <2>5, <2>6, <2>7, <2>8, <2>9 DEF WorkIsTold, Invented, Untold
<1> QED
  BY <1>1, <1>2 DEF SkillsAreSound

\* Of the four producers, which alone write levels here: the level of a skill is what its attempts,
\* replayed, make of it, but for two steps for each practice that was cut; a concept invented and
\* an attempt made has its memory, and a skill built its todo, unless the dispatch was cut.
THEOREM SkillsAreAlwaysSound == SkillsSpec => []SkillsAreSound
<1> USE SkillsAssumption
<1>1. SkillsInit => SkillsInv
  BY SkillsInitially
<1>2. SkillsInv /\ [SkillsNext]_skillVars => SkillsInv'
  BY SkillsStep
<1>3. SkillsInv => SkillsAreSound
  BY SkillsInvHolds
<1> QED
  BY <1>1, <1>2, <1>3, PTL DEF SkillsSpec

-----------------------------------------------------------------------------
(* The parts together                                                       *)

\* The self is sound in the runtime of all parts: it is born whole or visibly
\* unfinished, levels and ranks are those that the producers' attempts and the calls have
\* earned, what it does of its own accord is done once, a request is answered only after its
\* decision is remembered, and a rating is rewarded once.
THEOREM SelfIsAlwaysSound == TuringSpec => []SelfIsSound
<1> USE BootstrapAssumption, PerceptionAssumption, UrgesAssumption, DeskAssumption, NodesAssumption, SkillsAssumption
<1> DEFINE SelfInv == BootInv /\ PerceptionInv /\ ProducerInv /\ DeskInv /\ NodesInv /\ SkillsInv
<1>1. TuringInit => SelfInv
  BY BootInitially, PerceptionInitially, ProducersInitially, DeskInitially, NodesInitially,
     SkillsInitially DEF TuringInit
<1>2. SelfInv /\ [TuringNext]_<<part, turingTickVars, lineageVars, dreamerVars, bootstrapVars,
                         skillVars, nodeVars, feedVars, noteVars, viewVars, producerVars,
                         deskVars, conduitVars, promptVars>>
      => SelfInv'
  <2> SUFFICES ASSUME SelfInv,
                      [TuringNext]_<<part, turingTickVars, lineageVars, dreamerVars, bootstrapVars,
                         skillVars, nodeVars, feedVars, noteVars, viewVars, producerVars,
                         deskVars, conduitVars, promptVars>>
               PROVE  SelfInv'
    OBVIOUS
  <2>1. /\ [BootstrapNext]_bootstrapVars /\ [ConduitSelfNext]_conduitVars
        /\ [ProducersNext]_producerVars /\ [DeskNext]_deskVars /\ [NodesNext]_nodeVars
        /\ [SkillsNext]_skillVars
    BY DEF TuringNext
  <2>2. BootInv' /\ PerceptionInv' /\ ProducerInv'
    BY <2>1, BootStep, PerceptionStep, ProducerStep
  <2>3. DeskInv' /\ NodesInv' /\ SkillsInv'
    BY <2>1, DeskStep, NodesStep, SkillsStep
  <2> QED
    BY <2>2, <2>3
<1>3. SelfInv => SelfIsSound
  BY BootInvHolds, PerceptionInvHolds, ProducerInvHolds, DeskInvHolds, NodesInvHolds,
     SkillsInvHolds DEF SelfIsSound
<1> QED
  BY <1>1, <1>2, <1>3, PTL DEF TuringSpec
=============================================================================

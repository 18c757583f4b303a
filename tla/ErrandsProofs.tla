--------------------------- MODULE ErrandsProofs ---------------------------
(***************************************************************************)
(* The errands of Stronghold for any skills, servers, tokens, turns,       *)
(* reviews, calls, tasks, battles, commits, deliveries, outcomes, replicas *)
(* and replies: the shelf and the watched skill (SkillCatalog), the        *)
(* cluster's servers and tokens (McpAccess), what turns and reviews teach  *)
(* (Learnings), the starts of a process (Lifespan), the agents'            *)
(* strategies, tool calls and worktrees (Tooling), guest peers, delegated  *)
(* tasks, their queue and pool (Delegation), schedules and webhooks        *)
(* (TaskSources), tournament and reports (Standings).  Each theorem is     *)
(* about its part's own specification, the last two about the parts        *)
(* together.                                                               *)
(***************************************************************************)
EXTENDS MCErrands, SetLemmas, SequenceTheorems

-----------------------------------------------------------------------------
(* The shelf of skills                                                      *)

SkillRecords ==
    [tier : {"t0", "t1", "t2", "t3"} \cup InstallTiers, text : Texts \cup {RepairOf[t] : t \in Texts}]

ShelfTypeOK ==
    /\ shelf \in [Scopes -> SkillRecords \cup {NoSkillThere}]
    /\ skillVersions \in [Scopes -> Seq(SkillRecords)]
    /\ skillFile \in [{"forged", "community"} -> Texts \cup {NoText}]
    /\ mutation # NoMutation => mutation.dir \in {"forged", "community"}

VettedStay(h) ==
    \A m, n \in 1..Len(h) : m < n /\ h[m].tier \in Vetted => h[n].tier \in Vetted
Recent(h) == IF h = <<>> THEN NoSkillThere ELSE h[Len(h)]
NoneHopeless(h) == \A n \in 1..Len(h) : Quality[h[n].text] # "hopeless"

ShelfInv ==
    /\ ShelfTypeOK
    /\ \A s \in Scopes \ handled : shelf[s] = Recent(skillVersions[s]) /\ VettedStay(skillVersions[s])
    /\ \A o \in SkillOrgs : NoneHopeless(skillVersions[o])
    /\ \A d \in {"forged", "community"} : skillFile[d] # NoText => Scanned(skillFile[d])

LEMMA ShelfInitially == ShelfInit => ShelfInv
<1> SUFFICES ASSUME ShelfInit PROVE ShelfInv
  OBVIOUS
<1>1. <<>> \in Seq(SkillRecords) /\ Len(<<>>) = 0
  OBVIOUS
<1>2. ShelfTypeOK
  BY <1>1 DEF ShelfInit, ShelfTypeOK
<1>3. SkillOrgs \subseteq Scopes
  BY DEF Scopes
<1> QED
  BY <1>1, <1>2, <1>3 DEF ShelfInit, ShelfInv, Recent, VettedStay, NoneHopeless

\* A version is added to a history.
LEMMA HistoryGrows ==
  ASSUME NEW h \in Seq(SkillRecords), NEW k \in SkillRecords
  PROVE  /\ Append(h, k) \in Seq(SkillRecords) /\ Recent(Append(h, k)) = k
         /\ VettedStay(h) /\ (Recent(h).tier \in Vetted => k.tier \in Vetted)
                => VettedStay(Append(h, k))
         /\ NoneHopeless(h) /\ Quality[k.text] # "hopeless" => NoneHopeless(Append(h, k))
<1> DEFINE g == Append(h, k)
<1>1. /\ g \in Seq(SkillRecords) /\ Len(g) = Len(h) + 1 /\ Len(h) \in Nat /\ g[Len(h) + 1] = k
      /\ \A n \in 1..Len(h) : g[n] = h[n]
  OBVIOUS
<1>2. g # <<>> /\ Recent(g) = k
  BY <1>1 DEF Recent
<1> HIDE DEF g
<1>3. ASSUME VettedStay(h), Recent(h).tier \in Vetted => k.tier \in Vetted PROVE VettedStay(g)
  <2>1. ASSUME NEW m \in 1..Len(g), NEW n \in 1..Len(g), m < n, g[m].tier \in Vetted
        PROVE  g[n].tier \in Vetted
    <3>1. m \in 1..Len(h) /\ h[m].tier \in Vetted
      BY <1>1, <2>1
    <3>2. CASE n \in 1..Len(h)
      BY <1>1, <1>3, <2>1, <3>1, <3>2 DEF VettedStay
    <3>3. CASE n = Len(h) + 1
      <4>1. h # <<>> /\ Recent(h) = h[Len(h)] /\ Len(h) \in 1..Len(h)
        BY <1>1, <3>1 DEF Recent
      <4>2. h[Len(h)].tier \in Vetted
        <5>1. CASE m = Len(h)
          BY <3>1, <5>1
        <5>2. CASE m < Len(h)
          BY <1>3, <3>1, <4>1, <5>2 DEF VettedStay
        <5> QED
          BY <1>1, <3>1, <5>1, <5>2
      <4> QED
        BY <1>1, <1>3, <3>3, <4>1, <4>2
    <3> QED
      BY <1>1, <2>1, <3>2, <3>3
  <2> QED
    BY <2>1 DEF VettedStay
<1>4. NoneHopeless(h) /\ Quality[k.text] # "hopeless" => NoneHopeless(g)
  BY <1>1 DEF NoneHopeless
<1> QED
  BY <1>1, <1>2, <1>3, <1>4 DEF g

\* What register() does to the shelf.
LEMMA Registers ==
  ASSUME ShelfInv, NEW k \in SkillRecords, NEW org \in Scopes, RegisterSkill(k, org),
         org # "global" => Quality[k.text] # "hopeless", UNCHANGED handled
  PROVE  /\ shelf' \in [Scopes -> SkillRecords \cup {NoSkillThere}]
         /\ skillVersions' \in [Scopes -> Seq(SkillRecords)]
         /\ \A s \in Scopes \ handled' :
                shelf'[s] = Recent(skillVersions'[s]) /\ VettedStay(skillVersions'[s])
         /\ \A o \in SkillOrgs : NoneHopeless(skillVersions'[o])
<1> USE ShelfAssumption
<1>1. PICK s : s = IF k.tier = "t0" THEN "global" ELSE org
  OBVIOUS
<1>2. s \in Scopes /\ (s # "global" => s = org)
  BY <1>1 DEF Scopes
<1>3. CASE Refused(shelf[s], k)
  <2>1. UNCHANGED <<shelf, skillVersions>>
    BY <1>1, <1>3 DEF RegisterSkill
  <2> QED
    BY <2>1 DEF ShelfInv, ShelfTypeOK
<1>4. CASE ~Refused(shelf[s], k)
  <2>1. /\ shelf' = [shelf EXCEPT ![s] = k]
        /\ skillVersions' = [skillVersions EXCEPT ![s] = Append(@, k)]
    BY <1>1, <1>4 DEF RegisterSkill
  <2>2. PICK h \in Seq(SkillRecords) : h = skillVersions[s]
    BY <1>2 DEF ShelfInv, ShelfTypeOK
  <2>3. /\ shelf' \in [Scopes -> SkillRecords \cup {NoSkillThere}] /\ shelf'[s] = k
        /\ \A x \in Scopes \ {s} : shelf'[x] = shelf[x]
    BY <1>2, <2>1 DEF ShelfInv, ShelfTypeOK
  <2>4. /\ Append(h, k) \in Seq(SkillRecords) /\ Recent(Append(h, k)) = k
        /\ VettedStay(h) /\ (Recent(h).tier \in Vetted => k.tier \in Vetted)
               => VettedStay(Append(h, k))
        /\ NoneHopeless(h) /\ Quality[k.text] # "hopeless" => NoneHopeless(Append(h, k))
    BY HistoryGrows
  <2>5. /\ skillVersions' \in [Scopes -> Seq(SkillRecords)] /\ skillVersions'[s] = Append(h, k)
        /\ \A x \in Scopes \ {s} : skillVersions'[x] = skillVersions[x]
    BY <1>2, <2>1, <2>2, <2>4 DEF ShelfInv, ShelfTypeOK
  <2>6. shelf[s].tier \in Vetted => k.tier \in Vetted
    BY <1>4 DEF Refused
  <2>7. ASSUME NEW x \in Scopes \ handled'
        PROVE  shelf'[x] = Recent(skillVersions'[x]) /\ VettedStay(skillVersions'[x])
    <3>1. CASE x = s
      <4>1. shelf[s] = Recent(h) /\ VettedStay(h)
        BY <2>2, <2>7, <3>1 DEF ShelfInv
      <4> QED
        BY <2>3, <2>4, <2>5, <2>6, <3>1, <4>1
    <3>2. CASE x # s
      BY <2>3, <2>5, <2>7, <3>2 DEF ShelfInv
    <3> QED
      BY <3>1, <3>2
  <2>8. ASSUME NEW o \in SkillOrgs PROVE NoneHopeless(skillVersions'[o])
    <3>1. o \in Scopes /\ o # "global"
      BY DEF Scopes
    <3>2. CASE o = s
      <4>1. org # "global" /\ NoneHopeless(h)
        BY <1>2, <2>2, <3>1, <3>2 DEF ShelfInv
      <4>2. Quality[k.text] # "hopeless"
        BY <4>1
      <4> QED
        BY <2>4, <2>5, <3>2, <4>1, <4>2
    <3>3. CASE o # s
      BY <2>5, <3>1, <3>3 DEF ShelfInv
    <3> QED
      BY <3>2, <3>3
  <2> QED
    BY <2>3, <2>5, <2>7, <2>8
<1> QED
  BY <1>3, <1>4

LEMMA ShelfStep == ShelfInv /\ [ShelfNext]_shelfVars => ShelfInv'
<1> SUFFICES ASSUME ShelfInv, [ShelfNext]_shelfVars PROVE ShelfInv'
  OBVIOUS
<1> USE ShelfAssumption
<1>1. SkillOrgs \subseteq Scopes /\ "global" \in Scopes
  BY DEF Scopes
<1>2. ASSUME NEW k \in SkillRecords, NEW org \in Scopes, RegisterSkill(k, org), UNCHANGED handled,
             org # "global" => Quality[k.text] # "hopeless",
             skillFile' \in [{"forged", "community"} -> Texts \cup {NoText}],
             mutation' # NoMutation => mutation'.dir \in {"forged", "community"},
             \A d \in {"forged", "community"} : skillFile'[d] # NoText => Scanned(skillFile'[d])
      PROVE  ShelfInv'
  BY <1>2, Registers DEF ShelfInv, ShelfTypeOK
<1>3. ASSUME UNCHANGED <<skillFile, mutation>>
      PROVE  /\ skillFile' \in [{"forged", "community"} -> Texts \cup {NoText}]
             /\ mutation' # NoMutation => mutation'.dir \in {"forged", "community"}
             /\ \A d \in {"forged", "community"} : skillFile'[d] # NoText => Scanned(skillFile'[d])
  BY <1>3 DEF ShelfInv, ShelfTypeOK
<1>4. ASSUME UNCHANGED <<shelf, skillVersions, handled>>,
             skillFile' \in [{"forged", "community"} -> Texts \cup {NoText}],
             mutation' # NoMutation => mutation'.dir \in {"forged", "community"},
             \A d \in {"forged", "community"} : skillFile'[d] # NoText => Scanned(skillFile'[d])
      PROVE  ShelfInv'
  BY <1>4 DEF ShelfInv, ShelfTypeOK
<1>5. ASSUME NEW t \in Texts, NEW tier \in Vetted, Seed(tier, t) PROVE ShelfInv'
  <2>1. PICK k : k = [tier |-> tier, text |-> t]
    OBVIOUS
  <2>2. k \in SkillRecords
    BY <2>1 DEF SkillRecords, Vetted
  <2>3. RegisterSkill(k, "global") /\ UNCHANGED <<skillFile, mutation, handled>>
    BY <1>5, <2>1 DEF Seed
  <2> QED
    BY <1>1, <1>2, <1>3, <2>2, <2>3
<1>6. ASSUME NEW t \in Texts, NEW o \in SkillOrgs, NEW tier \in {"t1", "t2"},
             UpdateSkill(o, tier, t)
      PROVE  ShelfInv'
  <2>1. PICK s : s = IF shelf[o] # NoSkillThere THEN o ELSE "global"
    OBVIOUS
  <2>2. /\ shelf' = [shelf EXCEPT ![s] = [tier |-> tier, text |-> t]] /\ s \in Scopes
        /\ handled' = handled \cup {s} /\ UNCHANGED <<skillVersions, skillFile, mutation>>
    BY <1>1, <1>6, <2>1 DEF UpdateSkill
  <2>3. [tier |-> tier, text |-> t] \in SkillRecords
    BY DEF SkillRecords
  <2>4. /\ shelf' \in [Scopes -> SkillRecords \cup {NoSkillThere}]
        /\ \A x \in Scopes \ {s} : shelf'[x] = shelf[x]
    BY <2>2, <2>3 DEF ShelfInv, ShelfTypeOK
  <2> QED
    BY <2>2, <2>4 DEF ShelfInv, ShelfTypeOK
<1>7. ASSUME NEW t \in Texts, NEW o \in SkillOrgs, Import(o, t) PROVE ShelfInv'
  <2>1. PICK i : i = Imported(t)
    OBVIOUS
  <2>2. i # NoText /\ RegisterSkill([tier |-> "t2", text |-> i], o)
        /\ UNCHANGED <<skillFile, mutation, handled>>
    BY <1>7, <2>1 DEF Import
  <2>3. i \in Texts \cup {RepairOf[u] : u \in Texts} /\ Quality[i] # "hopeless"
    <3>1. CASE Quality[t] = "clean"
      BY <2>1, <3>1 DEF Imported
    <3>2. CASE Quality[t] \in {"repairable", "leaky"}
      <4>1. i = RepairOf[t]
        BY <2>1, <3>2 DEF Imported
      <4> QED
        BY <3>2, <4>1
    <3>3. CASE Quality[t] \notin {"clean", "repairable", "leaky"}
      BY <2>1, <2>2, <3>3 DEF Imported
    <3> QED
      BY <3>1, <3>2, <3>3
  <2>4. PICK k : k = [tier |-> "t2", text |-> i]
    OBVIOUS
  <2>5. k \in SkillRecords /\ k.text = i
    BY <2>3, <2>4 DEF SkillRecords
  <2> QED
    BY <1>1, <1>2, <1>3, <2>2, <2>3, <2>4, <2>5
<1>8. ASSUME NEW o \in SkillOrgs, NEW n, Rollback(o, n) PROVE ShelfInv'
  <2>1. PICK s : s = IF skillVersions[o] # <<>> THEN o ELSE "global"
    OBVIOUS
  <2>2. PICK h \in Seq(SkillRecords) : h = skillVersions[s] /\ s \in Scopes
    BY <1>1, <2>1 DEF ShelfInv, ShelfTypeOK
  <2>3. PICK k : k = h[n]
    OBVIOUS
  <2>4. /\ n \in 1..Len(h) /\ shelf' = [shelf EXCEPT ![s] = k]
        /\ skillVersions' = [skillVersions EXCEPT ![s] = Append(h, k)]
        /\ handled' = handled \cup {s} /\ UNCHANGED <<skillFile, mutation>>
    BY <1>8, <2>1, <2>2, <2>3 DEF Rollback
  <2>5. k \in SkillRecords
    BY <2>2, <2>3, <2>4
  <2>6. /\ shelf' \in [Scopes -> SkillRecords \cup {NoSkillThere}]
        /\ \A x \in Scopes \ {s} : shelf'[x] = shelf[x]
    BY <2>2, <2>4, <2>5 DEF ShelfInv, ShelfTypeOK
  <2>7. /\ Append(h, k) \in Seq(SkillRecords)
        /\ NoneHopeless(h) /\ Quality[k.text] # "hopeless" => NoneHopeless(Append(h, k))
    BY <2>5, HistoryGrows
  <2>8. /\ skillVersions' \in [Scopes -> Seq(SkillRecords)] /\ skillVersions'[s] = Append(h, k)
        /\ \A x \in Scopes \ {s} : skillVersions'[x] = skillVersions[x]
    BY <2>2, <2>4, <2>7 DEF ShelfInv, ShelfTypeOK
  <2>9. ASSUME NEW p \in SkillOrgs PROVE NoneHopeless(skillVersions'[p])
    <3>1. p \in Scopes /\ NoneHopeless(skillVersions[p])
      BY <1>1 DEF ShelfInv
    <3>2. CASE p = s
      BY <2>2, <2>3, <2>4, <2>7, <2>8, <3>1, <3>2 DEF NoneHopeless
    <3>3. CASE p # s
      BY <2>8, <3>1, <3>3
    <3> QED
      BY <3>2, <3>3
  <2> QED
    BY <2>4, <2>6, <2>8, <2>9 DEF ShelfInv, ShelfTypeOK
<1>9. ASSUME NEW t \in Texts, ForgeByRoute(t) PROVE ShelfInv'
  <2>1. PICK k : k = [tier |-> "t3", text |-> t]
    OBVIOUS
  <2>2. k \in SkillRecords
    BY <2>1 DEF SkillRecords
  <2>3. RegisterSkill(k, "global") /\ UNCHANGED <<skillFile, mutation, handled>>
    BY <1>9, <2>1 DEF ForgeByRoute
  <2> QED
    BY <1>1, <1>2, <1>3, <2>2, <2>3
<1>10. ASSUME NEW t \in Texts, ForgeFile(t) PROVE ShelfInv'
  BY <1>4, <1>10 DEF ForgeFile, ShelfInv, ShelfTypeOK
<1>11. ASSUME NEW t \in Texts, NEW tier \in InstallTiers, Install(tier, t) PROVE ShelfInv'
  <2>1. PICK k : k = [tier |-> tier, text |-> t]
    OBVIOUS
  <2>2. k \in SkillRecords
    BY <2>1 DEF SkillRecords
  <2>3. RegisterSkill(k, "global") /\ UNCHANGED <<mutation, handled>>
    BY <1>11, <2>1 DEF Install
  <2>4. /\ skillFile' \in [{"forged", "community"} -> Texts \cup {NoText}]
        /\ \A d \in {"forged", "community"} : skillFile'[d] # NoText => Scanned(skillFile'[d])
    BY <1>11 DEF Install, ShelfInv, ShelfTypeOK
  <2>5. mutation' # NoMutation => mutation'.dir \in {"forged", "community"}
    BY <2>3 DEF ShelfInv, ShelfTypeOK
  <2> QED
    BY <1>1, <1>2, <2>2, <2>3, <2>4, <2>5
<1>12. CASE Uninstall
  <2>1. /\ skillFile' \in [{"forged", "community"} -> Texts \cup {NoText}]
        /\ \A d \in {"forged", "community"} : skillFile'[d] # NoText => Scanned(skillFile'[d])
        /\ UNCHANGED <<skillVersions, mutation>>
    BY <1>12 DEF Uninstall, ShelfInv, ShelfTypeOK
  <2>2. CASE shelf["global"] # NoSkillThere
    <3>1. /\ shelf' = [shelf EXCEPT !["global"] = NoSkillThere]
          /\ handled' = handled \cup {"global"}
      BY <1>12, <2>2 DEF Uninstall, DeleteSkill
    <3>2. /\ shelf' \in [Scopes -> SkillRecords \cup {NoSkillThere}]
          /\ \A x \in Scopes \ {"global"} : shelf'[x] = shelf[x]
      BY <1>1, <3>1 DEF ShelfInv, ShelfTypeOK
    <3> QED
      BY <2>1, <3>1, <3>2 DEF ShelfInv, ShelfTypeOK
  <2>3. CASE shelf["global"] = NoSkillThere
    <3>1. UNCHANGED <<shelf, handled>>
      BY <1>12, <2>3 DEF Uninstall
    <3> QED
      BY <2>1, <3>1, <1>4 DEF ShelfInv, ShelfTypeOK
  <2> QED
    BY <2>2, <2>3
<1>13. ASSUME NEW t \in Texts, Fix(t) PROVE ShelfInv'
  BY <1>3, <1>4, <1>13 DEF Fix
<1>14. CASE BeginMutation
  <2>1. mutation'.dir \in {"forged", "community"}
    BY <1>14 DEF BeginMutation, FileServed
  <2> QED
    BY <1>4, <1>14, <2>1 DEF BeginMutation, ShelfInv, ShelfTypeOK
<1>15. ASSUME NEW t \in Texts, EndMutation(t) PROVE ShelfInv'
  <2>1. mutation.dir \in {"forged", "community"} /\ mutation' = NoMutation
        /\ UNCHANGED <<shelf, skillVersions, handled>>
    BY <1>15 DEF EndMutation, ShelfInv, ShelfTypeOK
  <2>2. /\ skillFile' \in [{"forged", "community"} -> Texts \cup {NoText}]
        /\ \A d \in {"forged", "community"} : skillFile'[d] # NoText => Scanned(skillFile'[d])
    BY <1>15, <2>1 DEF EndMutation, ShelfInv, ShelfTypeOK
  <2> QED
    BY <1>4, <2>1, <2>2
<1>16. CASE UNCHANGED shelfVars
  BY <1>3, <1>4, <1>16 DEF shelfVars
<1> QED
  BY <1>5, <1>6, <1>7, <1>8, <1>9, <1>10, <1>11, <1>12, <1>13, <1>14, <1>15, <1>16 DEF ShelfNext

LEMMA ShelfInvHolds == ShelfInv => ShelfIsSound
BY DEF ShelfInv, ShelfTypeOK, ShelfIsSound, HistoryHolds, OnlyScannedTexts, Recent, VettedStay,
       NoneHopeless

\* For any organisations, texts and tiers: a skill file on disk passed the scan, no hopeless text
\* is in an organisation's history, and in a scope that nobody updated, deleted or rolled back
\* the history tells what is registered, with vetted versions only after a vetted one.
THEOREM ShelfIsAlwaysSound == ShelfSpec => []ShelfIsSound
<1>1. ShelfInit => ShelfInv
  BY ShelfInitially
<1>2. ShelfInv /\ [ShelfNext]_shelfVars => ShelfInv'
  BY ShelfStep
<1>3. ShelfInv => ShelfIsSound
  BY ShelfInvHolds
<1> QED
  BY <1>1, <1>2, <1>3, PTL DEF ShelfSpec

-----------------------------------------------------------------------------
(* The watched skill                                                        *)

\* What the watcher has read is what the file holds, unless the file is newer than the time it
\* saw first; and that time is newer than the one noted.
WatchInv ==
    /\ stamp \in Nat /\ seenStamp \in Int /\ seenStamp <= stamp /\ stamp > 0
    /\ loader.does \in {"read", "stat", "rest"} /\ (loader.does = "rest" <=> loader = AtRest)
    /\ watcher.does \in {"rest", "read", "drop", "add", "note"}
    /\ watcher.does = "rest" <=> watcher = AtRest
    /\ watcher \in [does : {"rest", "read", "drop", "add", "note"}, stamp : Int, text : Int]
    /\ loader.does # "rest" => watcher.does = "rest" /\ seenStamp < stamp
    /\ loader.does = "read" => ~loadRaced
    /\ loader.does = "stat" /\ ~loadRaced /\ skillText # NoFile =>
           skillText # Broken /\ entry = skillText
    /\ loader.does = "rest" /\ watcher.does = "rest" /\ seenStamp = stamp /\ ~loadRaced
           /\ skillText # NoFile => skillText # Broken /\ entry = skillText
    /\ watcher.does # "rest" => seenStamp < watcher.stamp /\ watcher.stamp <= stamp
    /\ watcher.does \in {"drop", "add", "note"} /\ watcher.stamp = stamp /\ skillText # NoFile =>
           skillText # Broken /\ watcher.text = skillText
    /\ watcher.does = "note" => entry = watcher.text
    /\ skillText \in Int

LEMMA WatchInitially == WatchInit => WatchInv
<1> SUFFICES ASSUME WatchInit PROVE WatchInv
  OBVIOUS
<1>1. loader = [does |-> "read", stamp |-> 0, text |-> NoEntry] /\ watcher = AtRest
  BY SMTT(30) DEF WatchInit, AtRest
<1> QED
  BY <1>1 DEF WatchInit, WatchInv, AtRest, NoEntry, Broken

LEMMA WatchStep == WatchInv /\ [WatchNext]_watchVars => WatchInv'
<1> SUFFICES ASSUME WatchInv, [WatchNext]_watchVars PROVE WatchInv'
  OBVIOUS
<1> USE DEF WatchInv
<1>1. ASSUME NEW text \in {"whole", "part", "broken"}, Write(text) PROVE WatchInv'
  <2>1. stamp' = stamp + 1 /\ UNCHANGED <<entry, seenStamp, loader, watcher>>
    BY <1>1 DEF Write
  <2>2. skillText' \in Int /\ loadRaced' = (loadRaced \/ loader.does = "stat")
    BY <1>1 DEF Write, Partial, Broken
  <2>3. loader.does = "stat" => loadRaced'
    BY <2>2
  <2>4. loader.does = "read" => ~loadRaced'
    BY <2>2
  <2> QED
    BY <2>1, <2>2, <2>3, <2>4
<1>2. CASE LoadText
  <2>1. loader.does = "read" /\ UNCHANGED <<skillText, stamp, seenStamp, watcher, loadRaced>>
    BY <1>2 DEF LoadText
  <2>2. CASE skillText \in {Broken, NoFile}
    <3>1. loader' = AtRest /\ UNCHANGED entry
      BY <1>2, <2>2 DEF LoadText
    <3>2. loader'.does = "rest"
      BY <3>1 DEF AtRest
    <3> QED
      BY <2>1, <3>1, <3>2
  <2>3. CASE skillText \notin {Broken, NoFile}
    <3>1. loader' = [AtRest EXCEPT !.does = "stat"] /\ entry' = skillText
      BY <1>2, <2>3 DEF LoadText
    <3>2. loader'.does = "stat" /\ AtRest.does = "rest"
      BY <3>1 DEF AtRest
    <3> QED
      BY <2>1, <2>3, <3>1, <3>2
  <2> QED
    BY <2>2, <2>3
<1>3. CASE LoadStamp
  <2>1. /\ loader.does = "stat" /\ loader' = AtRest
        /\ seenStamp' = IF skillText = NoFile THEN seenStamp ELSE stamp
        /\ UNCHANGED <<skillText, stamp, entry, watcher, loadRaced>>
    BY <1>3 DEF LoadStamp
  <2>2. loader'.does = "rest"
    BY <2>1 DEF AtRest
  <2> QED
    BY <2>1, <2>2
<1>4. CASE LookAtStamp
  <2>1. /\ loader = AtRest /\ watcher = AtRest /\ stamp > seenStamp
        /\ watcher' = [AtRest EXCEPT !.does = "read", !.stamp = stamp]
        /\ UNCHANGED <<skillText, stamp, entry, seenStamp, loader, loadRaced>>
    BY <1>4 DEF LookAtStamp
  <2>2. watcher' = [does |-> "read", stamp |-> stamp, text |-> NoEntry] /\ AtRest.does = "rest"
    BY <2>1 DEF AtRest
  <2> QED
    BY <2>1, <2>2 DEF NoEntry
<1>5. CASE ReadText
  <2>1. watcher.does = "read" /\ UNCHANGED <<skillText, stamp, entry, seenStamp, loader, loadRaced>>
    BY <1>5 DEF ReadText
  <2>2. CASE skillText \in {Broken, NoFile}
    <3>1. watcher' = AtRest
      BY <1>5, <2>2 DEF ReadText
    <3>2. watcher'.does = "rest" /\ watcher' \in [does : {"rest", "read", "drop", "add", "note"}, stamp : Int, text : Int]
      BY <3>1 DEF AtRest, NoEntry
    <3> QED
      BY <2>1, <3>1, <3>2
  <2>3. CASE skillText \notin {Broken, NoFile}
    <3>1. watcher' = [watcher EXCEPT !.does = "drop", !.text = skillText]
      BY <1>5, <2>3 DEF ReadText
    <3>2. /\ watcher'.does = "drop" /\ watcher'.stamp = watcher.stamp /\ watcher'.text = skillText
          /\ watcher' \in [does : {"rest", "read", "drop", "add", "note"}, stamp : Int, text : Int]
          /\ AtRest.does = "rest"
      BY <3>1 DEF AtRest
    <3> QED
      BY <2>1, <2>3, <3>2
  <2> QED
    BY <2>2, <2>3
<1>6. CASE DropEntry
  <2>1. /\ watcher.does = "drop" /\ watcher' = [watcher EXCEPT !.does = "add"]
        /\ UNCHANGED <<skillText, stamp, seenStamp, loader, loadRaced>>
    BY <1>6 DEF DropEntry
  <2>2. /\ watcher'.does = "add" /\ watcher'.stamp = watcher.stamp /\ watcher'.text = watcher.text
        /\ watcher' \in [does : {"rest", "read", "drop", "add", "note"}, stamp : Int, text : Int]
        /\ AtRest.does = "rest"
    BY <2>1 DEF AtRest
  <2> QED
    BY <2>1, <2>2
<1>7. CASE AddEntry
  <2>1. /\ watcher.does = "add" /\ entry' = watcher.text
        /\ watcher' = [watcher EXCEPT !.does = "note"]
        /\ UNCHANGED <<skillText, stamp, seenStamp, loader, loadRaced>>
    BY <1>7 DEF AddEntry
  <2>2. /\ watcher'.does = "note" /\ watcher'.stamp = watcher.stamp /\ watcher'.text = watcher.text
        /\ watcher' \in [does : {"rest", "read", "drop", "add", "note"}, stamp : Int, text : Int]
        /\ AtRest.does = "rest"
    BY <2>1 DEF AtRest
  <2> QED
    BY <2>1, <2>2
<1>8. CASE NoteStamp
  <2>1. /\ watcher.does = "note" /\ seenStamp' = watcher.stamp /\ watcher' = AtRest
        /\ UNCHANGED <<skillText, stamp, entry, loader, loadRaced>>
    BY <1>8 DEF NoteStamp
  <2>2. /\ watcher'.does = "rest"
        /\ watcher' \in [does : {"rest", "read", "drop", "add", "note"}, stamp : Int, text : Int]
    BY <2>1 DEF AtRest, NoEntry
  <2> QED
    BY <2>1, <2>2
<1>9. CASE UNCHANGED watchVars
  BY <1>9 DEF watchVars
<1>10. CASE RemoveFile
  <2>1. skillText' = NoFile /\ NoFile \in Int
    BY <1>10 DEF RemoveFile, NoFile
  <2> QED
    BY <1>10, <2>1 DEF RemoveFile
<1> QED
  BY <1>1, <1>2, <1>3, <1>4, <1>5, <1>6, <1>7, <1>8, <1>9, <1>10 DEF WatchNext

LEMMA WatchInvHolds == WatchInv => CatalogFollows
<1>1. AtRest.does = "rest"
  BY DEF AtRest
<1> QED
  BY <1>1 DEF WatchInv, CatalogFollows

\* However often a skill's file is written, whole or in part, removed and written again, and
\* however loader and watcher overlap: a watcher that is at rest and has seen the last time of
\* writing serves what was written last, unless the file was written while it was first loaded
\* or has been removed.
THEOREM CatalogAlwaysFollows == WatchSpec => []CatalogFollows
<1>1. WatchInit => WatchInv
  BY WatchInitially
<1>2. WatchInv /\ [WatchNext]_watchVars => WatchInv'
  BY WatchStep
<1>3. WatchInv => CatalogFollows
  BY WatchInvHolds
<1> QED
  BY <1>1, <1>2, <1>3, PTL DEF WatchSpec

-----------------------------------------------------------------------------
(* The servers in the cluster                                               *)

OrderSteps == {"none", "look", "replace", "create", "serve", "read", "write", "delete",
               "deleteService", "unlist"}
Orders == [does : OrderSteps, on : 0..MaxServers, read : Nat, to : {0, 1}]

McpTypeOK ==
    /\ listed \in 0..MaxServers
    /\ serverStatus \in [1..MaxServers -> {"none", "pending", "deploying", "failed", "running",
                                           "stopped", "removed"}]
    /\ cluster \in [replicas : {0 - 1, 0, 1}, version : Nat, of : 0..MaxServers]
    /\ InCluster <=> cluster.of # NoServer
    /\ service \in BOOLEAN /\ mishaps \in Nat
    /\ order \in [Operators -> Orders]
    /\ \A o \in Operators : order[o].does # "none" => order[o].on # NoServer
    /\ \A o \in Operators : order[o].does = "none" => order[o] = NoOrder

Tracked ==
    /\ listed # NoServer /\ ~unheard =>
          /\ serverStatus[listed] = "running" => cluster.replicas = 1
          /\ serverStatus[listed] = "stopped" => cluster.replicas = 0
    /\ mishaps = 0 => listed = cluster.of /\ (service <=> InCluster)

\* What the only call has done so far.
OrderInv(o) ==
    /\ order[o].on = listed
    /\ order[o].does \in {"read", "write", "delete"} => Tracked
    /\ order[o].does = "serve" => cluster.replicas = 1 /\ cluster.of = listed
    /\ mishaps = 0 =>
          /\ order[o].does = "look" => (service <=> InCluster)
          /\ order[o].does = "replace" => InCluster /\ service
          /\ order[o].does = "create" => ~InCluster /\ ~service
          /\ order[o].does \in {"deleteService", "unlist"} => ~InCluster
          /\ order[o].does = "unlist" => ~service
Busy(o) ==
    /\ order[o].does # "none" /\ OrderInv(o)
    /\ \A p \in Operators \ {o} : order[p] = NoOrder

\* As long as calls come one at a time nobody is at work, and all is as it is said to be, or
\* one operator is, and has done what its step says.
McpInv ==
    /\ McpTypeOK
    /\ ~crossed => (Quiet /\ Tracked) \/ \E o \in Operators : Busy(o)

LEMMA NoOrderIsOne == NoOrder \in Orders /\ NoOrder.does = "none" /\ NoOrder.on = NoServer
BY McpAssumption DEF NoOrder, Orders, OrderSteps, NoServer

LEMMA McpInitially == McpInit => McpInv
<1> SUFFICES ASSUME McpInit PROVE McpInv
  OBVIOUS
<1>1. /\ cluster = [replicas |-> 0 - 1, version |-> 0, of |-> 0] /\ 0 \in 0..MaxServers
      /\ \A o \in Operators : order[o] = NoOrder
      /\ NoServer = 0 /\ listed = 0 /\ service = FALSE /\ mishaps = 0
  BY McpAssumption DEF McpInit, Gone, NoServer
<1>2. ~InCluster
  BY <1>1 DEF InCluster
<1>3. order \in [Operators -> Orders]
  BY NoOrderIsOne DEF McpInit
<1>4. serverStatus \in [1..MaxServers -> {"none", "pending", "deploying", "failed", "running",
                                           "stopped", "removed"}]
  BY DEF McpInit
<1>5. cluster \in [replicas : {0 - 1, 0, 1}, version : Nat, of : 0..MaxServers] /\ cluster.of = 0
  BY <1>1
<1>6. McpTypeOK
  BY <1>1, <1>2, <1>3, <1>4, <1>5, NoOrderIsOne DEF McpTypeOK
<1>7. Quiet /\ Tracked
  BY <1>1, <1>2, <1>5 DEF Quiet, Tracked
<1> QED
  BY <1>6, <1>7 DEF McpInv

\* Whoever is at a step is the only one.
LEMMA OnlyOneIsBusy ==
  ASSUME McpInv, ~crossed, NEW o \in Operators, order[o].does # "none"
  PROVE  Busy(o)
<1>1. NoOrder.does = "none"
  BY DEF NoOrder
<1>2. ~Quiet
  BY <1>1 DEF Quiet
<1>3. PICK q \in Operators : Busy(q)
  BY <1>2 DEF McpInv
<1>4. q = o
  BY <1>1, <1>3 DEF Busy
<1> QED
  BY <1>3, <1>4

\* The order of one operator changes.
LEMMA OrderChanges ==
  ASSUME McpTypeOK, NEW o \in Operators, NEW r \in Orders, order' = [order EXCEPT ![o] = r],
         r.does # "none" => r.on # NoServer, r.does = "none" => r = NoOrder
  PROVE  /\ order' \in [Operators -> Orders] /\ order'[o] = r
         /\ \A p \in Operators \ {o} : order'[p] = order[p]
         /\ \A p \in Operators : order'[p].does # "none" => order'[p].on # NoServer
         /\ \A p \in Operators : order'[p].does = "none" => order'[p] = NoOrder
BY DEF McpTypeOK

\* A step of a call, or its end.
LEMMA CallGoesOn ==
  ASSUME McpInv, NEW o \in Operators, NEW does \in OrderSteps \ {"none"}, Goes(o, does),
         order[o].does # "none"
  PROVE  /\ order' \in [Operators -> Orders]
         /\ order'[o] = [order[o] EXCEPT !.does = does]
         /\ order'[o].does = does /\ order'[o].on = order[o].on /\ order'[o].to = order[o].to
         /\ \A p \in Operators \ {o} : order'[p] = order[p]
         /\ \A p \in Operators : order'[p].does # "none" => order'[p].on # NoServer
         /\ \A p \in Operators : order'[p].does = "none" => order'[p] = NoOrder
<1>1. PICK r : r = [order[o] EXCEPT !.does = does]
  OBVIOUS
<1>2. r \in Orders /\ r.does = does /\ r.on = order[o].on /\ r.to = order[o].to
  BY <1>1, ZenonT(60) DEF McpInv, McpTypeOK, Orders
<1>3. order' = [order EXCEPT ![o] = r]
  BY <1>1 DEF Goes
<1>4. r.on # NoServer
  BY <1>2 DEF McpInv, McpTypeOK
<1> QED
  BY <1>1, <1>2, <1>3, <1>4, OrderChanges DEF McpInv

LEMMA CallEnds ==
  ASSUME McpInv, NEW o \in Operators, Ends(o)
  PROVE  /\ order' \in [Operators -> Orders] /\ order'[o] = NoOrder
         /\ \A p \in Operators \ {o} : order'[p] = order[p]
         /\ \A p \in Operators : order'[p].does # "none" => order'[p].on # NoServer
         /\ \A p \in Operators : order'[p].does = "none" => order'[p] = NoOrder
BY NoOrderIsOne, OrderChanges DEF McpInv, Ends

\* The last step of the only call leaves things as they are said to be; ...
LEMMA EndsTracked ==
  ASSUME McpTypeOK', NEW o \in Operators, order'[o] = NoOrder,
         ~crossed' => Tracked' /\ \A p \in Operators \ {o} : order'[p] = NoOrder
  PROVE  McpInv'
BY DEF McpInv, Quiet

\* ... any other what its step says.
LEMMA GoesBusy ==
  ASSUME McpTypeOK', NEW o \in Operators, order'[o].does # "none",
         ~crossed' => OrderInv(o)' /\ \A p \in Operators \ {o} : order'[p] = NoOrder
  PROVE  McpInv'
BY DEF McpInv, Busy

Beginnings == {"look", "read", "delete"}

LEMMA BeginFacts ==
  ASSUME McpInv, NEW o \in Operators, NEW does \in Beginnings, NEW on \in 1..MaxServers,
         NEW to \in {0, 1}, Begins(o, does, on, to)
  PROVE  /\ order' \in [Operators -> Orders]
         /\ order'[o].does = does /\ order'[o].on = on
         /\ \A p \in Operators \ {o} : order'[p] = order[p]
         /\ \A p \in Operators : order'[p].does # "none" => order'[p].on # NoServer
         /\ \A p \in Operators : order'[p].does = "none" => order'[p] = NoOrder
         /\ UNCHANGED <<cluster, service, mishaps>>
         /\ ~crossed' => Quiet /\ Tracked
<1>1. PICK r : r = [does |-> does, on |-> on, read |-> 0, to |-> to]
  OBVIOUS
<1>2. r \in Orders /\ r.does = does /\ r.on = on /\ r.on # NoServer /\ r.does # "none"
  BY <1>1, McpAssumption DEF Orders, OrderSteps, Beginnings, NoServer
<1>3. order' = [order EXCEPT ![o] = r] /\ UNCHANGED <<cluster, service, mishaps>>
  BY <1>1 DEF Begins
<1>4. ASSUME ~crossed' PROVE Quiet /\ Tracked
  <2>1. ~crossed /\ Quiet
    BY <1>4 DEF Begins
  <2>2. \A q \in Operators : ~Busy(q)
    BY <2>1, NoOrderIsOne DEF Quiet, Busy
  <2> QED
    BY <2>1, <2>2 DEF McpInv
<1> QED
  BY <1>2, <1>3, <1>4, OrderChanges DEF McpInv

LEMMA McpStep == McpInv /\ [McpNext]_mcpVars => McpInv'
<1> SUFFICES ASSUME McpInv, [McpNext]_mcpVars PROVE McpInv'
  OBVIOUS
<1> USE McpAssumption, NoOrderIsOne
<1> DEFINE Status == {"none", "pending", "deploying", "failed", "running", "stopped", "removed"}
<1>0. McpTypeOK
  BY DEF McpInv
<1>1. ASSUME NEW o \in Operators, Deploy(o) PROVE McpInv'
  <2>1. PICK n \in 1..MaxServers : n = Fresh
    BY <1>1 DEF Deploy, Fresh
  <2>2. /\ listed' = n /\ serverStatus' = [serverStatus EXCEPT ![n] = "pending"]
        /\ Begins(o, "look", n, 1)
    BY <1>1, <2>1 DEF Deploy
  <2>3. /\ order' \in [Operators -> Orders]
        /\ order'[o].does = "look" /\ order'[o].on = n
        /\ \A p \in Operators \ {o} : order'[p] = order[p]
        /\ \A p \in Operators : order'[p].does # "none" => order'[p].on # NoServer
        /\ \A p \in Operators : order'[p].does = "none" => order'[p] = NoOrder
        /\ UNCHANGED <<cluster, service, mishaps>>
        /\ ~crossed' => Quiet /\ Tracked
    BY <2>2, BeginFacts DEF Beginnings
  <2>4. McpTypeOK'
    BY <1>0, <2>2, <2>3 DEF McpTypeOK, InCluster, NoServer
  <2>5. ASSUME ~crossed' PROVE OrderInv(o)' /\ \A p \in Operators \ {o} : order'[p] = NoOrder
    BY <2>2, <2>3, <2>5 DEF OrderInv, Tracked, InCluster, Quiet
  <2> QED
    BY <2>3, <2>4, <2>5, GoesBusy
<1>2. ASSUME NEW o \in Operators, NEW to \in {0, 1}, NEW does \in {"read", "delete"},
             listed # NoServer, Begins(o, does, listed, to),
             UNCHANGED <<listed, serverStatus, unheard>>
      PROVE  McpInv'
  <2>1. listed \in 1..MaxServers
    BY <1>0, <1>2 DEF McpTypeOK, NoServer
  <2>2. /\ order' \in [Operators -> Orders]
        /\ order'[o].does = does /\ order'[o].on = listed
        /\ \A p \in Operators \ {o} : order'[p] = order[p]
        /\ \A p \in Operators : order'[p].does # "none" => order'[p].on # NoServer
        /\ \A p \in Operators : order'[p].does = "none" => order'[p] = NoOrder
        /\ UNCHANGED <<cluster, service, mishaps>>
        /\ ~crossed' => Quiet /\ Tracked
    BY <1>2, <2>1, BeginFacts DEF Beginnings
  <2>3. McpTypeOK'
    BY <1>0, <1>2, <2>2 DEF McpTypeOK, InCluster
  <2>4. ASSUME ~crossed' PROVE OrderInv(o)' /\ \A p \in Operators \ {o} : order'[p] = NoOrder
    <3>1. Quiet /\ Tracked
      BY <2>2, <2>4
    <3>2. Tracked'
      BY <1>2, <2>2, <3>1 DEF Tracked, InCluster
    <3> QED
      BY <1>2, <2>2, <3>1, <3>2 DEF OrderInv, Quiet
  <2> QED
    BY <2>2, <2>3, <2>4, GoesBusy
<1>3. ASSUME NEW o \in Operators, NEW to \in {0, 1}, Scale(o, to) PROVE McpInv'
  BY <1>2, <1>3 DEF Scale
<1>4. ASSUME NEW o \in Operators, Remove(o) PROVE McpInv'
  BY <1>2, <1>4 DEF Remove
\* What a step of a call that goes on or ends has in common.
<1>5. ASSUME NEW o \in Operators, order[o].does # "none", ~crossed
      PROVE  OrderInv(o) /\ \A p \in Operators \ {o} : order[p] = NoOrder
  BY <1>5, OnlyOneIsBusy DEF Busy
<1>6. ASSUME NEW o \in Operators, order[o].does # "none" PROVE order[o].on \in 1..MaxServers
  BY <1>0, <1>6 DEF McpTypeOK, Orders, NoServer
<1>7. ASSUME NEW o \in Operators, LookForDeployment(o) PROVE McpInv'
  <2>1. order[o].does = "look" /\ UNCHANGED <<listed, orders, crossed, cluster, service>>
        /\ serverStatus' = [serverStatus EXCEPT ![order[o].on] = "deploying"]
    BY <1>7 DEF LookForDeployment, Stands
  <2>2. PICK does \in {"replace", "create"} :
           /\ Goes(o, does) /\ mishaps' \in Nat /\ (mishaps' = 0 => mishaps = 0)
           /\ mishaps' = 0 => does = IF InCluster THEN "replace" ELSE "create"
    <3>1. CASE ApiAnswers /\ Goes(o, IF InCluster THEN "replace" ELSE "create")
      BY <1>0, <3>1 DEF ApiAnswers, McpTypeOK
    <3>2. CASE ApiFails /\ Goes(o, "create")
      BY <1>0, <3>2 DEF ApiFails, McpTypeOK
    <3> QED
      BY <1>7, <3>1, <3>2 DEF LookForDeployment
  <2>3. /\ order' \in [Operators -> Orders]
        /\ order'[o].does = does /\ order'[o].on = order[o].on
        /\ \A p \in Operators \ {o} : order'[p] = order[p]
        /\ \A p \in Operators : order'[p].does # "none" => order'[p].on # NoServer
        /\ \A p \in Operators : order'[p].does = "none" => order'[p] = NoOrder
    BY <2>1, <2>2, CallGoesOn DEF OrderSteps
  <2>4. McpTypeOK'
    BY <1>0, <1>6, <2>1, <2>2, <2>3 DEF McpTypeOK, InCluster
  <2>5. ASSUME ~crossed' PROVE OrderInv(o)' /\ \A p \in Operators \ {o} : order'[p] = NoOrder
    BY <1>5, <2>1, <2>2, <2>3, <2>5 DEF OrderInv, InCluster
  <2> QED
    BY <2>2, <2>3, <2>4, <2>5, GoesBusy
<1>8. ASSUME NEW o \in Operators, ReplaceDeployment(o) PROVE McpInv'
  <2>1. order[o].does = "replace"
        /\ UNCHANGED <<listed, orders, crossed, serverStatus, service>>
    BY <1>8 DEF ReplaceDeployment, Stands
  <2>2. PICK does \in {"serve", "create"} :
           /\ Goes(o, does) /\ mishaps' \in Nat /\ (mishaps' = 0 => mishaps = 0)
           /\ does = "serve" => cluster' = Written(o)
           /\ does = "create" =>
                 /\ UNCHANGED cluster \/ cluster' = Written(o)
                 /\ mishaps' = 0 => UNCHANGED cluster /\ ~InCluster
    <3>1. CASE InCluster /\ ApiAnswers /\ cluster' = Written(o) /\ Goes(o, "serve")
      BY <1>0, <3>1 DEF ApiAnswers, McpTypeOK
    <3>2. CASE /\ ApiFails \/ (~InCluster /\ ApiAnswers)
               /\ Goes(o, "create") /\ UNCHANGED cluster
      BY <1>0, <3>2 DEF ApiFails, ApiAnswers, McpTypeOK
    <3>3. CASE ApiFails /\ cluster' = Written(o) /\ Goes(o, "create")
      BY <1>0, <3>3 DEF ApiFails, McpTypeOK
    <3> QED
      BY <1>8, <3>1, <3>2, <3>3 DEF ReplaceDeployment
  <2>3. /\ order' \in [Operators -> Orders]
        /\ order'[o].does = does /\ order'[o].on = order[o].on
        /\ \A p \in Operators \ {o} : order'[p] = order[p]
        /\ \A p \in Operators : order'[p].does # "none" => order'[p].on # NoServer
        /\ \A p \in Operators : order'[p].does = "none" => order'[p] = NoOrder
    BY <2>1, <2>2, CallGoesOn DEF OrderSteps
  <2>4. /\ Written(o) \in [replicas : {0 - 1, 0, 1}, version : Nat, of : 0..MaxServers]
        /\ Written(o).replicas = 1 /\ Written(o).of = order[o].on /\ order[o].on # NoServer
    BY <1>0, <1>6, <2>1 DEF McpTypeOK, Written, NoServer
  <2>5. McpTypeOK'
    BY <1>0, <2>1, <2>2, <2>3, <2>4 DEF McpTypeOK, InCluster
  <2>6. ASSUME ~crossed' PROVE OrderInv(o)' /\ \A p \in Operators \ {o} : order'[p] = NoOrder
    BY <1>5, <2>1, <2>2, <2>3, <2>4, <2>6 DEF OrderInv, InCluster
  <2> QED
    BY <2>2, <2>3, <2>5, <2>6, GoesBusy
<1>9. ASSUME NEW o \in Operators, order[o].does # "none", Failed(o), UNCHANGED <<listed, crossed>>,
             cluster' \in [replicas : {0 - 1, 0, 1}, version : Nat, of : 0..MaxServers],
             InCluster' <=> cluster'.of # NoServer, service' \in BOOLEAN,
             mishaps' \in Nat, mishaps' > 0
      PROVE  McpInv'
  <2>1. Ends(o) /\ serverStatus' = [serverStatus EXCEPT ![order[o].on] = "failed"]
    BY <1>9 DEF Failed
  <2>2. /\ order' \in [Operators -> Orders] /\ order'[o] = NoOrder
        /\ \A p \in Operators \ {o} : order'[p] = order[p]
        /\ \A p \in Operators : order'[p].does # "none" => order'[p].on # NoServer
        /\ \A p \in Operators : order'[p].does = "none" => order'[p] = NoOrder
    BY <2>1, CallEnds
  <2>3. McpTypeOK'
    BY <1>0, <1>6, <1>9, <2>1, <2>2 DEF McpTypeOK
  <2>4. ASSUME ~crossed' PROVE Tracked' /\ \A p \in Operators \ {o} : order'[p] = NoOrder
    <3>1. order[o].on = listed /\ \A p \in Operators \ {o} : order[p] = NoOrder
      BY <1>5, <1>9, <2>4 DEF OrderInv
    <3>2. listed # NoServer => serverStatus'[listed] = "failed"
      BY <1>0, <1>6, <1>9, <2>1, <3>1 DEF McpTypeOK
    <3> QED
      BY <1>9, <2>2, <3>1, <3>2 DEF Tracked
  <2> QED
    BY <2>2, <2>3, <2>4, EndsTracked
<1>10. ASSUME NEW o \in Operators, CreateDeployment(o) PROVE McpInv'
  <2>1. order[o].does = "create" /\ UNCHANGED <<listed, orders, crossed, service>>
    BY <1>10 DEF CreateDeployment, Stands
  <2>2. CASE ~InCluster /\ ApiAnswers /\ cluster' = Written(o) /\ Goes(o, "serve")
             /\ UNCHANGED serverStatus
    <3>1. /\ order' \in [Operators -> Orders]
          /\ order'[o].does = "serve" /\ order'[o].on = order[o].on
          /\ \A p \in Operators \ {o} : order'[p] = order[p]
          /\ \A p \in Operators : order'[p].does # "none" => order'[p].on # NoServer
          /\ \A p \in Operators : order'[p].does = "none" => order'[p] = NoOrder
      BY <2>1, <2>2, CallGoesOn DEF OrderSteps
    <3>2. /\ cluster' \in [replicas : {0 - 1, 0, 1}, version : Nat, of : 0..MaxServers]
          /\ cluster'.replicas = 1 /\ cluster'.of = order[o].on /\ order[o].on # NoServer
      BY <1>0, <1>6, <2>1, <2>2 DEF McpTypeOK, Written, NoServer
    <3>3. McpTypeOK'
      BY <1>0, <2>1, <2>2, <3>1, <3>2 DEF McpTypeOK, InCluster, ApiAnswers
    <3>4. ASSUME ~crossed' PROVE OrderInv(o)' /\ \A p \in Operators \ {o} : order'[p] = NoOrder
      BY <1>5, <2>1, <2>2, <3>1, <3>2, <3>4 DEF OrderInv
    <3> QED
      BY <3>1, <3>3, <3>4, GoesBusy
  <2>3. CASE (ApiFails \/ (InCluster /\ ApiAnswers)) /\ Failed(o) /\ UNCHANGED cluster
    <3>1. CASE mishaps' = 0 /\ ~crossed
      <4>1. mishaps = 0 /\ InCluster
        BY <1>0, <2>3, <3>1 DEF ApiFails, ApiAnswers, McpTypeOK
      <4>2. ~InCluster
        BY <1>5, <2>1, <3>1, <4>1 DEF OrderInv
      <4> QED
        BY <4>1, <4>2
    <3>2. CASE mishaps' # 0
      <4>1. mishaps' \in Nat /\ mishaps' > 0
        BY <1>0, <2>3, <3>2 DEF ApiFails, ApiAnswers, McpTypeOK
      <4> QED
        BY <1>0, <1>9, <2>1, <2>3, <4>1 DEF McpTypeOK, InCluster
    <3>3. CASE crossed
      <4>1. /\ order' \in [Operators -> Orders]
            /\ \A p \in Operators : order'[p].does # "none" => order'[p].on # NoServer
            /\ \A p \in Operators : order'[p].does = "none" => order'[p] = NoOrder
        BY <2>3, CallEnds DEF Failed
      <4>2. serverStatus' = [serverStatus EXCEPT ![order[o].on] = "failed"] /\ mishaps' \in Nat
        BY <1>0, <2>3 DEF Failed, ApiFails, ApiAnswers, McpTypeOK
      <4> QED
        BY <1>0, <1>6, <2>1, <2>3, <3>3, <4>1, <4>2 DEF McpInv, McpTypeOK, InCluster
    <3> QED
      BY <3>1, <3>2, <3>3
  <2>4. CASE ApiFails /\ cluster' = Written(o) /\ Failed(o)
    <3>1. /\ cluster' \in [replicas : {0 - 1, 0, 1}, version : Nat, of : 0..MaxServers]
          /\ cluster'.replicas = 1 /\ cluster'.of = order[o].on /\ order[o].on # NoServer
      BY <1>0, <1>6, <2>1, <2>4 DEF McpTypeOK, Written, NoServer
    <3>2. mishaps' \in Nat /\ mishaps' > 0 /\ service' \in BOOLEAN
      BY <1>0, <2>1, <2>4 DEF ApiFails, McpTypeOK
    <3>3. InCluster'
      BY <3>1 DEF InCluster
    <3> QED
      BY <1>9, <2>1, <2>4, <3>1, <3>2, <3>3
  <2> QED
    BY <1>10, <2>2, <2>3, <2>4 DEF CreateDeployment
<1>11. ASSUME NEW o \in Operators, PutService(o) PROVE McpInv'
  <2>1. order[o].does = "serve" /\ UNCHANGED <<listed, orders, crossed, cluster>>
    BY <1>11 DEF PutService, Stands
  <2>2. CASE /\ ApiAnswers \/ (~service /\ ApiFails)
             /\ service' = TRUE /\ Ends(o)
             /\ serverStatus' = [serverStatus EXCEPT ![order[o].on] = "running"]
    <3>1. /\ order' \in [Operators -> Orders] /\ order'[o] = NoOrder
          /\ \A p \in Operators \ {o} : order'[p] = order[p]
          /\ \A p \in Operators : order'[p].does # "none" => order'[p].on # NoServer
          /\ \A p \in Operators : order'[p].does = "none" => order'[p] = NoOrder
      BY <2>2, CallEnds
    <3>2. McpTypeOK'
      BY <1>0, <1>6, <2>1, <2>2, <3>1 DEF McpTypeOK, InCluster, ApiAnswers, ApiFails
    <3>3. ASSUME ~crossed' PROVE Tracked' /\ \A p \in Operators \ {o} : order'[p] = NoOrder
      <4>1. order[o].on = listed /\ cluster.replicas = 1 /\ cluster.of = listed
            /\ \A p \in Operators \ {o} : order[p] = NoOrder
        BY <1>5, <2>1, <3>3 DEF OrderInv
      <4>2. listed # NoServer => serverStatus'[listed] = "running"
        BY <1>0, <1>6, <2>1, <2>2, <4>1 DEF McpTypeOK
      <4> QED
        BY <2>1, <2>2, <3>1, <4>1, <4>2 DEF Tracked, InCluster
    <3> QED
      BY <3>1, <3>2, <3>3, EndsTracked
  <2>3. CASE ApiFails /\ Failed(o) /\ service' \in {service, TRUE}
    <3>1. mishaps' \in Nat /\ mishaps' > 0
      BY <1>0, <2>3 DEF ApiFails, McpTypeOK
    <3> QED
      BY <1>0, <1>9, <2>1, <2>3, <3>1 DEF McpTypeOK, InCluster
  <2> QED
    BY <1>11, <2>2, <2>3 DEF PutService
<1>12. ASSUME NEW o \in Operators, order[o].does \in {"read", "write"}, Ends(o),
              UNCHANGED <<listed, crossed, cluster, service, serverStatus, unheard>>,
              mishaps' \in Nat, mishaps' = 0 => mishaps = 0
       PROVE  McpInv'
  <2>1. /\ order' \in [Operators -> Orders] /\ order'[o] = NoOrder
        /\ \A p \in Operators \ {o} : order'[p] = order[p]
        /\ \A p \in Operators : order'[p].does # "none" => order'[p].on # NoServer
        /\ \A p \in Operators : order'[p].does = "none" => order'[p] = NoOrder
    BY <1>12, CallEnds
  <2>2. McpTypeOK'
    BY <1>0, <1>12, <2>1 DEF McpTypeOK, InCluster
  <2>3. ASSUME ~crossed' PROVE Tracked' /\ \A p \in Operators \ {o} : order'[p] = NoOrder
    <3>1. Tracked /\ \A p \in Operators \ {o} : order[p] = NoOrder
      BY <1>5, <1>12, <2>3 DEF OrderInv
    <3> QED
      BY <1>12, <2>1, <3>1 DEF Tracked, InCluster
  <2> QED
    BY <2>1, <2>2, <2>3, EndsTracked
<1>13. ASSUME NEW o \in Operators, ReadDeployment(o) PROVE McpInv'
  <2>1. order[o].does = "read"
        /\ UNCHANGED <<listed, orders, crossed, serverStatus, cluster, service, unheard>>
    BY <1>13 DEF ReadDeployment, Stands, Heard
  <2>2. CASE /\ InCluster /\ ApiAnswers
             /\ order' = [order EXCEPT ![o].does = "write", ![o].read = cluster.version]
    <3>1. PICK r : r = [order[o] EXCEPT !.does = "write", !.read = cluster.version]
      OBVIOUS
    <3>2. r \in Orders /\ r.does = "write" /\ r.on = order[o].on /\ r.on # NoServer
      BY <1>0, <2>1, <3>1 DEF McpTypeOK, Orders, OrderSteps
    <3>3. order' = [order EXCEPT ![o] = r]
      BY <2>2, <3>1
    <3>4. /\ order' \in [Operators -> Orders] /\ order'[o] = r
          /\ \A p \in Operators \ {o} : order'[p] = order[p]
          /\ \A p \in Operators : order'[p].does # "none" => order'[p].on # NoServer
          /\ \A p \in Operators : order'[p].does = "none" => order'[p] = NoOrder
      BY <1>0, <3>2, <3>3, OrderChanges
    <3>5. McpTypeOK'
      BY <1>0, <2>1, <2>2, <3>4 DEF McpTypeOK, InCluster, ApiAnswers
    <3>6. ASSUME ~crossed' PROVE OrderInv(o)' /\ \A p \in Operators \ {o} : order'[p] = NoOrder
      <4>1. Tracked /\ order[o].on = listed /\ \A p \in Operators \ {o} : order[p] = NoOrder
        BY <1>5, <2>1, <3>6 DEF OrderInv
      <4>2. Tracked'
        BY <2>1, <2>2, <4>1 DEF Tracked, InCluster, ApiAnswers
      <4> QED
        BY <2>1, <3>2, <3>4, <4>1, <4>2 DEF OrderInv
    <3> QED
      BY <3>2, <3>4, <3>5, <3>6, GoesBusy
  <2>3. CASE (ApiFails \/ (~InCluster /\ ApiAnswers)) /\ Ends(o)
    <3>1. mishaps' \in Nat /\ (mishaps' = 0 => mishaps = 0)
      BY <1>0, <2>3 DEF ApiFails, ApiAnswers, McpTypeOK
    <3> QED
      BY <1>12, <2>1, <2>3, <3>1
  <2> QED
    BY <1>13, <2>2, <2>3 DEF ReadDeployment
<1>14. ASSUME NEW o \in Operators, WriteDeployment(o) PROVE McpInv'
  <2>1. order[o].does = "write" /\ UNCHANGED <<listed, orders, crossed, service>> /\ Ends(o)
    BY <1>14 DEF WriteDeployment, Stands
  <2>2. ASSUME InCluster, Rescaled(o), mishaps' \in Nat, mishaps' = 0 => mishaps = 0,
               \/ /\ serverStatus' = [serverStatus EXCEPT ![order[o].on] = ScaledTo(order[o].to)]
                  /\ unheard' = FALSE
               \/ unheard' = TRUE /\ UNCHANGED serverStatus
        PROVE  McpInv'
    <3>1. /\ order' \in [Operators -> Orders] /\ order'[o] = NoOrder
          /\ \A p \in Operators \ {o} : order'[p] = order[p]
          /\ \A p \in Operators : order'[p].does # "none" => order'[p].on # NoServer
          /\ \A p \in Operators : order'[p].does = "none" => order'[p] = NoOrder
      BY <2>1, CallEnds
    <3>2. order[o].to \in {0, 1} /\ ScaledTo(order[o].to) \in {"running", "stopped"}
      BY <1>0 DEF McpTypeOK, Orders, ScaledTo
    <3>3. /\ cluster' \in [replicas : {0 - 1, 0, 1}, version : Nat, of : 0..MaxServers]
          /\ cluster'.replicas = order[o].to /\ cluster'.of = cluster.of
      <4>1. PICK c : c = cluster
        OBVIOUS
      <4>2. PICK v : v = c.version + 1
        OBVIOUS
      <4>3. c \in [replicas : {0 - 1, 0, 1}, version : Nat, of : 0..MaxServers]
        BY <1>0, <4>1 DEF McpTypeOK
      <4>4. v \in Nat /\ order[o].to \in {0 - 1, 0, 1}
        BY <3>2, <4>2, <4>3
      <4>5. cluster' = [c EXCEPT !.replicas = order[o].to, !.version = v]
        BY <2>2, <4>1, <4>2 DEF Rescaled
      <4> QED
        BY <4>1, <4>3, <4>4, <4>5
    <3>4. InCluster' /\ InCluster
      BY <2>2, <3>2, <3>3 DEF InCluster
    <3>5. serverStatus' \in [1..MaxServers -> Status]
      BY <1>0, <1>6, <2>1, <2>2, <3>2 DEF McpTypeOK
    <3>6. McpTypeOK'
      BY <1>0, <2>1, <2>2, <3>1, <3>3, <3>4, <3>5 DEF McpTypeOK
    <3>7. ASSUME ~crossed' PROVE Tracked' /\ \A p \in Operators \ {o} : order'[p] = NoOrder
      <4>1. Tracked /\ order[o].on = listed /\ \A p \in Operators \ {o} : order[p] = NoOrder
        BY <1>5, <2>1, <3>7 DEF OrderInv
      <4>2. ~unheard' => serverStatus'[listed] = ScaledTo(order[o].to)
        BY <1>0, <1>6, <2>1, <2>2, <4>1 DEF McpTypeOK
      <4>3. ~unheard' => /\ serverStatus'[listed] = "running" => cluster'.replicas = 1
                         /\ serverStatus'[listed] = "stopped" => cluster'.replicas = 0
        BY <3>2, <3>3, <4>2 DEF ScaledTo
      <4> QED
        BY <2>1, <2>2, <3>1, <3>3, <3>4, <4>1, <4>3 DEF Tracked
    <3> QED
      BY <3>1, <3>6, <3>7, EndsTracked
  <2>3. CASE /\ InCluster /\ cluster.version = order[o].read /\ ApiAnswers /\ Rescaled(o)
             /\ serverStatus' = [serverStatus EXCEPT ![order[o].on] = ScaledTo(order[o].to)]
             /\ unheard' = FALSE
    BY <1>0, <2>2, <2>3 DEF ApiAnswers, McpTypeOK
  <2>4. CASE /\ InCluster /\ cluster.version = order[o].read /\ ApiFails /\ Rescaled(o)
             /\ unheard' = TRUE /\ UNCHANGED serverStatus
    BY <1>0, <2>2, <2>4 DEF ApiFails, McpTypeOK
  <2>5. CASE /\ ApiFails \/ (cluster.version # order[o].read /\ ApiAnswers)
             /\ UNCHANGED <<cluster, serverStatus, unheard>>
    <3>1. mishaps' \in Nat /\ (mishaps' = 0 => mishaps = 0)
      BY <1>0, <2>5 DEF ApiFails, ApiAnswers, McpTypeOK
    <3> QED
      BY <1>12, <2>1, <2>5, <3>1
  <2> QED
    BY <1>14, <2>3, <2>4, <2>5 DEF WriteDeployment
<1>15. ASSUME NEW o \in Operators, DeleteDeployment(o) PROVE McpInv'
  <2>1. order[o].does = "delete" /\ UNCHANGED <<listed, orders, crossed, serverStatus, service>>
        /\ Goes(o, "deleteService")
    BY <1>15 DEF DeleteDeployment, Stands
  <2>2. /\ order' \in [Operators -> Orders]
        /\ order'[o].does = "deleteService" /\ order'[o].on = order[o].on
        /\ \A p \in Operators \ {o} : order'[p] = order[p]
        /\ \A p \in Operators : order'[p].does # "none" => order'[p].on # NoServer
        /\ \A p \in Operators : order'[p].does = "none" => order'[p] = NoOrder
    BY <2>1, CallGoesOn DEF OrderSteps
  <2>3. /\ cluster' \in [replicas : {0 - 1, 0, 1}, version : Nat, of : 0..MaxServers]
        /\ InCluster' <=> cluster'.of # NoServer
        /\ mishaps' \in Nat /\ (mishaps' = 0 => ~InCluster')
    <3>1. CASE (ApiAnswers \/ ApiFails) /\ Deleted
      <4>1. cluster' = [replicas |-> 0 - 1, version |-> cluster.version + 1, of |-> 0]
        BY <3>1 DEF Deleted, Gone, NoServer
      <4>2. ~InCluster' /\ cluster'.of = NoServer
        BY <4>1 DEF InCluster, NoServer
      <4>3. cluster.version \in Nat /\ 0 \in 0..MaxServers
        BY <1>0 DEF McpTypeOK
      <4>4. PICK v \in Nat : v = cluster.version + 1
        BY <4>3
      <4>5. cluster' = [replicas |-> 0 - 1, version |-> v, of |-> 0]
        BY <4>1, <4>4
      <4>6. cluster' \in [replicas : {0 - 1, 0, 1}, version : Nat, of : 0..MaxServers]
        BY <4>3, <4>5
      <4>7. mishaps' \in Nat
        BY <1>0, <3>1 DEF McpTypeOK, ApiAnswers, ApiFails
      <4> QED
        BY <4>2, <4>6, <4>7
    <3>2. CASE ApiFails /\ UNCHANGED cluster
      BY <1>0, <3>2 DEF McpTypeOK, ApiFails, InCluster
    <3> QED
      BY <1>15, <3>1, <3>2 DEF DeleteDeployment
  <2>4. McpTypeOK'
    BY <1>0, <2>1, <2>2, <2>3 DEF McpTypeOK
  <2>5. ASSUME ~crossed' PROVE OrderInv(o)' /\ \A p \in Operators \ {o} : order'[p] = NoOrder
    BY <1>5, <2>1, <2>2, <2>3, <2>5 DEF OrderInv
  <2> QED
    BY <2>2, <2>4, <2>5, GoesBusy
<1>16. ASSUME NEW o \in Operators, DeleteService(o) PROVE McpInv'
  <2>1. order[o].does = "deleteService" /\ UNCHANGED <<listed, orders, crossed, cluster>>
        /\ Goes(o, "unlist")
        /\ serverStatus' = [serverStatus EXCEPT ![order[o].on] = "removed"]
    BY <1>16 DEF DeleteService, Stands
  <2>2. /\ order' \in [Operators -> Orders]
        /\ order'[o].does = "unlist" /\ order'[o].on = order[o].on
        /\ \A p \in Operators \ {o} : order'[p] = order[p]
        /\ \A p \in Operators : order'[p].does # "none" => order'[p].on # NoServer
        /\ \A p \in Operators : order'[p].does = "none" => order'[p] = NoOrder
    BY <2>1, CallGoesOn DEF OrderSteps
  <2>3. /\ service' \in BOOLEAN /\ mishaps' \in Nat
        /\ mishaps' = 0 => ~service' /\ mishaps = 0
    <3>1. CASE (ApiAnswers \/ ApiFails) /\ service' = FALSE
      <4>1. ~service' /\ service' \in BOOLEAN
        BY <3>1
      <4>2. mishaps' \in Nat /\ (mishaps' = 0 => mishaps = 0)
        BY <1>0, <3>1 DEF McpTypeOK, ApiAnswers, ApiFails
      <4> QED
        BY <4>1, <4>2
    <3>2. CASE ApiFails /\ UNCHANGED service
      BY <1>0, <3>2 DEF McpTypeOK, ApiFails
    <3>3. ((ApiAnswers \/ ApiFails) /\ service' = FALSE) \/ (ApiFails /\ UNCHANGED service)
      BY <1>16 DEF DeleteService
    <3> QED
      BY <3>1, <3>2, <3>3
  <2>4. McpTypeOK'
    BY <1>0, <1>6, <2>1, <2>2, <2>3 DEF McpTypeOK, InCluster
  <2>5. ASSUME ~crossed' PROVE OrderInv(o)' /\ \A p \in Operators \ {o} : order'[p] = NoOrder
    BY <1>5, <2>1, <2>2, <2>3, <2>5 DEF OrderInv, InCluster
  <2> QED
    BY <2>2, <2>4, <2>5, GoesBusy
<1>17. ASSUME NEW o \in Operators, Unlist(o) PROVE McpInv'
  <2>1. /\ order[o].does = "unlist" /\ Ends(o) /\ listed' = NoServer
        /\ UNCHANGED <<orders, crossed, serverStatus, cluster, service, mishaps, unheard>>
    BY <1>17 DEF Unlist
  <2>2. /\ order' \in [Operators -> Orders] /\ order'[o] = NoOrder
        /\ \A p \in Operators \ {o} : order'[p] = order[p]
        /\ \A p \in Operators : order'[p].does # "none" => order'[p].on # NoServer
        /\ \A p \in Operators : order'[p].does = "none" => order'[p] = NoOrder
    BY <2>1, CallEnds
  <2>3. McpTypeOK'
    BY <1>0, <2>1, <2>2 DEF McpTypeOK, InCluster, NoServer
  <2>4. ASSUME ~crossed' PROVE Tracked' /\ \A p \in Operators \ {o} : order'[p] = NoOrder
    BY <1>0, <1>5, <2>1, <2>2, <2>4 DEF OrderInv, Tracked, InCluster, McpTypeOK
  <2> QED
    BY <2>2, <2>3, <2>4, EndsTracked
<1>18. CASE ProcessRestarts
  <2>1. /\ listed' = NoServer /\ order' = [o \in Operators |-> NoOrder]
        /\ mishaps' \in Nat /\ mishaps' > 0
        /\ UNCHANGED <<serverStatus, cluster, service, orders, crossed>>
    BY <1>0, <1>18 DEF ProcessRestarts, ApiFails, McpTypeOK
  <2>2. McpTypeOK'
    BY <1>0, <2>1 DEF McpTypeOK, InCluster, NoServer
  <2>3. Quiet' /\ Tracked'
    BY <2>1 DEF Quiet, Tracked
  <2> QED
    BY <2>2, <2>3 DEF McpInv
<1>19. CASE UNCHANGED mcpVars
  BY <1>19 DEF mcpVars, McpInv, McpTypeOK, Quiet, Busy, OrderInv, Tracked, InCluster
<1> QED
  BY <1>1, <1>3, <1>4, <1>7, <1>8, <1>10, <1>11, <1>13, <1>14, <1>15, <1>16, <1>17, <1>18, <1>19
     DEF McpNext

LEMMA McpInvHolds == McpInv => ClusterIsTracked
<1> SUFFICES ASSUME McpInv, Quiet, ~crossed
             PROVE  /\ listed # NoServer /\ ~unheard =>
                          /\ serverStatus[listed] = "running" => cluster.replicas = 1
                          /\ serverStatus[listed] = "stopped" => cluster.replicas = 0
                    /\ mishaps = 0 => listed = cluster.of /\ service = InCluster
  BY DEF ClusterIsTracked
<1>1. \A o \in Operators : ~Busy(o)
  BY NoOrderIsOne DEF Quiet, Busy
<1>2. Tracked /\ service \in BOOLEAN
  BY <1>1 DEF McpInv, McpTypeOK
<1>3. InCluster \in BOOLEAN
  BY DEF InCluster
<1>4. (service <=> InCluster) => service = InCluster
  BY <1>2, <1>3
<1> QED
  BY <1>2, <1>4 DEF Tracked

\* As long as calls come one at a time the registry follows the cluster, for any number of
\* operators, servers and calls, and calls of Kubernetes that fail before or after their effect:
\* the one exception is a scaling whose answer was lost.
THEOREM ClusterIsAlwaysTracked == McpSpec => []ClusterIsTracked
<1> USE McpAssumption
<1>1. McpInit => McpInv
  BY McpInitially
<1>2. McpInv /\ [McpNext]_mcpVars => McpInv'
  BY McpStep
<1>3. McpInv => ClusterIsTracked
  BY McpInvHolds
<1> QED
  BY <1>1, <1>2, <1>3, PTL DEF McpSpec

-----------------------------------------------------------------------------
(* The tokens                                                               *)

Code == [client : OAuthClients \cup {"none"}, expires : Nat, used : BOOLEAN]
Pair == [code : 0..MaxCodes, client : OAuthClients \cup {"none"}, access : Nat, refresh : Nat,
         revoked : SUBSET {"access", "refresh"}]

\* Every pair issued is of a code that its client has used, and has no live refresh token
\* unless it is the last of its code; a code not used yet has no pair.
TokensInv ==
    /\ tokenClock \in Nat /\ issued \in 0..MaxPairs
    /\ codes \in [1..MaxCodes -> Code] /\ pairs \in [1..MaxPairs -> Pair]
    /\ \A n \in 1..issued :
          /\ pairs[n].code \in 1..MaxCodes
          /\ codes[pairs[n].code] # NoCode
          /\ codes[pairs[n].code].used
          /\ codes[pairs[n].code].client = pairs[n].client
    /\ \A n, m \in 1..issued :
          pairs[m].code = pairs[n].code /\ m < n => "refresh" \in pairs[m].revoked

LEMMA TokensInitially == TokensInit => TokensInv
<1> SUFFICES ASSUME TokensInit PROVE TokensInv
  OBVIOUS
<1>1. NoCode \in Code /\ NoPair \in Pair
  BY TokensAssumption DEF Code, Pair, NoCode, NoPair
<1>2. codes \in [1..MaxCodes -> Code] /\ pairs \in [1..MaxPairs -> Pair]
  BY <1>1 DEF TokensInit
<1>3. issued \in 0..MaxPairs /\ 1..issued = {}
  BY TokensAssumption DEF TokensInit
<1> QED
  BY <1>2, <1>3 DEF TokensInit, TokensInv

\* A pair of tokens is issued, for a code its client has used and of which every earlier pair
\* can no longer be refreshed.
LEMMA PairIssued ==
    ASSUME TokensInv, issued < MaxPairs,
           NEW c \in OAuthClients, NEW k \in 1..MaxCodes, NEW cs, NEW old,
           cs \in [1..MaxCodes -> Code], old \in [1..MaxPairs -> Pair],
           cs[k] # NoCode, cs[k].used, cs[k].client = c,
           \A n \in 1..issued : old[n].code = pairs[n].code /\ old[n].client = pairs[n].client,
           \A n \in 1..issued : "refresh" \in pairs[n].revoked => "refresh" \in old[n].revoked,
           \A n \in 1..issued : pairs[n].code = k => "refresh" \in old[n].revoked,
           \A n \in 1..issued : /\ cs[pairs[n].code] # NoCode /\ cs[pairs[n].code].used
                                /\ cs[pairs[n].code].client = codes[pairs[n].code].client,
           NEW new \in Pair, new.code = k, new.client = c,
           codes' = cs, pairs' = [old EXCEPT ![issued + 1] = new],
           issued' = issued + 1, tokenClock' = tokenClock
    PROVE  TokensInv'
<1>1. /\ issued \in Nat /\ issued + 1 \in 1..MaxPairs /\ issued' \in 0..MaxPairs
      /\ 1..issued' = (1..issued) \cup {issued + 1} /\ 1..issued \subseteq 1..MaxPairs
      /\ issued + 1 \notin 1..issued
  BY TokensAssumption DEF TokensInv
<1>2. pairs' \in [1..MaxPairs -> Pair] /\ pairs'[issued + 1] = new
  BY <1>1
<1>3. \A n \in 1..issued : pairs'[n] = old[n]
  BY <1>1
<1>4. ASSUME NEW n \in 1..issued'
      PROVE  /\ pairs'[n].code \in 1..MaxCodes
             /\ codes'[pairs'[n].code] # NoCode
             /\ codes'[pairs'[n].code].used
             /\ codes'[pairs'[n].code].client = pairs'[n].client
  <2>1. CASE n = issued + 1
    BY <1>2, <2>1
  <2>2. CASE n \in 1..issued
    BY <1>3, <2>2 DEF TokensInv
  <2> QED
    BY <1>1, <2>1, <2>2
<1>5. ASSUME NEW n \in 1..issued', NEW m \in 1..issued', pairs'[m].code = pairs'[n].code, m < n
      PROVE  "refresh" \in pairs'[m].revoked
  <2>1. m \in 1..issued
    BY <1>1, <1>5
  <2>2. pairs'[m] = old[m] /\ pairs'[m].code = pairs[m].code
    BY <1>3, <2>1
  <2>3. CASE n = issued + 1
    BY <1>2, <1>5, <2>1, <2>2, <2>3
  <2>4. CASE n \in 1..issued
    <3>1. pairs[m].code = pairs[n].code
      BY <1>3, <1>5, <2>2, <2>4
    <3> QED
      BY <1>5, <2>1, <2>2, <2>4, <3>1 DEF TokensInv
  <2> QED
    BY <1>1, <2>3, <2>4
<1> QED
  BY <1>1, <1>2, <1>4, <1>5 DEF TokensInv

LEMMA TokensStep == TokensInv /\ [TokensNext]_tokenVars => TokensInv'
<1> SUFFICES ASSUME TokensInv, [TokensNext]_tokenVars PROVE TokensInv'
  OBVIOUS
<1> USE TokensAssumption
<1>1. ASSUME NEW c \in OAuthClients, RegisterClient(c) PROVE TokensInv'
  BY <1>1 DEF RegisterClient, TokensInv
<1>2. ASSUME NEW c \in OAuthClients, NEW k \in 1..MaxCodes, Authorize(c, k) PROVE TokensInv'
  <2>1. PICK e \in Nat : e = tokenClock + CodeLife
    BY DEF TokensInv, CodeLife
  <2>2. PICK r \in Code : r = [client |-> c, expires |-> e, used |-> FALSE]
    BY DEF Code
  <2>3. codes' = [codes EXCEPT ![k] = r] /\ UNCHANGED <<pairs, issued, tokenClock>>
        /\ codes[k] = NoCode
    BY <1>2, <2>1, <2>2 DEF Authorize
  <2>4. codes' \in [1..MaxCodes -> Code] /\ \A n \in 1..MaxCodes \ {k} : codes'[n] = codes[n]
    BY <2>3 DEF TokensInv
  <2>5. \A n \in 1..issued : pairs[n].code # k
    BY <2>3 DEF TokensInv
  <2>6. \A n \in 1..issued : codes'[pairs[n].code] = codes[pairs[n].code]
    BY <2>4, <2>5 DEF TokensInv
  <2> QED
    BY <2>3, <2>4, <2>6 DEF TokensInv
<1>3. ASSUME NEW c \in OAuthClients, NEW k \in 1..MaxCodes, NEW proves \in BOOLEAN,
             ExchangeCode(c, k, proves)
      PROVE  TokensInv'
  <2>1. /\ codes[k] # NoCode /\ ~codes[k].used /\ tokenClock' = tokenClock
        /\ codes' = [codes EXCEPT ![k].used = TRUE]
    BY <1>3 DEF ExchangeCode, Consumable, Consume
  <2>2. /\ codes' \in [1..MaxCodes -> Code] /\ codes'[k].used /\ codes'[k].client = codes[k].client
        /\ \A n \in 1..MaxCodes \ {k} : codes'[n] = codes[n]
    <3>1. PICK r : r = [codes[k] EXCEPT !.used = TRUE]
      OBVIOUS
    <3>2. r \in Code /\ r.used /\ r.client = codes[k].client
      BY <3>1, ZenonT(60) DEF Code, TokensInv
    <3>3. codes' = [codes EXCEPT ![k] = r]
      BY <2>1, <3>1
    <3> QED
      BY <3>2, <3>3 DEF TokensInv
  <2>3. codes'[k] # NoCode
    BY <2>2 DEF NoCode
  <2>4. \A n \in 1..issued : pairs[n].code # k
    BY <2>1 DEF TokensInv
  <2>5. \A n \in 1..issued : codes'[pairs[n].code] = codes[pairs[n].code]
    BY <2>2, <2>4 DEF TokensInv
  <2>6. CASE codes[k].client = c /\ proves
    <3>1. issued < MaxPairs /\ issued' = issued + 1
          /\ pairs' = [pairs EXCEPT ![issued'] =
                   [code |-> k, client |-> c, access |-> tokenClock + AccessLife,
                    refresh |-> tokenClock + RefreshLife, revoked |-> {}]]
      BY <1>3, <2>6 DEF ExchangeCode, Issue
    <3>2. PICK a \in Nat : a = tokenClock + AccessLife
      BY DEF TokensInv, AccessLife
    <3>3. PICK e \in Nat : e = tokenClock + RefreshLife
      BY DEF TokensInv, RefreshLife
    <3>4. PICK new \in Pair : new = [code |-> k, client |-> c, access |-> a, refresh |-> e, revoked |-> {}]
      <4>1. k \in 0..MaxCodes /\ {} \in SUBSET {"access", "refresh"} /\ c \in OAuthClients \cup {"none"}
        OBVIOUS
      <4>2. [code |-> k, client |-> c, access |-> a, refresh |-> e, revoked |-> {}] \in Pair
        BY <4>1 DEF Pair
      <4> QED
        BY <4>2
    <3>5. pairs' = [pairs EXCEPT ![issued + 1] = new]
      BY <3>1, <3>2, <3>3, <3>4
    <3>6. \A n \in 1..issued : codes'[pairs[n].code] # NoCode /\ codes'[pairs[n].code].used
      BY <2>5 DEF TokensInv
    <3>7. new.code = k /\ new.client = c
      BY <3>4
    <3>8. pairs \in [1..MaxPairs -> Pair]
      BY DEF TokensInv
    <3>9. PICK cs : cs = codes'
      OBVIOUS
    <3>10. cs \in [1..MaxCodes -> Code] /\ cs[k] # NoCode /\ cs[k].used /\ cs[k].client = c
      BY <2>2, <2>3, <2>6, <3>9
    <3>11. \A n \in 1..issued : /\ cs[pairs[n].code] # NoCode /\ cs[pairs[n].code].used
                                 /\ cs[pairs[n].code].client = codes[pairs[n].code].client
      BY <2>5, <3>6, <3>9
    <3>12. PICK old : old = pairs
      OBVIOUS
    <3>13. old \in [1..MaxPairs -> Pair] /\ pairs' = [old EXCEPT ![issued + 1] = new]
      BY <3>5, <3>8, <3>12
    <3>14. \A n \in 1..issued :
              /\ old[n].code = pairs[n].code /\ old[n].client = pairs[n].client
              /\ "refresh" \in pairs[n].revoked => "refresh" \in old[n].revoked
              /\ pairs[n].code = k => "refresh" \in old[n].revoked
      BY <2>4, <3>12
    <3>15. issued < MaxPairs /\ issued' = issued + 1 /\ tokenClock' = tokenClock /\ codes' = cs
      BY <2>1, <3>1, <3>9
    <3> QED
      BY <3>7, <3>10, <3>11, <3>13, <3>14, <3>15, PairIssued
  <2>7. CASE ~(codes[k].client = c /\ proves)
    <3>1. UNCHANGED <<pairs, issued>>
      BY <1>3, <2>7 DEF ExchangeCode
    <3> QED
      BY <2>1, <2>2, <2>5, <3>1 DEF TokensInv
  <2> QED
    BY <2>6, <2>7
<1>4. ASSUME NEW c \in OAuthClients, NEW i \in 1..MaxPairs, Refresh(c, i) PROVE TokensInv'
  <2>1. /\ i \in 1..issued /\ pairs[i].client = c /\ "refresh" \notin pairs[i].revoked
        /\ issued < MaxPairs /\ issued' = issued + 1
        /\ UNCHANGED <<codes, tokenClock>>
    BY <1>4 DEF Refresh, TokenValid, TokensInv
  <2>2. PICK a \in Nat : a = tokenClock + AccessLife
    BY DEF TokensInv, AccessLife
  <2>3. PICK e \in Nat : e = tokenClock + RefreshLife
    BY DEF TokensInv, RefreshLife
  <2>4. PICK new : new = [code |-> pairs[i].code, client |-> c, access |-> a, refresh |-> e,
                          revoked |-> {}]
    OBVIOUS
  <2>5. PICK k \in 1..MaxCodes : k = pairs[i].code
    BY <2>1 DEF TokensInv
  <2>6. new \in Pair /\ new.code = k /\ new.client = c
    BY <2>4, <2>5 DEF Pair
  <2>7. PICK r : r = [pairs[i] EXCEPT !.revoked = @ \cup {"refresh"}]
    OBVIOUS
  <2>8. pairs[i] \in Pair
    BY DEF TokensInv
  <2>9. r \in Pair /\ r.code = pairs[i].code /\ r.client = pairs[i].client
        /\ r.revoked = pairs[i].revoked \cup {"refresh"}
    BY <2>7, <2>8 DEF Pair
  <2>10. PICK old : old = [pairs EXCEPT ![i] = r]
    OBVIOUS
  <2>11. old \in [1..MaxPairs -> Pair] /\ old[i] = r
         /\ \A n \in 1..MaxPairs \ {i} : old[n] = pairs[n]
    BY <2>9, <2>10 DEF TokensInv
  <2>12. pairs' = [old EXCEPT ![issued + 1] = new]
    BY <1>4, <2>1, <2>2, <2>3, <2>4, <2>7, <2>10 DEF Refresh
  <2>13. \A n \in 1..issued : n \in 1..MaxPairs
    BY DEF TokensInv
  <2>14. ASSUME NEW n \in 1..issued
         PROVE  /\ old[n].code = pairs[n].code /\ old[n].client = pairs[n].client
                /\ "refresh" \in pairs[n].revoked => "refresh" \in old[n].revoked
                /\ pairs[n].code = k => "refresh" \in old[n].revoked
    <3>1. CASE n = i
      BY <2>9, <2>11, <3>1
    <3>2. CASE n < i
      <4>1. old[n] = pairs[n]
        BY <2>11, <2>13, <3>2
      <4>2. pairs[n].code = k => "refresh" \in pairs[n].revoked
        BY <2>1, <2>5, <3>2 DEF TokensInv
      <4> QED
        BY <4>1, <4>2
    <3>3. CASE n > i
      <4>1. old[n] = pairs[n]
        BY <2>11, <2>13, <3>3
      <4>2. pairs[n].code # k
        BY <2>1, <2>5, <3>3 DEF TokensInv
      <4> QED
        BY <4>1, <4>2
    <3> QED
      BY <3>1, <3>2, <3>3
  <2>15. codes \in [1..MaxCodes -> Code] /\ codes[k] # NoCode /\ codes[k].used /\ codes[k].client = c
    BY <2>1, <2>5 DEF TokensInv
  <2>16. \A n \in 1..issued : codes[pairs[n].code] # NoCode /\ codes[pairs[n].code].used
    BY DEF TokensInv
  <2> QED
    BY <2>1, <2>6, <2>11, <2>12, <2>14, <2>15, <2>16, PairIssued, ZenonT(60)
<1>5. ASSUME NEW i \in 1..MaxPairs, NEW kind \in {"access", "refresh"}, Revoke(i, kind)
      PROVE  TokensInv'
  <2>1. PICK r : r = [pairs[i] EXCEPT !.revoked = @ \cup {kind}]
    OBVIOUS
  <2>2. pairs[i] \in Pair
    BY DEF TokensInv
  <2>3. r \in Pair /\ r.code = pairs[i].code /\ r.client = pairs[i].client
        /\ r.revoked = pairs[i].revoked \cup {kind}
    BY <2>1, <2>2 DEF Pair
  <2>4. pairs' = [pairs EXCEPT ![i] = r] /\ UNCHANGED <<codes, issued, tokenClock>>
    BY <1>5, <2>1 DEF Revoke
  <2>5. pairs' \in [1..MaxPairs -> Pair] /\ pairs'[i] = r
        /\ \A n \in 1..MaxPairs \ {i} : pairs'[n] = pairs[n]
    BY <2>3, <2>4 DEF TokensInv
  <2>6. \A n \in 1..MaxPairs : /\ pairs'[n].code = pairs[n].code /\ pairs'[n].client = pairs[n].client
                               /\ pairs[n].revoked \subseteq pairs'[n].revoked
    BY <2>3, <2>5
  <2>7. \A n \in 1..issued : n \in 1..MaxPairs
    BY DEF TokensInv
  <2>8. \A n, m \in 1..issued' :
          pairs'[m].code = pairs'[n].code /\ m < n => "refresh" \in pairs'[m].revoked
    BY <2>4, <2>6, <2>7 DEF TokensInv
  <2>9. \A n \in 1..issued' :
          /\ pairs'[n].code \in 1..MaxCodes
          /\ codes'[pairs'[n].code] # NoCode
          /\ codes'[pairs'[n].code].used
          /\ codes'[pairs'[n].code].client = pairs'[n].client
    BY <2>4, <2>6, <2>7 DEF TokensInv
  <2> QED
    BY <2>4, <2>5, <2>8, <2>9 DEF TokensInv
<1>6. CASE TokensTick
  BY <1>6 DEF TokensTick, TokensInv
<1>7. CASE UNCHANGED tokenVars
  BY <1>7 DEF tokenVars, TokensInv
<1> QED
  BY <1>1, <1>2, <1>3, <1>4, <1>5, <1>6, <1>7 DEF TokensNext

LEMMA TokensInvHolds == TokensInv => OneLineOfTokens
BY DEF TokensInv, OneLineOfTokens

\* An authorization leads to one line of tokens, for any number of clients, codes and pairs.
THEOREM TokensAreAlwaysOneLine == TokensSpec => []OneLineOfTokens
<1>1. TokensInit => TokensInv
  BY TokensInitially
<1>2. TokensInv /\ [TokensNext]_tokenVars => TokensInv'
  BY TokensStep
<1>3. TokensInv => OneLineOfTokens
  BY TokensInvHolds
<1> QED
  BY <1>1, <1>2, <1>3, PTL DEF TokensSpec

-----------------------------------------------------------------------------
(* The learnings                                                            *)

Homes == LearningOrgs \cup {"none"}
LearnRow == [status : {"none", "active", "forgotten"}, org : Homes, author : Homes,
             keys : SUBSET Words, hits : Nat, good : Nat, bad : Nat]
LearnTurn == [at : {"idle", "learn", "write", "promote", "end"}, org : Homes,
              words : SUBSET Words, shown : SUBSET Nat, match : Nat]
OutcomeRow == [org : Homes, success : BOOLEAN, kept : BOOLEAN]
OutcomesOf(o, s) == {m \in 1..MaxOutcomes : outcomeLog[m].org = o /\ (outcomeLog[m].success <=> s)}

LearningTypeOK ==
    /\ learntRows \in 0..MaxLearnt
    /\ learnt \in [1..MaxLearnt -> LearnRow]
    /\ learner \in [Learners -> LearnTurn]
    /\ outcomeLog \in [1..MaxOutcomes -> OutcomeRow]

\* A row has an owner that is also its author; a turn holds only rows that are there and of
\* its organisation.
RowFits(n) ==
    /\ learnt[n].org \in LearningOrgs /\ learnt[n].author = learnt[n].org
    /\ learnt[n].good <= Cardinality(OutcomesOf(learnt[n].org, TRUE))
    /\ learnt[n].bad <= Cardinality(OutcomesOf(learnt[n].org, FALSE))
TurnFits(t) ==
    /\ learner[t].at # "idle" => learner[t].org \in LearningOrgs
    /\ learner[t].shown \subseteq 1..learntRows
    /\ \A n \in learner[t].shown : learnt[n].org = learner[t].org
    /\ learner[t].match \in 0..learntRows
    /\ learner[t].at = "write" => storeKind = "postgres"

LearningInv ==
    /\ LearningTypeOK
    /\ \A n \in 1..learntRows : RowFits(n)
    /\ \A t \in Learners : TurnFits(t)
    /\ storeKind = "memory" =>
          /\ Cardinality(LiveLearnings) <= LearningCap
          /\ Cardinality(KeptOutcomes) <= LearningCap

LEMMA NoRowIsOne ==
    /\ NoLearning \in LearnRow /\ NoTurn \in LearnTurn /\ NoOutcome \in OutcomeRow
    /\ NoTurn.at = "idle" /\ NoTurn.shown = {} /\ NoTurn.match = 0
<1>1. {} \in SUBSET Words /\ {} \in SUBSET Nat /\ "none" \in Homes /\ 0 \in Nat
  BY DEF Homes
<1>2. NoLearning \in LearnRow
  BY <1>1 DEF NoLearning, LearnRow
<1>3. NoTurn \in LearnTurn
  BY <1>1 DEF NoTurn, LearnTurn
<1>4. NoOutcome \in OutcomeRow
  BY <1>1 DEF NoOutcome, OutcomeRow
<1> QED
  BY <1>2, <1>3, <1>4 DEF NoTurn

LEMMA LearningInitially == LearningInit => LearningInv
<1> SUFFICES ASSUME LearningInit PROVE LearningInv
  OBVIOUS
<1> USE LearningAssumption, NoRowIsOne
<1>1. /\ learntRows = 0 /\ 1..learntRows = {} /\ 0 \in 0..MaxLearnt
      /\ \A t \in Learners : learner[t] = NoTurn
  BY DEF LearningInit
<1>2. LearningTypeOK
  BY <1>1 DEF LearningInit, LearningTypeOK
<1>3. \A t \in Learners : TurnFits(t)
  BY <1>1 DEF TurnFits
<1>4. LiveLearnings = {} /\ KeptOutcomes = {}
  BY <1>1 DEF LiveLearnings, KeptOutcomes, LearningInit, NoOutcome
<1>5. Cardinality({}) = 0
  BY FS_EmptySet
<1> QED
  BY <1>1, <1>2, <1>3, <1>4, <1>5 DEF LearningInv

LEMMA LearntSetsAreFinite ==
    ASSUME LearningInv
    PROVE  /\ IsFiniteSet(LiveLearnings) /\ IsFiniteSet(KeptOutcomes)
           /\ LiveLearnings \subseteq Nat /\ KeptOutcomes \subseteq Nat
           /\ \A o, s : IsFiniteSet(OutcomesOf(o, s)) /\ Cardinality(OutcomesOf(o, s)) \in Nat
<1>1. IsFiniteSet(1..learntRows) /\ IsFiniteSet(1..MaxOutcomes)
  BY FS_Interval, LearningAssumption DEF LearningInv, LearningTypeOK
<1>2. LiveLearnings \subseteq 1..learntRows /\ KeptOutcomes \subseteq 1..MaxOutcomes
      /\ \A o, s : OutcomesOf(o, s) \subseteq 1..MaxOutcomes
  BY DEF LiveLearnings, KeptOutcomes, OutcomesOf
<1>3. IsFiniteSet(LiveLearnings) /\ IsFiniteSet(KeptOutcomes)
  BY <1>1, <1>2, FS_Subset
<1>4. \A o, s : IsFiniteSet(OutcomesOf(o, s))
  BY <1>1, <1>2, FS_Subset
<1>5. 1..learntRows \subseteq Nat /\ 1..MaxOutcomes \subseteq Nat
  OBVIOUS
<1> QED
  BY <1>2, <1>3, <1>4, <1>5, FS_CardinalityType

LEMMA OldestIs ==
    ASSUME NEW S, S \subseteq Nat, S # {}
    PROVE  Oldest(S) \in S
<1>1. PICK e : e \in S
  OBVIOUS
<1>2. \E m \in S : \A n \in S : m <= n
  BY <1>1, LeastNatural
<1> QED
  BY <1>2 DEF Oldest

\* A step of a turn that keeps what it holds.
LEMMA TurnGoes ==
    ASSUME LearningInv, NEW t \in Learners,
           learner[t].at # "idle",
           NEW k \in 0..learntRows,
           learner' \in [Learners -> LearnTurn],
           learner'[t].org = learner[t].org, learner'[t].shown = learner[t].shown,
           learner'[t].match = k,
           learner'[t].at = "write" => storeKind = "postgres", storeKind' = storeKind,
           \A u \in Learners \ {t} : learner'[u] = learner[u],
           learntRows' \in 0..MaxLearnt, learntRows <= learntRows',
           \A n \in 1..learntRows : learnt'[n].org = learnt[n].org
    PROVE  \A u \in Learners : TurnFits(u)'
<1> SUFFICES ASSUME NEW u \in Learners PROVE TurnFits(u)'
  OBVIOUS
<1>1. TurnFits(u) /\ TurnFits(t)
  BY DEF LearningInv
<1>2. 1..learntRows \subseteq 1..learntRows' /\ 0..learntRows \subseteq 0..learntRows'
  BY DEF LearningInv, LearningTypeOK
<1>3. CASE u = t
  BY <1>1, <1>2, <1>3 DEF TurnFits
<1>4. CASE u # t
  <2>1. learner'[u] = learner[u]
    BY <1>4
  <2> QED
    BY <1>1, <1>2, <2>1 DEF TurnFits
<1> QED
  BY <1>3, <1>4

LEMMA LearnsIs ==
    ASSUME LearningInv, NEW t \in Learners, NEW at \in {"write", "promote", "end"}, Learns(t, at)
    PROVE  /\ learner' \in [Learners -> LearnTurn] /\ at \in {"write", "promote", "end"}
           /\ learner'[t].org = learner[t].org /\ learner'[t].shown = learner[t].shown
           /\ learner'[t].match = learner[t].match /\ learner'[t].at = at
           /\ \A u \in Learners \ {t} : learner'[u] = learner[u]
           /\ learner[t].match \in 0..learntRows
<1>1. PICK r : r = [learner[t] EXCEPT !.at = at]
  OBVIOUS
<1>2. learner[t] \in LearnTurn
  BY DEF LearningInv, LearningTypeOK
<1>3. r \in LearnTurn /\ r.org = learner[t].org /\ r.shown = learner[t].shown
      /\ r.match = learner[t].match /\ r.at = at
  BY <1>1, <1>2 DEF LearnTurn
<1>4. learner' = [learner EXCEPT ![t] = r]
  BY <1>1 DEF Learns
<1> QED
  BY <1>3, <1>4 DEF LearningInv, LearningTypeOK, TurnFits

\* A row is added behind the others, of which some may have been forgotten.
LEMMA RowAdded ==
    ASSUME LearningInv, NEW t \in Learners, learner[t].at \in {"learn", "write"},
           NEW rows \in [1..MaxLearnt -> LearnRow], Adds(rows, t), Learns(t, "promote"),
           UNCHANGED <<storeKind, approvalAsked, outcomeLog>>,
           \A n \in 1..learntRows : /\ rows[n].org = learnt[n].org /\ rows[n].author = learnt[n].author
                                    /\ rows[n].good = learnt[n].good /\ rows[n].bad = learnt[n].bad,
           NEW L, L = {n \in 1..learntRows : rows[n].status = "active"}, IsFiniteSet(L),
           storeKind = "memory" => Cardinality(L) < LearningCap
    PROVE  LearningInv'
<1> USE LearningAssumption
<1>0. /\ learntRows \in Nat /\ learntRows + 1 \in 1..MaxLearnt /\ learntRows' = learntRows + 1
      /\ 1..learntRows' = (1..learntRows) \cup {learntRows + 1} /\ learntRows + 1 \notin 1..learntRows
      /\ 1..learntRows \subseteq 1..MaxLearnt /\ learntRows' \in 0..MaxLearnt
  BY DEF Adds, LearningInv, LearningTypeOK
<1>1. learner[t] \in LearnTurn /\ learner[t].org \in LearningOrgs
  BY DEF LearningInv, LearningTypeOK, TurnFits
<1>2. PICK r : r = NewRow(t)
  OBVIOUS
<1>3. /\ r \in LearnRow /\ r.status = "active" /\ r.org = learner[t].org /\ r.author = learner[t].org
      /\ r.good = 0 /\ r.bad = 0
  BY <1>1, <1>2, NoRowIsOne DEF NewRow, LearnRow, LearnTurn, NoLearning
<1>4. learnt' = [rows EXCEPT ![learntRows + 1] = r]
  BY <1>0, <1>2 DEF Adds
<1>5. /\ learnt' \in [1..MaxLearnt -> LearnRow] /\ learnt'[learntRows + 1] = r
      /\ \A n \in 1..learntRows : learnt'[n] = rows[n]
  BY <1>0, <1>3, <1>4
<1>6. LearningTypeOK'
  BY <1>0, <1>5, LearnsIs DEF LearningInv, LearningTypeOK
<1>7. \A o, s : OutcomesOf(o, s)' = OutcomesOf(o, s)
  BY DEF OutcomesOf
<1>8. ASSUME NEW n \in 1..learntRows' PROVE RowFits(n)'
  <2>1. CASE n = learntRows + 1
    <3>1. Cardinality(OutcomesOf(r.org, TRUE)) \in Nat /\ Cardinality(OutcomesOf(r.org, FALSE)) \in Nat
      BY LearntSetsAreFinite
    <3>2. learnt'[n] = r /\ learnt'[n].org = r.org /\ learnt'[n].author = r.org
      BY <1>3, <1>5, <2>1
    <3>3. r.good <= Cardinality(OutcomesOf(r.org, TRUE)) /\ r.bad <= Cardinality(OutcomesOf(r.org, FALSE))
      <4>1. PICK a \in Nat : a = Cardinality(OutcomesOf(r.org, TRUE))
        BY <3>1
      <4>2. PICK b \in Nat : b = Cardinality(OutcomesOf(r.org, FALSE))
        BY <3>1
      <4>3. r.good = 0 /\ r.bad = 0 /\ 0 <= a /\ 0 <= b
        BY <1>3
      <4> QED
        BY <4>1, <4>2, <4>3
    <3>4. /\ OutcomesOf(r.org, TRUE)' = OutcomesOf(r.org, TRUE)
          /\ OutcomesOf(r.org, FALSE)' = OutcomesOf(r.org, FALSE)
      BY <1>7
    <3>5. /\ OutcomesOf(learnt[n].org, TRUE)' = OutcomesOf(r.org, TRUE)
          /\ OutcomesOf(learnt[n].org, FALSE)' = OutcomesOf(r.org, FALSE)
      BY <3>2, <3>4 DEF OutcomesOf
    <3> QED
      BY <1>1, <1>3, <3>2, <3>3, <3>5 DEF RowFits
  <2>2. CASE n \in 1..learntRows
    <3>1. RowFits(n) /\ learnt'[n] = rows[n]
      BY <1>5, <2>2 DEF LearningInv
    <3> QED
      BY <1>7, <2>2, <3>1 DEF RowFits
  <2> QED
    BY <1>0, <2>1, <2>2
<1>9. \A u \in Learners : TurnFits(u)'
  <2>1. \A n \in 1..learntRows : learnt'[n].org = learnt[n].org
    BY <1>5
  <2>2. learntRows <= learntRows' /\ learner[t].at # "idle"
    BY <1>0
  <2> QED
    BY <1>0, <2>1, <2>2, LearnsIs, TurnGoes
<1>10. LiveLearnings' = L \cup {learntRows + 1}
  BY <1>0, <1>3, <1>5 DEF LiveLearnings
<1>11. storeKind = "memory" => Cardinality(LiveLearnings') <= LearningCap
  <2>1. learntRows + 1 \notin L
    BY <1>0
  <2>2. Cardinality(L \cup {learntRows + 1}) = Cardinality(L) + 1 /\ Cardinality(L) \in Nat
    BY <2>1, FS_AddElement, FS_CardinalityType
  <2> QED
    BY <1>10, <2>2
<1>12. KeptOutcomes' = KeptOutcomes
  BY DEF KeptOutcomes
<1> QED
  BY <1>6, <1>8, <1>9, <1>11, <1>12 DEF LearningInv

\* A step of a turn that adds no row and changes no row's owner or counts.
LEMMA RowsStand ==
    ASSUME LearningInv, NEW t \in Learners, learner[t].at # "idle",
           learner' \in [Learners -> LearnTurn],
           learner'[t].org = learner[t].org, learner'[t].shown = learner[t].shown,
           learner'[t].match \in 0..learntRows,
           learner'[t].at = "write" => storeKind = "postgres",
           \A u \in Learners \ {t} : learner'[u] = learner[u],
           UNCHANGED <<storeKind, learntRows, outcomeLog>>,
           learnt' \in [1..MaxLearnt -> LearnRow],
           \A n \in 1..learntRows :
              /\ learnt'[n].org = learnt[n].org /\ learnt'[n].author = learnt[n].author
              /\ learnt'[n].good = learnt[n].good /\ learnt'[n].bad = learnt[n].bad
              /\ learnt'[n].status = learnt[n].status
    PROVE  LearningInv'
<1>1. LearningTypeOK'
  BY DEF LearningInv, LearningTypeOK
<1>2. \A o, s : OutcomesOf(o, s)' = OutcomesOf(o, s)
  BY DEF OutcomesOf
<1>3. \A n \in 1..learntRows' : RowFits(n)'
  BY <1>2 DEF LearningInv, RowFits
<1>4. PICK k \in 0..learntRows : k = learner'[t].match
  OBVIOUS
<1>5. learntRows' \in 0..MaxLearnt /\ learntRows <= learntRows'
  BY DEF LearningInv, LearningTypeOK
<1>6. \A u \in Learners : TurnFits(u)'
  BY <1>4, <1>5, TurnGoes
<1>7. LiveLearnings' = LiveLearnings /\ KeptOutcomes' = KeptOutcomes
  BY DEF LiveLearnings, KeptOutcomes
<1> QED
  BY <1>1, <1>3, <1>6, <1>7 DEF LearningInv

LEMMA LearningStep == LearningInv /\ [LearningNext]_learningVars => LearningInv'
<1> SUFFICES ASSUME LearningInv, [LearningNext]_learningVars PROVE LearningInv'
  OBVIOUS
<1> USE LearningAssumption
<1>0. LearningTypeOK /\ \A t \in Learners : TurnFits(t)
  BY DEF LearningInv
<1>1. ASSUME NEW t \in Learners, NEW o \in LearningOrgs, NEW words \in SUBSET Words, BeginTurn(t, o, words)
      PROVE  LearningInv'
  <2>1. PICK shown : shown = FindRelevant(o, words)
    OBVIOUS
  <2>2. shown \subseteq 1..learntRows /\ \A n \in shown : learnt[n].org = o
    BY <2>1 DEF FindRelevant, Active
  <2>3. PICK r : r = [at |-> "learn", org |-> o, words |-> words, shown |-> shown, match |-> 0]
    OBVIOUS
  <2>4. r \in LearnTurn
    <3>1. shown \in SUBSET Nat /\ o \in Homes
      BY <2>2 DEF Homes
    <3> QED
      BY <2>3, <3>1 DEF LearnTurn
  <2>5. learner' = [learner EXCEPT ![t] = r] /\ UNCHANGED <<storeKind, learnt, learntRows, outcomeLog>>
    BY <1>1, <2>1, <2>3 DEF BeginTurn
  <2>6. /\ learner' \in [Learners -> LearnTurn] /\ learner'[t] = r
        /\ \A u \in Learners \ {t} : learner'[u] = learner[u]
    BY <1>0, <2>4, <2>5 DEF LearningTypeOK
  <2>7. TurnFits(t)'
    <3>1. 0 \in 0..learntRows
      BY <1>0 DEF LearningTypeOK
    <3> QED
      BY <2>2, <2>3, <2>5, <2>6, <3>1 DEF TurnFits
  <2>8. \A u \in Learners \ {t} : TurnFits(u)'
    BY <1>0, <2>5, <2>6 DEF TurnFits
  <2> QED
    BY <2>5, <2>6, <2>7, <2>8
       DEF LearningInv, LearningTypeOK, RowFits, OutcomesOf, LiveLearnings, KeptOutcomes
<1>2. ASSUME NEW t \in Learners, StoreInMemory(t) PROVE LearningInv'
  <2>1. /\ storeKind = "memory" /\ learner[t].at = "learn" /\ Learns(t, "promote")
        /\ UNCHANGED <<storeKind, approvalAsked, outcomeLog>>
    BY <1>2 DEF StoreInMemory
  <2>2. CASE Same(t) # {}
    <3>1. PICK n : n = Oldest(Same(t))
      OBVIOUS
    <3>2. Same(t) \subseteq Active(learner[t].org) /\ Active(learner[t].org) \subseteq Nat
      BY DEF Same, Active
    <3>3. n \in Active(learner[t].org)
      BY <2>2, <3>1, <3>2, OldestIs
    <3>4. n \in 1..learntRows /\ learnt[n].org = learner[t].org
      BY <3>3 DEF Active
    <3>5. n \in 1..MaxLearnt
      BY <1>0, <3>4 DEF LearningTypeOK
    <3>6. PICK r : r = [learnt[n] EXCEPT !.keys = learner[t].words, !.author = learner[t].org]
      OBVIOUS
    <3>7. learnt[n] \in LearnRow /\ learner[t].words \in SUBSET Words /\ learner[t].org \in Homes
      BY <1>0, <3>5 DEF LearningTypeOK, LearnTurn
    <3>8. /\ r \in LearnRow /\ r.org = learnt[n].org /\ r.author = learner[t].org
          /\ r.good = learnt[n].good /\ r.bad = learnt[n].bad /\ r.status = learnt[n].status
      BY <3>6, <3>7 DEF LearnRow
    <3>9. learnt' = [learnt EXCEPT ![n] = r] /\ learntRows' = learntRows
      BY <1>2, <2>2, <3>1, <3>6 DEF StoreInMemory
    <3>10. learnt[n].author = learnt[n].org
      BY <3>4 DEF LearningInv, RowFits
    <3>11. /\ learnt' \in [1..MaxLearnt -> LearnRow]
           /\ \A m \in 1..learntRows :
                 /\ learnt'[m].org = learnt[m].org /\ learnt'[m].author = learnt[m].author
                 /\ learnt'[m].good = learnt[m].good /\ learnt'[m].bad = learnt[m].bad
                 /\ learnt'[m].status = learnt[m].status
      BY <1>0, <3>4, <3>5, <3>8, <3>9, <3>10 DEF LearningTypeOK
    <3>12. learner[t].at # "idle"
      BY <2>1
    <3> QED
      BY <2>1, <3>9, <3>11, <3>12, LearnsIs, RowsStand
  <2>3. CASE Same(t) = {} /\ Cardinality(LiveLearnings) >= LearningCap
    <3>1. PICK n : n = Oldest(LiveLearnings)
      OBVIOUS
    <3>2. LiveLearnings # {}
      BY <2>3, FS_EmptySet
    <3>3. n \in LiveLearnings
      BY <3>1, <3>2, LearntSetsAreFinite, OldestIs
    <3>4. n \in 1..MaxLearnt
      BY <1>0, <3>3 DEF LiveLearnings, LearningTypeOK
    <3>5. PICK r : r = [learnt[n] EXCEPT !.status = "forgotten"]
      OBVIOUS
    <3>6. learnt[n] \in LearnRow
      BY <1>0, <3>4 DEF LearningTypeOK
    <3>7. /\ r \in LearnRow /\ r.org = learnt[n].org /\ r.author = learnt[n].author
          /\ r.good = learnt[n].good /\ r.bad = learnt[n].bad /\ r.status = "forgotten"
      BY <3>5, <3>6 DEF LearnRow
    <3>8. PICK rows : rows = [learnt EXCEPT ![n] = r]
      OBVIOUS
    <3>9. Adds(rows, t)
      BY <1>2, <2>3, <3>1, <3>5, <3>8 DEF StoreInMemory
    <3>10. rows \in [1..MaxLearnt -> LearnRow] /\ rows[n] = r
           /\ \A m \in 1..MaxLearnt \ {n} : rows[m] = learnt[m]
      BY <1>0, <3>4, <3>7, <3>8 DEF LearningTypeOK
    <3>11. \A m \in 1..learntRows : m \in 1..MaxLearnt
      BY <1>0 DEF LearningTypeOK
    <3>12. \A m \in 1..learntRows :
              /\ rows[m].org = learnt[m].org /\ rows[m].author = learnt[m].author
              /\ rows[m].good = learnt[m].good /\ rows[m].bad = learnt[m].bad
      BY <3>7, <3>10, <3>11
    <3>13. PICK L : L = {m \in 1..learntRows : rows[m].status = "active"}
      OBVIOUS
    <3>14. L = LiveLearnings \ {n}
      BY <3>7, <3>10, <3>11, <3>13 DEF LiveLearnings
    <3>15. IsFiniteSet(L) /\ Cardinality(L) < LearningCap
      <4>1. IsFiniteSet(LiveLearnings) /\ Cardinality(LiveLearnings) \in Nat
            /\ Cardinality(LiveLearnings) <= LearningCap
        BY <2>1, LearntSetsAreFinite, FS_CardinalityType DEF LearningInv
      <4>2. Cardinality(L) = Cardinality(LiveLearnings) - 1
        BY <3>3, <3>14, <4>1, FS_RemoveElement
      <4>3. IsFiniteSet(L)
        BY <3>14, <4>1, FS_RemoveElement
      <4> QED
        BY <4>1, <4>2, <4>3
    <3>16. learner[t].at \in {"learn", "write"}
      BY <2>1
    <3> QED
      BY <2>1, <3>9, <3>10, <3>12, <3>13, <3>15, <3>16, RowAdded
  <2>4. CASE Same(t) = {} /\ ~(Cardinality(LiveLearnings) >= LearningCap)
    <3>1. Adds(learnt, t)
      BY <1>2, <2>4 DEF StoreInMemory
    <3>2. PICK L : L = {m \in 1..learntRows : learnt[m].status = "active"}
      OBVIOUS
    <3>3. IsFiniteSet(L) /\ Cardinality(L) < LearningCap
      <4>1. L = LiveLearnings
        BY <3>2 DEF LiveLearnings
      <4> QED
        BY <2>4, <4>1, LearntSetsAreFinite, FS_CardinalityType
    <3>4. learner[t].at \in {"learn", "write"} /\ learnt \in [1..MaxLearnt -> LearnRow]
      BY <1>0, <2>1 DEF LearningTypeOK
    <3> QED
      BY <2>1, <3>1, <3>2, <3>3, <3>4, RowAdded
  <2> QED
    BY <2>2, <2>3, <2>4
<1>3. ASSUME NEW t \in Learners, SelectRows(t) PROVE LearningInv'
  <2>1. PICK k : k = IF Same(t) = {} THEN 0 ELSE Oldest(Same(t))
    OBVIOUS
  <2>2. k \in 0..learntRows
    <3>1. Same(t) \subseteq 1..learntRows /\ 1..learntRows \subseteq Nat /\ learntRows \in Nat
      BY <1>0 DEF Same, Active, LearningTypeOK
    <3>2. Same(t) # {} => Oldest(Same(t)) \in 1..learntRows
      BY <3>1, OldestIs
    <3> QED
      BY <2>1, <3>1, <3>2
  <2>3. PICK r : r = [learner[t] EXCEPT !.at = "write", !.match = k]
    OBVIOUS
  <2>4. learner[t] \in LearnTurn /\ k \in Nat
    BY <1>0, <2>2 DEF LearningTypeOK
  <2>5. r \in LearnTurn /\ r.org = learner[t].org /\ r.shown = learner[t].shown /\ r.match = k
    BY <2>3, <2>4 DEF LearnTurn
  <2>6. /\ learner[t].at = "learn" /\ learner' = [learner EXCEPT ![t] = r] /\ storeKind = "postgres"
        /\ UNCHANGED <<storeKind, learnt, learntRows, outcomeLog>>
    BY <1>3, <2>1, <2>3 DEF SelectRows
  <2>7. /\ learner' \in [Learners -> LearnTurn] /\ learner'[t] = r
        /\ \A u \in Learners \ {t} : learner'[u] = learner[u]
    BY <1>0, <2>5, <2>6 DEF LearningTypeOK
  <2>8. learner[t].at # "idle" /\ learnt' \in [1..MaxLearnt -> LearnRow]
    BY <1>0, <2>6 DEF LearningTypeOK
  <2> QED
    BY <2>2, <2>5, <2>6, <2>7, <2>8, RowsStand
<1>4. ASSUME NEW t \in Learners, WriteRow(t) PROVE LearningInv'
  <2>1. /\ learner[t].at = "write" /\ Learns(t, "promote")
        /\ UNCHANGED <<storeKind, approvalAsked, outcomeLog>>
    BY <1>4 DEF WriteRow
  <2>2. CASE learner[t].match = 0
    <3>1. Adds(learnt, t)
      BY <1>4, <2>2 DEF WriteRow
    <3>2. PICK L : L = {m \in 1..learntRows : learnt[m].status = "active"}
      OBVIOUS
    <3>3. IsFiniteSet(L)
      <4>1. L = LiveLearnings
        BY <3>2 DEF LiveLearnings
      <4> QED
        BY <4>1, LearntSetsAreFinite
    <3>4. learner[t].at \in {"learn", "write"} /\ learnt \in [1..MaxLearnt -> LearnRow]
      BY <1>0, <2>1 DEF LearningTypeOK
    <3>5. storeKind # "memory"
      BY <1>0, <2>1 DEF TurnFits
    <3> QED
      BY <2>1, <3>1, <3>2, <3>3, <3>4, <3>5, RowAdded
  <2>3. CASE learner[t].match # 0
    <3>1. PICK n : n = learner[t].match
      OBVIOUS
    <3>2. n \in 1..learntRows /\ n \in 1..MaxLearnt
      BY <1>0, <2>3, <3>1 DEF TurnFits, LearningTypeOK
    <3>3. PICK h : h = learnt[n].hits + 1
      OBVIOUS
    <3>4. learnt[n] \in LearnRow
      BY <1>0, <3>2 DEF LearningTypeOK
    <3>5. h \in Nat
      BY <3>3, <3>4 DEF LearnRow
    <3>6. PICK r : r = [learnt[n] EXCEPT !.hits = h]
      OBVIOUS
    <3>7. /\ r \in LearnRow /\ r.org = learnt[n].org /\ r.author = learnt[n].author
          /\ r.good = learnt[n].good /\ r.bad = learnt[n].bad /\ r.status = learnt[n].status
      BY <3>4, <3>5, <3>6 DEF LearnRow
    <3>8. learnt' = [learnt EXCEPT ![n] = r] /\ learntRows' = learntRows
      BY <1>4, <2>3, <3>1, <3>3, <3>6 DEF WriteRow
    <3>9. /\ learnt' \in [1..MaxLearnt -> LearnRow]
          /\ \A m \in 1..learntRows :
                 /\ learnt'[m].org = learnt[m].org /\ learnt'[m].author = learnt[m].author
                 /\ learnt'[m].good = learnt[m].good /\ learnt'[m].bad = learnt[m].bad
                 /\ learnt'[m].status = learnt[m].status
      BY <1>0, <3>2, <3>7, <3>8 DEF LearningTypeOK
    <3>10. learner[t].at # "idle"
      BY <2>1
    <3> QED
      BY <2>1, <3>8, <3>9, <3>10, LearnsIs, RowsStand
  <2> QED
    BY <2>2, <2>3
<1>5. ASSUME NEW t \in Learners, NEW at \in {"promote", "end"}, learner[t].at # "idle",
             Learns(t, at), UNCHANGED <<storeKind, learnt, learntRows, outcomeLog>>
      PROVE  LearningInv'
  <2>1. learnt' \in [1..MaxLearnt -> LearnRow]
    BY <1>0, <1>5 DEF LearningTypeOK
  <2> QED
    BY <1>5, <2>1, LearnsIs, RowsStand
<1>6. ASSUME NEW t \in Learners, NoCorrection(t) \/ AsksPromoter(t) PROVE LearningInv'
  <2>1. CASE NoCorrection(t)
    BY <1>5, <2>1 DEF NoCorrection
  <2>2. CASE AsksPromoter(t)
    BY <1>5, <2>2 DEF AsksPromoter
  <2> QED
    BY <1>6, <2>1, <2>2
<1>7. ASSUME NEW t \in Learners, NEW success \in BOOLEAN, EndTurn(t, success) PROVE LearningInv'
  <2>1. PICK n \in 1..MaxOutcomes :
          /\ ~OutcomeRecorded(n)
          /\ outcomeLog' = [m \in 1..MaxOutcomes |->
                IF m = n THEN [org |-> learner[t].org, success |-> success, kept |-> TRUE]
                ELSE IF /\ storeKind = "memory" /\ Cardinality(KeptOutcomes) >= LearningCap
                        /\ m = Oldest(KeptOutcomes)
                THEN [outcomeLog[m] EXCEPT !.kept = FALSE] ELSE outcomeLog[m]]
    BY <1>7 DEF EndTurn
  <2>2. /\ learner[t].at = "end" /\ learner' = [learner EXCEPT ![t] = NoTurn]
        /\ UNCHANGED <<storeKind, learntRows>>
        /\ learnt' = [m \in 1..MaxLearnt |->
                    IF m \notin learner[t].shown \/ learnt[m].status = "forgotten" THEN learnt[m]
                    ELSE IF success THEN [learnt[m] EXCEPT !.good = @ + 1]
                    ELSE [learnt[m] EXCEPT !.bad = @ + 1]]
    BY <1>7 DEF EndTurn
  <2>3. PICK o \in LearningOrgs : o = learner[t].org
    BY <1>0, <2>2 DEF TurnFits
  <2>4. /\ outcomeLog[n].org = "none" /\ outcomeLog[n].kept = FALSE /\ "none" \notin LearningOrgs
    BY <2>1 DEF OutcomeRecorded, NoOutcome
  <2>5. \A m \in 1..MaxOutcomes : outcomeLog[m] \in OutcomeRow
    BY <1>0 DEF LearningTypeOK
  <2>6. PICK new : new = [org |-> o, success |-> success, kept |-> TRUE]
    OBVIOUS
  <2>7. new \in OutcomeRow /\ new.org = o /\ (new.success <=> success) /\ new.kept = TRUE
    BY <2>6 DEF OutcomeRow, Homes
  <2>8. outcomeLog'[n] = new
    BY <2>1, <2>3, <2>6
  <2>9. ASSUME NEW m \in 1..MaxOutcomes, m # n
        PROVE  /\ outcomeLog'[m] \in OutcomeRow /\ outcomeLog'[m].org = outcomeLog[m].org
               /\ (outcomeLog'[m].success <=> outcomeLog[m].success)
               /\ outcomeLog'[m].kept => outcomeLog[m].kept
               /\ (storeKind = "memory" /\ Cardinality(KeptOutcomes) >= LearningCap
                     /\ m = Oldest(KeptOutcomes)) => ~outcomeLog'[m].kept
    <3>1. PICK r : r = [outcomeLog[m] EXCEPT !.kept = FALSE]
      OBVIOUS
    <3>2. r \in OutcomeRow /\ r.org = outcomeLog[m].org /\ r.success = outcomeLog[m].success /\ ~r.kept
      BY <2>5, <3>1 DEF OutcomeRow
    <3>3. \/ outcomeLog'[m] = r
          \/ outcomeLog'[m] = outcomeLog[m]
             /\ ~(storeKind = "memory" /\ Cardinality(KeptOutcomes) >= LearningCap
                     /\ m = Oldest(KeptOutcomes))
      BY <2>1, <2>9, <3>1
    <3> QED
      BY <2>5, <3>2, <3>3
  <2>10. outcomeLog' \in [1..MaxOutcomes -> OutcomeRow]
    <3>1. \A m \in 1..MaxOutcomes : outcomeLog'[m] \in OutcomeRow
      BY <2>7, <2>8, <2>9
    <3> QED
      BY <2>1, <3>1
  <2>11. /\ OutcomesOf(o, success)' = OutcomesOf(o, success) \cup {n} /\ n \notin OutcomesOf(o, success)
         /\ \A p \in LearningOrgs, s \in BOOLEAN :
               p # o \/ ~(s <=> success) => OutcomesOf(p, s)' = OutcomesOf(p, s)
    BY <2>3, <2>4, <2>7, <2>8, <2>9 DEF OutcomesOf
  <2>12. /\ Cardinality(OutcomesOf(o, success)') = Cardinality(OutcomesOf(o, success)) + 1
         /\ \A p \in LearningOrgs, s \in BOOLEAN :
               Cardinality(OutcomesOf(p, s)) <= Cardinality(OutcomesOf(p, s)')
    <3>1. \A p, s : IsFiniteSet(OutcomesOf(p, s)) /\ Cardinality(OutcomesOf(p, s)) \in Nat
      BY LearntSetsAreFinite
    <3>2. Cardinality(OutcomesOf(o, success)') = Cardinality(OutcomesOf(o, success)) + 1
      <4>1. PICK A, B : A = OutcomesOf(o, success) /\ B = OutcomesOf(o, success)'
        OBVIOUS
      <4>2. IsFiniteSet(A) /\ B = A \cup {n} /\ n \notin A
        BY <2>11, <3>1, <4>1
      <4>3. Cardinality(B) = Cardinality(A) + 1
        BY <4>2, FS_AddElement
      <4> QED
        BY <4>1, <4>3
    <3>3. ASSUME NEW p \in LearningOrgs, NEW s \in BOOLEAN
          PROVE  Cardinality(OutcomesOf(p, s)) <= Cardinality(OutcomesOf(p, s)')
      <4>1. CASE p = o /\ s = success
        BY <3>1, <3>2, <4>1
      <4>2. CASE ~(p = o /\ s = success)
        BY <2>11, <3>1, <4>2
      <4> QED
        BY <4>1, <4>2
    <3> QED
      BY <3>2, <3>3
  <2>13. ASSUME NEW m \in 1..MaxLearnt
         PROVE  /\ learnt'[m] \in LearnRow
                /\ learnt'[m].status = learnt[m].status /\ learnt'[m].org = learnt[m].org
                /\ learnt'[m].author = learnt[m].author
                /\ \/ learnt'[m].good = learnt[m].good /\ learnt'[m].bad = learnt[m].bad
                   \/ m \in learner[t].shown /\ success /\ learnt'[m].bad = learnt[m].bad
                      /\ learnt'[m].good = learnt[m].good + 1
                   \/ m \in learner[t].shown /\ ~success /\ learnt'[m].bad = learnt[m].bad + 1
                      /\ learnt'[m].good = learnt[m].good
    <3>1. PICK g, b : g = learnt[m].good + 1 /\ b = learnt[m].bad + 1
      OBVIOUS
    <3>2. learnt[m] \in LearnRow
      BY <1>0 DEF LearningTypeOK
    <3>3. g \in Nat /\ b \in Nat
      BY <3>1, <3>2 DEF LearnRow
    <3>4. PICK x, y : x = [learnt[m] EXCEPT !.good = g] /\ y = [learnt[m] EXCEPT !.bad = b]
      OBVIOUS
    <3>5. /\ x \in LearnRow /\ x.status = learnt[m].status /\ x.org = learnt[m].org
          /\ x.author = learnt[m].author /\ x.bad = learnt[m].bad /\ x.good = g
      BY <3>2, <3>3, <3>4 DEF LearnRow
    <3>6. /\ y \in LearnRow /\ y.status = learnt[m].status /\ y.org = learnt[m].org
          /\ y.author = learnt[m].author /\ y.good = learnt[m].good /\ y.bad = b
      BY <3>2, <3>3, <3>4 DEF LearnRow
    <3>7. learnt'[m] = IF m \notin learner[t].shown \/ learnt[m].status = "forgotten" THEN learnt[m]
                       ELSE IF success THEN x ELSE y
      BY <2>2, <3>1, <3>4
    <3> QED
      BY <3>1, <3>2, <3>5, <3>6, <3>7
  <2>14. learnt' \in [1..MaxLearnt -> LearnRow]
    BY <2>2, <2>13
  <2>15. /\ learner' \in [Learners -> LearnTurn] /\ learner'[t] = NoTurn
         /\ \A u \in Learners \ {t} : learner'[u] = learner[u]
    BY <1>0, <2>2, NoRowIsOne DEF LearningTypeOK
  <2>16. 1..learntRows \subseteq 1..MaxLearnt /\ 0 \in 0..learntRows
    BY <1>0 DEF LearningTypeOK
  <2>17. \A u \in Learners : TurnFits(u)'
    <3>1. TurnFits(t)'
      BY <2>2, <2>15, <2>16, NoRowIsOne DEF TurnFits
    <3>2. \A u \in Learners \ {t} : TurnFits(u)'
      BY <1>0, <2>2, <2>13, <2>15, <2>16 DEF TurnFits
    <3> QED
      BY <3>1, <3>2
  <2>18. ASSUME NEW m \in 1..learntRows' PROVE RowFits(m)'
    <3>1. RowFits(m) /\ m \in 1..MaxLearnt
      BY <2>2, <2>16 DEF LearningInv
    <3>2. PICK p \in LearningOrgs : p = learnt[m].org
      BY <3>1 DEF RowFits
    <3>3. m \in learner[t].shown => p = o
      BY <1>0, <2>3, <3>2 DEF TurnFits
    <3>4. PICK a, b, a1, b1 : /\ a = Cardinality(OutcomesOf(p, TRUE)) /\ b = Cardinality(OutcomesOf(p, FALSE))
                              /\ a1 = Cardinality(OutcomesOf(p, TRUE)') /\ b1 = Cardinality(OutcomesOf(p, FALSE)')
      OBVIOUS
    <3>5. a \in Nat /\ b \in Nat /\ a <= a1 /\ b <= b1
      BY <2>12, <3>4, LearntSetsAreFinite
    <3>6. /\ p = o /\ success => a1 = a + 1
          /\ p = o /\ ~success => b1 = b + 1
      <4>1. CASE success
        BY <2>12, <3>4, <4>1
      <4>2. CASE ~success
        <5>1. success = FALSE
          BY <4>2
        <5> QED
          BY <2>12, <3>4, <4>2, <5>1
      <4> QED
        BY <4>1, <4>2
    <3>7. a1 \in Nat /\ b1 \in Nat
      <4>1. (a1 = a \/ a1 = a + 1) /\ (b1 = b \/ b1 = b + 1)
        <5>1. CASE p = o /\ success
          <6>1. b1 = b
            BY <2>11, <3>4, <5>1
          <6> QED
            BY <3>6, <5>1, <6>1
        <5>2. CASE p = o /\ ~success
          <6>1. a1 = a
            BY <2>11, <3>4, <5>2
          <6> QED
            BY <3>6, <5>2, <6>1
        <5>3. CASE p # o
          BY <2>11, <3>4, <5>3
        <5> QED
          BY <5>1, <5>2, <5>3
      <4> QED
        BY <3>5, <4>1
    <3>8. learnt[m].good \in Nat /\ learnt[m].bad \in Nat /\ learnt[m].good <= a /\ learnt[m].bad <= b
      <4>1. learnt[m] \in LearnRow
        BY <1>0, <3>1 DEF LearningTypeOK
      <4> QED
        BY <3>1, <3>2, <3>4, <4>1 DEF RowFits, LearnRow
    <3>9. learnt'[m].good <= a1 /\ learnt'[m].bad <= b1
      BY <2>13, <3>1, <3>3, <3>5, <3>6, <3>7, <3>8
    <3>10. learnt'[m].org = p /\ learnt'[m].author = p
      BY <2>13, <3>1, <3>2 DEF RowFits
    <3> QED
      BY <3>4, <3>9, <3>10 DEF RowFits
  <2>19. LiveLearnings' = LiveLearnings
    BY <2>2, <2>13, <2>16 DEF LiveLearnings
  <2>20. ASSUME storeKind = "memory" PROVE Cardinality(KeptOutcomes') <= LearningCap
    <3>1. IsFiniteSet(KeptOutcomes) /\ Cardinality(KeptOutcomes) \in Nat
          /\ Cardinality(KeptOutcomes) <= LearningCap /\ KeptOutcomes \subseteq Nat
      BY <2>20, LearntSetsAreFinite, FS_CardinalityType DEF LearningInv
    <3>2. n \notin KeptOutcomes
      BY <2>4 DEF KeptOutcomes
    <3>3. CASE Cardinality(KeptOutcomes) >= LearningCap
      <4>1. PICK k : k = Oldest(KeptOutcomes)
        OBVIOUS
      <4>2. KeptOutcomes # {}
        BY <3>3, FS_EmptySet
      <4>3. k \in KeptOutcomes /\ k # n
        BY <3>1, <3>2, <4>1, <4>2, OldestIs
      <4>4. KeptOutcomes' \subseteq (KeptOutcomes \ {k}) \cup {n}
        BY <2>9, <2>20, <3>3, <4>1 DEF KeptOutcomes
      <4>5. /\ IsFiniteSet(KeptOutcomes \ {k})
            /\ Cardinality(KeptOutcomes \ {k}) = Cardinality(KeptOutcomes) - 1
        BY <3>1, <4>3, FS_RemoveElement
      <4>6. /\ IsFiniteSet((KeptOutcomes \ {k}) \cup {n})
            /\ Cardinality((KeptOutcomes \ {k}) \cup {n}) = Cardinality(KeptOutcomes)
        <5>1. PICK A : A = KeptOutcomes \ {k}
          OBVIOUS
        <5>2. n \notin A /\ IsFiniteSet(A)
          BY <3>2, <4>5, <5>1
        <5>3. IsFiniteSet(A \cup {n}) /\ Cardinality(A \cup {n}) = Cardinality(A) + 1
          BY <5>2, FS_AddElement
        <5>4. Cardinality(A) = Cardinality(KeptOutcomes) - 1
          BY <4>5, <5>1
        <5> QED
          BY <3>1, <5>1, <5>3, <5>4
      <4>7. Cardinality(KeptOutcomes') <= Cardinality((KeptOutcomes \ {k}) \cup {n})
        BY <4>4, <4>6, FS_Subset
      <4>8. Cardinality(KeptOutcomes') \in Nat
        BY <4>4, <4>6, FS_Subset, FS_CardinalityType
      <4>9. PICK c, d, e : /\ c = Cardinality(KeptOutcomes') /\ d = Cardinality(KeptOutcomes)
                           /\ e = Cardinality((KeptOutcomes \ {k}) \cup {n})
        OBVIOUS
      <4>10. d <= LearningCap /\ e = d /\ c <= e /\ c \in Nat /\ d \in Nat
        BY <3>1, <4>6, <4>7, <4>8, <4>9
      <4>11. c <= LearningCap
        BY <4>10
      <4> QED
        BY <4>9, <4>11
    <3>4. CASE ~(Cardinality(KeptOutcomes) >= LearningCap)
      <4>1. KeptOutcomes' \subseteq KeptOutcomes \cup {n}
        BY <2>9 DEF KeptOutcomes
      <4>2. /\ IsFiniteSet(KeptOutcomes \cup {n})
            /\ Cardinality(KeptOutcomes \cup {n}) = Cardinality(KeptOutcomes) + 1
        BY <3>1, <3>2, FS_AddElement
      <4>3. Cardinality(KeptOutcomes') \in Nat /\ Cardinality(KeptOutcomes') <= Cardinality(KeptOutcomes) + 1
        BY <4>1, <4>2, FS_Subset, FS_CardinalityType
      <4> QED
        BY <3>1, <3>4, <4>3
    <3> QED
      BY <3>3, <3>4
  <2>21. LearningTypeOK'
    BY <1>0, <2>2, <2>10, <2>14, <2>15 DEF LearningTypeOK
  <2> QED
    BY <2>2, <2>17, <2>18, <2>19, <2>20, <2>21 DEF LearningInv
<1>8. CASE UNCHANGED learningVars
  BY <1>8 DEF learningVars, LearningInv, LearningTypeOK, TurnFits, RowFits, OutcomesOf,
              LiveLearnings, KeptOutcomes
<1> QED
  BY <1>1, <1>2, <1>3, <1>4, <1>6, <1>7, <1>8 DEF LearningNext

LEMMA LearningInvHolds == LearningInv => LearningsStayHome
<1> SUFFICES ASSUME LearningInv PROVE LearningsStayHome
  OBVIOUS
<1>1. ASSUME NEW n \in 1..learntRows
      PROVE  /\ learnt[n].author = learnt[n].org
             /\ learnt[n].good <= Cardinality({m \in 1..MaxOutcomes :
                   outcomeLog[m].org = learnt[n].org /\ outcomeLog[m].success})
             /\ learnt[n].bad <= Cardinality({m \in 1..MaxOutcomes :
                   outcomeLog[m].org = learnt[n].org /\ ~outcomeLog[m].success})
  <2>1. RowFits(n) /\ \A m \in 1..MaxOutcomes : outcomeLog[m].success \in BOOLEAN
    BY DEF LearningInv, LearningTypeOK, OutcomeRow
  <2>2. OutcomesOf(learnt[n].org, TRUE) = {m \in 1..MaxOutcomes :
                   outcomeLog[m].org = learnt[n].org /\ outcomeLog[m].success}
    BY DEF OutcomesOf
  <2>3. OutcomesOf(learnt[n].org, FALSE) = {m \in 1..MaxOutcomes :
                   outcomeLog[m].org = learnt[n].org /\ ~outcomeLog[m].success}
    BY DEF OutcomesOf
  <2> QED
    BY <2>1, <2>2, <2>3 DEF RowFits
<1>2. \A t \in Learners : \A n \in learner[t].shown : learnt[n].org = learner[t].org
  BY DEF LearningInv, TurnFits
<1> QED
  BY <1>1, <1>2 DEF LearningsStayHome, LearningInv

\* What an organisation is shown is its own, and the counts are of its own turns, for any
\* number of turns and organisations.
THEOREM LearningsAlwaysStayHome == LearningSpec => []LearningsStayHome
<1>1. LearningInit => LearningInv
  BY LearningInitially
<1>2. LearningInv /\ [LearningNext]_learningVars => LearningInv'
  BY LearningStep
<1>3. LearningInv => LearningsStayHome
  BY LearningInvHolds
<1> QED
  BY <1>1, <1>2, <1>3, PTL DEF LearningSpec

-----------------------------------------------------------------------------
(* The reviews                                                              *)

\* What has been found up to a finding, on top of some counts.
UpTo(counts, f, n) ==
    [c \in Categories |-> counts[c] + Cardinality({k \in 1..n : f[k] = c})]

LEMMA FoundAdds ==
    ASSUME NEW counts \in [Categories -> Int], NEW n \in Nat, NEW f \in [1..n -> Categories]
    PROVE  /\ [c \in Categories |-> counts[c] + Found(f, c)] \in [Categories -> Int]
           /\ SumFunction([c \in Categories |-> counts[c] + Found(f, c)]) = SumFunction(counts) + n
<1> USE ReviewAssumption
<1>1. ASSUME NEW m \in 0..n, NEW c, NEW A, A = {k \in 1..m : f[k] = c}
      PROVE  IsFiniteSet(A) /\ Cardinality(A) \in Nat
  <2>1. IsFiniteSet(1..m)
    <3>1. 1 \in Int /\ m \in Int
      OBVIOUS
    <3> QED
      BY <3>1, FS_Interval
  <2>2. A \subseteq 1..m
    BY <1>1
  <2> QED
    BY <2>1, <2>2, FS_Subset, FS_CardinalityType
<1>2. ASSUME NEW m \in 0..n PROVE UpTo(counts, f, m) \in [Categories -> Int]
  <2>1. ASSUME NEW c \in Categories PROVE counts[c] + Cardinality({k \in 1..m : f[k] = c}) \in Int
    <3>1. PICK A : A = {k \in 1..m : f[k] = c}
      OBVIOUS
    <3>2. Cardinality(A) \in Nat
      BY <1>1, <3>1
    <3> QED
      BY <3>1, <3>2
  <2> QED
    BY <2>1 DEF UpTo
<1> DEFINE Good == {m \in Nat : m <= n => SumFunction(UpTo(counts, f, m)) = SumFunction(counts) + m}
<1>3. SumFunction(counts) \in Int
  BY SumIsNumber
<1>4. 0 \in Good
  <2>1. \A c : {k \in 1..0 : f[k] = c} = {}
    OBVIOUS
  <2>2. Cardinality({}) = 0
    BY FS_EmptySet
  <2>3. UpTo(counts, f, 0) = counts
    BY <2>1, <2>2 DEF UpTo
  <2> QED
    BY <1>3, <2>3
<1>5. ASSUME NEW m \in Nat, m \in Good PROVE m + 1 \in Good
  <2> SUFFICES ASSUME m + 1 <= n
               PROVE  SumFunction(UpTo(counts, f, m + 1)) = SumFunction(counts) + (m + 1)
    OBVIOUS
  <2>1. SumFunction(UpTo(counts, f, m)) = SumFunction(counts) + m
    BY <1>5
  <2>2. m \in 0..n /\ m + 1 \in 0..n /\ m + 1 \in 1..n /\ f[m + 1] \in Categories
    OBVIOUS
  <2>3. PICK e, h : e = UpTo(counts, f, m + 1) /\ h = UpTo(counts, f, m)
    OBVIOUS
  <2>4. e \in [Categories -> Int] /\ h \in [Categories -> Int]
    BY <1>2, <2>2, <2>3
  <2>5. ASSUME NEW c \in Categories PROVE e[c] = IF c = f[m + 1] THEN h[c] + 1 ELSE h[c]
    <3>1. PICK A, B : A = {k \in 1..m + 1 : f[k] = c} /\ B = {k \in 1..m : f[k] = c}
      OBVIOUS
    <3>2. e[c] = counts[c] + Cardinality(A) /\ h[c] = counts[c] + Cardinality(B)
      BY <2>3, <3>1 DEF UpTo
    <3>3. IsFiniteSet(B) /\ Cardinality(B) \in Nat /\ m + 1 \notin B
      <4>1. B = {k \in 1..m : f[k] = c}
        BY <3>1
      <4>2. IsFiniteSet(B) /\ Cardinality(B) \in Nat
        BY <1>1, <2>2, <4>1
      <4> QED
        BY <4>1, <4>2
    <3>4. CASE c = f[m + 1]
      <4>1. A = B \cup {m + 1}
        BY <3>1, <3>4
      <4>2. Cardinality(B \cup {m + 1}) = Cardinality(B) + 1
        BY <3>3, FS_AddElement
      <4>3. PICK x \in Int, b \in Nat : x = counts[c] /\ b = Cardinality(B)
        BY <3>3
      <4>4. e[c] = x + (b + 1) /\ h[c] = x + b
        BY <3>2, <4>1, <4>2, <4>3
      <4> QED
        BY <3>4, <4>4
    <3>5. CASE c # f[m + 1]
      <4>1. A = B
        BY <3>1, <3>5
      <4> QED
        BY <3>2, <3>5, <4>1
    <3> QED
      BY <3>4, <3>5
  <2>6. AddedAt(e, h, Categories, f[m + 1], 1)
    BY <2>5 DEF AddedAt
  <2>7. SumFunction(e) = SumFunction(h) + 1
    <3>1. PICK y \in Categories : y = f[m + 1]
      BY <2>2
    <3>2. AddedAt(e, h, Categories, y, 1) /\ 1 \in Int
      BY <2>6, <3>1
    <3> QED
      BY <2>4, <3>2, SumGrows
  <2>8. SumFunction(h) \in Int
    BY <2>4, SumIsNumber
  <2>9. PICK x, y \in Int : x = SumFunction(h) /\ y = SumFunction(counts)
    BY <1>3, <2>8
  <2>10. SumFunction(e) = x + 1 /\ x = y + m
    BY <2>1, <2>3, <2>7, <2>9
  <2>11. x + 1 = y + (m + 1)
    BY <2>10
  <2> QED
    BY <2>3, <2>9, <2>10, <2>11
<1>6. Nat \subseteq Good
  <2> HIDE DEF Good
  <2> QED
    BY <1>4, <1>5, NaturalsByOne
<1>7. n \in Good /\ n \in 0..n
  BY <1>6
<1>8. [c \in Categories |-> counts[c] + Found(f, c)] = UpTo(counts, f, n)
  BY DEF Found, UpTo
<1>9. SumFunction(UpTo(counts, f, n)) = SumFunction(counts) + n
  BY <1>7
<1> QED
  BY <1>2, <1>7, <1>8, <1>9

-----------------------------------------------------------------------------
(* The trend                                                                *)

LEMMA SumOfThreeReviews ==
    ASSUME NEW n \in Nat, NEW h \in [1..n -> {0, 2}], NEW m \in 1..n, m + 2 <= n
    PROVE  SumOf(SubSeq(h, m, m + 2)) = h[m] + h[m + 1] + h[m + 2]
<1>1. h \in Seq(Int) /\ Len(h) = n
  <2>1. h \in [1..n -> Int]
    OBVIOUS
  <2> QED
    BY <2>1, IsASeq, LenProperties
<1>2. PICK s : s = SubSeq(h, m, m + 2)
  OBVIOUS
<1>3. m \in 1..(n + 1) /\ m + 2 \in (m - 1)..n /\ m - 1 \in Int
  OBVIOUS
<1>4. Len(s) = 3 /\ s \in Seq(Int) /\ \A i \in 1..3 : s[i] = h[m + i - 1]
  <2>1. s \in Seq(Int)
    BY <1>1, <1>2, <1>3, SubSeqProperties
  <2>2. Len(s) = m + 2 - m + 1
    BY <1>1, <1>2, <1>3, SubSeqProperties
  <2>3. m + 2 - m + 1 = 3
    OBVIOUS
  <2>4. \A i \in 1..(m + 2 - m + 1) : s[i] = h[m + i - 1]
    BY <1>1, <1>2, <1>3, SubSeqProperties
  <2> QED
    BY <2>1, <2>2, <2>3, <2>4
<1>5. s \in [1..3 -> Int]
  BY <1>4, LenProperties
<1>6. SumFunction(s) = s[1] + s[2] + s[3]
  BY <1>5, SumOfThree
<1>7. s[1] = h[m] /\ s[2] = h[m + 1] /\ s[3] = h[m + 2]
  BY <1>4
<1> QED
  BY <1>2, <1>6, <1>7 DEF SumOf

LEMMA ThreeAreNotLess ==
    ASSUME NEW a \in Int, NEW b \in Int, NEW c \in Int, NEW x \in Int, NEW y \in Int, NEW z \in Int,
           x <= a, y <= b, z <= c
    PROVE  x + y + z <= a + b + c
OBVIOUS

LEMMA TrendIsAlwaysFair == TrendIsFair
<1> SUFFICES ASSUME NEW n \in 3..7, NEW h \in [1..n -> {0, 2}]
             PROVE  /\ (\A k \in 1 .. n - 1 : h[k + 1] <= h[k]) => Trend(h) # "regressing"
                    /\ (\A k \in 1 .. n - 1 : h[k + 1] >= h[k]) => Trend(h) # "improving"
                    /\ n > 6 /\ (\A k \in n - 5 .. n : h[k] = h[n]) => Trend(h) = "stable"
  BY DEF TrendIsFair
<1>1. h \in Seq({0, 2}) /\ Len(h) = n /\ n \in Nat /\ ~(n < 3)
  BY IsASeq, LenProperties
<1>2. PICK m \in 1..n : m = IF n >= 6 THEN n - 5 ELSE 1
  OBVIOUS
<1>3. m + 2 <= n /\ n - 2 \in 1..n /\ (n - 2) + 2 = n /\ n - 2 + 1 = n - 1
  BY <1>2
<1>4. Older(h) = SubSeq(h, m, m + 2)
  <2>1. CASE n >= 6
    BY <1>1, <1>2, <2>1 DEF Older
  <2>2. CASE ~(n >= 6)
    BY <1>1, <1>2, <2>2 DEF Older
  <2> QED
    BY <2>1, <2>2
<1>5. PICK older : older = SumOf(Older(h))
  OBVIOUS
<1>6. older = h[m] + h[m + 1] + h[m + 2]
  BY <1>1, <1>3, <1>4, <1>5, SumOfThreeReviews
<1>7. PICK recent : recent = SumOf(SubSeq(h, Len(h) - 2, Len(h)))
  OBVIOUS
<1>8. recent = h[n - 2] + h[n - 1] + h[n]
  <2>1. PICK j \in 1..n : j = n - 2
    BY <1>3
  <2>2. j + 2 = n /\ j + 1 = n - 1 /\ j + 2 <= n
    BY <2>1
  <2>3. SumOf(SubSeq(h, j, j + 2)) = h[j] + h[j + 1] + h[j + 2]
    BY <1>1, <2>2, SumOfThreeReviews
  <2> QED
    BY <1>1, <1>7, <2>1, <2>2, <2>3
<1>9. \A k \in 1..n : h[k] \in Int
  OBVIOUS
<1>10. older \in Int /\ recent \in Int
  <2>1. m \in 1..n /\ m + 1 \in 1..n /\ m + 2 \in 1..n /\ n - 2 \in 1..n /\ n - 1 \in 1..n /\ n \in 1..n
    BY <1>2, <1>3
  <2>2. h[m] \in Int /\ h[m + 1] \in Int /\ h[m + 2] \in Int
    BY <1>9, <2>1
  <2>3. h[n - 2] \in Int /\ h[n - 1] \in Int /\ h[n] \in Int
    BY <1>9, <2>1
  <2> QED
    BY <1>6, <1>8, <2>2, <2>3, SMTT(30)
<1>11. Trend(h) = IF 2 * (recent - older) < 0 - 3 THEN "improving"
                  ELSE IF 2 * (recent - older) > 3 THEN "regressing" ELSE "stable"
  BY <1>1, <1>5, <1>7 DEF Trend
<1>12. n = 3 \/ n = 4 \/ n = 5 \/ n = 6 \/ n = 7
  OBVIOUS
<1>13. ASSUME \A k \in 1 .. n - 1 : h[k + 1] <= h[k] PROVE recent <= older
  <2>1. ASSUME NEW k \in Nat, k >= 1, k < n PROVE h[k + 1] <= h[k] /\ h[k] \in Int /\ h[k + 1] \in Int
    <3>1. k \in 1..n - 1 /\ k \in 1..n /\ k + 1 \in 1..n
      BY <2>1
    <3> QED
      BY <1>9, <1>13, <3>1
  <2>2. CASE n = 3
    BY <1>2, <1>6, <1>8, <1>10, <2>2
  <2>3. CASE n = 4
    <3>1. h[2] <= h[1] /\ h[3] <= h[2] /\ h[4] <= h[3]
      BY <1>13, <2>3
    <3>2. h[1] \in Int /\ h[2] \in Int /\ h[3] \in Int /\ h[4] \in Int
      BY <1>9, <2>3
    <3>3. older = h[1] + h[2] + h[3] /\ recent = h[2] + h[3] + h[4]
      BY <1>2, <1>6, <1>8, <2>3
    <3>4. h[2] <= h[1] /\ h[3] <= h[2] /\ h[4] <= h[3]
      BY <3>1, <3>2
    <3> QED
      BY <3>2, <3>3, <3>4, ThreeAreNotLess
  <2>4. CASE n = 5
    <3>1. h[2] <= h[1] /\ h[3] <= h[2] /\ h[4] <= h[3] /\ h[5] <= h[4]
      BY <1>13, <2>4
    <3>2. h[1] \in Int /\ h[2] \in Int /\ h[3] \in Int /\ h[4] \in Int /\ h[5] \in Int
      BY <1>9, <2>4
    <3>3. older = h[1] + h[2] + h[3] /\ recent = h[3] + h[4] + h[5]
      BY <1>2, <1>6, <1>8, <2>4
    <3>4. h[3] <= h[1] /\ h[4] <= h[2] /\ h[5] <= h[3]
      BY <3>1, <3>2
    <3> QED
      BY <3>2, <3>3, <3>4, ThreeAreNotLess
  <2>5. CASE n = 6
    <3>1. h[2] <= h[1] /\ h[3] <= h[2] /\ h[4] <= h[3] /\ h[5] <= h[4] /\ h[6] <= h[5]
      BY <1>13, <2>5
    <3>2. h[1] \in Int /\ h[2] \in Int /\ h[3] \in Int /\ h[4] \in Int /\ h[5] \in Int /\ h[6] \in Int
      BY <1>9, <2>5
    <3>3. older = h[1] + h[2] + h[3] /\ recent = h[4] + h[5] + h[6]
      BY <1>2, <1>6, <1>8, <2>5
    <3>4. h[4] <= h[1] /\ h[5] <= h[2] /\ h[6] <= h[3]
      BY <3>1, <3>2
    <3> QED
      BY <3>2, <3>3, <3>4, ThreeAreNotLess
  <2>6. CASE n = 7
    <3>1. h[3] <= h[2] /\ h[4] <= h[3] /\ h[5] <= h[4] /\ h[6] <= h[5] /\ h[7] <= h[6]
      BY <1>13, <2>6
    <3>2. h[2] \in Int /\ h[3] \in Int /\ h[4] \in Int /\ h[5] \in Int /\ h[6] \in Int /\ h[7] \in Int
      BY <1>9, <2>6
    <3>3. older = h[2] + h[3] + h[4] /\ recent = h[5] + h[6] + h[7]
      BY <1>2, <1>6, <1>8, <2>6
    <3>4. h[5] <= h[2] /\ h[6] <= h[3] /\ h[7] <= h[4]
      BY <3>1, <3>2, SMTT(30)
    <3> QED
      BY <3>2, <3>3, <3>4, ThreeAreNotLess
  <2> QED
    BY <1>12, <2>2, <2>3, <2>4, <2>5, <2>6
<1>14. ASSUME \A k \in 1 .. n - 1 : h[k + 1] >= h[k] PROVE recent >= older
  <2>2. CASE n = 3
    BY <1>2, <1>6, <1>8, <1>10, <2>2
  <2>3. CASE n = 4
    <3>1. h[2] >= h[1] /\ h[3] >= h[2] /\ h[4] >= h[3]
      BY <1>14, <2>3
    <3>2. h[1] \in Int /\ h[2] \in Int /\ h[3] \in Int /\ h[4] \in Int
      BY <1>9, <2>3
    <3>3. older = h[1] + h[2] + h[3] /\ recent = h[2] + h[3] + h[4]
      BY <1>2, <1>6, <1>8, <2>3
    <3>4. h[2] >= h[1] /\ h[3] >= h[2] /\ h[4] >= h[3]
      BY <3>1, <3>2
    <3> QED
      BY <3>2, <3>3, <3>4, ThreeAreNotLess
  <2>4. CASE n = 5
    <3>1. h[2] >= h[1] /\ h[3] >= h[2] /\ h[4] >= h[3] /\ h[5] >= h[4]
      BY <1>14, <2>4
    <3>2. h[1] \in Int /\ h[2] \in Int /\ h[3] \in Int /\ h[4] \in Int /\ h[5] \in Int
      BY <1>9, <2>4
    <3>3. older = h[1] + h[2] + h[3] /\ recent = h[3] + h[4] + h[5]
      BY <1>2, <1>6, <1>8, <2>4
    <3>4. h[3] >= h[1] /\ h[4] >= h[2] /\ h[5] >= h[3]
      BY <3>1, <3>2
    <3> QED
      BY <3>2, <3>3, <3>4, ThreeAreNotLess
  <2>5. CASE n = 6
    <3>1. h[2] >= h[1] /\ h[3] >= h[2] /\ h[4] >= h[3] /\ h[5] >= h[4] /\ h[6] >= h[5]
      BY <1>14, <2>5
    <3>2. h[1] \in Int /\ h[2] \in Int /\ h[3] \in Int /\ h[4] \in Int /\ h[5] \in Int /\ h[6] \in Int
      BY <1>9, <2>5
    <3>3. older = h[1] + h[2] + h[3] /\ recent = h[4] + h[5] + h[6]
      BY <1>2, <1>6, <1>8, <2>5
    <3>4. h[4] >= h[1] /\ h[5] >= h[2] /\ h[6] >= h[3]
      BY <3>1, <3>2
    <3> QED
      BY <3>2, <3>3, <3>4, ThreeAreNotLess
  <2>6. CASE n = 7
    <3>1. h[3] >= h[2] /\ h[4] >= h[3] /\ h[5] >= h[4] /\ h[6] >= h[5] /\ h[7] >= h[6]
      BY <1>14, <2>6
    <3>2. h[2] \in Int /\ h[3] \in Int /\ h[4] \in Int /\ h[5] \in Int /\ h[6] \in Int /\ h[7] \in Int
      BY <1>9, <2>6
    <3>3. older = h[2] + h[3] + h[4] /\ recent = h[5] + h[6] + h[7]
      BY <1>2, <1>6, <1>8, <2>6
    <3>4. h[5] >= h[2] /\ h[6] >= h[3] /\ h[7] >= h[4]
      BY <3>1, <3>2, SMTT(30)
    <3> QED
      BY <3>2, <3>3, <3>4, ThreeAreNotLess
  <2> QED
    BY <1>12, <2>2, <2>3, <2>4, <2>5, <2>6
<1>15. ASSUME n > 6, \A k \in n - 5 .. n : h[k] = h[n] PROVE recent = older
  <2>1. n = 7 /\ m = 2
    BY <1>2, <1>12, <1>15
  <2>2. h[2] = h[7] /\ h[3] = h[7] /\ h[4] = h[7] /\ h[5] = h[7] /\ h[6] = h[7]
    BY <1>15, <2>1
  <2>3. older = h[2] + h[3] + h[4] /\ recent = h[5] + h[6] + h[7]
    BY <1>6, <1>8, <2>1
  <2> QED
    BY <2>2, <2>3
<1>16. /\ recent <= older => 2 * (recent - older) <= 0
       /\ recent >= older => 2 * (recent - older) >= 0
  BY <1>10
<1>17. PICK d \in Int : d = 2 * (recent - older)
  BY <1>10
<1>18. Trend(h) = IF d < 0 - 3 THEN "improving" ELSE IF d > 3 THEN "regressing" ELSE "stable"
  BY <1>11, <1>17
<1>19. (\A k \in 1 .. n - 1 : h[k + 1] <= h[k]) => Trend(h) # "regressing"
  BY <1>13, <1>16, <1>17, <1>18
<1>20. (\A k \in 1 .. n - 1 : h[k + 1] >= h[k]) => Trend(h) # "improving"
  BY <1>14, <1>16, <1>17, <1>18
<1>21. n > 6 /\ (\A k \in n - 5 .. n : h[k] = h[n]) => Trend(h) = "stable"
  <2>1. recent = older => d = 0
    BY <1>10, <1>17
  <2> QED
    BY <1>15, <1>18, <2>1
<1> QED
  BY <1>19, <1>20, <1>21

-----------------------------------------------------------------------------
(* The reviews                                                              *)

ReviewRow == [author : Authors, findings : FindingLists, at : Nat, seen : Int, stored : Nat,
              how : {"runs", "ended", "failed"}]
Lesson == [author : Authors, category : Categories, text : Nat \X Nat, hits : Nat]
Metric == [prs : Nat, total : Int, counts : [Categories -> Int], history : Seq(Int)]
OwnReviews(a) == {r \in DOMAIN reviews : reviews[r].author = a}

ReviewTypeOK ==
    /\ reviews \in Seq(ReviewRow) /\ lessons \in Seq(Lesson)
    /\ metrics \in [Authors -> Metric] /\ counters \in [Authors -> [Categories -> Int]]

\* A review that runs is at one of its findings, in memory it is the last one; the row it has
\* found is of its finding's category; and each finding it has dealt with is in a lesson.
ReviewFits(r) ==
    LET v == reviews[r] IN
    /\ v.at >= 1 /\ v.at <= Len(v.findings) + 1
    /\ v.how = "runs" => v.at <= Len(v.findings) /\ (lessonStore = "memory" => r = Len(reviews))
    /\ v.seen \notin {0, 0 - 1} =>
          /\ v.seen \in DOMAIN lessons /\ v.at <= Len(v.findings)
          /\ lessons[v.seen].category = v.findings[v.at]
    /\ \A k \in 1 .. v.at - 1 : \E l \in DOMAIN lessons : lessons[l].category = v.findings[k]
LessonFits(l) ==
    LET r == lessons[l].text[1]  k == lessons[l].text[2] IN
    /\ r \in DOMAIN reviews /\ reviews[r].author = lessons[l].author
    /\ k \in 1..Len(reviews[r].findings) /\ reviews[r].findings[k] = lessons[l].category
Alike(j, l) ==
    lessons[j].author = lessons[l].author /\ lessons[j].category = lessons[l].category => j = l
IsLatest(l, r) ==
    \A k \in 1 .. reviews[r].at - 1 :
        reviews[r].author = lessons[l].author /\ reviews[r].findings[k] = lessons[l].category =>
            r < lessons[l].text[1] \/ (r = lessons[l].text[1] /\ k <= lessons[l].text[2])
MetricFits(a) ==
    LET m == metrics[a] IN
    /\ m.total = SumOf(m.history) /\ m.total = SumOf(m.counts) /\ m.counts = counters[a]
    /\ m.prs = Len(m.history) /\ m.prs = Cardinality(OwnReviews(a))

ReviewInv ==
    /\ ReviewTypeOK
    /\ \A r \in DOMAIN reviews : ReviewFits(r)
    /\ \A l \in DOMAIN lessons : LessonFits(l)
    /\ lessonStore = "memory" =>
          /\ \A l, j \in DOMAIN lessons : Alike(j, l)
          /\ \A l \in DOMAIN lessons, r \in DOMAIN reviews : IsLatest(l, r)
    /\ \A a \in Authors : MetricFits(a)

LEMMA FindingsAreSequences ==
    ASSUME NEW f \in FindingLists
    PROVE  /\ f \in Seq(Categories) /\ Len(f) \in Nat /\ f \in [1..Len(f) -> Categories]
           /\ (f = <<>> <=> Len(f) = 0)
<1>1. PICK n \in 0..MaxFindings : f \in [1..n -> Categories]
  BY DEF FindingLists
<1>2. n \in Nat
  OBVIOUS
<1>3. f \in Seq(Categories)
  BY <1>1, <1>2, IsASeq
<1> QED
  BY <1>3, LenProperties, EmptySeq

LEMMA ReviewInitially == ReviewInit => ReviewInv
<1> SUFFICES ASSUME ReviewInit PROVE ReviewInv
  OBVIOUS
<1> USE ReviewAssumption
<1>1. reviews = <<>> /\ lessons = <<>> /\ DOMAIN reviews = {} /\ DOMAIN lessons = {}
  BY EmptySeq DEF ReviewInit
<1>2. PICK zeros : zeros = [c \in Categories |-> 0]
  OBVIOUS
<1>3. zeros \in [Categories -> Int] /\ SumFunction(zeros) = 0
  BY <1>2, SumOfZeros
<1>4. PICK m : m = [prs |-> 0, total |-> 0, counts |-> zeros, history |-> <<>>]
  OBVIOUS
<1>5. m \in Metric
  <2>1. <<>> \in Seq(Int)
    BY EmptySeq
  <2> QED
    BY <1>3, <1>4, <2>1 DEF Metric
<1>6. metrics = [a \in Authors |-> m] /\ counters = [a \in Authors |-> zeros]
  BY <1>2, <1>4 DEF ReviewInit
<1>7. SumFunction(<<>>) = 0 /\ Len(<<>>) = 0
  <2>1. DOMAIN <<>> = {} /\ <<>> \in [{} -> Int] /\ IsFiniteSet({})
    BY FS_EmptySet
  <2>2. SumFunctionOnSet(<<>>, {}) = 0
    BY <2>1, SumTakesOne
  <2> QED
    BY <2>1, <2>2, SumOnDomain
<1>8. ASSUME NEW a \in Authors PROVE MetricFits(a)
  <2>1. OwnReviews(a) = {} /\ Cardinality({}) = 0
    BY <1>1, FS_EmptySet DEF OwnReviews
  <2>2. metrics[a] = m /\ counters[a] = zeros
    BY <1>6
  <2> QED
    BY <1>3, <1>4, <1>7, <2>1, <2>2 DEF MetricFits, SumOf
<1>9. ReviewTypeOK
  <2>1. reviews \in Seq(ReviewRow) /\ lessons \in Seq(Lesson)
    BY <1>1, EmptySeq
  <2> QED
    BY <1>3, <1>5, <1>6, <2>1 DEF ReviewTypeOK
<1> QED
  BY <1>1, <1>8, <1>9 DEF ReviewInv

LEMMA OwnReviewsAreCounted ==
    ASSUME ReviewInv, NEW a
    PROVE  IsFiniteSet(OwnReviews(a)) /\ Cardinality(OwnReviews(a)) \in Nat
<1>1. Len(reviews) \in Nat /\ DOMAIN reviews = 1..Len(reviews)
  BY LenProperties DEF ReviewInv, ReviewTypeOK
<1>2. IsFiniteSet(1..Len(reviews))
  <2>1. 1 \in Int /\ Len(reviews) \in Int
    BY <1>1
  <2> QED
    BY <2>1, FS_Interval
<1>3. OwnReviews(a) \subseteq 1..Len(reviews)
  BY <1>1 DEF OwnReviews
<1> QED
  BY <1>2, <1>3, FS_Subset, FS_CardinalityType

\* The row of a review changes and nothing of whose it is or what it found.
LEMMA MetricsStand ==
    ASSUME ReviewInv, UNCHANGED <<metrics, counters>>, reviews' \in Seq(ReviewRow),
           DOMAIN reviews' = DOMAIN reviews,
           \A r \in DOMAIN reviews : reviews'[r].author = reviews[r].author
    PROVE  \A a \in Authors : MetricFits(a)'
<1>1. \A a \in Authors : OwnReviews(a)' = OwnReviews(a)
  BY DEF OwnReviews
<1> QED
  BY <1>1 DEF ReviewInv, MetricFits

\* A finding is dealt with: its category has a lesson then.
LEMMA FindingIsStored ==
    ASSUME ReviewInv, NEW r \in Running, Stored(r), UNCHANGED <<lessonStore, metrics, counters>>,
           lessons' \in Seq(Lesson),
           DOMAIN lessons \subseteq DOMAIN lessons',
           \A l \in DOMAIN lessons : lessons'[l].category = lessons[l].category,
           \E l \in DOMAIN lessons' : lessons'[l].category = LessonOf(r).category,
           \A l \in DOMAIN lessons' :
              \/ l \in DOMAIN lessons /\ lessons'[l].author = lessons[l].author
                 /\ lessons'[l].text = lessons[l].text
              \/ /\ lessons'[l].author = LessonOf(r).author
                 /\ lessons'[l].category = LessonOf(r).category
                 /\ lessons'[l].text = LessonOf(r).text,
           lessonStore = "memory" =>
              \A l, j \in DOMAIN lessons' : Alike(j, l)',
           lessonStore = "memory" =>
              \E l \in DOMAIN lessons' :
                 /\ lessons'[l].author = LessonOf(r).author
                 /\ lessons'[l].category = LessonOf(r).category
                 /\ lessons'[l].text = LessonOf(r).text
    PROVE  ReviewInv'
<1>1. /\ r \in DOMAIN reviews /\ reviews[r] \in ReviewRow /\ reviews[r].how = "runs"
      /\ reviews[r].at \in Nat /\ reviews[r].at >= 1 /\ reviews[r].at <= Len(reviews[r].findings)
      /\ Len(reviews[r].findings) \in Nat
      /\ reviews[r].findings \in FindingLists
  <2>1. r \in DOMAIN reviews /\ reviews[r].how = "runs"
    BY DEF Running
  <2>2. reviews[r] \in ReviewRow
    BY <2>1, ElementOfSeq, LenProperties DEF ReviewInv, ReviewTypeOK
  <2> QED
    BY <2>1, <2>2, FindingsAreSequences DEF ReviewInv, ReviewFits, ReviewRow
<1>2. PICK at \in Nat : at = reviews[r].at
  BY <1>1
<1>3. PICK f \in FindingLists : f = reviews[r].findings
  BY <1>1
<1>4. PICK how \in {"runs", "ended"} : how = IF at = Len(f) THEN "ended" ELSE "runs"
  OBVIOUS
<1>5. PICK st \in Nat : st = reviews[r].stored + 1
  BY <1>1 DEF ReviewRow
<1>6. PICK row : row = [reviews[r] EXCEPT !.at = at + 1, !.stored = st, !.seen = 0, !.how = how]
  OBVIOUS
<1>7. /\ row \in ReviewRow /\ row.author = reviews[r].author /\ row.findings = f
      /\ row.at = at + 1 /\ row.seen = 0 /\ row.how = how
  <2>1. PICK n \in Nat : n = at + 1
    OBVIOUS
  <2>2. row = [reviews[r] EXCEPT !.at = n, !.stored = st, !.seen = 0, !.how = how]
    BY <1>6, <2>1
  <2>3. how \in {"runs", "ended", "failed"}
    OBVIOUS
  <2>4. /\ row.author = reviews[r].author /\ row.findings = f
        /\ row.at = n /\ row.seen = 0 /\ row.how = how
    BY <1>1, <1>3, <2>2 DEF ReviewRow
  <2>5. row = [author |-> reviews[r].author, findings |-> f, at |-> n, seen |-> 0, stored |-> st,
               how |-> how]
    BY <1>1, <1>3, <2>2 DEF ReviewRow
  <2>6. reviews[r].author \in Authors
    BY <1>1 DEF ReviewRow
  <2>7. row \in ReviewRow
    BY <2>3, <2>5, <2>6 DEF ReviewRow
  <2> QED
    BY <2>1, <2>4, <2>7
<1>8. reviews' = [reviews EXCEPT ![r] = row]
  BY <1>2, <1>3, <1>4, <1>5, <1>6 DEF Stored
<1>9. /\ reviews' \in Seq(ReviewRow) /\ Len(reviews') = Len(reviews) /\ DOMAIN reviews' = DOMAIN reviews
      /\ reviews'[r] = row /\ \A q \in DOMAIN reviews \ {r} : reviews'[q] = reviews[q]
  <2>1. reviews \in Seq(ReviewRow) /\ r \in 1..Len(reviews)
    BY <1>1, LenProperties DEF ReviewInv, ReviewTypeOK
  <2> QED
    BY <1>7, <1>8, <2>1, ExceptSeq
<1>10. \A q \in DOMAIN reviews : reviews'[q].author = reviews[q].author
                                 /\ reviews'[q].findings = reviews[q].findings
  BY <1>3, <1>7, <1>9
<1>11. LessonOf(r).category = f[at] /\ LessonOf(r).author = reviews[r].author
       /\ LessonOf(r).text = <<r, at>>
  BY <1>2, <1>3 DEF LessonOf
<1>12. ReviewTypeOK'
  BY <1>9 DEF ReviewInv, ReviewTypeOK
<1>13. \A a \in Authors : MetricFits(a)'
  BY <1>9, <1>10, MetricsStand
<1>14. ASSUME NEW l \in DOMAIN lessons' PROVE LessonFits(l)'
  <2>1. CASE l \in DOMAIN lessons /\ lessons'[l].author = lessons[l].author
             /\ lessons'[l].text = lessons[l].text
    <3>1. LessonFits(l) /\ lessons'[l].category = lessons[l].category
      BY <2>1 DEF ReviewInv
    <3> QED
      BY <1>9, <1>10, <2>1, <3>1 DEF LessonFits
  <2>2. CASE /\ lessons'[l].author = LessonOf(r).author
             /\ lessons'[l].category = LessonOf(r).category
             /\ lessons'[l].text = LessonOf(r).text
    <3>1. lessons'[l].text[1] = r /\ lessons'[l].text[2] = at
      BY <1>11, <2>2
    <3>2. at \in 1..Len(reviews'[r].findings) /\ reviews'[r].findings[at] = lessons'[l].category
      BY <1>1, <1>2, <1>3, <1>7, <1>9, <1>11, <2>2
    <3> QED
      BY <1>1, <1>7, <1>9, <1>11, <2>2, <3>1, <3>2 DEF LessonFits
  <2> QED
    BY <2>1, <2>2
<1>15. ASSUME NEW q \in DOMAIN reviews' PROVE ReviewFits(q)'
  <2>1. CASE q = r
    <3>1. \A k \in 1 .. at : \E l \in DOMAIN lessons' : lessons'[l].category = f[k]
      <4> SUFFICES ASSUME NEW k \in 1 .. at
                   PROVE  \E l \in DOMAIN lessons' : lessons'[l].category = f[k]
        OBVIOUS
      <4>1. CASE k = at
        BY <1>11, <4>1
      <4>2. CASE k # at
        <5>1. k \in 1 .. reviews[r].at - 1
          BY <1>2, <4>2
        <5>2. PICK l \in DOMAIN lessons : lessons[l].category = f[k]
          BY <1>1, <1>3, <5>1 DEF ReviewInv, ReviewFits
        <5> QED
          BY <5>2
      <4> QED
        BY <4>1, <4>2
    <3>2. (at + 1) - 1 = at /\ at + 1 >= 1 /\ at + 1 <= Len(f) + 1
      BY <1>1, <1>2, <1>3
    <3>3. how = "runs" => at + 1 <= Len(f)
      BY <1>1, <1>2, <1>3, <1>4
    <3>4. lessonStore = "memory" => r = Len(reviews)
      BY <1>1 DEF ReviewInv, ReviewFits
    <3>5. PICK v : v = reviews'[r]
      OBVIOUS
    <3>6. v.at = at + 1 /\ v.findings = f /\ v.seen = 0 /\ v.how = how
      BY <1>7, <1>9, <3>5
    <3>7. v.at >= 1 /\ v.at <= Len(v.findings) + 1
      BY <3>2, <3>6
    <3>8. v.how = "runs" => v.at <= Len(v.findings) /\ (lessonStore' = "memory" => r = Len(reviews'))
      BY <1>9, <3>3, <3>4, <3>6
    <3>9. \A k \in 1 .. v.at - 1 : \E l \in DOMAIN lessons' : lessons'[l].category = v.findings[k]
      BY <3>1, <3>2, <3>6
    <3> QED
      BY <2>1, <3>5, <3>6, <3>7, <3>8, <3>9 DEF ReviewFits
  <2>2. CASE q # r
    <3>1. ReviewFits(q) /\ reviews'[q] = reviews[q]
      BY <1>9, <2>2 DEF ReviewInv
    <3> QED
      BY <1>9, <3>1 DEF ReviewFits
  <2> QED
    BY <2>1, <2>2
<1>16. ASSUME lessonStore = "memory", NEW l \in DOMAIN lessons', NEW q \in DOMAIN reviews'
       PROVE  IsLatest(l, q)'
  <2> SUFFICES ASSUME NEW k \in 1 .. reviews'[q].at - 1,
                      reviews'[q].author = lessons'[l].author,
                      reviews'[q].findings[k] = lessons'[l].category
               PROVE  q < lessons'[l].text[1] \/ (q = lessons'[l].text[1] /\ k <= lessons'[l].text[2])
    BY DEF IsLatest
  <2>1. r = Len(reviews) /\ q \in 1..Len(reviews) /\ q <= r
    <3>1. r = Len(reviews)
      BY <1>1, <1>16 DEF ReviewInv, ReviewFits
    <3>2. q \in 1..Len(reviews) /\ Len(reviews) \in Nat
      BY <1>9, LenProperties DEF ReviewInv, ReviewTypeOK
    <3> QED
      BY <3>1, <3>2
  <2>2. CASE lessons'[l].text = LessonOf(r).text
    <3>1. lessons'[l].text[1] = r /\ lessons'[l].text[2] = at
      BY <1>11, <2>2
    <3>2. q = r => k <= at
      BY <1>2, <1>7, <1>9
    <3>3. q \in Int /\ r \in Int
      BY <2>1
    <3> QED
      BY <2>1, <3>1, <3>2, <3>3
  <2>3. CASE lessons'[l].text # LessonOf(r).text
    <3>1. l \in DOMAIN lessons /\ lessons'[l].author = lessons[l].author
             /\ lessons'[l].text = lessons[l].text /\ lessons'[l].category = lessons[l].category
      BY <2>3
    <3>2. IsLatest(l, q)
      BY <1>9, <1>16, <3>1 DEF ReviewInv
    <3>3. k \in 1 .. reviews[q].at - 1
      <4>1. CASE q # r
        BY <1>9, <4>1
      <4>2. CASE q = r
        <5>1. k \in 1..at
          BY <1>7, <1>9, <4>2
        <5>2. k # at
          <6> SUFFICES ASSUME k = at PROVE FALSE
            OBVIOUS
          <6>1. PICK j \in DOMAIN lessons' : /\ lessons'[j].author = LessonOf(r).author
                                             /\ lessons'[j].category = LessonOf(r).category
                                             /\ lessons'[j].text = LessonOf(r).text
            BY <1>16
          <6>2. lessons'[j].author = lessons'[l].author /\ lessons'[j].category = lessons'[l].category
            BY <1>3, <1>7, <1>9, <1>11, <4>2, <6>1
          <6>3. j = l
            BY <1>16, <6>2 DEF Alike
          <6> QED
            BY <2>3, <6>1, <6>3
        <5> QED
          BY <1>2, <4>2, <5>1, <5>2
      <4> QED
        BY <4>1, <4>2
    <3>4. reviews[q].author = lessons[l].author /\ reviews[q].findings[k] = lessons[l].category
      BY <1>9, <1>10, <3>1
    <3>5. q < lessons[l].text[1] \/ (q = lessons[l].text[1] /\ k <= lessons[l].text[2])
      BY <3>2, <3>3, <3>4 DEF IsLatest
    <3> QED
      BY <3>1, <3>5
  <2> QED
    BY <2>2, <2>3
<1> QED
  BY <1>12, <1>13, <1>14, <1>15, <1>16 DEF ReviewInv

\* A review that only looks up a row, or fails, keeps its place.
LEMMA ReviewStands ==
    ASSUME ReviewInv, NEW r \in Running, NEW seen \in Int, NEW how \in {"runs", "failed"},
           reviews' = [reviews EXCEPT ![r] = [reviews[r] EXCEPT !.seen = seen, !.how = how]],
           seen \notin {0, 0 - 1} =>
              /\ seen \in DOMAIN lessons
              /\ lessons[seen].category = reviews[r].findings[reviews[r].at],
           UNCHANGED <<lessonStore, metrics, counters, lessons>>
    PROVE  ReviewInv'
<1>1. /\ r \in DOMAIN reviews /\ reviews[r] \in ReviewRow /\ reviews[r].how = "runs"
      /\ reviews[r].at <= Len(reviews[r].findings) /\ ReviewFits(r)
  <2>1. r \in DOMAIN reviews /\ reviews[r].how = "runs"
    BY DEF Running
  <2>2. reviews[r] \in ReviewRow
    BY <2>1, ElementOfSeq, LenProperties DEF ReviewInv, ReviewTypeOK
  <2> QED
    BY <2>1, <2>2 DEF ReviewInv, ReviewFits
<1>2. PICK row : row = [reviews[r] EXCEPT !.seen = seen, !.how = how]
  OBVIOUS
<1>3. /\ row \in ReviewRow /\ row.author = reviews[r].author /\ row.findings = reviews[r].findings
      /\ row.at = reviews[r].at /\ row.seen = seen /\ row.how = how
  BY <1>1, <1>2 DEF ReviewRow
<1>4. /\ reviews' \in Seq(ReviewRow) /\ Len(reviews') = Len(reviews) /\ DOMAIN reviews' = DOMAIN reviews
      /\ reviews'[r] = row /\ \A q \in DOMAIN reviews \ {r} : reviews'[q] = reviews[q]
  <2>1. reviews \in Seq(ReviewRow) /\ r \in 1..Len(reviews)
    BY <1>1, LenProperties DEF ReviewInv, ReviewTypeOK
  <2>2. reviews' = [reviews EXCEPT ![r] = row]
    BY <1>2
  <2>3. row \in ReviewRow
    BY <1>3
  <2>4. /\ reviews' \in Seq(ReviewRow) /\ Len(reviews') = Len(reviews)
        /\ \A j \in 1..Len(reviews) : reviews'[j] = IF j = r THEN row ELSE reviews[j]
    BY <2>1, <2>2, <2>3, ExceptSeq
  <2>5. DOMAIN reviews = 1..Len(reviews) /\ DOMAIN reviews' = 1..Len(reviews)
    BY <2>1, <2>4, LenProperties
  <2> QED
    BY <2>1, <2>4, <2>5
<1>5. \A q \in DOMAIN reviews : /\ reviews'[q].author = reviews[q].author
                                /\ reviews'[q].findings = reviews[q].findings
                                /\ reviews'[q].at = reviews[q].at
  BY <1>3, <1>4
<1>6. \A a \in Authors : MetricFits(a)'
  BY <1>4, <1>5, MetricsStand
<1>7. ASSUME NEW q \in DOMAIN reviews' PROVE ReviewFits(q)'
  <2>1. CASE q = r
    <3>1. PICK at, f, len : at = reviews[r].at /\ f = reviews[r].findings /\ len = Len(reviews)
      OBVIOUS
    <3>2. /\ reviews'[q].at = at /\ reviews'[q].findings = f /\ reviews'[q].seen = seen
          /\ reviews'[q].how = how /\ Len(reviews') = len
      BY <1>3, <1>4, <2>1, <3>1
    <3>3. /\ at >= 1 /\ at <= Len(f) + 1 /\ at <= Len(f) /\ (lessonStore = "memory" => q = len)
          /\ \A k \in 1 .. at - 1 : \E l \in DOMAIN lessons : lessons[l].category = f[k]
      BY <1>1, <2>1, <3>1 DEF ReviewFits
    <3>4. seen \notin {0, 0 - 1} => seen \in DOMAIN lessons /\ lessons[seen].category = f[at]
      BY <3>1
    <3>5. lessonStore' = lessonStore /\ lessons' = lessons
      OBVIOUS
    <3> QED
      BY <3>2, <3>3, <3>4, <3>5 DEF ReviewFits
  <2>2. CASE q # r
    <3>1. ReviewFits(q) /\ reviews'[q] = reviews[q]
      BY <1>4, <2>2 DEF ReviewInv
    <3>2. PICK v : v = reviews[q]
      OBVIOUS
    <3>3. reviews'[q] = v /\ Len(reviews') = Len(reviews) /\ lessonStore' = lessonStore
          /\ lessons' = lessons
      BY <1>4, <3>1, <3>2
    <3> QED
      BY <3>1, <3>2, <3>3 DEF ReviewFits
  <2> QED
    BY <2>1, <2>2
<1>8. \A l \in DOMAIN lessons' : LessonFits(l)'
  BY <1>4, <1>5 DEF ReviewInv, LessonFits
<1>9. \A l, j \in DOMAIN lessons : Alike(j, l)' <=> Alike(j, l)
  BY DEF Alike
<1>10. \A l \in DOMAIN lessons, q \in DOMAIN reviews : IsLatest(l, q) => IsLatest(l, q)'
  BY <1>5 DEF IsLatest
<1>11. ReviewTypeOK'
  BY <1>4 DEF ReviewInv, ReviewTypeOK
<1> QED
  BY <1>4, <1>6, <1>7, <1>8, <1>9, <1>10, <1>11 DEF ReviewInv

\* A review begins and is counted.
LEMMA ReviewBegins ==
    ASSUME ReviewInv, NEW a \in Authors, NEW f \in FindingLists, ProcessReview(a, f)
    PROVE  ReviewInv'
<1> USE ReviewAssumption
<1>1. /\ f \in Seq(Categories) /\ Len(f) \in Nat /\ f \in [1..Len(f) -> Categories]
      /\ (f = <<>> <=> Len(f) = 0)
  BY FindingsAreSequences, SMTT(30)
<1>2. PICK n \in Nat : n = Len(f)
  BY <1>1
<1>3. PICK len \in Nat : len = Len(reviews)
  BY LenProperties DEF ReviewInv, ReviewTypeOK
<1>4. PICK how \in {"runs", "ended"} : how = IF f = <<>> THEN "ended" ELSE "runs"
  OBVIOUS
<1>5. PICK row : row = [author |-> a, findings |-> f, at |-> 1, seen |-> 0, stored |-> 0, how |-> how]
  OBVIOUS
<1>6. row \in ReviewRow
  BY <1>5 DEF ReviewRow
<1>7. /\ reviews' = Append(reviews, row) /\ lessonStore' = lessonStore /\ lessons' = lessons
      /\ lessonStore = "memory" => Running = {}
      /\ RecordReview(a, f)
  BY <1>4, <1>5 DEF ProcessReview
<1>8. /\ DOMAIN reviews = 1..len /\ DOMAIN reviews' = 1..(len + 1) /\ Len(reviews') = len + 1
      /\ reviews' \in Seq(ReviewRow) /\ reviews'[len + 1] = row
      /\ \A q \in 1..len : reviews'[q] = reviews[q]
      /\ len + 1 \notin 1..len /\ 1..(len + 1) = 1..len \cup {len + 1}
  <2>1. reviews \in Seq(ReviewRow)
    BY DEF ReviewInv, ReviewTypeOK
  <2>2. /\ reviews' \in Seq(ReviewRow) /\ Len(reviews') = len + 1 /\ reviews'[len + 1] = row
        /\ \A q \in 1..len : reviews'[q] = reviews[q]
    BY <1>3, <1>6, <1>7, <2>1, AppendProperties
  <2>3. DOMAIN reviews = 1..len /\ DOMAIN reviews' = 1..(len + 1)
    BY <1>3, <2>1, <2>2, LenProperties
  <2> QED
    BY <2>2, <2>3
<1>9. PICK m \in Metric : m = metrics[a]
  BY DEF ReviewInv, ReviewTypeOK
<1>10. PICK counts : counts = [c \in Categories |-> m.counts[c] + Found(f, c)]
  OBVIOUS
<1>11. counts \in [Categories -> Int] /\ SumFunction(counts) = SumFunction(m.counts) + n
  <2>1. m.counts \in [Categories -> Int]
    BY DEF Metric
  <2> QED
    BY <1>1, <1>2, <1>10, <2>1, FoundAdds
<1>12. PICK h : h = Append(m.history, n)
  OBVIOUS
<1>13. /\ h \in Seq(Int) /\ Len(h) = Len(m.history) + 1
       /\ SumFunction(h) = SumFunction(m.history) + n /\ SumFunction(m.history) \in Int
  <2>1. m.history \in Seq(Int)
    BY DEF Metric
  <2>2. h \in Seq(Int) /\ Len(h) = Len(m.history) + 1
    BY <1>12, <2>1, AppendProperties
  <2> QED
    BY <1>12, <2>1, <2>2, SumAppends, SMTT(30)
<1>14. PICK prs \in Nat : prs = m.prs + 1
  BY DEF Metric
<1>15. PICK total \in Int : total = m.total + n
  BY DEF Metric
<1>16. PICK new : new = [prs |-> prs, total |-> total, counts |-> counts, history |-> h]
  OBVIOUS
<1>17. new \in Metric
  BY <1>11, <1>13, <1>16 DEF Metric
<1>18. metrics' = [metrics EXCEPT ![a] = new]
  <2>1. PICK rec : rec = RecordFindings(m, f)
    OBVIOUS
  <2>2. rec = [m EXCEPT !.total = total, !.counts = counts]
    BY <1>2, <1>10, <1>15, <2>1 DEF RecordFindings
  <2>3. /\ rec.prs = m.prs /\ rec.history = m.history
        /\ rec = [prs |-> m.prs, total |-> total, counts |-> counts, history |-> m.history]
    BY <2>2 DEF Metric
  <2>4. metrics' = [metrics EXCEPT ![a] = [rec EXCEPT !.prs = @ + 1, !.history = Append(@, Len(f))]]
    <3>1. metrics' = [metrics EXCEPT ![a] = [RecordFindings(metrics[a], f) EXCEPT
                                                 !.prs = @ + 1, !.history = Append(@, Len(f))]]
      BY <1>7 DEF RecordReview
    <3>2. RecordFindings(metrics[a], f) = rec
      BY <1>9, <2>1
    <3> QED
      BY <3>1, <3>2
  <2>5. [rec EXCEPT !.prs = @ + 1, !.history = Append(@, Len(f))]
            = [rec EXCEPT !.prs = prs, !.history = h]
    BY <1>2, <1>12, <1>14, <2>3
  <2>6. [rec EXCEPT !.prs = prs, !.history = h] = new
    <3>1. rec = [prs |-> m.prs, total |-> total, counts |-> counts, history |-> m.history]
      BY <2>3
    <3>2. PICK mid : mid = [rec EXCEPT !.prs = prs]
      OBVIOUS
    <3>3. mid = [prs |-> prs, total |-> total, counts |-> counts, history |-> m.history]
      BY <3>1, <3>2
    <3>4. [mid EXCEPT !.history = h] = new
      BY <1>16, <3>3
    <3> QED
      BY <3>2, <3>4
  <2> QED
    BY <2>4, <2>5, <2>6
<1>19. counters' = [counters EXCEPT ![a] = counts]
  <2>1. counters[a] = m.counts
    BY <1>9 DEF ReviewInv, MetricFits
  <2> QED
    BY <1>7, <1>10, <2>1 DEF RecordReview
<1>20. ReviewTypeOK'
  BY <1>7, <1>8, <1>11, <1>17, <1>18, <1>19 DEF ReviewInv, ReviewTypeOK
<1>21. MetricFits(a)'
  <2>1. metrics'[a] = new /\ counters'[a] = counts
    BY <1>18, <1>19 DEF ReviewInv, ReviewTypeOK
  <2>2. /\ m.total = SumFunction(m.history) /\ m.total = SumFunction(m.counts)
        /\ m.prs = Len(m.history) /\ m.prs = Cardinality(OwnReviews(a))
    BY <1>9 DEF ReviewInv, MetricFits, SumOf
  <2>3. PICK A, B : A = OwnReviews(a) /\ B = OwnReviews(a)'
    OBVIOUS
  <2>4. B = A \cup {len + 1} /\ len + 1 \notin A
    BY <1>5, <1>8, <2>3 DEF OwnReviews
  <2>5. Cardinality(B) = Cardinality(A) + 1
    BY <2>3, <2>4, OwnReviewsAreCounted, FS_AddElement
  <2>6. total = SumFunction(h) /\ total = SumFunction(counts)
    BY <1>11, <1>13, <1>15, <2>2
  <2>7. prs = Len(h) /\ prs = Cardinality(B)
    BY <1>13, <1>14, <2>2, <2>3, <2>5
  <2>8. new.total = total /\ new.counts = counts /\ new.history = h /\ new.prs = prs
    BY <1>16
  <2>9. PICK g : g = metrics'[a]
    OBVIOUS
  <2>10. /\ g.total = SumFunction(g.history) /\ g.total = SumFunction(g.counts)
         /\ g.counts = counters'[a] /\ g.prs = Len(g.history) /\ g.prs = Cardinality(B)
    BY <2>1, <2>6, <2>7, <2>8, <2>9
  <2> QED
    BY <2>3, <2>9, <2>10 DEF MetricFits, SumOf
<1>22. ASSUME NEW b \in Authors, b # a PROVE MetricFits(b)'
  <2>1. metrics'[b] = metrics[b] /\ counters'[b] = counters[b]
    BY <1>18, <1>19, <1>22 DEF ReviewInv, ReviewTypeOK
  <2>2. OwnReviews(b)' = OwnReviews(b)
    BY <1>5, <1>8, <1>22 DEF OwnReviews
  <2> QED
    BY <2>1, <2>2 DEF ReviewInv, MetricFits
<1>23. ASSUME NEW q \in DOMAIN reviews' PROVE ReviewFits(q)'
  <2>1. CASE q = len + 1
    <3>1. reviews'[q] = row
      BY <1>8, <2>1
    <3>2. 1 <= Len(f) + 1 /\ (how = "runs" => 1 <= Len(f)) /\ 1 .. 1 - 1 = {}
      BY <1>1, <1>4
    <3>3. how = "runs" => 1 <= Len(f) /\ q = Len(reviews')
      BY <1>8, <2>1, <3>2
    <3> QED
      BY <1>5, <3>1, <3>2, <3>3 DEF ReviewFits
  <2>2. CASE q \in 1..len
    <3>1. ReviewFits(q) /\ reviews'[q] = reviews[q]
      BY <1>8, <2>2 DEF ReviewInv
    <3>2. lessonStore = "memory" => reviews[q].how # "runs"
      BY <1>7, <1>8, <2>2 DEF Running
    <3> QED
      BY <1>7, <3>1, <3>2 DEF ReviewFits
  <2> QED
    BY <1>8, <2>1, <2>2
<1>24. \A l \in DOMAIN lessons' : LessonFits(l)'
  BY <1>7, <1>8 DEF ReviewInv, LessonFits
<1>25. \A l, j \in DOMAIN lessons : Alike(j, l)' <=> Alike(j, l)
  BY <1>7 DEF Alike
<1>26. ASSUME lessonStore = "memory", NEW l \in DOMAIN lessons', NEW q \in DOMAIN reviews' PROVE IsLatest(l, q)'
  <2>1. CASE q = len + 1
    <3>1. reviews'[q].at = 1 /\ 1 .. 1 - 1 = {}
      BY <1>5, <1>8, <2>1
    <3> QED
      BY <3>1 DEF IsLatest
  <2>2. CASE q \in 1..len
    <3>1. IsLatest(l, q) /\ reviews'[q] = reviews[q]
      BY <1>7, <1>8, <1>26, <2>2 DEF ReviewInv
    <3> QED
      BY <1>7, <3>1 DEF IsLatest
  <2> QED
    BY <1>8, <2>1, <2>2
<1> QED
  BY <1>7, <1>20, <1>21, <1>22, <1>23, <1>24, <1>25, <1>26 DEF ReviewInv

LEMMA MinIs ==
    ASSUME NEW S, S \subseteq Nat, S # {}
    PROVE  Min(S) \in S
<1>1. PICK e : e \in S
  OBVIOUS
<1>2. \E m \in S : \A n \in S : m <= n
  BY <1>1, LeastNatural
<1> QED
  BY <1>2 DEF Min

LEMMA LessonRow ==
    ASSUME ReviewInv, NEW r \in Running
    PROVE  LessonOf(r) \in Lesson
<1>1. r \in DOMAIN reviews /\ reviews[r].how = "runs" /\ ReviewFits(r)
  BY DEF Running, ReviewInv
<1>2. reviews[r] \in ReviewRow /\ r \in Nat
  BY <1>1, ElementOfSeq, LenProperties DEF ReviewInv, ReviewTypeOK
<1>3. PICK at \in Nat : at = reviews[r].at
  BY <1>2 DEF ReviewRow
<1>4. PICK f \in FindingLists : f = reviews[r].findings
  BY <1>2 DEF ReviewRow
<1>5. at \in 1..Len(f)
  BY <1>1, <1>3, <1>4, FindingsAreSequences DEF ReviewFits
<1>6. f[at] \in Categories
  BY <1>5, FindingsAreSequences
<1>7. LessonOf(r) = [author |-> reviews[r].author, category |-> f[at], text |-> <<r, at>>, hits |-> 0]
  BY <1>3, <1>4 DEF LessonOf
<1> QED
  BY <1>2, <1>6, <1>7 DEF Lesson, ReviewRow

\* A lesson is added behind the others.
LEMMA LessonAppended ==
    ASSUME ReviewInv, NEW r \in Running, Stored(r), UNCHANGED <<lessonStore, metrics, counters>>,
           lessons' = Append(lessons, LessonOf(r)),
           lessonStore = "memory" =>
              \A l \in DOMAIN lessons : lessons[l].category # LessonOf(r).category
                                        \/ lessons[l].author # LessonOf(r).author
    PROVE  ReviewInv'
<1>1. PICK len \in Nat : len = Len(lessons)
  BY LenProperties DEF ReviewInv, ReviewTypeOK
<1>2. PICK new \in Lesson : new = LessonOf(r)
  BY LessonRow
<1>3. /\ DOMAIN lessons = 1..len /\ DOMAIN lessons' = 1..(len + 1)
      /\ lessons' \in Seq(Lesson) /\ lessons'[len + 1] = new
      /\ \A q \in 1..len : lessons'[q] = lessons[q]
      /\ len + 1 \notin 1..len /\ 1..(len + 1) = 1..len \cup {len + 1}
  <2>1. lessons \in Seq(Lesson)
    BY DEF ReviewInv, ReviewTypeOK
  <2>2. /\ lessons' \in Seq(Lesson) /\ Len(lessons') = len + 1 /\ lessons'[len + 1] = new
        /\ \A q \in 1..len : lessons'[q] = lessons[q]
    BY <1>1, <1>2, <2>1, AppendProperties
  <2>3. DOMAIN lessons = 1..len /\ DOMAIN lessons' = 1..(len + 1)
    BY <1>1, <2>1, <2>2, LenProperties
  <2> QED
    BY <2>2, <2>3
<1>4. ASSUME lessonStore = "memory", NEW l \in DOMAIN lessons', NEW j \in DOMAIN lessons'
      PROVE  Alike(j, l)'
  <2>1. CASE l \in 1..len /\ j \in 1..len
    BY <1>3, <1>4, <2>1 DEF ReviewInv, Alike
  <2>2. CASE l = len + 1 /\ j = len + 1
    BY <2>2 DEF Alike
  <2>3. CASE l = len + 1 /\ j \in 1..len
    BY <1>2, <1>3, <1>4, <2>3 DEF Alike
  <2>4. CASE j = len + 1 /\ l \in 1..len
    BY <1>2, <1>3, <1>4, <2>4 DEF Alike
  <2> QED
    BY <1>3, <2>1, <2>2, <2>3, <2>4
<1>5. /\ DOMAIN lessons \subseteq DOMAIN lessons' /\ len + 1 \in DOMAIN lessons'
      /\ \A l \in DOMAIN lessons : lessons'[l] = lessons[l]
      /\ \A l \in DOMAIN lessons' : l \in DOMAIN lessons \/ l = len + 1
  BY <1>3
<1>6. \A l \in DOMAIN lessons' :
              \/ l \in DOMAIN lessons /\ lessons'[l].author = lessons[l].author
                 /\ lessons'[l].text = lessons[l].text
              \/ /\ lessons'[l].author = LessonOf(r).author
                 /\ lessons'[l].category = LessonOf(r).category
                 /\ lessons'[l].text = LessonOf(r).text
  BY <1>2, <1>3, <1>5
<1>7. \E l \in DOMAIN lessons' :
                 /\ lessons'[l].author = LessonOf(r).author
                 /\ lessons'[l].category = LessonOf(r).category
                 /\ lessons'[l].text = LessonOf(r).text
  BY <1>2, <1>3, <1>5
<1> QED
  BY <1>3, <1>4, <1>5, <1>6, <1>7, FindingIsStored

LEMMA ReviewStep == ReviewInv /\ [ReviewNext]_reviewVars => ReviewInv'
<1> SUFFICES ASSUME ReviewInv, [ReviewNext]_reviewVars PROVE ReviewInv'
  OBVIOUS
<1>0. lessons \in Seq(Lesson) /\ DOMAIN lessons = 1..Len(lessons) /\ DOMAIN lessons \subseteq Nat
  BY LenProperties DEF ReviewInv, ReviewTypeOK
<1>1. ASSUME NEW a \in Authors, NEW f \in FindingLists, ProcessReview(a, f) PROVE ReviewInv'
  BY <1>1, ReviewBegins
<1>2. ASSUME NEW r \in Running, KeepInMemory(r) PROVE ReviewInv'
  <2>1. PICK same : same = {k \in DOMAIN lessons : lessons[k].category = LessonOf(r).category
                                           /\ lessons[k].author = LessonOf(r).author}
    OBVIOUS
  <2>2. /\ lessonStore = "memory" /\ Stored(r) /\ UNCHANGED <<lessonStore, metrics, counters>>
        /\ lessons' = IF same = {} THEN Append(lessons, LessonOf(r))
                      ELSE [lessons EXCEPT ![Min(same)].text = LessonOf(r).text]
    BY <1>2, <2>1 DEF KeepInMemory
  <2>3. CASE same = {}
    <3>1. \A l \in DOMAIN lessons : lessons[l].category # LessonOf(r).category
                                        \/ lessons[l].author # LessonOf(r).author
      BY <2>1, <2>3
    <3> QED
      BY <2>2, <2>3, <3>1, LessonAppended
  <2>4. CASE same # {}
    <3>1. PICK m \in same : m = Min(same)
      BY <1>0, <2>1, <2>4, MinIs
    <3>2. PICK new \in Lesson : new = LessonOf(r)
      BY LessonRow
    <3>3. m \in DOMAIN lessons /\ lessons[m].category = new.category /\ lessons[m].author = new.author
          /\ lessons[m] \in Lesson
      BY <1>0, <2>1, <3>1, <3>2, ElementOfSeq
    <3>4. PICK row : row = [lessons[m] EXCEPT !.text = new.text]
      OBVIOUS
    <3>5. /\ row \in Lesson /\ row.category = lessons[m].category /\ row.author = lessons[m].author
          /\ row.text = new.text
      BY <3>2, <3>3, <3>4 DEF Lesson
    <3>6. lessons' = [lessons EXCEPT ![m] = row]
      BY <2>2, <2>4, <3>1, <3>2, <3>4
    <3>7. /\ lessons' \in Seq(Lesson) /\ DOMAIN lessons' = DOMAIN lessons /\ lessons'[m] = row
          /\ \A l \in DOMAIN lessons \ {m} : lessons'[l] = lessons[l]
      <4>1. m \in 1..Len(lessons)
        BY <1>0, <3>3
      <4> QED
        BY <1>0, <3>5, <3>6, <4>1, ExceptSeq
    <3>8. \A l \in DOMAIN lessons : /\ lessons'[l].category = lessons[l].category
                                    /\ lessons'[l].author = lessons[l].author
      BY <3>5, <3>7
    <3>9. \A l \in DOMAIN lessons' :
              \/ l \in DOMAIN lessons /\ lessons'[l].author = lessons[l].author
                 /\ lessons'[l].text = lessons[l].text
              \/ /\ lessons'[l].author = LessonOf(r).author
                 /\ lessons'[l].category = LessonOf(r).category
                 /\ lessons'[l].text = LessonOf(r).text
      BY <3>2, <3>3, <3>5, <3>7
    <3>10. \E l \in DOMAIN lessons' :
                 /\ lessons'[l].author = LessonOf(r).author
                 /\ lessons'[l].category = LessonOf(r).category
                 /\ lessons'[l].text = LessonOf(r).text
      BY <3>2, <3>3, <3>5, <3>7
    <3>11. \A l, j \in DOMAIN lessons' : Alike(j, l)'
      BY <2>2, <3>7, <3>8 DEF ReviewInv, Alike
    <3> QED
      BY <2>2, <3>7, <3>8, <3>9, <3>10, <3>11, FindingIsStored
  <2> QED
    BY <2>3, <2>4
<1>3. ASSUME NEW r \in Running, LookUp(r) PROVE ReviewInv'
  <2>1. PICK same : same = {k \in DOMAIN lessons : lessons[k].category = LessonOf(r).category}
    OBVIOUS
  <2>2. PICK seen : seen = IF same = {} THEN -1 ELSE Min(same)
    OBVIOUS
  <2>3. reviews' = [reviews EXCEPT ![r].seen = seen] /\ UNCHANGED <<lessonStore, metrics, counters, lessons>>
    BY <1>3, <2>1, <2>2 DEF LookUp
  <2>4. same # {} => Min(same) \in same
    BY <1>0, <2>1, MinIs
  <2>5. seen \in Int /\ (seen \notin {0, 0 - 1} =>
              /\ seen \in DOMAIN lessons
              /\ lessons[seen].category = reviews[r].findings[reviews[r].at])
    <3>1. CASE same = {}
      BY <2>2, <3>1
    <3>2. CASE same # {}
      <4>1. seen \in DOMAIN lessons /\ lessons[seen].category = LessonOf(r).category
        BY <2>1, <2>2, <2>4, <3>2
      <4> QED
        BY <1>0, <4>1 DEF LessonOf
    <3> QED
      BY <3>1, <3>2
  <2>6. reviews[r].how = "runs" /\ reviews[r] \in ReviewRow
    BY ElementOfSeq, LenProperties DEF Running, ReviewInv, ReviewTypeOK
  <2>7. [reviews[r] EXCEPT !.seen = seen] = [reviews[r] EXCEPT !.seen = seen, !.how = "runs"]
    BY <2>6 DEF ReviewRow
  <2>8. reviews' = [reviews EXCEPT ![r] = [reviews[r] EXCEPT !.seen = seen, !.how = "runs"]]
    BY <2>3, <2>7
  <2> QED
    BY <2>3, <2>5, <2>8, ReviewStands
<1>4. ASSUME NEW r \in Running, WriteLesson(r) PROVE ReviewInv'
  <2>1. /\ lessonStore = "postgres" /\ Stored(r) /\ UNCHANGED <<lessonStore, metrics, counters>>
        /\ reviews[r].seen # 0
        /\ lessons' = IF reviews[r].seen = -1 THEN Append(lessons, LessonOf(r))
                      ELSE [lessons EXCEPT ![reviews[r].seen].hits = @ + 1]
    BY <1>4 DEF WriteLesson
  <2>2. lessonStore # "memory"
    BY <2>1
  <2>3. CASE reviews[r].seen = -1
    BY <2>1, <2>2, <2>3, LessonAppended, SMTT(30)
  <2>4. CASE reviews[r].seen # -1
    <3>1. PICK m : m = reviews[r].seen
      OBVIOUS
    <3>2. m \in DOMAIN lessons /\ lessons[m].category = LessonOf(r).category
      <4>1. ReviewFits(r) /\ reviews[r].seen \notin {0, 0 - 1}
        BY <2>1, <2>4 DEF Running, ReviewInv
      <4> QED
        BY <3>1, <4>1 DEF ReviewFits, LessonOf
    <3>3. lessons[m] \in Lesson
      BY <1>0, <3>2, ElementOfSeq
    <3>4. PICK h \in Nat : h = lessons[m].hits + 1
      BY <3>3 DEF Lesson
    <3>5. PICK row : row = [lessons[m] EXCEPT !.hits = h]
      OBVIOUS
    <3>6. /\ row \in Lesson /\ row.category = lessons[m].category /\ row.author = lessons[m].author
          /\ row.text = lessons[m].text
      BY <3>3, <3>5 DEF Lesson
    <3>7. lessons' = [lessons EXCEPT ![m] = row]
      BY <2>1, <2>4, <3>1, <3>4, <3>5
    <3>8. /\ lessons' \in Seq(Lesson) /\ DOMAIN lessons' = DOMAIN lessons /\ lessons'[m] = row
          /\ \A l \in DOMAIN lessons \ {m} : lessons'[l] = lessons[l]
      <4>1. m \in 1..Len(lessons)
        BY <1>0, <3>2
      <4> QED
        BY <1>0, <3>6, <3>7, <4>1, ExceptSeq
    <3>9. \A l \in DOMAIN lessons : /\ lessons'[l].category = lessons[l].category
                                    /\ lessons'[l].author = lessons[l].author
                                    /\ lessons'[l].text = lessons[l].text
      BY <3>6, <3>8
    <3>10. \E l \in DOMAIN lessons' : lessons'[l].category = LessonOf(r).category
      BY <3>2, <3>8, <3>9
    <3>11. DOMAIN lessons \subseteq DOMAIN lessons'
      BY <3>8
    <3>12. \A l \in DOMAIN lessons' :
              \/ l \in DOMAIN lessons /\ lessons'[l].author = lessons[l].author
                 /\ lessons'[l].text = lessons[l].text
              \/ /\ lessons'[l].author = LessonOf(r).author
                 /\ lessons'[l].category = LessonOf(r).category
                 /\ lessons'[l].text = LessonOf(r).text
      BY <3>8, <3>9
    <3> QED
      BY <2>1, <2>2, <3>8, <3>9, <3>10, <3>11, <3>12, FindingIsStored
  <2> QED
    BY <2>3, <2>4
<1>5. ASSUME NEW r \in Running, StoreFails(r) PROVE ReviewInv'
  <2>1. reviews' = [reviews EXCEPT ![r].how = "failed"] /\ UNCHANGED <<lessonStore, metrics, counters, lessons>>
    BY <1>5 DEF StoreFails
  <2>2. r \in DOMAIN reviews /\ reviews[r] \in ReviewRow /\ ReviewFits(r)
    BY ElementOfSeq, LenProperties DEF Running, ReviewInv, ReviewTypeOK
  <2>3. PICK seen \in Int : seen = reviews[r].seen
    BY <2>2 DEF ReviewRow
  <2>4. seen \notin {0, 0 - 1} =>
              /\ seen \in DOMAIN lessons
              /\ lessons[seen].category = reviews[r].findings[reviews[r].at]
    BY <2>2, <2>3 DEF ReviewFits
  <2>5. [reviews[r] EXCEPT !.how = "failed"] = [reviews[r] EXCEPT !.seen = seen, !.how = "failed"]
    BY <2>2, <2>3 DEF ReviewRow
  <2>6. reviews' = [reviews EXCEPT ![r] = [reviews[r] EXCEPT !.seen = seen, !.how = "failed"]]
    BY <2>1, <2>5
  <2> QED
    BY <2>1, <2>4, <2>6, ReviewStands
<1>6. CASE UNCHANGED reviewVars
  <2>1. /\ lessonStore' = lessonStore /\ reviews' = reviews /\ metrics' = metrics
        /\ counters' = counters /\ lessons' = lessons
    BY <1>6 DEF reviewVars
  <2>2. ReviewTypeOK'
    BY <2>1 DEF ReviewInv, ReviewTypeOK
  <2>3. \A r \in DOMAIN reviews : ReviewFits(r)' <=> ReviewFits(r)
    BY <2>1 DEF ReviewFits
  <2>4. \A l \in DOMAIN lessons : LessonFits(l)' <=> LessonFits(l)
    BY <2>1 DEF LessonFits
  <2>5. \A l, j \in DOMAIN lessons : Alike(j, l)' <=> Alike(j, l)
    BY <2>1 DEF Alike
  <2>6. \A l \in DOMAIN lessons, r \in DOMAIN reviews : IsLatest(l, r)' <=> IsLatest(l, r)
    BY <2>1 DEF IsLatest
  <2>7. \A a \in Authors : OwnReviews(a)' = OwnReviews(a)
    BY <2>1 DEF OwnReviews
  <2>8. \A a \in Authors : MetricFits(a)' <=> MetricFits(a)
    BY <2>1, <2>7 DEF MetricFits
  <2> QED
    BY <2>1, <2>2, <2>3, <2>4, <2>5, <2>6, <2>8 DEF ReviewInv
<1> QED
  BY <1>1, <1>2, <1>3, <1>4, <1>5, <1>6 DEF ReviewNext

LEMMA ReviewInvHolds == ReviewInv => ReviewsTeach
<1> SUFFICES ASSUME ReviewInv PROVE ReviewsTeach
  OBVIOUS
<1>1. MetricsAddUp
  BY DEF ReviewInv, MetricFits, MetricsAddUp, OwnReviews
<1>2. FindingsBecomeLessons
  <2>1. \A l \in DOMAIN lessons :
           LET r == lessons[l].text[1]  k == lessons[l].text[2] IN
           reviews[r].author = lessons[l].author /\ reviews[r].findings[k] = lessons[l].category
    BY DEF ReviewInv, LessonFits
  <2>2. \A r \in DOMAIN reviews : \A k \in 1 .. reviews[r].at - 1 :
           \E l \in DOMAIN lessons : lessons[l].category = reviews[r].findings[k]
    BY DEF ReviewInv, ReviewFits
  <2>3. lessonStore = "memory" =>
        \A l \in DOMAIN lessons :
            /\ \A j \in DOMAIN lessons :
                   lessons[j].author = lessons[l].author
                       /\ lessons[j].category = lessons[l].category => j = l
            /\ \A r \in DOMAIN reviews : \A k \in 1 .. reviews[r].at - 1 :
                   reviews[r].author = lessons[l].author
                       /\ reviews[r].findings[k] = lessons[l].category =>
                   r < lessons[l].text[1] \/ (r = lessons[l].text[1] /\ k <= lessons[l].text[2])
    BY DEF ReviewInv, Alike, IsLatest
  <2> QED
    BY <2>1, <2>2, <2>3 DEF FindingsBecomeLessons
<1> QED
  BY <1>1, <1>2, TrendIsAlwaysFair DEF ReviewsTeach

\* The counts of a tracker agree, findings become lessons and a trend is fair, for any number
\* of reviews, authors and findings.
THEOREM ReviewsAlwaysTeach == ReviewSpec => []ReviewsTeach
<1>1. ReviewInit => ReviewInv
  BY ReviewInitially
<1>2. ReviewInv /\ [ReviewNext]_reviewVars => ReviewInv'
  BY ReviewStep
<1>3. ReviewInv => ReviewsTeach
  BY ReviewInvHolds
<1> QED
  BY <1>1, <1>2, <1>3, PTL DEF ReviewSpec

-----------------------------------------------------------------------------
(* The starts                                                               *)

Done(m) == executed[m] > 0 \/ m \in marked
AllHandles == {"pool", "engine", "redis"}

\* Every file behind the one a start is at is recorded, and executed or taken for it; what a
\* process holds open is what its stage has opened less what its end has closed.
StartInv(p) ==
    /\ file[p] \in 0..LastMigration + 1 /\ known[p] \subseteq recorded
    /\ life[p] \in {"applying", "marking", "executed"} =>
          /\ file[p] \in Migrations
          /\ \A k \in 1 .. file[p] - 1 : k \in recorded
    /\ life[p] = "executed" => executed[file[p]] > 0
    /\ life[p] \in {"migrated", "wired", "serving", "stopping"} => recorded = Migrations
    /\ life[p] \in {"wired", "serving", "stopping"} => handles[p] = AllHandles \ closing[p]
    /\ closing[p] # {} => life[p] = "stopping"
    /\ closing[p] \in {{}, {"pool"}, {"pool", "engine"}, {"pool", "engine", "redis"}}
    /\ p \in working => life[p] = "serving"

LifespanInv ==
    /\ executed \in [Migrations -> Nat] /\ recorded \subseteq Migrations
    /\ life \in [Processes -> Stages] /\ known \in [Processes -> SUBSET Migrations]
    /\ file \in [Processes -> Nat] /\ handles \in [Processes -> SUBSET AllHandles]
    /\ closing \in [Processes -> SUBSET AllHandles]
    /\ sessionsIn \in [Processes -> {"", "redis", "postgres"}]
    /\ MigrationsInOrder
    /\ \A p \in Processes : StartInv(p)

LEMMA LifespanInitially == LifespanInit => LifespanInv
<1> SUFFICES ASSUME LifespanInit PROVE LifespanInv
  OBVIOUS
<1>1. PICK n \in InitScripts : executed = [m \in Migrations |-> IF m <= n THEN 1 ELSE 0]
  BY DEF LifespanInit
<1>2. n \in Int /\ executed \in [Migrations -> Nat]
  BY <1>1, LifespanAssumption
<1>3. MigrationsInOrder
  <2>1. ASSUME NEW m \in Migrations, executed[m] > 0, NEW k \in 1 .. m - 1 PROVE executed[k] > 0
    <3>1. m <= n /\ m \in Int
      BY <1>1, <2>1 DEF Migrations
    <3>2. k \in Migrations /\ k <= n
      BY <1>2, <3>1, LifespanAssumption DEF Migrations
    <3> QED
      BY <1>1, <3>2
  <2>2. recorded = {}
    BY DEF LifespanInit
  <2> QED
    BY <2>1, <2>2 DEF MigrationsInOrder
<1>4. ASSUME NEW p \in Processes PROVE StartInv(p)
  <2>1. life[p] = "down" /\ known[p] = {} /\ file[p] = 0 /\ handles[p] = {} /\ closing[p] = {}
        /\ working = {}
    BY DEF LifespanInit
  <2>2. 0 \in 0..LastMigration + 1
    BY LifespanAssumption
  <2> QED
    BY <2>1, <2>2 DEF StartInv
<1>5. /\ life \in [Processes -> Stages] /\ known \in [Processes -> SUBSET Migrations]
      /\ file \in [Processes -> Nat] /\ handles \in [Processes -> SUBSET AllHandles]
      /\ closing \in [Processes -> SUBSET AllHandles]
      /\ sessionsIn \in [Processes -> {"", "redis", "postgres"}] /\ recorded = {}
  BY DEF LifespanInit, Stages
<1> QED
  BY <1>2, <1>3, <1>4, <1>5 DEF LifespanInv

\* What is recorded, executed or marked stays so: a start that does not move keeps its place.
LEMMA StartStands ==
    ASSUME LifespanInv, NEW q \in Processes,
           life'[q] = life[q], known'[q] = known[q], file'[q] = file[q], handles'[q] = handles[q],
           closing'[q] = closing[q], q \in working' => q \in working,
           recorded \subseteq recorded', recorded' \subseteq Migrations,
           \A m \in Migrations : executed[m] > 0 => executed'[m] > 0
    PROVE  StartInv(q)'
<1>1. StartInv(q)
  BY DEF LifespanInv
<1>2. file[q] \in Nat /\ (recorded = Migrations => recorded' = Migrations)
  BY DEF LifespanInv
<1> QED
  BY <1>1, <1>2 DEF StartInv

\* A start ends and the others stand.
LEMMA ProcessEnds ==
    ASSUME LifespanInv, NEW p \in Processes, End(p), UNCHANGED dbVars
    PROVE  LifespanInv'
<1> USE LifespanAssumption
<1>1. /\ life'[p] = "down" /\ known'[p] = {} /\ file'[p] = 0 /\ closing'[p] = {}
      /\ handles'[p] = {} /\ working' = working \ {p}
      /\ \A q \in Processes \ {p} : /\ life'[q] = life[q] /\ known'[q] = known[q]
                                    /\ file'[q] = file[q] /\ handles'[q] = handles[q]
                                    /\ closing'[q] = closing[q]
  BY DEF End, LifespanInv
<1>2. life' \in [Processes -> Stages] /\ known' \in [Processes -> SUBSET Migrations]
      /\ file' \in [Processes -> Nat] /\ handles' \in [Processes -> SUBSET AllHandles]
      /\ closing' \in [Processes -> SUBSET AllHandles]
      /\ sessionsIn' \in [Processes -> {"", "redis", "postgres"}]
  BY DEF End, LifespanInv, Stages
<1>3. 0 \in 0..LastMigration + 1
  OBVIOUS
<1>4. StartInv(p)'
  BY <1>1, <1>3 DEF StartInv
<1>5. \A q \in Processes \ {p} : StartInv(q)'
  BY <1>1, StartStands DEF dbVars, LifespanInv
<1>6. MigrationsInOrder'
  BY DEF LifespanInv, MigrationsInOrder, dbVars
<1> QED
  BY <1>2, <1>4, <1>5, <1>6 DEF LifespanInv, dbVars

\* A step of a start that leaves the pools alone.
LEMMA StartGoes ==
    ASSUME LifespanInv, NEW p \in Processes, NEW stage \in Stages, NEW rows, NEW n \in 1..LastMigration + 1,
           Go(p, stage, rows, n),
           life[p] \notin {"wired", "serving", "stopping"},
           stage \notin {"wired", "serving", "stopping"},
           rows \subseteq recorded',
           recorded \subseteq recorded', recorded' \subseteq Migrations,
           executed' \in [Migrations -> Nat],
           \A m \in Migrations : executed[m] > 0 => executed'[m] > 0,
           stage \in {"applying", "marking", "executed"} =>
              n \in Migrations /\ \A k \in 1 .. n - 1 : k \in recorded',
           stage = "executed" => executed'[n] > 0,
           stage = "migrated" => recorded' = Migrations,
           MigrationsInOrder'
    PROVE  LifespanInv'
<1> USE LifespanAssumption
<1>1. /\ life'[p] = stage /\ known'[p] = rows /\ file'[p] = n
      /\ \A q \in Processes \ {p} : life'[q] = life[q] /\ known'[q] = known[q] /\ file'[q] = file[q]
      /\ handles' = handles /\ closing' = closing /\ working' = working /\ sessionsIn' = sessionsIn
  BY DEF Go, LifespanInv
<1>2. rows \in SUBSET Migrations /\ n \in Nat
  OBVIOUS
<1>3. life' \in [Processes -> Stages] /\ known' \in [Processes -> SUBSET Migrations]
      /\ file' \in [Processes -> Nat]
  BY <1>2 DEF Go, LifespanInv
<1>4. StartInv(p)'
  <2>1. p \notin working /\ closing[p] = {}
    BY DEF LifespanInv, StartInv
  <2>2. n \in 0..LastMigration + 1
    OBVIOUS
  <2> QED
    BY <1>1, <2>1, <2>2 DEF StartInv
<1>5. \A q \in Processes \ {p} : StartInv(q)'
  BY <1>1, StartStands
<1> QED
  BY <1>1, <1>3, <1>4, <1>5 DEF LifespanInv

\* A row that is new is of a file that was executed or is taken for it.
LEMMA RowInserted ==
    ASSUME LifespanInv, NEW p \in Processes, NEW stage \in {"marking", "applying"}, NEW old \in BOOLEAN,
           life[p] \in {"marking", "executed"}, life[p] = "executed" \/ old,
           InsertRow(p, stage, old)
    PROVE  LifespanInv'
<1> USE LifespanAssumption
<1>1. CASE file[p] \in recorded
  BY <1>1, ProcessEnds DEF InsertRow
<1>2. CASE file[p] \notin recorded
  <2>1. PICK m : m = file[p]
    OBVIOUS
  <2>2. /\ m \in Migrations /\ m \in Nat /\ m + 1 \in 1..LastMigration + 1
        /\ \A k \in 1 .. m - 1 : k \in recorded
        /\ life[p] = "executed" => executed[m] > 0
        /\ known[p] \subseteq recorded /\ recorded \subseteq Migrations
    <3>1. /\ m \in Migrations /\ \A k \in 1 .. m - 1 : k \in recorded
          /\ life[p] = "executed" => executed[m] > 0
          /\ known[p] \subseteq recorded /\ recorded \subseteq Migrations
      BY <2>1 DEF LifespanInv, StartInv
    <3>2. m \in Nat /\ m + 1 \in 1..LastMigration + 1
      BY <3>1 DEF Migrations
    <3> QED
      BY <3>1, <3>2
  <2>3. PICK s : s = IF m = LastMigration THEN "migrated" ELSE stage
    OBVIOUS
  <2>4. /\ recorded' = recorded \union {m} /\ executed' = executed
        /\ marked' = IF old THEN marked \union {m} ELSE marked
        /\ Go(p, s, known[p], m + 1)
    BY <1>2, <2>1, <2>3 DEF InsertRow
  <2>5. s \in {"migrated", "marking", "applying"} /\ (s = "migrated" <=> m = LastMigration)
    BY <2>3
  <2>6. /\ marked \subseteq marked' /\ (old => m \in marked') /\ (~old => executed[m] > 0)
        /\ executed \in [Migrations -> Nat]
    BY <2>2, <2>4 DEF LifespanInv
  <2>7. MigrationsInOrder'
    <3>1. MigrationsInOrder
      BY DEF LifespanInv
    <3> QED
      BY <2>4, <2>6, <3>1 DEF MigrationsInOrder
  <2>8. \A k \in 1..m : k \in recorded'
    BY <2>2, <2>4
  <2>9. s = "migrated" => recorded' = Migrations
    BY <2>2, <2>4, <2>5, <2>8 DEF Migrations
  <2>10. s # "migrated" => m + 1 \in Migrations /\ \A k \in 1 .. (m + 1) - 1 : k \in recorded'
    BY <2>2, <2>5, <2>8 DEF Migrations
  <2>11. s \in Stages /\ known[p] \subseteq recorded' /\ recorded' \subseteq Migrations
         /\ recorded \subseteq recorded'
    BY <2>2, <2>4, <2>5 DEF Stages
  <2>12. stage # "executed" /\ s # "executed" /\ s \notin {"wired", "serving", "stopping"}
    BY <2>5
  <2> QED
    BY <2>2, <2>4, <2>5, <2>6, <2>7, <2>9, <2>10, <2>11, <2>12, StartGoes
<1> QED
  BY <1>1, <1>2

LEMMA LifespanStep == LifespanInv /\ [LifespanNext]_lifeVars => LifespanInv'
<1> SUFFICES ASSUME LifespanInv, [LifespanNext]_lifeVars PROVE LifespanInv'
  OBVIOUS
<1> USE LifespanAssumption
<1>a. /\ MigrationsInOrder /\ executed \in [Migrations -> Nat] /\ recorded \subseteq Migrations
      /\ 1 \in 1..LastMigration + 1 /\ 1 \in Migrations
  <2>1. MigrationsInOrder /\ executed \in [Migrations -> Nat] /\ recorded \subseteq Migrations
    BY DEF LifespanInv
  <2>2. 1 \in 1..LastMigration + 1 /\ 1 \in Migrations
    BY DEF Migrations
  <2> QED
    BY <2>1, <2>2
<1>1. ASSUME NEW p \in Processes, OpenPool(p) PROVE LifespanInv'
  <2>1. /\ life[p] = "down" /\ life' = [life EXCEPT ![p] = "opened"]
        /\ handles' = [handles EXCEPT ![p] = {"pool"}]
        /\ UNCHANGED <<dbVars, known, file, sessionsIn, working, closing>>
    BY <1>1 DEF OpenPool
  <2>2. /\ life'[p] = "opened" /\ \A q \in Processes \ {p} : life'[q] = life[q] /\ handles'[q] = handles[q]
        /\ life' \in [Processes -> Stages] /\ handles' \in [Processes -> SUBSET AllHandles]
    BY <2>1 DEF LifespanInv, Stages, AllHandles
  <2>3. StartInv(p)'
    BY <2>1, <2>2 DEF LifespanInv, StartInv, dbVars
  <2>4. \A q \in Processes \ {p} : StartInv(q)'
    BY <1>a, <2>1, <2>2, StartStands DEF dbVars
  <2> QED
    BY <2>1, <2>2, <2>3, <2>4 DEF LifespanInv, dbVars, MigrationsInOrder
<1>2. ASSUME NEW p \in Processes, ReadRecords(p) PROVE LifespanInv'
  <2>1. PICK s : s = IF recorded = {} THEN "looking" ELSE "applying"
    OBVIOUS
  <2>2. life[p] = "opened" /\ Go(p, s, recorded, 1) /\ UNCHANGED dbVars /\ MigrationsInOrder'
    BY <1>2, <1>a, <2>1 DEF ReadRecords, dbVars, MigrationsInOrder
  <2>3. s \in {"looking", "applying"} /\ s \in Stages
    BY <2>1 DEF Stages
  <2> QED
    BY <1>a, <2>2, <2>3, StartGoes DEF dbVars
<1>3. ASSUME NEW p \in Processes, LookForTables(p) PROVE LifespanInv'
  <2>1. PICK s : s = IF executed[1] > 0 THEN "marking" ELSE "applying"
    OBVIOUS
  <2>2. life[p] = "looking" /\ Go(p, s, {}, 1) /\ UNCHANGED dbVars /\ MigrationsInOrder'
    BY <1>3, <1>a, <2>1 DEF LookForTables, dbVars, MigrationsInOrder
  <2>3. s \in {"marking", "applying"} /\ s \in Stages
    BY <2>1 DEF Stages
  <2> QED
    BY <1>a, <2>2, <2>3, StartGoes DEF dbVars
<1>4. ASSUME NEW p \in Processes, Mark(p) PROVE LifespanInv'
  BY <1>4, RowInserted DEF Mark
<1>5. ASSUME NEW p \in Processes, Record(p) PROVE LifespanInv'
  BY <1>5, RowInserted DEF Record
<1>6. ASSUME NEW p \in Processes, SkipFile(p) PROVE LifespanInv'
  <2>1. PICK m : m = file[p]
    OBVIOUS
  <2>2. PICK s : s = IF m = LastMigration THEN "migrated" ELSE "applying"
    OBVIOUS
  <2>3. /\ life[p] = "applying" /\ m \in known[p] /\ Go(p, s, known[p], m + 1) /\ UNCHANGED dbVars
        /\ MigrationsInOrder'
    BY <1>6, <1>a, <2>1, <2>2 DEF SkipFile, dbVars, MigrationsInOrder
  <2>4. s \in {"migrated", "applying"} /\ s \in Stages /\ (s = "migrated" <=> m = LastMigration)
    BY <2>2 DEF Stages
  <2>5. /\ m \in Migrations /\ known[p] \subseteq recorded /\ m + 1 \in 1..LastMigration + 1
        /\ \A k \in 1 .. m - 1 : k \in recorded
    <3>1. /\ m \in Migrations /\ \A k \in 1 .. m - 1 : k \in recorded
          /\ known[p] \subseteq recorded
      BY <2>1, <2>3 DEF LifespanInv, StartInv
    <3>2. m + 1 \in 1..LastMigration + 1
      BY <3>1 DEF Migrations
    <3> QED
      BY <3>1, <3>2
  <2>6. \A k \in 1..m : k \in recorded
    BY <2>3, <2>5 DEF Migrations
  <2>7. s = "migrated" => recorded = Migrations
    BY <1>a, <2>4, <2>6 DEF Migrations
  <2>8. s # "migrated" => m + 1 \in Migrations /\ \A k \in 1 .. (m + 1) - 1 : k \in recorded
    BY <2>4, <2>5, <2>6 DEF Migrations
  <2> QED
    BY <1>a, <2>3, <2>4, <2>5, <2>7, <2>8, StartGoes DEF dbVars
<1>7. ASSUME NEW p \in Processes, Execute(p) PROVE LifespanInv'
  <2>1. PICK m : m = file[p]
    OBVIOUS
  <2>2. CASE m \in OneShot /\ executed[m] > 0
    BY <1>7, <2>1, <2>2, ProcessEnds DEF Execute
  <2>3. CASE ~(m \in OneShot /\ executed[m] > 0)
    <3>1. /\ life[p] = "applying" /\ executed' = [executed EXCEPT ![m] = @ + 1]
          /\ Go(p, "executed", known[p], m) /\ UNCHANGED <<recorded, marked>>
      BY <1>7, <2>1, <2>3 DEF Execute
    <3>2. /\ m \in Migrations /\ m \in Nat /\ m \in 1..LastMigration + 1 /\ known[p] \subseteq recorded
          /\ \A k \in 1 .. m - 1 : k \in recorded
      <4>1. m \in Migrations /\ (\A k \in 1 .. m - 1 : k \in recorded) /\ known[p] \subseteq recorded
        BY <2>1, <3>1 DEF LifespanInv, StartInv
      <4>2. m \in Nat /\ m \in 1..LastMigration + 1
        BY <4>1 DEF Migrations
      <4> QED
        BY <4>1, <4>2
    <3>3. /\ executed' \in [Migrations -> Nat] /\ executed'[m] > 0
          /\ \A k \in Migrations \ {m} : executed'[k] = executed[k]
      BY <1>a, <3>1, <3>2
    <3>4. \A k \in 1 .. m - 1 : executed[k] > 0 \/ k \in marked
      BY <1>a, <3>2 DEF MigrationsInOrder
    <3>5. \A k \in Migrations : executed[k] > 0 => executed'[k] > 0
      BY <3>3
    <3>6. \A k \in Migrations : \A j \in 1 .. k - 1 : j \in Migrations
      BY DEF Migrations
    <3>7. ASSUME NEW k \in Migrations, executed'[k] > 0, NEW j \in 1 .. k - 1
          PROVE  executed'[j] > 0 \/ j \in marked'
      <4>1. j \in Migrations /\ marked' = marked
        BY <3>1, <3>6
      <4>2. executed[j] > 0 \/ j \in marked
        <5>1. CASE k = m
          BY <3>4, <5>1
        <5>2. CASE k # m
          BY <1>a, <3>3, <3>7, <5>2 DEF MigrationsInOrder
        <5> QED
          BY <5>1, <5>2
      <4> QED
        BY <3>5, <4>1, <4>2
    <3>8. \A k \in recorded' : executed'[k] > 0 \/ k \in marked'
      BY <1>a, <3>1, <3>5 DEF MigrationsInOrder
    <3>9. MigrationsInOrder'
      BY <3>7, <3>8 DEF MigrationsInOrder
    <3> QED
      BY <1>a, <3>1, <3>2, <3>3, <3>5, <3>9, StartGoes DEF Stages
  <2> QED
    BY <2>2, <2>3
<1>8. ASSUME NEW p \in Processes, NEW answers \in BOOLEAN, WireStores(p, answers) PROVE LifespanInv'
  <2>1. /\ life[p] = "migrated" /\ life' = [life EXCEPT ![p] = "wired"]
        /\ handles' = [handles EXCEPT ![p] = {"pool", "engine", "redis"}]
        /\ UNCHANGED <<dbVars, known, file, working, closing>>
    BY <1>8 DEF WireStores
  <2>2. sessionsIn' \in [Processes -> {"", "redis", "postgres"}]
    BY <1>8 DEF WireStores, LifespanInv
  <2>3. /\ life'[p] = "wired" /\ handles'[p] = AllHandles
        /\ \A q \in Processes \ {p} : life'[q] = life[q] /\ handles'[q] = handles[q]
        /\ life' \in [Processes -> Stages] /\ handles' \in [Processes -> SUBSET AllHandles]
    BY <2>1 DEF LifespanInv, Stages, AllHandles
  <2>4. StartInv(p)'
    <3>1. closing[p] = {} /\ p \notin working /\ recorded = Migrations
      BY <2>1 DEF LifespanInv, StartInv
    <3> QED
      BY <2>1, <2>3, <3>1 DEF LifespanInv, StartInv, dbVars
  <2>5. \A q \in Processes \ {p} : StartInv(q)'
    BY <1>a, <2>1, <2>3, StartStands DEF dbVars
  <2> QED
    BY <2>1, <2>2, <2>3, <2>4, <2>5 DEF LifespanInv, dbVars, MigrationsInOrder
<1>9. ASSUME NEW p \in Processes, life[p] \in {"wired", "serving"},
             NEW stage \in {"serving", "stopping"}, life' = [life EXCEPT ![p] = stage],
             working' \subseteq working \cup {p}, stage = "stopping" => p \notin working',
             dbVars' = dbVars, known' = known, file' = file, handles' = handles,
             sessionsIn' = sessionsIn, closing' = closing
      PROVE  LifespanInv'
  <2>1. /\ life'[p] = stage /\ \A q \in Processes \ {p} : life'[q] = life[q]
        /\ life' \in [Processes -> Stages]
    BY <1>9 DEF LifespanInv, Stages
  <2>2. StartInv(p)'
    BY <1>9, <2>1 DEF LifespanInv, StartInv, dbVars
  <2>3. \A q \in Processes \ {p} : StartInv(q)'
    BY <1>9, <1>a, <2>1, StartStands DEF dbVars
  <2> QED
    BY <1>9, <2>1, <2>2, <2>3 DEF LifespanInv, dbVars, MigrationsInOrder
<1>10. ASSUME NEW p \in Processes, StartWork(p) PROVE LifespanInv'
  <2>1. PICK stage \in {"serving", "stopping"} : stage = "serving"
    OBVIOUS
  <2>2. /\ life[p] \in {"wired", "serving"} /\ life' = [life EXCEPT ![p] = stage]
        /\ working' \subseteq working \cup {p} /\ (stage = "stopping" => p \notin working')
        /\ dbVars' = dbVars /\ known' = known /\ file' = file /\ handles' = handles
        /\ sessionsIn' = sessionsIn /\ closing' = closing
    BY <1>10, <2>1 DEF StartWork
  <2> QED
    BY <1>9, <2>2
<1>11. ASSUME NEW p \in Processes, StopWork(p) PROVE LifespanInv'
  <2>1. PICK stage \in {"serving", "stopping"} : stage = "stopping"
    OBVIOUS
  <2>2. /\ life[p] \in {"wired", "serving"} /\ life' = [life EXCEPT ![p] = stage]
        /\ working' \subseteq working \cup {p} /\ (stage = "stopping" => p \notin working')
        /\ dbVars' = dbVars /\ known' = known /\ file' = file /\ handles' = handles
        /\ sessionsIn' = sessionsIn /\ closing' = closing
    BY <1>11, <2>1 DEF StopWork
  <2> QED
    BY <1>9, <2>2
<1>12. ASSUME NEW p \in Processes, Fall(p) PROVE LifespanInv'
  BY <1>12, ProcessEnds DEF Fall
<1>13. ASSUME UNCHANGED <<dbVars, life, known, file, handles, sessionsIn, working, closing>>
       PROVE  LifespanInv'
  BY <1>13 DEF LifespanInv, StartInv, MigrationsInOrder, dbVars
<1>14. ASSUME NEW p \in Processes, Close(p) PROVE LifespanInv'
  <2>1. PICK h : h = NextToClose(p)
    OBVIOUS
  <2>2. /\ life[p] = "stopping" /\ Closable(p) \ closing[p] # {}
        /\ handles' = [handles EXCEPT ![p] = @ \ {h}]
        /\ closing' = [closing EXCEPT ![p] = @ \cup {h}]
        /\ UNCHANGED <<dbVars, life, known, file, sessionsIn, working>>
    BY <1>14, <2>1 DEF Close
  <2>3. handles[p] = AllHandles \ closing[p] /\ p \notin working
    BY <2>2 DEF LifespanInv, StartInv
  <2>4. Closable(p) \subseteq AllHandles
    BY DEF Closable, AllHandles
  <2>5. \/ closing[p] = {} /\ h = "pool"
        \/ closing[p] = {"pool"} /\ h = "engine"
        \/ closing[p] = {"pool", "engine"} /\ h = "redis"
    <3>1. CASE closing[p] = {}
      BY <2>1, <2>3, <3>1 DEF NextToClose, AllHandles
    <3>2. CASE closing[p] = {"pool"}
      BY <2>1, <2>3, <3>2 DEF NextToClose, AllHandles
    <3>3. CASE closing[p] = {"pool", "engine"}
      BY <2>1, <2>3, <3>3 DEF NextToClose, AllHandles
    <3>4. closing[p] # {"pool", "engine", "redis"}
      BY <2>2, <2>4 DEF AllHandles
    <3> QED
      BY <3>1, <3>2, <3>3, <3>4 DEF LifespanInv, StartInv
  <2>6. /\ closing'[p] = closing[p] \cup {h} /\ handles'[p] = AllHandles \ closing'[p]
        /\ \A q \in Processes \ {p} : closing'[q] = closing[q] /\ handles'[q] = handles[q]
        /\ handles' \in [Processes -> SUBSET AllHandles] /\ closing' \in [Processes -> SUBSET AllHandles]
    BY <2>2, <2>3, <2>5 DEF LifespanInv, AllHandles
  <2>7. closing'[p] \in {{}, {"pool"}, {"pool", "engine"}, {"pool", "engine", "redis"}}
    BY <2>5, <2>6
  <2>8. StartInv(p)'
    BY <2>2, <2>3, <2>6, <2>7 DEF LifespanInv, StartInv, dbVars
  <2>9. \A q \in Processes \ {p} : StartInv(q)'
    BY <1>a, <2>2, <2>6, StartStands DEF dbVars
  <2> QED
    BY <2>2, <2>6, <2>8, <2>9 DEF LifespanInv, dbVars, MigrationsInOrder
<1>15. ASSUME NEW p \in Processes, Leave(p) PROVE LifespanInv'
  BY <1>15, ProcessEnds DEF Leave
<1>16. CASE UNCHANGED lifeVars
  BY <1>13, <1>16 DEF lifeVars, dbVars
<1>17. ASSUME NEW p \in Processes, Spawn(p) \/ HandlerEnds(p) PROVE LifespanInv'
  BY <1>13, <1>17 DEF Spawn, HandlerEnds
<1>18. ASSUME NEW p \in Processes, CloseFails(p) \/ Exit(p) PROVE LifespanInv'
  BY <1>15, <1>18 DEF CloseFails, Exit
<1> QED
  BY <1>1, <1>2, <1>3, <1>4, <1>5, <1>6, <1>7, <1>8, <1>10, <1>11, <1>12, <1>14, <1>16, <1>17, <1>18
     DEF LifespanNext

LEMMA LifespanInvHolds == LifespanInv => StartsAreSound
<1> SUFFICES ASSUME LifespanInv, NEW p \in Processes
             PROVE  /\ life[p] \in {"wired", "serving", "stopping"} => recorded = Migrations
                    /\ p \in working => life[p] = "serving" /\ {"pool", "engine"} \subseteq handles[p]
                            /\ (sessionsIn[p] = "redis" => "redis" \in handles[p])
                    /\ closing[p] \in {{}, {"pool"}, {"pool", "engine"}, {"pool", "engine", "redis"}}
  BY DEF LifespanInv, StartsAreSound, ServesWhatIsOpen
<1> QED
  BY DEF LifespanInv, StartInv, AllHandles

\* A migration is executed after all earlier ones were executed or taken for executed, and a
\* process serves only with all of them recorded and on pools that are open, for any number of
\* processes, migrations and falls.
THEOREM StartsAreAlwaysSound == LifespanSpec => []StartsAreSound
<1>1. LifespanInit => LifespanInv
  BY LifespanInitially
<1>2. LifespanInv /\ [LifespanNext]_lifeVars => LifespanInv'
  BY LifespanStep
<1>3. LifespanInv => StartsAreSound
  BY LifespanInvHolds
<1> QED
  BY <1>1, <1>2, <1>3, PTL DEF LifespanSpec

-----------------------------------------------------------------------------
(* The strategies                                                           *)

Said == {"fine", "error", "failed", "raised"}
Spoken == IF work = "gate2" THEN 1 ELSE IF work = "gate3" THEN 2 ELSE 0

\* What may be shown of a result where there is anything to scan it.
IsGuarded(text) == "blocked" \notin text /\ ("flagged" \in text => "banner" \in text)

\* The Artificer: the calls of a round are answered in turn.
RoundsInv ==
    /\ guards \in [sentinel : BOOLEAN, warden : BOOLEAN, executor : BOOLEAN]
    /\ asks \in Nat /\ asks <= MaxRounds /\ (phase = "maxRounds" => asks = MaxRounds)
    /\ reply \in Seq(CallKinds) /\ told \in Nat
    /\ phase = "plan" => asks = 0
    /\ phase = "calls" => told < Len(reply)
    /\ phase \in {"ask", "maxRounds"} /\ asks > 0 => told = Len(reply)
    /\ \A e \in toolLog :
        /\ e.ran => e.permitted /\ e.args # "oversized" /\ guards.executor
        /\ guards.sentinel \/ guards.warden => IsGuarded(e.shown)

\* Mason: the gates have spoken one after another, and the issues are theirs.
GatesInv ==
    /\ work \in {"idle", "react", "gate1", "gate2", "gate3", "ended"}
    /\ job \in [worker : Workers \cup {"unknown"}, executor : BOOLEAN, knows : BOOLEAN]
    /\ said \in Seq(Said) /\ Len(said) <= 3
    /\ work # "ended" => Len(said) = Spoken
    /\ work \in {"gate1", "gate2", "gate3"} => job.worker = "mason" /\ job.executor
    /\ issues = {i \in DOMAIN said : Counts(Gates[i], said[i])}
    /\ work = "ended" /\ job.worker = "mason" =>
           /\ job.executor => Len(said) = 3
           /\ outcome.done <=> issues = {}
           /\ outcome.learnt => outcome.done

StrategiesInv == RoundsInv /\ GatesInv

LEMMA RoundsAreNumbered == MaxRounds \in Nat
BY StrategiesAssumption DEF MaxRounds

LEMMA GateNames ==
  /\ GateAt[1] = "gate1" /\ GateAt[2] = "gate2" /\ GateAt[3] = "gate3"
  /\ Gates[1] = "ruff" /\ Gates[2] = "mypy" /\ Gates[3] = "pytest"
BY DEF GateAt, Gates

LEMMA StrategiesInitially == StrategiesInit => StrategiesInv
<1> SUFFICES ASSUME StrategiesInit PROVE StrategiesInv
  OBVIOUS
<1> USE StrategiesAssumption, RoundsAreNumbered
<1>0. \/ phase = "plan" /\ job = [worker |-> "unknown", executor |-> FALSE, knows |-> FALSE]
         /\ guards \in [sentinel : BOOLEAN, warden : BOOLEAN, executor : BOOLEAN]
      \/ phase = "none" /\ job \in [worker : Workers, executor : BOOLEAN, knows : {FALSE}]
         /\ guards = [sentinel |-> FALSE, warden |-> FALSE, executor |-> FALSE]
  BY Zenon DEF StrategiesInit
<1>1. RoundsInv
  <2>1. asks = 0 /\ reply = <<>> /\ told = 0 /\ toolLog = {}
    BY DEF StrategiesInit
  <2>2. guards \in [sentinel : BOOLEAN, warden : BOOLEAN, executor : BOOLEAN]
    <3>1. CASE guards = [sentinel |-> FALSE, warden |-> FALSE, executor |-> FALSE]
      BY <3>1
    <3> QED
      BY <1>0, <3>1, Zenon
  <2>3. phase \in {"plan", "none"}
    BY <1>0
  <2> QED
    <3>1. reply \in Seq(CallKinds) /\ Len(reply) = 0
      BY <2>1
    <3> QED
      BY <2>1, <2>2, <2>3, <3>1 DEF RoundsInv
<1>2. GatesInv
  <2>1. said = <<>> /\ issues = {} /\ Len(said) = 0 /\ DOMAIN said = {}
    BY DEF StrategiesInit
  <2>2. work = IF phase = "plan" THEN "ended" ELSE "idle"
    BY DEF StrategiesInit
  <2>3. /\ job \in [worker : Workers \cup {"unknown"}, executor : BOOLEAN, knows : BOOLEAN]
        /\ work \in {"idle", "ended"} /\ (work = "ended" => job.worker = "unknown")
    <3>1. CASE phase = "plan" /\ job = [worker |-> "unknown", executor |-> FALSE, knows |-> FALSE]
      BY <2>2, <3>1
    <3>2. CASE phase = "none" /\ job \in [worker : Workers, executor : BOOLEAN, knows : {FALSE}]
      BY <2>2, <3>2
    <3> QED
      BY <1>0, <3>1, <3>2, Zenon
  <2>4. said \in Seq(Said) /\ issues = {i \in DOMAIN said : Counts(Gates[i], said[i])}
    BY <2>1
  <2> QED
    <3>1. work # "ended" => Spoken = 0
      BY <2>3 DEF Spoken
    <3> QED
      BY <2>1, <2>3, <2>4, <3>1 DEF GatesInv
<1> QED
  BY <1>1, <1>2 DEF StrategiesInv

\* An answer is added to those of the round.
LEMMA AnswerKeepsRounds ==
  ASSUME RoundsInv, phase = "calls", NEW logged, Answered(logged),
         logged.ran => logged.permitted /\ logged.args # "oversized" /\ guards.executor,
         guards.sentinel \/ guards.warden => IsGuarded(logged.shown)
  PROVE  RoundsInv' /\ UNCHANGED workVars
<1> USE StrategiesAssumption, RoundsAreNumbered
<1>1. told' = told + 1 /\ told \in Nat /\ Len(reply) \in Nat
  BY DEF RoundsInv, Answered
<1>2. phase' \in {"ask", "calls"} /\ (phase' = "ask" <=> told + 1 = Len(reply))
  BY DEF Answered
<1>3. \A e \in toolLog' :
        /\ e.ran => e.permitted /\ e.args # "oversized" /\ guards'.executor
        /\ guards'.sentinel \/ guards'.warden => IsGuarded(e.shown)
  BY DEF RoundsInv, Answered
<1> QED
  BY <1>1, <1>2, <1>3 DEF RoundsInv, Answered, workVars

LEMMA StrategiesStep == StrategiesInv /\ [StrategiesNext]_strategyVars => StrategiesInv'
<1> SUFFICES ASSUME StrategiesInv, [StrategiesNext]_strategyVars PROVE StrategiesInv'
  OBVIOUS
<1> USE StrategiesAssumption, RoundsAreNumbered
<1>0. RoundsInv /\ GatesInv
  BY DEF StrategiesInv
<1>1. ASSUME UNCHANGED workVars PROVE GatesInv'
  BY <1>0, <1>1 DEF workVars, GatesInv, Spoken, Counts
<1>2. ASSUME UNCHANGED runVars PROVE RoundsInv'
  BY <1>0, <1>2 DEF runVars, RoundsInv
<1>3. CASE Plan
  <2>1. RoundsInv' /\ UNCHANGED workVars
    <3>1. phase = "plan" => asks = 0
      BY <1>0 DEF RoundsInv
    <3> QED
      BY <1>0, <1>3, <3>1 DEF Plan, RoundsInv, workVars
  <2> QED
    BY <2>1, <1>1 DEF StrategiesInv
<1>4. CASE RoundsAreOver
  <2>1. RoundsInv' /\ UNCHANGED workVars
    BY <1>0, <1>4 DEF RoundsAreOver, RoundsInv, workVars
  <2> QED
    BY <2>1, <1>1 DEF StrategiesInv
<1>5. CASE RefuseOversized
  <2>1. PICK a : a = Call.args
    OBVIOUS
  <2>2. Answered([ran |-> FALSE, args |-> a, permitted |-> TRUE, shown |-> {"error"}])
    BY <1>5, <2>1 DEF RefuseOversized, NotRun
  <2>3. RoundsInv' /\ UNCHANGED workVars
    BY <1>0, <1>5, <2>2, AnswerKeepsRounds DEF RefuseOversized, IsGuarded
  <2> QED
    BY <2>3, <1>1 DEF StrategiesInv
<1>6. CASE Deny
  <2>1. PICK a : a = Call.args
    OBVIOUS
  <2>2. Answered([ran |-> FALSE, args |-> a, permitted |-> FALSE, shown |-> {"error"}])
    BY <1>6, <2>1 DEF Deny, Denied, NotRun
  <2>3. RoundsInv' /\ UNCHANGED workVars
    BY <1>0, <1>6, <2>2, AnswerKeepsRounds DEF Deny, IsGuarded
  <2> QED
    BY <2>3, <1>1 DEF StrategiesInv
<1>7. CASE NotAvailable
  <2>1. PICK a : a = Call.args
    OBVIOUS
  <2>2. Answered([ran |-> FALSE, args |-> a, permitted |-> TRUE, shown |-> {"error"}])
    BY <1>7, <2>1 DEF NotAvailable, NotRun
  <2>3. RoundsInv' /\ UNCHANGED workVars
    BY <1>0, <1>7, <2>2, AnswerKeepsRounds DEF NotAvailable, IsGuarded
  <2> QED
    BY <2>3, <1>1 DEF StrategiesInv
<1>8. CASE Raise
  <2>1. RoundsInv' /\ UNCHANGED workVars
    BY <1>0, <1>8 DEF Raise, RoundsInv, workVars
  <2> QED
    BY <2>1, <1>1 DEF StrategiesInv
<1>9. ASSUME NEW n \in 0 .. MaxCallsOfReply, NEW calls \in [1 .. n -> CallKinds], Ask(calls)
      PROVE  StrategiesInv'
  <2>1. calls \in Seq(CallKinds) /\ Len(calls) \in Nat /\ (calls # <<>> => Len(calls) > 0)
    BY <1>9, EmptySeq
  <2>2. RoundsInv' /\ UNCHANGED workVars
    BY <1>0, <1>9, <2>1 DEF Ask, RoundsInv, workVars
  <2> QED
    BY <2>2, <1>1 DEF StrategiesInv
<1>10. ASSUME NEW verdict \in {"green", "red"}, NEW text \in Results, RunCall(verdict, text)
       PROVE  StrategiesInv'
  <2>1. PICK a : a = Call.args
    OBVIOUS
  <2>2. PICK s : s = ResultShown(text)
    OBVIOUS
  <2>3. Answered([ran |-> TRUE, args |-> a, permitted |-> TRUE, shown |-> s])
    BY <1>10, <2>1, <2>2 DEF RunCall
  <2>4. guards.sentinel \/ guards.warden => IsGuarded(s)
    BY <2>2 DEF ResultShown, IsGuarded, Results
  <2>5. a # "oversized" /\ guards.executor /\ phase = "calls"
    BY <1>10, <2>1 DEF RunCall
  <2>6. RoundsInv' /\ UNCHANGED workVars
    BY <1>0, <2>3, <2>4, <2>5, AnswerKeepsRounds
  <2> QED
    BY <2>6, <1>1 DEF StrategiesInv
<1>11. ASSUME NEW found \in BOOLEAN, Recon(found) PROVE StrategiesInv'
  <2>1. UNCHANGED runVars /\ GatesInv'
    BY <1>0, <1>11 DEF Recon, GatesInv, Spoken, Counts
  <2> QED
    BY <2>1, <1>2 DEF StrategiesInv
<1>12. CASE StartReact
  <2>1. UNCHANGED runVars /\ GatesInv'
    BY <1>0, <1>12 DEF StartReact, GatesInv, Spoken, Counts
  <2> QED
    BY <2>1, <1>2 DEF StrategiesInv
<1>13. CASE EndReact
  <2>1. UNCHANGED runVars /\ UNCHANGED <<job, said, issues>>
    BY <1>13 DEF EndReact
  <2>2. GatesInv'
    <3>1. CASE job.worker = "mason" /\ job.executor
      <4>1. work' = "gate1" /\ UNCHANGED outcome /\ work = "react"
        BY <1>13, <3>1 DEF EndReact, GateAt
      <4> QED
        BY <1>0, <2>1, <3>1, <4>1 DEF GatesInv, Spoken, Counts
    <3>2. CASE ~(job.worker = "mason" /\ job.executor)
      <4>1. work' = "ended" /\ work = "react" /\ outcome'.done /\ (outcome'.learnt => outcome'.done)
        BY <1>13, <3>2 DEF EndReact
      <4>2. said = <<>> /\ issues = {}
        BY <1>0, <4>1, EmptySeq DEF GatesInv, Spoken
      <4> QED
        BY <1>0, <2>1, <3>2, <4>1, <4>2 DEF GatesInv, Spoken, Counts
    <3> QED
      BY <3>1, <3>2
  <2> QED
    BY <2>1, <2>2, <1>2 DEF StrategiesInv
<1>14. ASSUME NEW i \in 1 .. 3, NEW text \in Said, RunGate(i, text) PROVE StrategiesInv'
  <2>1. UNCHANGED runVars /\ UNCHANGED job /\ said' = Append(said, text)
    BY <1>14 DEF RunGate
  <2>2. /\ work = GateAt[i] /\ Len(said) = i - 1 /\ said \in Seq(Said)
        /\ job.worker = "mason" /\ job.executor
    <3>1. work = GateAt[i]
      BY <1>14 DEF RunGate
    <3>2. CASE i = 1
      BY <1>0, <3>1, <3>2, GateNames DEF GatesInv, Spoken
    <3>3. CASE i = 2
      BY <1>0, <3>1, <3>3, GateNames DEF GatesInv, Spoken
    <3>4. CASE i = 3
      BY <1>0, <3>1, <3>4, GateNames DEF GatesInv, Spoken
    <3> QED
      BY <3>2, <3>3, <3>4
  <2>3. /\ said' \in Seq(Said) /\ Len(said') = i /\ DOMAIN said' = 1 .. i /\ said'[i] = text
        /\ DOMAIN said = 1 .. i - 1 /\ \A k \in 1 .. i - 1 : said'[k] = said[k]
    BY <2>1, <2>2
  <2>4. issues' = {k \in DOMAIN said' : Counts(Gates[k], said'[k])}
    <3>1. issues = {k \in 1 .. i - 1 : Counts(Gates[k], said'[k])}
      BY <1>0, <2>3 DEF GatesInv
    <3>2. issues' = IF Counts(Gates[i], text) THEN issues \cup {i} ELSE issues
      BY <1>14 DEF RunGate
    <3> QED
      BY <2>3, <3>1, <3>2
  <2>5. GatesInv'
    <3>1. CASE i = 3
      <4>1. PICK b \in BOOLEAN : b = (issues' = {})
        OBVIOUS
      <4>2. work' = "ended" /\ outcome' = [done |-> b, learnt |-> b]
        BY <1>14, <3>1, <4>1 DEF RunGate
      <4>3. (outcome'.done <=> issues' = {}) /\ (outcome'.learnt => outcome'.done)
        BY <4>1, <4>2, Zenon
      <4> QED
        BY <1>0, <2>1, <2>2, <2>3, <2>4, <3>1, <4>2, <4>3 DEF GatesInv
    <3>2. CASE i # 3
      <4>1. work' = (IF i = 1 THEN "gate2" ELSE "gate3") /\ UNCHANGED outcome
        <5>1. i < 3 /\ (i = 1 \/ i = 2)
          BY <3>2
        <5>2. work' = GateAt[i + 1] /\ UNCHANGED outcome
          BY <1>14, <5>1 DEF RunGate
        <5>3. CASE i = 1
          BY <5>2, <5>3, GateNames
        <5>4. CASE i = 2
          BY <5>2, <5>4, GateNames
        <5> QED
          BY <5>1, <5>3, <5>4
      <4>2. work' \in {"gate2", "gate3"} /\ Spoken' = i
        BY <3>2, <4>1 DEF Spoken
      <4> QED
        BY <1>0, <2>1, <2>2, <2>3, <2>4, <3>2, <4>1, <4>2 DEF GatesInv
    <3> QED
      BY <3>1, <3>2
  <2> QED
    BY <2>1, <2>5, <1>2 DEF StrategiesInv
<1>15. CASE UNCHANGED strategyVars
  BY <1>15, <1>1, <1>2 DEF strategyVars, runVars, workVars, StrategiesInv
<1> QED
  BY <1>3, <1>4, <1>5, <1>6, <1>7, <1>8, <1>9, <1>10, <1>11, <1>12, <1>13, <1>14, <1>15
     DEF StrategiesNext, Said

LEMMA StrategiesInvHolds == StrategiesInv => CodeRunsAreHonest
<1> SUFFICES ASSUME StrategiesInv PROVE CodeRunsAreHonest
  OBVIOUS
<1>1. CallsAreAnswered
  BY DEF StrategiesInv, RoundsInv, CallsAreAnswered, IsGuarded
<1>2. \A i \in DOMAIN said : (said[i] # "raised" /\ ~Counts(Gates[i], said[i])) <=> i \notin issues
  BY DEF StrategiesInv, GatesInv, Counts
<1>3. (\A i \in DOMAIN said : said[i] # "raised" /\ ~Counts(Gates[i], said[i])) <=> issues = {}
  BY <1>2 DEF StrategiesInv, GatesInv
<1>4. DoneIsDiagnosed
  BY <1>3 DEF StrategiesInv, GatesInv, DoneIsDiagnosed
<1> QED
  BY <1>1, <1>4 DEF CodeRunsAreHonest

\* However many rounds and calls there are: each call is answered once, none that was refused has
\* run, a scanned result is never shown blocked nor flagged without a banner, and Mason is done
\* only when his gates have spoken and none has said what counts.
THEOREM StrategiesAreAlwaysSound == StrategiesSpec => []CodeRunsAreHonest
<1> USE StrategiesAssumption, RoundsAreNumbered
<1>1. StrategiesInit => StrategiesInv
  BY StrategiesInitially
<1>2. StrategiesInv /\ [StrategiesNext]_strategyVars => StrategiesInv'
  BY StrategiesStep
<1>3. StrategiesInv => CodeRunsAreHonest
  BY StrategiesInvHolds
<1> QED
  BY <1>1, <1>2, <1>3, PTL DEF StrategiesSpec

-----------------------------------------------------------------------------
(* The peers' calls                                                         *)

PeerCallRow == [at : {"idle", "post", "audit", "done", "raised"}, tenant : Tenants \cup {"none"},
                agent : GuestAgents \cup {"none"},
                status : {"none", "posted", "rejected", "submitted", "failed"}]

\* What a call has done so far is what its step says.
PeerCallFits(c) ==
    LET v == peerCall[c] IN
    /\ v.at = "idle" => c \notin peerHas /\ v.status = "none"
    /\ v.at = "post" => v.status = "posted" /\ <<v.tenant, v.agent>> \in everTrusted
    /\ v.at \in {"idle", "post", "audit"} => peerAudit[c] = <<>>
    /\ v.at = "done" => peerAudit[c] = <<<<v.tenant, v.status>>>>
    /\ v.status = "submitted" => c \in peerHas
    /\ c \in peerHas => v.status # "rejected" /\ <<v.tenant, v.agent>> \in everTrusted

PeersInv ==
    /\ peers \in [Tenants -> PeerTrusts \cup {NoPeer}]
    /\ peerCall \in [PeerCalls -> PeerCallRow]
    /\ peerHas \subseteq PeerCalls
    /\ DOMAIN peerAudit = PeerCalls /\ peerAudit = [c \in PeerCalls |-> peerAudit[c]]
    /\ \A t \in Tenants : peers[t].there /\ peers[t].active =>
          \A a \in AllowedBy(peers[t]) : <<t, a>> \in everTrusted
    /\ \A c \in PeerCalls : PeerCallFits(c)

LEMMA PeersInitially == PeersInit => PeersInv
<1> SUFFICES ASSUME PeersInit PROVE PeersInv
  OBVIOUS
<1>1. NoPeerCall \in PeerCallRow
  BY DEF NoPeerCall, PeerCallRow
<1>2. ~NoPeer.there
  BY DEF NoPeer
<1>3. \A c \in PeerCalls : PeerCallFits(c)
  BY DEF PeersInit, PeerCallFits, NoPeerCall
<1> QED
  BY <1>1, <1>2, <1>3 DEF PeersInit, PeersInv

\* A call goes on, and the others stay where they are.
LEMMA PeerCallGoes ==
    ASSUME PeersInv, NEW c \in PeerCalls, NEW row \in PeerCallRow,
           peerCall' = [peerCall EXCEPT ![c] = row],
           UNCHANGED <<peers, peerHas, everTrusted>>,
           DOMAIN peerAudit' = PeerCalls, peerAudit' = [q \in PeerCalls |-> peerAudit'[q]],
           \A q \in PeerCalls \ {c} : peerAudit'[q] = peerAudit[q],
           /\ row.at = "post" => row.status = "posted" /\ <<row.tenant, row.agent>> \in everTrusted
           /\ row.at # "idle"
           /\ row.at \in {"idle", "post", "audit"} => peerAudit'[c] = <<>>
           /\ row.at = "done" => peerAudit'[c] = <<<<row.tenant, row.status>>>>
           /\ row.status = "submitted" => c \in peerHas
           /\ c \in peerHas => row.status # "rejected" /\ <<row.tenant, row.agent>> \in everTrusted
    PROVE  PeersInv'
<1>1. peerCall' \in [PeerCalls -> PeerCallRow] /\ peerCall'[c] = row
      /\ \A q \in PeerCalls \ {c} : peerCall'[q] = peerCall[q]
  BY DEF PeersInv
<1>2. PeerCallFits(c)'
  BY <1>1 DEF PeerCallFits
<1>3. ASSUME NEW q \in PeerCalls, q # c PROVE PeerCallFits(q)'
  <2>1. PeerCallFits(q) /\ peerCall'[q] = peerCall[q] /\ peerAudit'[q] = peerAudit[q]
    BY <1>1, <1>3 DEF PeersInv
  <2> QED
    BY <2>1 DEF PeerCallFits
<1> QED
  BY <1>1, <1>2, <1>3 DEF PeersInv

LEMMA PeersStep == PeersInv /\ [PeersNext]_peerVars => PeersInv'
<1> SUFFICES ASSUME PeersInv, [PeersNext]_peerVars PROVE PeersInv'
  OBVIOUS
<1>0. ASSUME NEW c \in PeerCalls, NEW at \in {"post", "audit", "done", "raised"},
             NEW status \in {"none", "posted", "rejected", "submitted", "failed"}, Step(c, at, status)
      PROVE  \E row \in PeerCallRow :
                /\ peerCall' = [peerCall EXCEPT ![c] = row]
                /\ row.at = at /\ row.status = status
                /\ row.tenant = peerCall[c].tenant /\ row.agent = peerCall[c].agent
  <2>1. PICK old \in PeerCallRow : old = peerCall[c]
    BY DEF PeersInv
  <2>2. PICK row : row = [at |-> at, tenant |-> old.tenant, agent |-> old.agent, status |-> status]
    OBVIOUS
  <2>3. row \in PeerCallRow
    BY <2>1, <2>2 DEF PeerCallRow
  <2>4. row = [old EXCEPT !.at = at, !.status = status]
    <3>1. PICK mid : mid = [old EXCEPT !.at = at]
      OBVIOUS
    <3>2. mid = [at |-> at, tenant |-> old.tenant, agent |-> old.agent, status |-> old.status]
      BY <2>1, <3>1 DEF PeerCallRow
    <3>3. [mid EXCEPT !.status = status] = row
      BY <2>2, <3>2
    <3> QED
      BY <3>1, <3>3
  <2>5. peerCall' = [peerCall EXCEPT ![c] = row]
    BY <1>0, <2>1, <2>4 DEF Step, PeersInv
  <2> QED
    BY <2>1, <2>2, <2>3, <2>5
<1>1. ASSUME NEW t \in Tenants, NEW p \in PeerTrusts, RegisterPeer(t, p) PROVE PeersInv'
  <2>1. peers' \in [Tenants -> PeerTrusts \cup {NoPeer}] /\ peers'[t] = p
        /\ \A s \in Tenants \ {t} : peers'[s] = peers[s]
    BY <1>1 DEF RegisterPeer, PeersInv
  <2>2. everTrusted \subseteq everTrusted'
        /\ (p.active => \A a \in AllowedBy(p) : <<t, a>> \in everTrusted')
    BY <1>1 DEF RegisterPeer
  <2>3. peerCall' = peerCall /\ peerHas' = peerHas /\ peerAudit' = peerAudit
    BY <1>1 DEF RegisterPeer
  <2>4. \A c \in PeerCalls : PeerCallFits(c)'
    BY <2>2, <2>3 DEF PeersInv, PeerCallFits
  <2>5. ASSUME NEW s \in Tenants, peers'[s].there, peers'[s].active, NEW a \in AllowedBy(peers'[s])
        PROVE  <<s, a>> \in everTrusted'
    BY <2>1, <2>2, <2>5 DEF PeersInv
  <2> QED
    BY <2>1, <2>3, <2>4, <2>5 DEF PeersInv
<1>2. ASSUME NEW t \in Tenants, RemovePeer(t) PROVE PeersInv'
  <2>1. peers' \in [Tenants -> PeerTrusts \cup {NoPeer}] /\ ~peers'[t].there
        /\ \A s \in Tenants \ {t} : peers'[s] = peers[s]
    BY <1>2 DEF RemovePeer, PeersInv, NoPeer
  <2>2. /\ peerCall' = peerCall /\ peerHas' = peerHas /\ peerAudit' = peerAudit
        /\ everTrusted' = everTrusted
    BY <1>2 DEF RemovePeer
  <2>3. \A c \in PeerCalls : PeerCallFits(c)'
    BY <2>2 DEF PeersInv, PeerCallFits
  <2>4. ASSUME NEW s \in Tenants, peers'[s].there, peers'[s].active, NEW a \in AllowedBy(peers'[s])
        PROVE  <<s, a>> \in everTrusted'
    BY <2>1, <2>2, <2>4 DEF PeersInv
  <2> QED
    BY <2>1, <2>2, <2>3, <2>4 DEF PeersInv
<1>3. ASSUME NEW c \in PeerCalls, NEW t \in Tenants, NEW a \in GuestAgents, DelegateOut(c, t, a)
      PROVE  PeersInv'
  <2>1. PICK refused \in BOOLEAN : refused <=> Refuses(peers[t], a)
    OBVIOUS
  <2>2. PICK row : row = [at |-> IF refused THEN "audit" ELSE "post", tenant |-> t, agent |-> a,
                          status |-> IF refused THEN "rejected" ELSE "posted"]
    OBVIOUS
  <2>3. row \in PeerCallRow
    BY <2>2 DEF PeerCallRow
  <2>4. /\ peerCall' = [peerCall EXCEPT ![c] = row] /\ peerCall[c].at = "idle"
        /\ UNCHANGED <<peers, peerHas, everTrusted>> /\ peerAudit' = peerAudit
    BY <1>3, <2>1, <2>2 DEF DelegateOut
  <2>5. c \notin peerHas /\ peerAudit[c] = <<>>
    BY <2>4 DEF PeersInv, PeerCallFits
  <2>6. ~refused => <<t, a>> \in everTrusted
    BY <2>1 DEF Refuses, PeersInv
  <2>7. /\ row.at = (IF refused THEN "audit" ELSE "post") /\ row.tenant = t /\ row.agent = a
        /\ row.status = (IF refused THEN "rejected" ELSE "posted")
    BY <2>2
  <2>8. /\ row.at = "post" => row.status = "posted" /\ <<row.tenant, row.agent>> \in everTrusted
        /\ row.at \notin {"idle", "done"} /\ row.status # "submitted"
    BY <2>6, <2>7
  <2>9. DOMAIN peerAudit' = PeerCalls /\ peerAudit' = [q \in PeerCalls |-> peerAudit'[q]]
        /\ peerAudit'[c] = <<>> /\ \A q \in PeerCalls \ {c} : peerAudit'[q] = peerAudit[q]
    BY <2>4, <2>5 DEF PeersInv
  <2> QED
    BY <2>3, <2>4, <2>5, <2>8, <2>9, PeerCallGoes
<1>4. ASSUME NEW c \in PeerCalls, PeerTakes(c) PROVE PeersInv'
  <2>1. /\ peerCall[c].at = "post" /\ peerHas' = peerHas \cup {c} /\ peers' = peers
        /\ peerCall' = peerCall /\ peerAudit' = peerAudit /\ everTrusted' = everTrusted
    BY <1>4 DEF PeerTakes
  <2>2. \A q \in PeerCalls : PeerCallFits(q)'
    BY <2>1 DEF PeersInv, PeerCallFits
  <2> QED
    BY <2>1, <2>2 DEF PeersInv
<1>5. ASSUME NEW c \in PeerCalls, PostReturns(c) PROVE PeersInv'
  <2>1. /\ peerCall[c].at = "post" /\ c \in peerHas /\ Step(c, "audit", "submitted")
        /\ UNCHANGED <<peers, peerHas, everTrusted>> /\ peerAudit' = peerAudit
    BY <1>5 DEF PostReturns
  <2>2. PICK row \in PeerCallRow : /\ peerCall' = [peerCall EXCEPT ![c] = row]
                /\ row.at = "audit" /\ row.status = "submitted"
                /\ row.tenant = peerCall[c].tenant /\ row.agent = peerCall[c].agent
    BY <1>0, <2>1
  <2>3. peerAudit[c] = <<>> /\ <<row.tenant, row.agent>> \in everTrusted
    BY <2>1, <2>2 DEF PeersInv, PeerCallFits
  <2> QED
    BY <2>1, <2>2, <2>3, PeerCallGoes DEF PeersInv
<1>6. ASSUME NEW c \in PeerCalls, PostFails(c) PROVE PeersInv'
  <2>1. /\ peerCall[c].at = "post" /\ Step(c, "audit", "failed")
        /\ UNCHANGED <<peers, peerHas, everTrusted>> /\ peerAudit' = peerAudit
    BY <1>6 DEF PostFails
  <2>2. PICK row \in PeerCallRow : /\ peerCall' = [peerCall EXCEPT ![c] = row]
                /\ row.at = "audit" /\ row.status = "failed"
                /\ row.tenant = peerCall[c].tenant /\ row.agent = peerCall[c].agent
    BY <1>0, <2>1
  <2>3. peerAudit[c] = <<>> /\ <<row.tenant, row.agent>> \in everTrusted
    BY <2>1, <2>2 DEF PeersInv, PeerCallFits
  <2> QED
    BY <2>1, <2>2, <2>3, PeerCallGoes DEF PeersInv
<1>7. ASSUME NEW c \in PeerCalls, peerCall[c].at \in {"post", "audit"}, NEW at \in {"done", "raised"},
             Step(c, at, peerCall[c].status), UNCHANGED <<peers, peerHas, everTrusted>>,
             peerAudit' = IF at = "done" THEN [peerAudit EXCEPT ![c] =
                              Append(@, <<peerCall[c].tenant, peerCall[c].status>>)] ELSE peerAudit
      PROVE  PeersInv'
  <2>1. PICK status \in {"none", "posted", "rejected", "submitted", "failed"} :
                status = peerCall[c].status
    BY DEF PeersInv, PeerCallRow
  <2>2. PICK row \in PeerCallRow : /\ peerCall' = [peerCall EXCEPT ![c] = row]
                /\ row.at = at /\ row.status = status
                /\ row.tenant = peerCall[c].tenant /\ row.agent = peerCall[c].agent
    BY <1>0, <1>7, <2>1
  <2>3. /\ peerAudit[c] = <<>> /\ (status = "submitted" => c \in peerHas)
        /\ c \in peerHas => status # "rejected" /\ <<row.tenant, row.agent>> \in everTrusted
    BY <1>7, <2>1, <2>2 DEF PeersInv, PeerCallFits
  <2>4. /\ DOMAIN peerAudit' = PeerCalls /\ peerAudit' = [q \in PeerCalls |-> peerAudit'[q]]
        /\ \A q \in PeerCalls \ {c} : peerAudit'[q] = peerAudit[q]
        /\ at = "done" => peerAudit'[c] = Append(<<>>, <<row.tenant, row.status>>)
    BY <1>7, <2>1, <2>2, <2>3 DEF PeersInv
  <2>5. Append(<<>>, <<row.tenant, row.status>>) = <<<<row.tenant, row.status>>>>
    OBVIOUS
  <2> QED
    BY <1>7, <2>2, <2>3, <2>4, <2>5, PeerCallGoes
<1>8. ASSUME NEW c \in PeerCalls, AuditRaises(c), peerCall[c].status = "submitted" PROVE PeersInv'
  <2>1. /\ peerCall[c].at = "audit" /\ Step(c, "audit", "failed")
        /\ UNCHANGED <<peers, peerHas, everTrusted>> /\ peerAudit' = peerAudit
    BY <1>8 DEF AuditRaises
  <2>2. PICK row \in PeerCallRow : /\ peerCall' = [peerCall EXCEPT ![c] = row]
                /\ row.at = "audit" /\ row.status = "failed"
                /\ row.tenant = peerCall[c].tenant /\ row.agent = peerCall[c].agent
    BY <1>0, <2>1
  <2>3. peerAudit[c] = <<>> /\ <<row.tenant, row.agent>> \in everTrusted
    BY <1>8, <2>1, <2>2 DEF PeersInv, PeerCallFits
  <2> QED
    BY <2>1, <2>2, <2>3, PeerCallGoes DEF PeersInv
<1>9. ASSUME NEW c \in PeerCalls, WritesAudit(c) \/ CallCancelled(c) \/ AuditRaises(c) PROVE PeersInv'
  <2>1. CASE WritesAudit(c)
    BY <1>7, <2>1 DEF WritesAudit
  <2>2. CASE CallCancelled(c)
    BY <1>7, <2>2 DEF CallCancelled
  <2>3. CASE AuditRaises(c) /\ peerCall[c].status # "submitted"
    BY <1>7, <2>3 DEF AuditRaises
  <2> QED
    BY <1>8, <1>9, <2>1, <2>2, <2>3
<1>10. CASE UNCHANGED peerVars
  <2>1. /\ peers' = peers /\ peerCall' = peerCall /\ peerHas' = peerHas
        /\ peerAudit' = peerAudit /\ everTrusted' = everTrusted
    BY <1>10 DEF peerVars
  <2>2. \A q \in PeerCalls : PeerCallFits(q)'
    BY <2>1 DEF PeersInv, PeerCallFits
  <2> QED
    BY <2>1, <2>2 DEF PeersInv
<1> QED
  BY <1>1, <1>2, <1>3, <1>4, <1>5, <1>6, <1>9, <1>10 DEF PeersNext

LEMMA PeersInvHolds == PeersInv => CallsAreAudited
BY DEF PeersInv, PeerCallFits, CallsAreAudited

\* However peers change under a call and wherever it fails, a call that answers has one audit
\* entry that says what it answered, and a peer has tasks only of those that trusted it.
THEOREM CallsAreAlwaysAudited == PeersSpec => []CallsAreAudited
<1>1. PeersInit => PeersInv
  BY PeersInitially
<1>2. PeersInv /\ [PeersNext]_peerVars => PeersInv'
  BY PeersStep
<1>3. PeersInv => CallsAreAudited
  BY PeersInvHolds
<1> QED
  BY <1>1, <1>2, <1>3, PTL DEF PeersSpec

-----------------------------------------------------------------------------
(* Delegated tasks                                                          *)

Names == A2aAgents \cup TiersUsed

DelegationInv ==
    /\ capable \in [A2aAgents -> Seq(Names)]
    /\ DOMAIN delegated = A2aTasks
    /\ DelegatesAreListed

\* What is picked is listed.
LEMMA PickedIsListed ==
    ASSUME NEW agents \in Seq(Names), agents # <<>>
    PROVE  agents[1] \in Listed(agents) /\ SelectFromPriority(agents) \subseteq Listed(agents)
<1>1. 1 \in DOMAIN agents
  BY EmptySeq, LenProperties
<1>2. agents[1] \in Listed(agents)
  BY <1>1 DEF Listed
<1>3. \A tier : FirstOf(agents, tier) \subseteq Listed(agents)
  BY DEF FirstOf, Listed
<1> QED
  BY <1>2, <1>3 DEF SelectFromPriority

LEMMA DelegationInitially == DelegationInit => DelegationInv
<1>1. <<>> \in Seq(Names)
  BY EmptySeq
<1> QED
  BY <1>1 DEF DelegationInit, DelegationInv, DelegatesAreListed

LEMMA DelegationStep == DelegationInv /\ [DelegationNext]_delegationVars => DelegationInv'
<1> SUFFICES ASSUME DelegationInv, [DelegationNext]_delegationVars PROVE DelegationInv'
  OBVIOUS
<1>1. ASSUME NEW a \in A2aAgents, NEW whom \in Seq(Names), RegisterCapability(a, whom)
      PROVE  DelegationInv'
  BY <1>1 DEF RegisterCapability, DelegationInv, DelegatesAreListed
<1>2. ASSUME NEW t \in A2aTasks, NEW row, delegated' = [delegated EXCEPT ![t] = row],
             row.to \in row.listed, UNCHANGED capable
      PROVE  DelegationInv'
  <2>1. DOMAIN delegated' = A2aTasks /\ delegated'[t] = row
        /\ \A s \in A2aTasks \ {t} : delegated'[s] = delegated[s]
    BY <1>2 DEF DelegationInv
  <2> QED
    BY <1>2, <2>1 DEF DelegationInv, DelegatesAreListed
<1>3. ASSUME NEW t \in A2aTasks, NEW a \in A2aAgents, NEW to \in A2aAgents \cup {"none"},
             NEW mode \in Modes, Delegates(t, a, to, mode)
      PROVE  DelegationInv'
  <2>1. capable[a] \in Seq(Names) /\ capable[a] # <<>>
    BY <1>3 DEF Delegates, DelegationInv
  <2>2. PICK agent : agent \in Listed(capable[a]) /\ Delegate(t, a, agent)
    BY <1>3, <2>1, PickedIsListed DEF Delegates
  <2>3. PICK row : row = [from |-> a, to |-> agent, status |-> "queued",
                          listed |-> Listed(capable[a])]
    OBVIOUS
  <2>4. delegated' = [delegated EXCEPT ![t] = row] /\ UNCHANGED capable
    BY <2>2, <2>3 DEF Delegate
  <2>5. row.to \in row.listed
    BY <2>2, <2>3
  <2> QED
    BY <1>2, <2>4, <2>5
<1>4. ASSUME NEW t \in A2aTasks, NEW s, UpdateTaskStatus(t, s) PROVE DelegationInv'
  <2>1. PICK row : row = [delegated[t] EXCEPT !.status = s]
    OBVIOUS
  <2>2. row.to = delegated[t].to /\ row.listed = delegated[t].listed
    BY <2>1
  <2>3. /\ delegated' = [delegated EXCEPT ![t] = row] /\ UNCHANGED capable
        /\ delegated[t].to \in delegated[t].listed
    BY <1>4, <2>1 DEF UpdateTaskStatus, DelegationInv, DelegatesAreListed
  <2>4. row.to \in row.listed
    BY <2>2, <2>3
  <2> QED
    BY <1>2, <2>3, <2>4
<1>5. ASSUME NEW a \in A2aAgents, NEW b \in Names, RegisterCapability(a, <<b>>)
      PROVE  DelegationInv'
  <2>1. <<b>> \in Seq(Names)
    OBVIOUS
  <2> QED
    BY <1>1, <1>5, <2>1
<1>6. ASSUME NEW a \in A2aAgents, NEW b \in A2aAgents, NEW c \in A2aAgents,
             RegisterCapability(a, <<b, c>>)
      PROVE  DelegationInv'
  <2>1. <<b, c>> \in Seq(Names)
    BY DEF Names
  <2> QED
    BY <1>1, <1>6, <2>1
<1>7. CASE UNCHANGED delegationVars
  BY <1>7 DEF delegationVars, DelegationInv, DelegatesAreListed
<1> QED
  BY <1>3, <1>4, <1>5, <1>6, <1>7 DEF DelegationNext, Names

\* However lists are registered anew, a task is at an agent that its sender's list had when
\* the task was handed over (DelegationService.delegate_task).
THEOREM DelegatesAreAlwaysListed == DelegationSpec => []DelegatesAreListed
<1>1. DelegationInit => DelegationInv
  BY DelegationInitially
<1>2. DelegationInv /\ [DelegationNext]_delegationVars => DelegationInv'
  BY DelegationStep
<1>3. DelegationInv => DelegatesAreListed
  BY DEF DelegationInv
<1> QED
  BY <1>1, <1>2, <1>3, PTL DEF DelegationSpec

-----------------------------------------------------------------------------
(* The queue of tasks                                                       *)

\* The entries of a row stand in the order of their numbers, and were put in its tier.
RowInv(p) ==
    /\ \A j, k \in DOMAIN waiting[p] : j < k => waiting[p][j] < waiting[p][k]
    /\ \A k \in DOMAIN waiting[p] :
          waiting[p][k] \in DOMAIN tierOf /\ tierOf[waiting[p][k]] = p
    /\ \A j \in DOMAIN served, k \in DOMAIN waiting[p] :
          tierOf[served[j]] = p => served[j] < waiting[p][k]

QueueTypeOK ==
    tierOf \in Seq(TiersUsed) /\ waiting \in [TiersUsed -> Seq(Nat)] /\ served \in Seq(Nat)

QueueInv ==
    /\ QueueTypeOK
    /\ \A p \in TiersUsed : RowInv(p)
    /\ \A j \in DOMAIN served : served[j] \in DOMAIN tierOf
    /\ \A j, k \in DOMAIN served : j < k =>
          /\ served[j] # served[k]
          /\ tierOf[served[j]] = tierOf[served[k]] => served[j] < served[k]
    /\ \A n \in DOMAIN tierOf :
          (\E k \in DOMAIN served : served[k] = n)
             \/ \E k \in DOMAIN waiting[tierOf[n]] : waiting[tierOf[n]][k] = n

LEMMA QueueInitially == QueueInit => QueueInv
<1> SUFFICES ASSUME QueueInit PROVE QueueInv
  OBVIOUS
<1>1. DOMAIN <<>> = {} /\ \A S : <<>> \in Seq(S)
  BY EmptySeq
<1>2. \A p \in TiersUsed : waiting[p] = <<>>
  BY DEF QueueInit
<1> QED
  BY <1>1, <1>2 DEF QueueInit, QueueInv, QueueTypeOK, RowInv

LEMMA EnqueueKeeps == ASSUME QueueInv, NEW p \in TiersUsed, Enqueue(p) PROVE QueueInv'
<1>1. PICK old : old = waiting[p]
  OBVIOUS
<1>0. old \in Seq(Nat) /\ tierOf \in Seq(TiersUsed) /\ served \in Seq(Nat)
  BY <1>1 DEF QueueInv, QueueTypeOK
<1>2. PICK len \in Nat, n \in Nat : len = Len(old) /\ n = Len(tierOf) + 1
  BY <1>0, LenProperties
<1>3. PICK new : new = Append(old, n)
  OBVIOUS
<1>4. /\ DOMAIN old = 1..len /\ DOMAIN new = 1..(len + 1) /\ new[len + 1] = n
      /\ \A k \in 1..len : new[k] = old[k] /\ old[k] \in Nat
  BY <1>0, <1>2, <1>3, AppendProperties, LenProperties, ElementOfSeq
<1>5. /\ DOMAIN tierOf = 1..(n - 1) /\ DOMAIN tierOf' = 1..n
      /\ tierOf'[n] = p /\ \A k \in 1..(n - 1) : tierOf'[k] = tierOf[k] /\ tierOf[k] \in TiersUsed
  <2>1. tierOf' = Append(tierOf, p)
    BY DEF Enqueue
  <2> QED
    BY <1>0, <1>2, <2>1, AppendProperties, LenProperties, ElementOfSeq
<1>6. /\ served' = served /\ waiting'[p] = new
      /\ \A q \in TiersUsed \ {p} : waiting'[q] = waiting[q]
  BY <1>1, <1>2, <1>3 DEF QueueInv, QueueTypeOK, Enqueue
<1>11. QueueTypeOK'
  <2>1. new \in Seq(Nat) /\ Append(tierOf, p) \in Seq(TiersUsed)
    BY <1>0, <1>2, <1>3, AppendProperties
  <2> QED
    BY <1>0, <1>1, <1>2, <1>3, <2>1 DEF QueueInv, QueueTypeOK, Enqueue
<1>7. \A j \in DOMAIN served : served[j] \in 1..(n - 1)
  BY <1>5 DEF QueueInv
<1>8. ASSUME NEW q \in TiersUsed PROVE RowInv(q)'
  <2>1. RowInv(q)
    BY DEF QueueInv
  <2>2. CASE q # p
    <3>1. waiting'[q] = waiting[q]
      BY <1>6, <2>2
    <3>2. \A k \in DOMAIN waiting[q] : waiting[q][k] \in 1..(n - 1) /\ tierOf[waiting[q][k]] = q
      BY <1>5, <2>1 DEF RowInv
    <3>3. \A k \in DOMAIN waiting[q] : waiting[q][k] \in 1..n /\ tierOf'[waiting[q][k]] = q
      BY <1>5, <3>2
    <3>4. \A j \in DOMAIN served : tierOf'[served[j]] = tierOf[served[j]]
      BY <1>5, <1>7
    <3> QED
      BY <1>5, <1>6, <2>1, <3>1, <3>3, <3>4 DEF RowInv
  <2>3. CASE q = p
    <3>1. \A k \in 1..len : old[k] \in 1..(n - 1) /\ tierOf[old[k]] = p
      BY <1>1, <1>4, <1>5, <2>1, <2>3 DEF RowInv
    <3>2. ASSUME NEW j \in 1..(len + 1), NEW k \in 1..(len + 1), j < k PROVE new[j] < new[k]
      <4>1. j \in 1..len /\ new[j] = old[j] /\ old[j] < n
        BY <1>4, <3>1, <3>2
      <4>2. CASE k = len + 1
        BY <1>4, <4>1, <4>2
      <4>3. CASE k # len + 1
        <5>1. k \in 1..len /\ new[k] = old[k]
          BY <1>4, <3>2, <4>3
        <5> QED
          BY <1>1, <1>4, <2>1, <2>3, <3>2, <4>1, <5>1 DEF RowInv
      <4> QED
        BY <4>2, <4>3
    <3>3. \A k \in 1..(len + 1) : new[k] \in 1..n /\ tierOf'[new[k]] = p
      <4>1. ASSUME NEW k \in 1..len PROVE new[k] \in 1..n /\ tierOf'[new[k]] = p
        BY <1>4, <1>5, <3>1
      <4>2. new[len + 1] \in 1..n /\ tierOf'[new[len + 1]] = p
        <5>1. n \in 1..n
          BY <1>0, <1>2, LenProperties
        <5> QED
          BY <1>4, <1>5, <5>1
      <4>3. \A k \in 1..(len + 1) : k \in 1..len \/ k = len + 1
        OBVIOUS
      <4> QED
        BY <4>1, <4>2, <4>3
    <3>4. ASSUME NEW j \in DOMAIN served, NEW k \in 1..(len + 1), tierOf'[served[j]] = p
          PROVE  served[j] < new[k]
      <4>1. tierOf[served[j]] = p /\ served[j] < n
        BY <1>5, <1>7, <3>4
      <4>2. CASE k = len + 1
        BY <1>4, <4>1, <4>2
      <4>3. CASE k # len + 1
        <5>1. k \in 1..len /\ new[k] = old[k]
          BY <1>4, <3>4, <4>3
        <5> QED
          BY <1>1, <1>4, <2>1, <2>3, <4>1, <5>1 DEF RowInv
      <4> QED
        BY <4>2, <4>3
    <3> QED
      BY <1>4, <1>5, <1>6, <2>3, <3>2, <3>3, <3>4 DEF RowInv
  <2> QED
    BY <2>2, <2>3
<1>9. \A j, k \in DOMAIN served : j < k =>
          /\ served[j] # served[k]
          /\ tierOf'[served[j]] = tierOf'[served[k]] => served[j] < served[k]
  BY <1>5, <1>7 DEF QueueInv
<1>10. ASSUME NEW m \in DOMAIN tierOf'
       PROVE  \/ \E k \in DOMAIN served : served[k] = m
              \/ \E k \in DOMAIN waiting'[tierOf'[m]] : waiting'[tierOf'[m]][k] = m
  <2>1. CASE m = n
    <3>1. len + 1 \in DOMAIN waiting'[p] /\ waiting'[p][len + 1] = n
      BY <1>4, <1>6
    <3> QED
      BY <1>5, <2>1, <3>1
  <2>2. CASE m # n
    <3>1. m \in DOMAIN tierOf /\ tierOf'[m] = tierOf[m] /\ tierOf[m] \in TiersUsed
      BY <1>5, <2>2
    <3>2. CASE \E k \in DOMAIN served : served[k] = m
      BY <3>2
    <3>3. CASE \E k \in DOMAIN waiting[tierOf[m]] : waiting[tierOf[m]][k] = m
      <4>1. PICK k \in DOMAIN waiting[tierOf[m]] : waiting[tierOf[m]][k] = m
        BY <3>3
      <4>2. k \in DOMAIN waiting'[tierOf[m]] /\ waiting'[tierOf[m]][k] = m
        <5>1. CASE tierOf[m] # p
          BY <1>6, <3>1, <4>1, <5>1
        <5>2. CASE tierOf[m] = p
          <6>1. k \in 1..len /\ old[k] = m
            BY <1>1, <1>4, <4>1, <5>2
          <6>2. k \in 1..(len + 1) /\ new[k] = m
            BY <1>4, <6>1
          <6> QED
            BY <1>4, <1>6, <5>2, <6>2
        <5> QED
          BY <5>1, <5>2
      <4> QED
        BY <3>1, <4>2
    <3> QED
      BY <3>1, <3>2, <3>3 DEF QueueInv
  <2> QED
    BY <2>1, <2>2
<1>12. \A j \in DOMAIN served : served[j] \in DOMAIN tierOf'
  BY <1>5, <1>7
<1> QED
  BY <1>6, <1>8, <1>9, <1>10, <1>11, <1>12 DEF QueueInv

LEMMA TakesKeeps ==
    ASSUME QueueInv, NEW p \in TiersUsed, Takes(p), UNCHANGED tierOf PROVE QueueInv'
<1>1. PICK old : old = waiting[p]
  OBVIOUS
<1>0. old \in Seq(Nat) /\ old # <<>> /\ tierOf \in Seq(TiersUsed) /\ served \in Seq(Nat)
  BY <1>1 DEF QueueInv, QueueTypeOK, Takes
<1>2. PICK len \in Nat \ {0} : len = Len(old)
  BY <1>0, EmptySeq
<1>3. PICK new : new = Tail(old)
  OBVIOUS
<1>4. /\ DOMAIN old = 1..len /\ \A k \in 1..len : old[k] \in Nat
      /\ DOMAIN new = 1..(len - 1) /\ \A k \in 1..(len - 1) : new[k] = old[k + 1]
  <2>1. Len(new) = len - 1 /\ \A k \in 1..Len(new) : new[k] = old[k + 1]
    BY <1>0, <1>2, <1>3, HeadTailProperties
  <2>2. new \in Seq(Nat)
    BY <1>0, <1>3, HeadTailProperties
  <2> QED
    BY <1>0, <1>2, <2>1, <2>2, LenProperties, ElementOfSeq
<1>5. PICK n \in Nat : n = old[1]
  BY <1>4
<1>6. PICK past \in Nat : past = Len(served)
  BY <1>0, LenProperties
<1>7. /\ DOMAIN served = 1..past /\ DOMAIN served' = 1..(past + 1)
      /\ served'[past + 1] = n /\ \A k \in 1..past : served'[k] = served[k] /\ served[k] \in Nat
  <2>1. served' = Append(served, n)
    BY <1>1, <1>5 DEF Takes
  <2>2. served' \in Seq(Nat)
    BY <1>0, <1>5, <2>1, AppendProperties
  <2>3. /\ Len(served') = past + 1 /\ served'[past + 1] = n
        /\ \A k \in 1..past : served'[k] = served[k]
    BY <1>0, <1>5, <1>6, <2>1, AppendProperties
  <2> QED
    BY <1>0, <1>6, <2>2, <2>3, LenProperties, ElementOfSeq
<1>8. /\ waiting'[p] = new /\ tierOf' = tierOf
      /\ \A q \in TiersUsed \ {p} : waiting'[q] = waiting[q]
  BY <1>1, <1>3 DEF QueueInv, QueueTypeOK, Takes
<1>16. QueueTypeOK'
  <2>1. new \in Seq(Nat) /\ Append(served, n) \in Seq(Nat) /\ served' = Append(served, n)
    BY <1>0, <1>1, <1>3, <1>5, AppendProperties, HeadTailProperties DEF Takes
  <2> QED
    BY <1>0, <1>1, <1>3, <2>1 DEF QueueInv, QueueTypeOK, Takes
<1>9. /\ RowInv(p) /\ 1 \in DOMAIN waiting[p] /\ n = waiting[p][1]
      /\ n \in DOMAIN tierOf /\ tierOf[n] = p
  <2>1. RowInv(p) /\ 1 \in DOMAIN waiting[p] /\ n = waiting[p][1]
    BY <1>1, <1>4, <1>5 DEF QueueInv
  <2> QED
    BY <2>1 DEF RowInv
<1>10. \A k \in 1..past : tierOf[served[k]] = p => served[k] < n
  BY <1>7, <1>9 DEF RowInv
<1>11. ASSUME NEW q \in TiersUsed PROVE RowInv(q)'
  <2>1. RowInv(q)
    BY DEF QueueInv
  <2>2. CASE q # p
    <3>1. waiting'[q] = waiting[q]
      BY <1>8, <2>2
    <3>2. ASSUME NEW j \in 1..(past + 1), NEW k \in DOMAIN waiting[q], tierOf[served'[j]] = q
          PROVE  served'[j] < waiting[q][k]
      <4>1. j # past + 1
        BY <1>7, <1>9, <2>2, <3>2
      <4>2. j \in 1..past
        BY <4>1
      <4> QED
        BY <1>7, <2>1, <3>2, <4>2 DEF RowInv
    <3> QED
      BY <1>7, <1>8, <2>1, <3>1, <3>2 DEF RowInv
  <2>3. CASE q = p
    <3>1. ASSUME NEW k \in 1..(len - 1)
          PROVE  k + 1 \in DOMAIN waiting[p] /\ new[k] = waiting[p][k + 1] /\ n < new[k]
      <4>1. k + 1 \in 1..len /\ new[k] = old[k + 1] /\ 1 < k + 1 /\ k + 1 \in Nat
        BY <1>4
      <4>2. k + 1 \in DOMAIN waiting[p] /\ new[k] = waiting[p][k + 1]
        BY <1>1, <1>4, <4>1
      <4> QED
        BY <1>9, <4>1, <4>2 DEF RowInv
    <3>2. ASSUME NEW j \in 1..(len - 1), NEW k \in 1..(len - 1), j < k PROVE new[j] < new[k]
      BY <1>9, <3>1, <3>2 DEF RowInv
    <3>3. \A k \in 1..(len - 1) : new[k] \in DOMAIN tierOf /\ tierOf[new[k]] = p
      BY <1>9, <3>1 DEF RowInv
    <3>4. ASSUME NEW j \in 1..(past + 1), NEW k \in 1..(len - 1), tierOf[served'[j]] = p
          PROVE  served'[j] < new[k]
      <4>1. CASE j = past + 1
        BY <1>7, <3>1, <4>1
      <4>2. CASE j # past + 1
        <5>1. j \in 1..past /\ served'[j] = served[j]
          BY <1>7, <4>2
        <5> QED
          BY <1>7, <1>9, <3>1, <3>4, <5>1 DEF RowInv
      <4> QED
        BY <4>1, <4>2
    <3> QED
      BY <1>4, <1>7, <1>8, <2>3, <3>2, <3>3, <3>4 DEF RowInv
  <2> QED
    BY <2>2, <2>3
<1>12. ASSUME NEW j \in 1..past PROVE served[j] # n
  <2>1. CASE tierOf[served[j]] = p
    BY <1>7, <1>10, <2>1
  <2>2. CASE tierOf[served[j]] # p
    BY <1>9, <2>2
  <2> QED
    BY <2>1, <2>2
<1>13. ASSUME NEW j \in 1..(past + 1), NEW k \in 1..(past + 1), j < k
       PROVE  /\ served'[j] # served'[k]
              /\ tierOf[served'[j]] = tierOf[served'[k]] => served'[j] < served'[k]
  <2>1. j \in 1..past /\ served'[j] = served[j]
    BY <1>7, <1>13
  <2>2. CASE k = past + 1
    BY <1>7, <1>9, <1>10, <1>12, <2>1, <2>2
  <2>3. CASE k # past + 1
    <3>1. k \in 1..past /\ served'[k] = served[k]
      BY <1>7, <2>3
    <3> QED
      BY <1>7, <1>13, <2>1, <3>1 DEF QueueInv
  <2> QED
    BY <2>2, <2>3
<1>14. ASSUME NEW m \in DOMAIN tierOf
       PROVE  \/ \E k \in DOMAIN served' : served'[k] = m
              \/ \E k \in DOMAIN waiting'[tierOf[m]] : waiting'[tierOf[m]][k] = m
  <2>1. CASE m = n
    BY <1>7, <2>1
  <2>2. CASE \E k \in DOMAIN served : served[k] = m
    <3>1. PICK k \in 1..past : served[k] = m
      BY <1>7, <2>2
    <3>2. k \in 1..(past + 1) /\ served'[k] = m
      BY <1>7, <3>1
    <3> QED
      BY <1>7, <3>2
  <2>3. CASE m # n /\ \E k \in DOMAIN waiting[tierOf[m]] : waiting[tierOf[m]][k] = m
    <3>1. PICK k \in DOMAIN waiting[tierOf[m]] : waiting[tierOf[m]][k] = m
      BY <2>3
    <3>2. CASE tierOf[m] # p
      <4>1. tierOf[m] \in TiersUsed
        BY <1>0, LenProperties, ElementOfSeq
      <4> QED
        BY <1>8, <3>1, <3>2, <4>1
    <3>3. CASE tierOf[m] = p
      <4>1. k \in 1..len /\ k # 1
        BY <1>1, <1>4, <1>5, <2>3, <3>1, <3>3
      <4>2. k - 1 \in 1..(len - 1) /\ new[k - 1] = m
        BY <1>1, <1>4, <3>1, <3>3, <4>1
      <4> QED
        BY <1>4, <1>8, <3>3, <4>2
    <3> QED
      BY <3>2, <3>3
  <2> QED
    BY <2>1, <2>2, <2>3 DEF QueueInv
<1>15. ASSUME NEW j \in 1..(past + 1) PROVE served'[j] \in DOMAIN tierOf
  <2>1. CASE j = past + 1
    BY <1>7, <1>9, <2>1
  <2>2. CASE j # past + 1
    <3>1. j \in 1..past
      BY <2>2
    <3> QED
      BY <1>7, <3>1 DEF QueueInv
  <2> QED
    BY <2>1, <2>2
<1> QED
  BY <1>7, <1>8, <1>11, <1>13, <1>14, <1>15, <1>16 DEF QueueInv

LEMMA QueueStep == QueueInv /\ [QueueNext]_queueVars => QueueInv'
<1> SUFFICES ASSUME QueueInv, [QueueNext]_queueVars PROVE QueueInv'
  OBVIOUS
<1>1. ASSUME NEW p \in TiersUsed, Enqueue(p) PROVE QueueInv'
  BY <1>1, EnqueueKeeps
<1>2. ASSUME NEW asked \in TiersUsed \cup {"none"}, Dequeue(asked) PROVE QueueInv'
  <2>1. PICK p \in TiersUsed : Takes(p)
    BY <1>2 DEF Dequeue, MostUrgent, TiersUsed
  <2> QED
    BY <1>2, <2>1, TakesKeeps DEF Dequeue
<1>3. CASE UNCHANGED queueVars
  BY <1>3 DEF queueVars, QueueInv, QueueTypeOK, RowInv
<1> QED
  BY <1>1, <1>2, <1>3 DEF QueueNext

LEMMA QueueInvHolds == QueueInv => QueueServesOnce
<1> SUFFICES ASSUME QueueInv PROVE QueueServesOnce
  OBVIOUS
<1>1. ASSUME NEW n \in DOMAIN tierOf
      PROVE  (n \in Listed(served)) # (n \in Listed(waiting[tierOf[n]]))
  <2>1. tierOf[n] \in TiersUsed
    BY LenProperties, ElementOfSeq DEF QueueInv, QueueTypeOK
  <2>2. (n \in Listed(served)) \/ (n \in Listed(waiting[tierOf[n]]))
    BY DEF QueueInv, Listed
  <2>3. ASSUME n \in Listed(served), n \in Listed(waiting[tierOf[n]]) PROVE FALSE
    <3>1. PICK j \in DOMAIN served, k \in DOMAIN waiting[tierOf[n]] :
             served[j] = n /\ waiting[tierOf[n]][k] = n
      BY <2>3 DEF Listed
    <3>2. n < n /\ n \in Nat
      <4>1. RowInv(tierOf[n])
        BY <2>1 DEF QueueInv
      <4>2. n \in Nat
        BY LenProperties DEF QueueInv, QueueTypeOK
      <4> QED
        BY <3>1, <4>1, <4>2 DEF RowInv
    <3> QED
      BY <3>2
  <2> QED
    BY <2>2, <2>3
<1> QED
  BY <1>1 DEF QueueInv, RowInv, QueueServesOnce

\* However calls with and without a tier alternate, an entry has been taken or waits in its
\* tier, one of the two and once, and a tier is taken in the order it was filled (TaskQueue).
THEOREM QueueAlwaysServesOnce == QueueSpec => []QueueServesOnce
<1>1. QueueInit => QueueInv
  BY QueueInitially
<1>2. QueueInv /\ [QueueNext]_queueVars => QueueInv'
  BY QueueStep
<1>3. QueueInv => QueueServesOnce
  BY QueueInvHolds
<1> QED
  BY <1>1, <1>2, <1>3, PTL DEF QueueSpec

-----------------------------------------------------------------------------
(* The pool of tasks                                                        *)

TryStates == {"idle", "tries", "completed", "gaveUp", "cancelled"}

PoolInv ==
    /\ IsFiniteSet(pool) /\ PoolKeepsWord
    /\ DOMAIN poolStatus = A2aTasks
    /\ tryRun \in [A2aRuns -> [task : A2aTasks \cup {"none"}, tries : Nat, at : TryStates]]
    /\ \A r \in A2aRuns : /\ tryRun[r].at # "idle" => tryRun[r].task \in A2aTasks
                          /\ tryRun[r].at = "tries" => tryRun[r].tries < MaxTries

\* What PoolKeepsWord says of a task.
TaskKept(t) ==
    /\ poolStatus[t] = "completed" =>
          \E r \in A2aRuns : tryRun[r].task = t /\ tryRun[r].at = "completed"
    /\ poolStatus[t] = "failed" =>
          \E r \in A2aRuns : tryRun[r].task = t /\ tryRun[r].at \in {"tries", "gaveUp", "cancelled"}

LEMMA WordIsKept ==
    PoolKeepsWord <=> /\ PoolSize <= MaxWorkers
                      /\ \A r \in A2aRuns : tryRun[r].at = "gaveUp" => tryRun[r].tries = MaxTries
                      /\ \A t \in A2aTasks : TaskKept(t)
BY DEF PoolKeepsWord, TaskKept

LEMMA PoolInitially == PoolInit => PoolInv
<1> SUFFICES ASSUME PoolInit PROVE PoolInv
  OBVIOUS
<1>1. IsFiniteSet(pool) /\ PoolSize = 0
  BY FS_EmptySet DEF PoolInit, PoolSize
<1>2. \A r \in A2aRuns : tryRun[r].at = "idle" /\ tryRun[r].task = "none" /\ tryRun[r].tries = 0
  BY DEF PoolInit, NoRun
<1>3. tryRun \in [A2aRuns -> [task : A2aTasks \cup {"none"}, tries : Nat, at : TryStates]]
  BY DEF PoolInit, NoRun, TryStates
<1>4. PoolKeepsWord
  BY <1>1, <1>2, PoolAssumption DEF PoolInit, PoolKeepsWord
<1> QED
  BY <1>1, <1>2, <1>3, <1>4 DEF PoolInit, PoolInv

\* A call begins, goes on or ends.
CallMoves(r, t, n, at) ==
    /\ r \in A2aRuns /\ t \in A2aTasks /\ n \in Nat /\ at \in TryStates \ {"idle"}
    /\ tryRun' = [tryRun EXCEPT ![r] = [task |-> t, tries |-> n, at |-> at]]
    /\ tryRun[r].at = "idle" \/ (tryRun[r].at = "tries" /\ tryRun[r].task = t)
    /\ pool' = pool /\ DOMAIN poolStatus' = A2aTasks
    /\ \A s \in A2aTasks \ {t} : poolStatus'[s] = poolStatus[s]
    /\ (at = "gaveUp" => n = MaxTries) /\ (at = "tries" => n < MaxTries)
    /\ \/ poolStatus'[t] = poolStatus[t] /\ at # "completed"
       \/ poolStatus'[t] = "completed" /\ at = "completed"
       \/ poolStatus'[t] = "failed" /\ at \in {"tries", "gaveUp"}

LEMMA CallKeeps ==
    ASSUME PoolInv, NEW r \in A2aRuns, NEW t \in A2aTasks, NEW n \in Nat,
           NEW at \in TryStates \ {"idle"}, CallMoves(r, t, n, at)
    PROVE  PoolInv'
<1>0. CallMoves(r, t, n, at)
  OBVIOUS
<1>1. /\ tryRun' \in [A2aRuns -> [task : A2aTasks \cup {"none"}, tries : Nat, at : TryStates]]
      /\ tryRun'[r] = [task |-> t, tries |-> n, at |-> at]
      /\ \A q \in A2aRuns \ {r} : tryRun'[q] = tryRun[q]
  BY <1>0 DEF PoolInv, CallMoves
<1>2. tryRun'[r].task = t /\ tryRun'[r].tries = n /\ tryRun'[r].at = at
  BY <1>1
<1>3. /\ PoolSize' <= MaxWorkers
      /\ \A q \in A2aRuns : tryRun'[q].at = "gaveUp" => tryRun'[q].tries = MaxTries
  BY <1>0, <1>1, <1>2, WordIsKept DEF PoolInv, PoolSize, CallMoves
<1>4. ASSUME NEW s \in A2aTasks PROVE TaskKept(s)'
  <2>1. TaskKept(s)
    BY WordIsKept DEF PoolInv
  <2>2. CASE poolStatus'[s] = poolStatus[s]
    <3>1. ASSUME poolStatus[s] = "completed"
          PROVE  \E q \in A2aRuns : tryRun'[q].task = s /\ tryRun'[q].at = "completed"
      <4>1. PICK q \in A2aRuns : tryRun[q].task = s /\ tryRun[q].at = "completed"
        BY <2>1, <3>1 DEF TaskKept
      <4>2. q # r
        BY <1>0, <4>1 DEF CallMoves
      <4> QED
        BY <1>1, <4>1, <4>2
    <3>2. ASSUME poolStatus[s] = "failed"
          PROVE  \E q \in A2aRuns : /\ tryRun'[q].task = s
                                    /\ tryRun'[q].at \in {"tries", "gaveUp", "cancelled"}
      <4>1. PICK q \in A2aRuns : /\ tryRun[q].task = s
                                 /\ tryRun[q].at \in {"tries", "gaveUp", "cancelled"}
        BY <2>1, <3>2 DEF TaskKept
      <4>2. CASE q # r
        BY <1>1, <4>1, <4>2
      <4>3. CASE q = r
        <5>1. s = t /\ poolStatus'[t] = "failed"
          BY <1>0, <2>2, <3>2, <4>1, <4>3 DEF CallMoves
        <5>2. at \in {"tries", "gaveUp", "cancelled"}
          BY <1>0, <5>1 DEF TryStates, CallMoves
        <5> QED
          BY <1>1, <1>2, <5>1, <5>2
      <4> QED
        BY <4>2, <4>3
    <3> QED
      BY <2>2, <3>1, <3>2 DEF TaskKept
  <2>3. CASE poolStatus'[s] # poolStatus[s]
    <3>1. s = t
      BY <1>0, <2>3 DEF CallMoves
    <3> QED
      BY <1>0, <1>1, <1>2, <2>3, <3>1 DEF TaskKept, CallMoves
  <2> QED
    BY <2>2, <2>3
<1>5. PoolKeepsWord'
  BY <1>3, <1>4 DEF PoolKeepsWord, TaskKept
<1>6. \A q \in A2aRuns : /\ tryRun'[q].at # "idle" => tryRun'[q].task \in A2aTasks
                         /\ tryRun'[q].at = "tries" => tryRun'[q].tries < MaxTries
  BY <1>0, <1>1, <1>2 DEF PoolInv, CallMoves
<1> QED
  BY <1>0, <1>1, <1>5, <1>6 DEF PoolInv, CallMoves

LEMMA PoolStep == PoolInv /\ [PoolNext]_poolVars => PoolInv'
<1> SUFFICES ASSUME PoolInv, [PoolNext]_poolVars PROVE PoolInv'
  OBVIOUS
<1> USE PoolAssumption
<1>1. ASSUME NEW t \in A2aTasks, SubmitToPool(t) PROVE PoolInv'
  <2>1. /\ IsFiniteSet(pool') /\ Cardinality(pool) \in Nat
        /\ Cardinality(pool') \in {Cardinality(pool), Cardinality(pool) + 1}
    BY <1>1, FS_AddElement, FS_CardinalityType DEF SubmitToPool, PoolInv
  <2>2. PoolSize' <= MaxWorkers
    BY <1>1, <2>1 DEF SubmitToPool, PoolSize
  <2>3. poolStatus' = poolStatus /\ tryRun' = tryRun
    BY <1>1 DEF SubmitToPool
  <2> QED
    BY <2>1, <2>2, <2>3 DEF PoolInv, PoolKeepsWord
<1>2. ASSUME NEW r \in A2aRuns, NEW t \in A2aTasks, Executes(r, t) PROVE PoolInv'
  <2>1. tryRun[r].at = "idle" /\ 0 \in Nat /\ 0 < MaxTries /\ "tries" \in TryStates \ {"idle"}
    BY <1>2 DEF Executes, NoRun, TryStates
  <2>2. /\ tryRun' = [tryRun EXCEPT ![r] = [task |-> t, tries |-> 0, at |-> "tries"]]
        /\ pool' = pool /\ poolStatus' = poolStatus /\ DOMAIN poolStatus' = A2aTasks
    BY <1>2 DEF Executes, PoolInv
  <2>3. CallMoves(r, t, 0, "tries")
    BY <2>1, <2>2 DEF CallMoves
  <2> QED
    BY <2>1, <2>3, CallKeeps
<1>3. ASSUME NEW r \in A2aRuns, tryRun[r].at = "tries"
      PROVE  /\ tryRun[r].task \in A2aTasks /\ tryRun[r].tries \in Nat
             /\ tryRun[r].tries < MaxTries
  BY <1>3 DEF PoolInv
<1>4. {"tries", "completed", "cancelled", "gaveUp"} \subseteq TryStates \ {"idle"}
  BY DEF TryStates
<1>5. ASSUME NEW r \in A2aRuns, TryCompletes(r) PROVE PoolInv'
  <2>1. PICK t \in A2aTasks, n \in Nat :
            t = tryRun[r].task /\ n = tryRun[r].tries /\ tryRun[r].at = "tries"
    BY <1>3, <1>5 DEF TryCompletes, RunGoes
  <2>2. /\ tryRun' = [tryRun EXCEPT ![r] = [task |-> t, tries |-> n, at |-> "completed"]]
        /\ pool' = pool /\ poolStatus' = [poolStatus EXCEPT ![t] = "completed"]
    BY <1>5, <2>1 DEF TryCompletes, RunGoes
  <2>3. /\ DOMAIN poolStatus' = A2aTasks /\ poolStatus'[t] = "completed"
        /\ \A s \in A2aTasks \ {t} : poolStatus'[s] = poolStatus[s]
    BY <2>2 DEF PoolInv
  <2>4. CallMoves(r, t, n, "completed")
    BY <1>4, <2>1, <2>2, <2>3 DEF CallMoves
  <2> QED
    BY <1>4, <2>4, CallKeeps
<1>6. ASSUME NEW r \in A2aRuns, TryTimesOut(r) PROVE PoolInv'
  <2>1. PICK t \in A2aTasks, n \in Nat :
            /\ t = tryRun[r].task /\ n = tryRun[r].tries + 1 /\ n <= MaxTries
            /\ tryRun[r].at = "tries"
    <3>1. tryRun[r].at = "tries"
      BY <1>6 DEF TryTimesOut, RunGoes
    <3>2. /\ tryRun[r].task \in A2aTasks /\ tryRun[r].tries + 1 \in Nat
          /\ tryRun[r].tries + 1 <= MaxTries
      BY <1>3, <3>1
    <3> QED
      BY <3>1, <3>2
  <2>2. PICK at \in {"tries", "gaveUp"} : at = IF n < MaxTries THEN "tries" ELSE "gaveUp"
    OBVIOUS
  <2>3. /\ tryRun' = [tryRun EXCEPT ![r] = [task |-> t, tries |-> n, at |-> at]]
        /\ pool' = pool /\ poolStatus' = [poolStatus EXCEPT ![t] = "failed"]
    BY <1>6, <2>1, <2>2 DEF TryTimesOut, RunGoes
  <2>4. /\ DOMAIN poolStatus' = A2aTasks /\ poolStatus'[t] = "failed"
        /\ \A s \in A2aTasks \ {t} : poolStatus'[s] = poolStatus[s]
    BY <2>3 DEF PoolInv
  <2>5. (at = "gaveUp" => n = MaxTries) /\ (at = "tries" => n < MaxTries)
    BY <2>1, <2>2
  <2>6. CallMoves(r, t, n, at)
    BY <1>4, <2>1, <2>2, <2>3, <2>4, <2>5 DEF CallMoves
  <2> QED
    BY <1>4, <2>2, <2>6, CallKeeps
<1>7. ASSUME NEW r \in A2aRuns, RunCancelled(r) PROVE PoolInv'
  <2>1. PICK t \in A2aTasks, n \in Nat :
            t = tryRun[r].task /\ n = tryRun[r].tries /\ tryRun[r].at = "tries"
    BY <1>3, <1>7 DEF RunCancelled, RunGoes
  <2>2. /\ tryRun' = [tryRun EXCEPT ![r] = [task |-> t, tries |-> n, at |-> "cancelled"]]
        /\ pool' = pool /\ poolStatus' = poolStatus
    BY <1>7, <2>1 DEF RunCancelled, RunGoes
  <2>3. DOMAIN poolStatus' = A2aTasks
    BY <2>2 DEF PoolInv
  <2>4. CallMoves(r, t, n, "cancelled")
    BY <1>4, <2>1, <2>2, <2>3 DEF CallMoves
  <2> QED
    BY <1>4, <2>4, CallKeeps
<1>8. CASE UNCHANGED poolVars
  BY <1>8 DEF poolVars, PoolInv, PoolKeepsWord, PoolSize
<1>9. CASE \E t \in A2aTasks : SubmitToPool(t) \/ \E r \in A2aRuns : Executes(r, t)
  BY <1>1, <1>2, <1>9
<1>10. CASE \E r \in A2aRuns : TryCompletes(r) \/ TryTimesOut(r) \/ RunCancelled(r)
  BY <1>5, <1>6, <1>7, <1>10
<1> QED
  BY <1>8, <1>9, <1>10 DEF PoolNext

\* However calls for a task overlap, the pool holds no more than its workers, and what a task
\* is said to have come to some call of it has (WorkerPool).
THEOREM PoolAlwaysKeepsWord == PoolSpec => []PoolKeepsWord
<1>1. PoolInit => PoolInv
  BY PoolInitially
<1>2. PoolInv /\ [PoolNext]_poolVars => PoolInv'
  BY PoolStep
<1>3. PoolInv => PoolKeepsWord
  BY DEF PoolInv
<1> QED
  BY <1>1, <1>2, <1>3, PTL DEF PoolSpec

-----------------------------------------------------------------------------
(* The schedules                                                            *)

ScheduleNumbers == 1..MaxSchedules
RunRow == [task : ScheduleNumbers, recorded : BOOLEAN]

SchedulesTypeOK ==
    /\ scheduleIds \in Nat /\ scheduleIds <= MaxSchedules
    /\ DOMAIN schedules = ScheduleNumbers /\ DOMAIN changedBy = ScheduleNumbers
    /\ startedRuns \in Seq(RunRow)
    /\ executions \in [ScheduleNumbers -> Seq(Nat)]

\* Validated, and changed by its organisation; gone, it was changed by one at most.
HeldSchedule(n) ==
    /\ schedules[n].there =>
          /\ n <= scheduleIds /\ ValidateCron(schedules[n].cron)
          /\ changedBy[n] \subseteq {schedules[n].org}
    /\ \E o : changedBy[n] \subseteq {o}
    /\ n > scheduleIds => changedBy[n] = {}
\* The history is of recorded runs, each once.
TrueHistory(n) ==
    /\ \A k \in DOMAIN executions[n] :
          /\ executions[n][k] \in DOMAIN startedRuns
          /\ startedRuns[executions[n][k]].recorded
          /\ startedRuns[executions[n][k]].task = n
    /\ \A j, k \in DOMAIN executions[n] : j # k => executions[n][j] # executions[n][k]

SchedulesInv ==
    /\ SchedulesTypeOK
    /\ \A n \in ScheduleNumbers : HeldSchedule(n)
    /\ \A n \in ScheduleNumbers : TrueHistory(n)
    /\ \A u \in ScheduleUsers :
          IsFiniteSet(OfUser(u)) /\ Cardinality(OfUser(u)) <= MaxTasksPerUser

LEMMA SchedulesInitially == SchedulesInit => SchedulesInv
<1> SUFFICES ASSUME SchedulesInit PROVE SchedulesInv
  OBVIOUS
<1>1. /\ scheduleIds = 0 /\ startedRuns = <<>> /\ DOMAIN schedules = ScheduleNumbers
      /\ \A n \in ScheduleNumbers : ~schedules[n].there /\ executions[n] = <<>> /\ changedBy[n] = {}
      /\ executions = [n \in ScheduleNumbers |-> <<>>] /\ DOMAIN changedBy = ScheduleNumbers
  BY DEF SchedulesInit, NoSchedule, ScheduleNumbers
<1>2. DOMAIN <<>> = {} /\ <<>> \in Seq(RunRow) /\ <<>> \in Seq(Nat)
  BY EmptySeq
<1>3. SchedulesTypeOK
  BY <1>1, <1>2, ScheduleAssumption DEF SchedulesTypeOK
<1>4. ASSUME NEW u \in ScheduleUsers
      PROVE  IsFiniteSet(OfUser(u)) /\ Cardinality(OfUser(u)) <= MaxTasksPerUser
  <2>1. OfUser(u) = {}
    BY <1>1 DEF OfUser
  <2> QED
    BY <2>1, FS_EmptySet, ScheduleAssumption
<1> QED
  BY <1>1, <1>2, <1>3, <1>4 DEF SchedulesInv, HeldSchedule, TrueHistory

\* The schedules and who changed them stay.
LEMMA SchedulesStay ==
    ASSUME SchedulesInv, schedules' = schedules, scheduleIds' = scheduleIds, changedBy' = changedBy
    PROVE  /\ scheduleIds' \in Nat /\ scheduleIds' <= MaxSchedules
           /\ DOMAIN schedules' = ScheduleNumbers /\ DOMAIN changedBy' = ScheduleNumbers
           /\ \A n \in ScheduleNumbers : HeldSchedule(n)'
           /\ \A u \in ScheduleUsers :
                 IsFiniteSet(OfUser(u)') /\ Cardinality(OfUser(u)') <= MaxTasksPerUser
<1>1. \A u \in ScheduleUsers : OfUser(u)' = OfUser(u)
  BY DEF OfUser
<1> QED
  BY <1>1 DEF SchedulesInv, SchedulesTypeOK, HeldSchedule

\* A schedule that is there, seen by one of its organisation, is changed or read.
LEMMA ScheduleTouched ==
    ASSUME SchedulesInv, NEW u \in ScheduleUsers, NEW n \in ScheduleNumbers, NEW row,
           ScheduleSeen(n, ScheduleOrg[u]), Touched(n, u),
           DOMAIN schedules' = ScheduleNumbers, schedules'[n] = row,
           \A m \in ScheduleNumbers \ {n} : schedules'[m] = schedules[m], scheduleIds' = scheduleIds,
           row.there => /\ ValidateCron(row.cron) /\ row.org = schedules[n].org
                        /\ row.user = schedules[n].user
    PROVE  /\ scheduleIds' \in Nat /\ scheduleIds' <= MaxSchedules
           /\ DOMAIN schedules' = ScheduleNumbers /\ DOMAIN changedBy' = ScheduleNumbers
           /\ \A m \in ScheduleNumbers : HeldSchedule(m)'
           /\ \A v \in ScheduleUsers :
                 IsFiniteSet(OfUser(v)') /\ Cardinality(OfUser(v)') <= MaxTasksPerUser
<1>1. PICK o : o = schedules[n].org
  OBVIOUS
<1>2. schedules[n].there /\ ScheduleOrg[u] = o /\ n <= scheduleIds /\ changedBy[n] \subseteq {o}
  BY <1>1 DEF ScheduleSeen, SchedulesInv, HeldSchedule
<1>3. /\ DOMAIN schedules' = ScheduleNumbers /\ schedules'[n] = row
      /\ \A m \in ScheduleNumbers \ {n} : schedules'[m] = schedules[m]
  OBVIOUS
<1>4. /\ DOMAIN changedBy' = ScheduleNumbers /\ changedBy'[n] = changedBy[n] \cup {o}
      /\ \A m \in ScheduleNumbers \ {n} : changedBy'[m] = changedBy[m]
  BY <1>2 DEF SchedulesInv, SchedulesTypeOK, Touched
<1>5. changedBy'[n] \subseteq {o}
  BY <1>2, <1>4
<1>6. ASSUME NEW m \in ScheduleNumbers PROVE HeldSchedule(m)'
  <2>1. CASE m = n
    <3>1. scheduleIds \in Nat /\ n \in Nat /\ ~(n > scheduleIds')
      BY <1>2 DEF SchedulesInv, SchedulesTypeOK, ScheduleNumbers
    <3> QED
      BY <1>1, <1>2, <1>3, <1>5, <2>1, <3>1 DEF HeldSchedule
  <2>2. CASE m # n
    <3>1. schedules'[m] = schedules[m] /\ changedBy'[m] = changedBy[m] /\ HeldSchedule(m)
      BY <1>3, <1>4, <2>2 DEF SchedulesInv
    <3> QED
      BY <3>1 DEF HeldSchedule
  <2> QED
    BY <2>1, <2>2
<1>7. ASSUME NEW v \in ScheduleUsers
      PROVE  IsFiniteSet(OfUser(v)') /\ Cardinality(OfUser(v)') <= MaxTasksPerUser
  <2>1. PICK A, B : A = OfUser(v) /\ B = OfUser(v)'
    OBVIOUS
  <2>2. B \subseteq A
    <3>1. ASSUME NEW m \in B PROVE m \in A
      <4>1. m \in 1..scheduleIds /\ schedules'[m].there /\ schedules'[m].user = v
        BY <2>1 DEF OfUser
      <4>2. m \in ScheduleNumbers
        BY <4>1, ScheduleAssumption DEF ScheduleNumbers, SchedulesInv, SchedulesTypeOK
      <4>3. schedules[m].there /\ schedules[m].user = v
        BY <1>2, <1>3, <4>1, <4>2
      <4> QED
        BY <2>1, <4>1, <4>3 DEF OfUser
    <3> QED
      BY <3>1
  <2>3. IsFiniteSet(A) /\ Cardinality(A) <= MaxTasksPerUser
    BY <2>1 DEF SchedulesInv
  <2>4. PICK a, b : a = Cardinality(A) /\ b = Cardinality(B)
    OBVIOUS
  <2>5. IsFiniteSet(B) /\ b <= a
    BY <2>2, <2>3, <2>4, FS_Subset
  <2>6. a \in Nat /\ b \in Nat
    BY <2>3, <2>4, <2>5, FS_CardinalityType
  <2>7. b <= MaxTasksPerUser
    BY <2>3, <2>4, <2>5, <2>6, ScheduleAssumption
  <2> QED
    BY <2>1, <2>4, <2>5, <2>7
<1>8. scheduleIds' \in Nat /\ scheduleIds' <= MaxSchedules
  BY DEF SchedulesInv, SchedulesTypeOK
<1> QED
  BY <1>3, <1>4, <1>6, <1>7, <1>8

LEMMA SchedulesStep == SchedulesInv /\ [SchedulesNext]_scheduleVars => SchedulesInv'
<1> SUFFICES ASSUME SchedulesInv, [SchedulesNext]_scheduleVars PROVE SchedulesInv'
  OBVIOUS
<1> USE ScheduleAssumption
<1>0. \A n \in 1..scheduleIds : n \in ScheduleNumbers
  BY DEF SchedulesInv, SchedulesTypeOK, ScheduleNumbers
<1>1. ASSUME NEW u \in ScheduleUsers, NEW c \in Crons, NEW on \in BOOLEAN, CreateSchedule(u, c, on)
      PROVE  SchedulesInv'
  <2>1. PICK n : n = scheduleIds + 1
    OBVIOUS
  <2>2. PICK row : row = [there |-> TRUE, user |-> u, org |-> ScheduleOrg[u], cron |-> c,
                          enabled |-> on]
    OBVIOUS
  <2>3. /\ ValidateCron(c) /\ Cardinality(OfUser(u)) < MaxTasksPerUser /\ scheduleIds < MaxSchedules
        /\ scheduleIds' = n /\ schedules' = [schedules EXCEPT ![n] = row]
        /\ startedRuns' = startedRuns /\ executions' = executions /\ changedBy' = changedBy
    BY <1>1, <2>1, <2>2 DEF CreateSchedule
  <2>4. n \in ScheduleNumbers /\ n \in Nat /\ n > scheduleIds /\ scheduleIds \in Nat
    BY <2>1, <2>3 DEF SchedulesInv, SchedulesTypeOK, ScheduleNumbers
  <2>5. row.there /\ row.user = u /\ row.cron = c
    BY <2>2
  <2>6. /\ DOMAIN schedules' = ScheduleNumbers /\ schedules'[n] = row
        /\ \A m \in ScheduleNumbers \ {n} : schedules'[m] = schedules[m]
    BY <2>3, <2>4 DEF SchedulesInv, SchedulesTypeOK
  <2>7. ~schedules[n].there /\ changedBy[n] = {}
    BY <2>4 DEF SchedulesInv, HeldSchedule
  <2>8. ASSUME NEW m \in ScheduleNumbers PROVE HeldSchedule(m)'
    <3>1. CASE m = n
      BY <2>3, <2>4, <2>5, <2>6, <2>7, <3>1 DEF HeldSchedule
    <3>2. CASE m # n
      <4>1. schedules'[m] = schedules[m] /\ changedBy'[m] = changedBy[m] /\ HeldSchedule(m)
        BY <2>3, <2>6, <3>2 DEF SchedulesInv
      <4>2. m \in Nat /\ (m <= scheduleIds => m <= scheduleIds') /\ (m > scheduleIds' => m > scheduleIds)
        BY <2>1, <2>3, <2>4 DEF ScheduleNumbers
      <4> QED
        BY <4>1, <4>2 DEF HeldSchedule
    <3> QED
      BY <3>1, <3>2
  <2>9. ASSUME NEW v \in ScheduleUsers
        PROVE  IsFiniteSet(OfUser(v)') /\ Cardinality(OfUser(v)') <= MaxTasksPerUser
    <3>1. PICK A, B : A = OfUser(v) /\ B = OfUser(v)'
      OBVIOUS
    <3>2. IsFiniteSet(A) /\ Cardinality(A) <= MaxTasksPerUser
      BY <3>1 DEF SchedulesInv
    <3>3. n \notin A
      BY <2>4, <3>1 DEF OfUser
    <3>4. \A m \in 1..n : m # n => m \in 1..scheduleIds /\ schedules'[m] = schedules[m]
      BY <1>0, <2>1, <2>4, <2>6
    <3>5. \A m \in 1..scheduleIds : m \in 1..n /\ m # n
      BY <2>1, <2>4
    <3>6. CASE v = u
      <4>1. B = A \cup {n}
        BY <2>3, <2>4, <2>5, <2>6, <3>1, <3>4, <3>5, <3>6 DEF OfUser
      <4>2. PICK a : a = Cardinality(A)
        OBVIOUS
      <4>3. a \in Nat /\ a < MaxTasksPerUser
        BY <2>3, <3>1, <3>2, <3>6, <4>2, FS_CardinalityType
      <4>4. IsFiniteSet(B) /\ Cardinality(B) = a + 1
        BY <3>2, <3>3, <4>1, <4>2, FS_AddElement
      <4> QED
        BY <3>1, <4>3, <4>4
    <3>7. CASE v # u
      <4>1. B = A
        BY <2>3, <2>4, <2>5, <2>6, <3>1, <3>4, <3>5, <3>7 DEF OfUser
      <4> QED
        BY <3>1, <3>2, <4>1
    <3> QED
      BY <3>6, <3>7
  <2>10. SchedulesTypeOK'
    BY <2>1, <2>3, <2>4, <2>6 DEF SchedulesInv, SchedulesTypeOK
  <2>11. \A m \in ScheduleNumbers : TrueHistory(m)'
    BY <2>3 DEF SchedulesInv, TrueHistory
  <2> QED
    BY <2>8, <2>9, <2>10, <2>11 DEF SchedulesInv
<1>2. ASSUME NEW u \in ScheduleUsers, NEW c \in Crons, NEW on \in BOOLEAN, NEW n \in 1..scheduleIds,
             UpdateSchedule(u, n, c, on)
      PROVE  SchedulesInv'
  <2>1. PICK mid : mid = [schedules[n] EXCEPT !.cron = c]
    OBVIOUS
  <2>2. PICK row : row = [mid EXCEPT !.enabled = on]
    OBVIOUS
  <2>3. /\ ScheduleSeen(n, ScheduleOrg[u]) /\ ValidateCron(c) /\ Touched(n, u)
        /\ scheduleIds' = scheduleIds /\ startedRuns' = startedRuns /\ executions' = executions
        /\ schedules' = [schedules EXCEPT ![n].cron = c, ![n].enabled = on]
    BY <1>2 DEF UpdateSchedule
  <2>4. /\ DOMAIN schedules' = ScheduleNumbers /\ schedules'[n] = row
        /\ \A m \in ScheduleNumbers \ {n} : schedules'[m] = schedules[m]
    BY <1>0, <2>1, <2>2, <2>3 DEF SchedulesInv, SchedulesTypeOK
  <2>5. /\ row.org = schedules[n].org /\ row.user = schedules[n].user
        /\ ValidateCron(row.cron) \/ row.cron = schedules[n].cron
    BY <2>1, <2>2, <2>3
  <2>6. ValidateCron(row.cron)
    BY <1>0, <2>3, <2>5 DEF SchedulesInv, HeldSchedule, ScheduleSeen
  <2>7. /\ scheduleIds' \in Nat /\ scheduleIds' <= MaxSchedules
        /\ DOMAIN schedules' = ScheduleNumbers /\ DOMAIN changedBy' = ScheduleNumbers
        /\ \A m \in ScheduleNumbers : HeldSchedule(m)'
        /\ \A v \in ScheduleUsers :
              IsFiniteSet(OfUser(v)') /\ Cardinality(OfUser(v)') <= MaxTasksPerUser
    BY <1>0, <2>3, <2>4, <2>5, <2>6, ScheduleTouched
  <2>8. \A m \in ScheduleNumbers : TrueHistory(m)'
    BY <2>3 DEF SchedulesInv, TrueHistory
  <2> QED
    BY <2>3, <2>7, <2>8 DEF SchedulesInv, SchedulesTypeOK
<1>3. ASSUME NEW u \in ScheduleUsers, NEW n \in 1..scheduleIds, DeleteSchedule(u, n) PROVE SchedulesInv'
  <2>1. /\ ScheduleSeen(n, ScheduleOrg[u]) /\ Touched(n, u)
        /\ scheduleIds' = scheduleIds /\ startedRuns' = startedRuns
        /\ executions' = [executions EXCEPT ![n] = <<>>]
        /\ schedules' = [schedules EXCEPT ![n] = NoSchedule]
    BY <1>3 DEF DeleteSchedule
  <2>2. /\ ~NoSchedule.there /\ DOMAIN schedules' = ScheduleNumbers /\ schedules'[n] = NoSchedule
        /\ \A m \in ScheduleNumbers \ {n} : schedules'[m] = schedules[m]
    BY <1>0, <2>1 DEF NoSchedule, SchedulesInv, SchedulesTypeOK
  <2>3. /\ scheduleIds' \in Nat /\ scheduleIds' <= MaxSchedules
        /\ DOMAIN schedules' = ScheduleNumbers /\ DOMAIN changedBy' = ScheduleNumbers
        /\ \A m \in ScheduleNumbers : HeldSchedule(m)'
        /\ \A v \in ScheduleUsers :
              IsFiniteSet(OfUser(v)') /\ Cardinality(OfUser(v)') <= MaxTasksPerUser
    BY <1>0, <2>1, <2>2, ScheduleTouched
  <2>4. <<>> \in Seq(Nat) /\ DOMAIN <<>> = {}
    BY EmptySeq
  <2>5. /\ executions' \in [ScheduleNumbers -> Seq(Nat)] /\ executions'[n] = <<>>
        /\ \A m \in ScheduleNumbers \ {n} : executions'[m] = executions[m]
    BY <1>0, <2>1, <2>4 DEF SchedulesInv, SchedulesTypeOK
  <2>6. ASSUME NEW m \in ScheduleNumbers PROVE TrueHistory(m)'
    <3>1. CASE m = n
      BY <2>4, <2>5, <3>1 DEF TrueHistory
    <3>2. CASE m # n
      BY <2>1, <2>5, <3>2 DEF SchedulesInv, TrueHistory
    <3> QED
      BY <3>1, <3>2
  <2> QED
    BY <2>1, <2>3, <2>5, <2>6 DEF SchedulesInv, SchedulesTypeOK
<1>4. ASSUME NEW u \in ScheduleUsers, NEW n \in 1..scheduleIds, RunScheduleNow(u, n) PROVE SchedulesInv'
  <2>1. PICK row : row = schedules[n]
    OBVIOUS
  <2>2. /\ ScheduleSeen(n, ScheduleOrg[u]) /\ Touched(n, u) /\ schedules' = schedules
        /\ scheduleIds' = scheduleIds /\ startedRuns' = startedRuns /\ executions' = executions
    BY <1>4 DEF RunScheduleNow
  <2>3. /\ DOMAIN schedules' = ScheduleNumbers /\ schedules'[n] = row
        /\ \A m \in ScheduleNumbers \ {n} : schedules'[m] = schedules[m]
    BY <1>0, <2>1, <2>2 DEF SchedulesInv, SchedulesTypeOK
  <2>4. ValidateCron(row.cron)
    BY <1>0, <2>1, <2>2 DEF SchedulesInv, HeldSchedule, ScheduleSeen
  <2>5. /\ scheduleIds' \in Nat /\ scheduleIds' <= MaxSchedules
        /\ DOMAIN schedules' = ScheduleNumbers /\ DOMAIN changedBy' = ScheduleNumbers
        /\ \A m \in ScheduleNumbers : HeldSchedule(m)'
        /\ \A v \in ScheduleUsers :
              IsFiniteSet(OfUser(v)') /\ Cardinality(OfUser(v)') <= MaxTasksPerUser
    BY <1>0, <2>1, <2>2, <2>3, <2>4, ScheduleTouched
  <2>6. \A m \in ScheduleNumbers : TrueHistory(m)'
    BY <2>2 DEF SchedulesInv, TrueHistory
  <2> QED
    BY <2>2, <2>5, <2>6 DEF SchedulesInv, SchedulesTypeOK
<1>5. ASSUME NEW n \in 1..scheduleIds, StartsRun(n) PROVE SchedulesInv'
  <2>1. PICK row \in RunRow : row = [task |-> n, recorded |-> FALSE]
    BY <1>0 DEF RunRow
  <2>2. /\ startedRuns' = Append(startedRuns, row)
        /\ schedules' = schedules /\ scheduleIds' = scheduleIds /\ executions' = executions
        /\ changedBy' = changedBy
    BY <1>5, <2>1 DEF StartsRun
  <2>3. startedRuns \in Seq(RunRow) /\ Len(startedRuns) \in Nat
    BY LenProperties DEF SchedulesInv, SchedulesTypeOK
  <2>4. startedRuns' \in Seq(RunRow)
    BY <2>2, <2>3, AppendProperties
  <2>5. \A k \in DOMAIN startedRuns : k \in DOMAIN startedRuns' /\ startedRuns'[k] = startedRuns[k]
    BY <2>2, <2>3, AppendProperties, LenProperties
  <2>6. \A m \in ScheduleNumbers : TrueHistory(m)'
    BY <2>2, <2>5 DEF SchedulesInv, TrueHistory
  <2> QED
    BY <2>2, <2>4, <2>6, SchedulesStay DEF SchedulesInv, SchedulesTypeOK
<1>6. ASSUME NEW k \in DOMAIN startedRuns, RecordExecution(k) PROVE SchedulesInv'
  <2>1. PICK old \in RunRow : old = startedRuns[k]
    <3>1. startedRuns \in Seq(RunRow) /\ k \in 1..Len(startedRuns)
      BY LenProperties DEF SchedulesInv, SchedulesTypeOK
    <3> QED
      BY <3>1, ElementOfSeq
  <2>2. PICK n \in ScheduleNumbers : n = old.task
    BY DEF RunRow
  <2>3. PICK row : row = [old EXCEPT !.recorded = TRUE]
    OBVIOUS
  <2>4. row \in RunRow /\ row.recorded /\ row.task = n
    BY <2>2, <2>3 DEF RunRow
  <2>5. /\ ~old.recorded /\ startedRuns' = [startedRuns EXCEPT ![k] = row]
        /\ executions' = [executions EXCEPT ![n] = Append(executions[n], k)]
        /\ schedules' = schedules /\ scheduleIds' = scheduleIds /\ changedBy' = changedBy
    BY <1>6, <2>1, <2>2, <2>3 DEF RecordExecution, SchedulesInv, SchedulesTypeOK
  <2>6. PICK len \in Nat : len = Len(startedRuns)
    BY LenProperties DEF SchedulesInv, SchedulesTypeOK
  <2>7. startedRuns \in [1..len -> RunRow] /\ DOMAIN startedRuns = 1..len
    BY <2>6, LenProperties DEF SchedulesInv, SchedulesTypeOK
  <2>8. startedRuns' \in [1..len -> RunRow] /\ DOMAIN startedRuns' = 1..len
        /\ startedRuns'[k] = row /\ \A j \in DOMAIN startedRuns \ {k} : startedRuns'[j] = startedRuns[j]
    BY <2>4, <2>5, <2>7
  <2>9. startedRuns' \in Seq(RunRow)
    BY <2>8, SeqDef
  <2>10. PICK h \in Seq(Nat) : h = executions[n]
    BY DEF SchedulesInv, SchedulesTypeOK
  <2>11. PICK hl \in Nat : hl = Len(h)
    BY LenProperties
  <2>12. k \in Nat
    BY <2>7
  <2>13. PICK new \in Seq(Nat) : new = Append(h, k)
    BY <2>12, AppendProperties
  <2>14. /\ DOMAIN h = 1..hl /\ DOMAIN new = 1..(hl + 1) /\ new[hl + 1] = k
         /\ \A j \in 1..hl : new[j] = h[j]
    BY <2>10, <2>11, <2>12, <2>13, AppendProperties, LenProperties
  <2>15. /\ executions' \in [ScheduleNumbers -> Seq(Nat)] /\ executions'[n] = new
         /\ \A m \in ScheduleNumbers \ {n} : executions'[m] = executions[m]
    BY <2>5, <2>10, <2>13 DEF SchedulesInv, SchedulesTypeOK
  <2>16. ASSUME NEW m \in ScheduleNumbers, NEW j \in DOMAIN executions[m]
         PROVE  /\ executions[m][j] # k /\ executions[m][j] \in DOMAIN startedRuns'
                /\ startedRuns'[executions[m][j]].recorded
                /\ startedRuns'[executions[m][j]].task = m
    <3>1. /\ executions[m][j] \in DOMAIN startedRuns /\ startedRuns[executions[m][j]].recorded
          /\ startedRuns[executions[m][j]].task = m
      BY DEF SchedulesInv, TrueHistory
    <3>2. executions[m][j] # k
      BY <2>1, <2>5, <3>1
    <3> QED
      BY <2>7, <2>8, <3>1, <3>2
  <2>17. ASSUME NEW m \in ScheduleNumbers PROVE TrueHistory(m)'
    <3>1. CASE m = n
      <4>1. ASSUME NEW j \in 1..(hl + 1)
            PROVE  /\ new[j] \in DOMAIN startedRuns' /\ startedRuns'[new[j]].recorded
                   /\ startedRuns'[new[j]].task = n
        <5>1. CASE j = hl + 1
          BY <2>4, <2>7, <2>8, <2>14, <5>1
        <5>2. CASE j # hl + 1
          <6>1. j \in DOMAIN executions[n] /\ new[j] = executions[n][j]
            BY <2>10, <2>14, <5>2
          <6> QED
            BY <2>16, <6>1
        <5> QED
          BY <5>1, <5>2
      <4>2. ASSUME NEW i \in 1..(hl + 1), NEW j \in 1..(hl + 1), i # j PROVE new[i] # new[j]
        <5>1. \A l \in 1..(hl + 1) : l # hl + 1 => l \in DOMAIN executions[n] /\ new[l] = executions[n][l]
          BY <2>10, <2>14
        <5>2. TrueHistory(n)
          BY DEF SchedulesInv
        <5>3. CASE i = hl + 1
          BY <2>14, <2>16, <4>2, <5>1, <5>3
        <5>4. CASE j = hl + 1
          BY <2>14, <2>16, <4>2, <5>1, <5>4
        <5>5. CASE i # hl + 1 /\ j # hl + 1
          BY <4>2, <5>1, <5>2, <5>5 DEF TrueHistory
        <5> QED
          BY <5>3, <5>4, <5>5
      <4> QED
        BY <2>14, <2>15, <3>1, <4>1, <4>2 DEF TrueHistory
    <3>2. CASE m # n
      <4>1. executions'[m] = executions[m] /\ TrueHistory(m)
        BY <2>15, <3>2 DEF SchedulesInv
      <4> QED
        BY <2>16, <4>1 DEF TrueHistory
    <3> QED
      BY <3>1, <3>2
  <2> QED
    BY <2>5, <2>9, <2>15, <2>17, SchedulesStay DEF SchedulesInv, SchedulesTypeOK
<1>7. CASE UNCHANGED scheduleVars
  <2>1. /\ schedules' = schedules /\ scheduleIds' = scheduleIds /\ startedRuns' = startedRuns
        /\ executions' = executions /\ changedBy' = changedBy
    BY <1>7 DEF scheduleVars
  <2>2. \A m \in ScheduleNumbers : TrueHistory(m)'
    BY <2>1 DEF SchedulesInv, TrueHistory
  <2> QED
    BY <2>1, <2>2, SchedulesStay DEF SchedulesInv, SchedulesTypeOK
<1> QED
  BY <1>1, <1>2, <1>3, <1>4, <1>5, <1>6, <1>7 DEF SchedulesNext

LEMMA SchedulesInvHolds == SchedulesInv => SchedulesAreHeld
<1> SUFFICES ASSUME SchedulesInv PROVE SchedulesAreHeld
  OBVIOUS
<1>1. ASSUME NEW n \in 1..scheduleIds
      PROVE  /\ schedules[n].there =>
                    /\ ValidateCron(schedules[n].cron)
                    /\ changedBy[n] \subseteq {schedules[n].org}
             /\ Cardinality(changedBy[n]) <= 1
             /\ \A o \in ScheduleOrgs : \A j, k \in DOMAIN HistoryOf(n, o) :
                    /\ startedRuns[HistoryOf(n, o)[k]].task = n
                    /\ j # k => HistoryOf(n, o)[j] # HistoryOf(n, o)[k]
  <2>1. n \in ScheduleNumbers
    BY ScheduleAssumption DEF SchedulesInv, SchedulesTypeOK, ScheduleNumbers
  <2>2. HeldSchedule(n) /\ TrueHistory(n)
    BY <2>1 DEF SchedulesInv
  <2>3. PICK o : changedBy[n] \subseteq {o}
    BY <2>2 DEF HeldSchedule
  <2>4. Cardinality({o}) = 1 /\ IsFiniteSet({o})
    BY FS_Singleton
  <2>5. Cardinality(changedBy[n]) <= 1
    BY <2>3, <2>4, FS_Subset
  <2>6. DOMAIN <<>> = {}
    BY EmptySeq
  <2>7. ASSUME NEW p \in ScheduleOrgs, NEW j \in DOMAIN HistoryOf(n, p), NEW k \in DOMAIN HistoryOf(n, p)
        PROVE  /\ startedRuns[HistoryOf(n, p)[k]].task = n
               /\ j # k => HistoryOf(n, p)[j] # HistoryOf(n, p)[k]
    <3>1. HistoryOf(n, p) = executions[n]
      BY <2>6, <2>7 DEF HistoryOf
    <3> QED
      BY <2>2, <2>7, <3>1 DEF TrueHistory
  <2> QED
    BY <2>2, <2>5, <2>7 DEF HeldSchedule
<1> QED
  BY <1>1 DEF SchedulesInv, SchedulesAreHeld

\* However users of an organisation change each other's schedules while they run: a user has
\* at most the maximum, every schedule is one that was validated, only its organisation changed
\* it, and its history is of runs of it, each once.
THEOREM SchedulesAreAlwaysHeld == SchedulesSpec => []SchedulesAreHeld
<1>1. SchedulesInit => SchedulesInv
  BY SchedulesInitially
<1>2. SchedulesInv /\ [SchedulesNext]_scheduleVars => SchedulesInv'
  BY SchedulesStep
<1>3. SchedulesInv => SchedulesAreHeld
  BY SchedulesInvHolds
<1> QED
  BY <1>1, <1>2, <1>3, PTL DEF SchedulesSpec

-----------------------------------------------------------------------------
(* The tournament                                                           *)

RatingRow == [elo : Int, wins : Nat, losses : Nat, draws : Nat]
FightRow == [a : Fighters, b : Fighters, org : FightOrgs, winner : Fighters \cup {"draw"}]
Sides == Fighters \X FightOrgs

WonFights(f, o) == {n \in Fights(f, o) : fought[n].winner = f}
\* A rating counts the battles won, and each fight at most twice.
CountedRating(f, o) ==
    /\ ratings[<<f, o>>].wins = Cardinality(WonFights(f, o))
    /\ TotalBattles(ratings[<<f, o>>]) <= Cardinality(Fights(f, o)) * 2

TournamentInv ==
    /\ ratings \in [Sides -> RatingRow] /\ fought \in Seq(FightRow) /\ battles \in Seq(Nat)
    /\ \A o \in FightOrgs : Points(o) = 0
    /\ \A f \in Fighters, o \in FightOrgs : CountedRating(f, o)
    /\ Len(battles) <= Len(fought) /\ Len(battles) <= MaxBattles
    /\ \A k \in DOMAIN battles : battles[k] = Len(fought) - Len(battles) + k
    /\ promoted.challenger # "none" =>
          /\ promoted.challenger \in Fighters /\ promoted.org \in FightOrgs
          /\ Cardinality(Fights(promoted.challenger, promoted.org)) * 2 >= MinBattles

LEMMA TournamentInitially == TournamentInit => TournamentInv
<1> SUFFICES ASSUME TournamentInit PROVE TournamentInv
  OBVIOUS
<1> USE TournamentAssumption
<1>1. <<>> \in Seq(FightRow) /\ <<>> \in Seq(Nat) /\ DOMAIN <<>> = {} /\ Len(<<>>) = 0
  BY EmptySeq
<1>2. /\ NewRating \in RatingRow /\ NewRating.elo = 0 /\ NewRating.wins = 0
      /\ TotalBattles(NewRating) = 0
  BY DEF NewRating, RatingRow, TotalBattles
<1>3. ratings \in [Sides -> RatingRow] /\ \A s \in Sides : ratings[s] = NewRating
  BY <1>2 DEF TournamentInit, Sides
<1>4. ASSUME NEW o \in FightOrgs PROVE Points(o) = 0
  <2>1. \A f \in Fighters : ratings[<<f, o>>].elo = 0
    BY <1>2, <1>3 DEF Sides
  <2>2. [f \in Fighters |-> ratings[<<f, o>>].elo] = [f \in Fighters |-> 0]
    BY <2>1
  <2> QED
    BY <2>2, SumOfZeros DEF Points
<1>5. ASSUME NEW f \in Fighters, NEW o \in FightOrgs PROVE CountedRating(f, o)
  <2>1. Fights(f, o) = {} /\ WonFights(f, o) = {}
    BY <1>1 DEF TournamentInit, Fights, WonFights
  <2>2. Cardinality(Fights(f, o)) = 0 /\ Cardinality(WonFights(f, o)) = 0
    BY <2>1, FS_EmptySet
  <2>3. ratings[<<f, o>>] = NewRating
    BY <1>3 DEF Sides
  <2> QED
    BY <1>2, <2>2, <2>3 DEF CountedRating
<1>6. promoted.challenger = "none" /\ battles = <<>> /\ fought = <<>>
  BY DEF TournamentInit, NoPromotion
<1> QED
  BY <1>1, <1>3, <1>4, <1>5, <1>6 DEF TournamentInv

LEMMA FightsAreFinite ==
    ASSUME fought \in Seq(FightRow), NEW f, NEW o
    PROVE  /\ IsFiniteSet(Fights(f, o)) /\ Cardinality(Fights(f, o)) \in Nat
           /\ IsFiniteSet(WonFights(f, o)) /\ Cardinality(WonFights(f, o)) \in Nat
<1>1. PICK len \in Nat : len = Len(fought) /\ DOMAIN fought = 1..len
  BY LenProperties
<1>2. IsFiniteSet(1..len)
  BY FS_Interval
<1>3. Fights(f, o) \subseteq 1..len /\ WonFights(f, o) \subseteq Fights(f, o)
  BY <1>1 DEF Fights, WonFights
<1>4. IsFiniteSet(Fights(f, o)) /\ IsFiniteSet(WonFights(f, o))
  BY <1>2, <1>3, FS_Subset
<1> QED
  BY <1>4, FS_CardinalityType

\* How a battle moves one of its sides.
Moved(old, new, d, w) ==
    /\ new \in RatingRow /\ new.elo = old.elo + d /\ new.wins = old.wins + w
    /\ TotalBattles(new) = TotalBattles(old) + 1

LEMMA SidesMove ==
    ASSUME NEW r \in RatingRow, NEW d \in Int
    PROVE  /\ Moved(r, Won(r, d), d, 1) /\ Moved(r, Lost(r, d), 0 - d, 0)
           /\ Moved(r, Drawn(r, d), d, 0)
<1>1. PICK x, w, l, y : /\ x \in Int /\ w \in Nat /\ l \in Nat /\ y \in Nat
                        /\ r = [elo |-> x, wins |-> w, losses |-> l, draws |-> y]
  BY DEF RatingRow
<1>2. PICK up : up = [r EXCEPT !.elo = x + d]
  OBVIOUS
<1>3. PICK down : down = [r EXCEPT !.elo = x - d]
  OBVIOUS
<1>4. /\ up = [elo |-> x + d, wins |-> w, losses |-> l, draws |-> y]
      /\ down = [elo |-> x - d, wins |-> w, losses |-> l, draws |-> y]
  BY <1>1, <1>2, <1>3
<1>5. /\ Won(r, d) = [up EXCEPT !.wins = w + 1] /\ Lost(r, d) = [down EXCEPT !.losses = l + 1]
      /\ Drawn(r, d) = [up EXCEPT !.draws = y + 1]
  BY <1>1, <1>2, <1>3 DEF Won, Lost, Drawn
<1>6. /\ Won(r, d) = [elo |-> x + d, wins |-> w + 1, losses |-> l, draws |-> y]
      /\ Lost(r, d) = [elo |-> x - d, wins |-> w, losses |-> l + 1, draws |-> y]
      /\ Drawn(r, d) = [elo |-> x + d, wins |-> w, losses |-> l, draws |-> y + 1]
  BY <1>4, <1>5
<1>7. x + d \in Int /\ x - d \in Int /\ w + 1 \in Nat /\ l + 1 \in Nat /\ y + 1 \in Nat
  BY <1>1
<1>8. Moved(r, Won(r, d), d, 1)
  <2>1. Won(r, d) \in RatingRow
    BY <1>1, <1>6, <1>7 DEF RatingRow
  <2> QED
    BY <1>1, <1>6, <2>1 DEF Moved, TotalBattles
<1>9. Moved(r, Lost(r, d), 0 - d, 0)
  <2>1. Lost(r, d) \in RatingRow
    BY <1>1, <1>6, <1>7 DEF RatingRow
  <2> QED
    BY <1>1, <1>6, <2>1 DEF Moved, TotalBattles
<1>10. Moved(r, Drawn(r, d), d, 0)
  <2>1. Drawn(r, d) \in RatingRow
    BY <1>1, <1>6, <1>7 DEF RatingRow
  <2> QED
    BY <1>1, <1>6, <2>1 DEF Moved, TotalBattles
<1> QED
  BY <1>8, <1>9, <1>10

PointsIn(g, o) == SumFunction([f \in Fighters |-> g[<<f, o>>].elo])
IsSide(s, f, o) == s \in Sides /\ s = <<f, o>>
OnlyAt(h, g, s, row) == h = [g EXCEPT ![s] = row]
PointsMoved(h, g, o, d) ==
    /\ h \in [Sides -> RatingRow] /\ PointsIn(h, o) = PointsIn(g, o) + d
    /\ \A p \in FightOrgs \ {o} : PointsIn(h, p) = PointsIn(g, p)
    /\ \A p \in FightOrgs : PointsIn(g, p) \in Int

\* One side moves: of its organisation's points by as much, of the others' not at all.
LEMMA PointsMove ==
    ASSUME NEW g \in [Sides -> RatingRow], NEW f \in Fighters, NEW o \in FightOrgs, NEW row,
           NEW d \in Int, NEW w, NEW s, IsSide(s, f, o), Moved(g[s], row, d, w),
           NEW h, OnlyAt(h, g, s, row)
    PROVE  PointsMoved(h, g, o, d)
<1> USE TournamentAssumption DEF IsSide, OnlyAt
<1>3. h \in [Sides -> RatingRow] /\ h[s] = row /\ \A t \in Sides \ {s} : h[t] = g[t]
  BY DEF Moved
<1>4. \A t \in Sides : g[t].elo \in Int /\ h[t].elo \in Int
  BY <1>3 DEF RatingRow
<1>5. \A x \in Fighters, p \in FightOrgs : /\ <<x, p>> \in Sides
                                          /\ (<<x, p>> = s <=> x = f /\ p = o)
  BY DEF Sides
<1>6. PointsIn(h, o) = PointsIn(g, o) + d
  <2>1. PICK u : u = [x \in Fighters |-> g[<<x, o>>].elo]
    OBVIOUS
  <2>2. PICK v : v = [x \in Fighters |-> h[<<x, o>>].elo]
    OBVIOUS
  <2>3. u \in [Fighters -> Int] /\ v \in [Fighters -> Int]
    BY <1>4, <1>5, <2>1, <2>2
  <2>4. v[f] = u[f] + d /\ \A x \in Fighters \ {f} : v[x] = u[x]
    BY <1>3, <1>5, <2>1, <2>2 DEF Moved
  <2>5. AddedAt(v, u, Fighters, f, d)
    BY <2>4 DEF AddedAt
  <2>6. SumFunction(v) = SumFunction(u) + d
    BY <2>3, <2>5, SumGrows
  <2> QED
    BY <2>1, <2>2, <2>6 DEF PointsIn
<1>7. ASSUME NEW p \in FightOrgs, p # o PROVE PointsIn(h, p) = PointsIn(g, p)
  <2>1. \A x \in Fighters : h[<<x, p>>] = g[<<x, p>>]
    BY <1>3, <1>5, <1>7
  <2>2. [x \in Fighters |-> h[<<x, p>>].elo] = [x \in Fighters |-> g[<<x, p>>].elo]
    BY <2>1
  <2> QED
    BY <2>2 DEF PointsIn
<1>8. ASSUME NEW p \in FightOrgs PROVE PointsIn(g, p) \in Int
  <2>1. [x \in Fighters |-> g[<<x, p>>].elo] \in [Fighters -> Int]
    BY <1>4, <1>5
  <2> QED
    BY <2>1, SumIsNumber DEF PointsIn
<1> QED
  BY <1>3, <1>6, <1>7, <1>8 DEF PointsMoved

\* The fights of an agent grow by the battle it fought.
LEMMA FightAppended ==
    ASSUME fought \in Seq(FightRow), NEW row \in FightRow, fought' = Append(fought, row)
    PROVE  /\ fought' \in Seq(FightRow) /\ Len(fought') = Len(fought) + 1
           /\ \A f, o :
                /\ Cardinality(Fights(f, o)') = Cardinality(Fights(f, o))
                      + (IF o = row.org /\ f \in {row.a, row.b} THEN 1 ELSE 0)
                /\ Cardinality(WonFights(f, o)') = Cardinality(WonFights(f, o))
                      + (IF o = row.org /\ f \in {row.a, row.b} /\ row.winner = f THEN 1 ELSE 0)
<1>1. PICK len \in Nat : len = Len(fought)
  BY LenProperties
<1>2. /\ fought' \in Seq(FightRow) /\ Len(fought') = len + 1
      /\ DOMAIN fought = 1..len /\ DOMAIN fought' = 1..(len + 1)
      /\ fought'[len + 1] = row /\ \A k \in 1..len : fought'[k] = fought[k]
  BY <1>1, AppendProperties, LenProperties
<1>3. PICK n : n = len + 1
  OBVIOUS
<1>4. /\ n \in DOMAIN fought' /\ n \notin DOMAIN fought /\ fought'[n] = row
      /\ \A k \in DOMAIN fought' : k \in DOMAIN fought \/ k = n
      /\ \A k \in DOMAIN fought : k \in DOMAIN fought' /\ fought'[k] = fought[k]
  BY <1>2, <1>3
<1>5. ASSUME NEW f, NEW o
      PROVE  /\ Cardinality(Fights(f, o)') = Cardinality(Fights(f, o))
                   + (IF o = row.org /\ f \in {row.a, row.b} THEN 1 ELSE 0)
             /\ Cardinality(WonFights(f, o)') = Cardinality(WonFights(f, o))
                   + (IF o = row.org /\ f \in {row.a, row.b} /\ row.winner = f THEN 1 ELSE 0)
  <2>1. PICK F, W : F = Fights(f, o) /\ W = WonFights(f, o)
    OBVIOUS
  <2>2. PICK F2, W2 : F2 = Fights(f, o)' /\ W2 = WonFights(f, o)'
    OBVIOUS
  <2>3. IsFiniteSet(F) /\ Cardinality(F) \in Nat /\ IsFiniteSet(W) /\ Cardinality(W) \in Nat
    BY <2>1, FightsAreFinite
  <2>4. n \notin F /\ n \notin W
    BY <1>4, <2>1 DEF Fights, WonFights
  <2>5. F2 = IF o = row.org /\ f \in {row.a, row.b} THEN F \cup {n} ELSE F
    BY <1>4, <2>1, <2>2 DEF Fights
  <2>6. W2 = IF o = row.org /\ f \in {row.a, row.b} /\ row.winner = f THEN W \cup {n} ELSE W
    BY <1>4, <2>1, <2>2 DEF Fights, WonFights
  <2>7. Cardinality(F \cup {n}) = Cardinality(F) + 1 /\ Cardinality(W \cup {n}) = Cardinality(W) + 1
    BY <2>3, <2>4, FS_AddElement
  <2>8. Cardinality(F2) = Cardinality(F) + (IF o = row.org /\ f \in {row.a, row.b} THEN 1 ELSE 0)
    BY <2>3, <2>5, <2>7
  <2>9. Cardinality(W2) = Cardinality(W)
           + (IF o = row.org /\ f \in {row.a, row.b} /\ row.winner = f THEN 1 ELSE 0)
    BY <2>3, <2>6, <2>7
  <2> QED
    BY <2>1, <2>2, <2>8, <2>9
<1> QED
  BY <1>1, <1>2, <1>5

\* A battle moves its first side, then its second, by the opposite.
LEMMA BattleMoves ==
    ASSUME TournamentInv, NEW a \in Fighters, NEW b \in Fighters, NEW o \in FightOrgs,
           NEW winner \in {a, b, "draw"}, NEW d \in Int, RecordBattle(a, b, o, winner, d),
           NEW wa, wa = (IF winner = a THEN 1 ELSE 0),
           NEW wb, wb = (IF winner = b /\ b # a THEN 1 ELSE 0),
           NEW s, IsSide(s, a, o), NEW t, IsSide(t, b, o)
    PROVE  \E ra, mid, rb : \E d1 \in Int :
              /\ Moved(ratings[s], ra, d1, wa) /\ OnlyAt(mid, ratings, s, ra)
              /\ Moved(mid[t], rb, 0 - d1, wb) /\ OnlyAt(ratings', mid, t, rb)
<1> USE TournamentAssumption DEF IsSide, OnlyAt
<1>1. PICK ra : ra = CASE winner = "draw" -> Drawn(ratings[s], d)
                       [] winner = a -> Won(ratings[s], d) [] OTHER -> Lost(ratings[s], d)
  OBVIOUS
<1>2. PICK mid : mid = [ratings EXCEPT ![s] = ra]
  OBVIOUS
<1>3. PICK rb : rb = CASE winner = "draw" -> Drawn(mid[t], -d)
                       [] winner = a -> Lost(mid[t], d) [] OTHER -> Won(mid[t], d)
  OBVIOUS
<1>4. ratings' = [mid EXCEPT ![t] = rb]
  BY <1>1, <1>2, <1>3 DEF RecordBattle
<1>5. ratings \in [Sides -> RatingRow] /\ ratings[s] \in RatingRow
  BY DEF TournamentInv
<1>6. ASSUME ra \in RatingRow PROVE mid[t] \in RatingRow
  BY <1>2, <1>5, <1>6
<1>7. -d \in Int /\ 0 - d \in Int /\ 0 - (0 - d) = d /\ 0 - d = -d
  OBVIOUS
<1>8. CASE winner = "draw"
  <2>1. winner # a /\ winner # b /\ wa = 0 /\ wb = 0
    BY <1>8
  <2>2. ra = Drawn(ratings[s], d) /\ rb = Drawn(mid[t], 0 - d)
    BY <1>1, <1>3, <1>7, <1>8, <2>1
  <2>3. Moved(ratings[s], ra, d, wa)
    BY <1>5, <2>1, <2>2, SidesMove
  <2>4. mid[t] \in RatingRow
    BY <1>6, <2>3 DEF Moved
  <2>5. Moved(mid[t], rb, 0 - d, wb)
    BY <1>7, <2>1, <2>2, <2>4, SidesMove
  <2> QED
    BY <1>2, <1>4, <2>3, <2>5
<1>9. CASE winner = a
  <2>1. winner # "draw" /\ wa = 1 /\ wb = 0
    BY <1>9
  <2>2. ra = Won(ratings[s], d) /\ rb = Lost(mid[t], d)
    BY <1>1, <1>3, <1>9, <2>1
  <2>3. Moved(ratings[s], ra, d, wa)
    BY <1>5, <2>1, <2>2, SidesMove
  <2>4. mid[t] \in RatingRow
    BY <1>6, <2>3 DEF Moved
  <2>5. Moved(mid[t], rb, 0 - d, wb)
    BY <2>1, <2>2, <2>4, SidesMove
  <2> QED
    BY <1>2, <1>4, <2>3, <2>5
<1>10. CASE winner # a /\ winner # "draw"
  <2>1. winner = b /\ b # a /\ wa = 0 /\ wb = 1
    BY <1>10
  <2>2. ra = Lost(ratings[s], d) /\ rb = Won(mid[t], d)
    BY <1>1, <1>3, <1>10
  <2>3. Moved(ratings[s], ra, 0 - d, wa)
    BY <1>5, <2>1, <2>2, SidesMove
  <2>4. mid[t] \in RatingRow
    BY <1>6, <2>3 DEF Moved
  <2>5. Moved(mid[t], rb, 0 - (0 - d), wb)
    BY <1>7, <2>1, <2>2, <2>4, SidesMove
  <2> QED
    BY <1>2, <1>4, <1>7, <2>3, <2>5
<1> QED
  BY <1>8, <1>9, <1>10

\* The records kept end with the battle.
LEMMA RecordsKept ==
    ASSUME TournamentInv, NEW n \in Nat, n = Len(fought) + 1,
           battles' = Append(IF Len(battles) >= MaxBattles THEN Tail(battles) ELSE battles, n)
    PROVE  /\ battles' \in Seq(Nat) /\ Len(battles') <= n /\ Len(battles') <= MaxBattles
           /\ \A k \in DOMAIN battles' : battles'[k] = n - Len(battles') + k
<1> USE TournamentAssumption
<1>1. PICK old \in Seq(Nat) : old = battles
  BY DEF TournamentInv
<1>2. PICK len \in Nat : len = Len(old) /\ DOMAIN old = 1..len
  BY LenProperties
<1>3. Len(fought) \in Nat /\ n - 1 = Len(fought)
  BY LenProperties DEF TournamentInv
<1>4. len <= n - 1 /\ len <= MaxBattles /\ \A k \in 1..len : old[k] = n - 1 - len + k
  BY <1>1, <1>2, <1>3 DEF TournamentInv
<1>5. PICK kept \in Seq(Nat), kl \in Nat :
           /\ battles' = Append(kept, n) /\ kl = Len(kept) /\ DOMAIN kept = 1..kl
           /\ kl < MaxBattles /\ kl < n /\ \A k \in 1..kl : kept[k] = n - 1 - kl + k
  <2>1. CASE len >= MaxBattles
    <3>1. old # <<>>
      BY <1>2, <2>1, EmptySeq
    <3>2. PICK kept \in Seq(Nat) : kept = Tail(old)
      BY <3>1, HeadTailProperties
    <3>3. Len(kept) = len - 1 /\ \A k \in 1..Len(kept) : kept[k] = old[k + 1]
      BY <1>2, <3>1, <3>2, HeadTailProperties
    <3>4. PICK kl \in Nat : kl = len - 1
      BY <2>1
    <3>5. DOMAIN kept = 1..kl /\ kl = Len(kept)
      BY <3>3, <3>4, LenProperties
    <3>6. kl < MaxBattles /\ kl < n
      BY <1>4, <3>4
    <3>7. \A k \in 1..kl : kept[k] = n - 1 - kl + k
      <4> TAKE k \in 1..kl
      <4>1. k + 1 \in 1..len /\ kept[k] = old[k + 1]
        BY <3>3, <3>4
      <4>2. old[k + 1] = n - 1 - len + (k + 1)
        BY <1>4, <4>1
      <4> QED
        BY <3>4, <4>1, <4>2
    <3>8. battles' = Append(kept, n)
      BY <1>1, <1>2, <2>1, <3>2
    <3> QED
      BY <3>5, <3>6, <3>7, <3>8
  <2>2. CASE ~(len >= MaxBattles)
    <3>1. battles' = Append(old, n)
      BY <1>1, <1>2, <2>2
    <3>2. len < MaxBattles /\ len < n
      BY <1>4, <2>2
    <3> QED
      BY <1>2, <1>4, <3>1, <3>2
  <2> QED
    BY <2>1, <2>2
<1>6. /\ battles' \in Seq(Nat) /\ Len(battles') = kl + 1 /\ DOMAIN battles' = 1..(kl + 1)
      /\ battles'[kl + 1] = n /\ \A k \in 1..kl : battles'[k] = kept[k]
  <2>1. PICK new : new = Append(kept, n)
    OBVIOUS
  <2>2. /\ new \in Seq(Nat) /\ Len(new) = kl + 1 /\ new[kl + 1] = n
        /\ \A k \in 1..kl : new[k] = kept[k]
    BY <1>5, <2>1, AppendProperties
  <2>3. DOMAIN new = 1..(kl + 1)
    BY <2>2, LenProperties
  <2> QED
    BY <1>5, <2>1, <2>2, <2>3
<1>7. ASSUME NEW k \in 1..(kl + 1) PROVE battles'[k] = n - (kl + 1) + k
  <2>1. CASE k = kl + 1
    BY <1>6, <2>1
  <2>2. CASE k # kl + 1
    <3>1. k \in 1..kl
      BY <2>2
    <3>2. battles'[k] = n - 1 - kl + k
      BY <1>5, <1>6, <3>1
    <3>3. n - 1 - kl + k = n - (kl + 1) + k
      BY <3>1
    <3> QED
      BY <3>2, <3>3
  <2> QED
    BY <2>1, <2>2
<1>8. kl + 1 <= n /\ kl + 1 <= MaxBattles
  BY <1>5
<1> QED
  BY <1>6, <1>7, <1>8

LEMMA BattleStep ==
    ASSUME TournamentInv, NEW a \in Fighters, NEW b \in Fighters, NEW o \in FightOrgs,
           NEW winner \in {a, b, "draw"}, NEW d \in Int, RecordBattle(a, b, o, winner, d)
    PROVE  TournamentInv'
<1> USE TournamentAssumption
<1>1. PICK row \in FightRow : row = [a |-> a, b |-> b, org |-> o, winner |-> winner]
  BY DEF FightRow
<1>2. row.a = a /\ row.b = b /\ row.org = o /\ row.winner = winner
  BY <1>1
<1>3. fought' = Append(fought, row) /\ promoted' = promoted
  BY <1>1 DEF RecordBattle
<1>4. /\ fought' \in Seq(FightRow) /\ Len(fought') = Len(fought) + 1
      /\ \A f, p :
           /\ Cardinality(Fights(f, p)') = Cardinality(Fights(f, p))
                 + (IF p = o /\ f \in {a, b} THEN 1 ELSE 0)
           /\ Cardinality(WonFights(f, p)') = Cardinality(WonFights(f, p))
                 + (IF p = o /\ f \in {a, b} /\ winner = f THEN 1 ELSE 0)
  BY <1>2, <1>3, FightAppended DEF TournamentInv
<1>5. PICK n \in Nat : n = Len(fought) + 1
  BY LenProperties DEF TournamentInv
<1>6. /\ battles' \in Seq(Nat) /\ Len(battles') <= n /\ Len(battles') <= MaxBattles
      /\ \A k \in DOMAIN battles' : battles'[k] = n - Len(battles') + k
  <2>1. battles' = Append(IF Len(battles) >= MaxBattles THEN Tail(battles) ELSE battles, n)
    BY <1>4, <1>5 DEF RecordBattle
  <2> QED
    BY <1>5, <2>1, RecordsKept
<1>14. PICK s \in Sides, t \in Sides : s = <<a, o>> /\ t = <<b, o>>
  BY DEF Sides
<1>20. IsSide(s, a, o) /\ IsSide(t, b, o)
  BY <1>14 DEF IsSide
<1>7. PICK wa, wb : /\ wa = (IF winner = a THEN 1 ELSE 0)
                    /\ wb = (IF winner = b /\ b # a THEN 1 ELSE 0)
  OBVIOUS
<1>17. PICK ra, mid, rb : \E x \in Int :
              /\ Moved(ratings[s], ra, x, wa) /\ OnlyAt(mid, ratings, s, ra)
              /\ Moved(mid[t], rb, 0 - x, wb) /\ OnlyAt(ratings', mid, t, rb)
  BY <1>7, <1>20, BattleMoves
<1>18. PICK d1 \in Int :
              /\ Moved(ratings[s], ra, d1, wa) /\ OnlyAt(mid, ratings, s, ra)
              /\ Moved(mid[t], rb, 0 - d1, wb) /\ OnlyAt(ratings', mid, t, rb)
  BY <1>17
<1>11. PICK d2 \in Int : d2 = 0 - d1
  OBVIOUS
<1>8. /\ Moved(ratings[s], ra, d1, wa) /\ OnlyAt(mid, ratings, s, ra)
      /\ Moved(mid[t], rb, d2, wb) /\ OnlyAt(ratings', mid, t, rb)
  BY <1>11, <1>18
<1>9. ratings \in [Sides -> RatingRow]
  BY DEF TournamentInv
<1>10. /\ mid \in [Sides -> RatingRow] /\ PointsIn(mid, o) = PointsIn(ratings, o) + d1
       /\ \A p \in FightOrgs \ {o} : PointsIn(mid, p) = PointsIn(ratings, p)
       /\ \A p \in FightOrgs : PointsIn(ratings, p) \in Int
  <2>1. PointsMoved(mid, ratings, o, d1)
    BY <1>8, <1>9, <1>20, PointsMove
  <2> QED
    BY <2>1 DEF PointsMoved
<1>19. PICK after : after = ratings'
  OBVIOUS
<1>12. /\ ratings' \in [Sides -> RatingRow] /\ PointsIn(ratings', o) = PointsIn(mid, o) + d2
       /\ \A p \in FightOrgs \ {o} : PointsIn(ratings', p) = PointsIn(mid, p)
  <2>2. OnlyAt(after, mid, t, rb)
    BY <1>8, <1>19
  <2>1. /\ after \in [Sides -> RatingRow] /\ PointsIn(after, o) = PointsIn(mid, o) + d2
        /\ \A p \in FightOrgs \ {o} : PointsIn(after, p) = PointsIn(mid, p)
    <3>1. mid \in [Sides -> RatingRow] /\ IsSide(t, b, o) /\ d2 \in Int
      BY <1>10, <1>20
    <3>2. Moved(mid[t], rb, d2, wb)
      BY <1>8
    <3>3. PointsMoved(after, mid, o, d2)
      BY <2>2, <3>1, <3>2, PointsMove
    <3> QED
      BY <3>3 DEF PointsMoved
  <2> QED
    BY <1>19, <2>1
<1>13. ASSUME NEW p \in FightOrgs PROVE Points(p)' = 0
  <2>1. Points(p) = 0 /\ Points(p) = PointsIn(ratings, p) /\ Points(p)' = PointsIn(ratings', p)
    BY DEF TournamentInv, Points, PointsIn
  <2>2. CASE p = o
    <3>1. PICK x \in Int : x = PointsIn(ratings, o)
      BY <1>10
    <3>2. x = 0 /\ PointsIn(mid, o) = x + d1 /\ PointsIn(ratings', o) = x + d1 + d2
      BY <1>10, <1>12, <2>1, <2>2, <3>1
    <3> QED
      BY <1>11, <2>1, <2>2, <3>2
  <2>3. CASE p # o
    BY <1>10, <1>12, <2>1, <2>3
  <2> QED
    BY <2>2, <2>3
<1>15. ASSUME NEW f \in Fighters, NEW p \in FightOrgs PROVE CountedRating(f, p)'
  <2>1. PICK u \in Sides : u = <<f, p>>
    BY DEF Sides
  <2>2. /\ (u = s <=> f = a /\ p = o) /\ (u = t <=> f = b /\ p = o) /\ (s = t <=> a = b)
    BY <1>14, <2>1
  <2>3. PICK c, w : c = Cardinality(Fights(f, p)) /\ w = Cardinality(WonFights(f, p))
    OBVIOUS
  <2>4. c \in Nat /\ w \in Nat
    BY <2>3, FightsAreFinite DEF TournamentInv
  <2>5. PICK r, r1, r2 : r = ratings[u] /\ r1 = mid[u] /\ r2 = ratings'[u]
    OBVIOUS
  <2>6. r \in RatingRow /\ r1 \in RatingRow /\ r2 \in RatingRow
    BY <1>9, <1>10, <1>12, <2>5
  <2>7. \A x \in RatingRow : x.wins \in Nat /\ TotalBattles(x) \in Nat
    BY DEF RatingRow, TotalBattles
  <2>8. r.wins = w /\ TotalBattles(r) <= c * 2
    BY <2>1, <2>3, <2>5 DEF TournamentInv, CountedRating
  <2>9. /\ r1.wins = r.wins + (IF u = s /\ winner = a THEN 1 ELSE 0)
        /\ TotalBattles(r1) = TotalBattles(r) + (IF u = s THEN 1 ELSE 0)
    <3>1. CASE u = s
      <4>1. r1 = ra
        BY <1>8, <1>9, <1>14, <2>5, <3>1 DEF OnlyAt
      <4> QED
        BY <1>7, <1>8, <2>5, <3>1, <4>1 DEF Moved
    <3>2. CASE u # s
      <4>1. r1 = r
        BY <1>8, <1>9, <1>14, <2>5, <3>2 DEF OnlyAt
      <4> QED
        BY <2>6, <2>7, <3>2, <4>1
    <3> QED
      BY <3>1, <3>2
  <2>10. /\ r2.wins = r1.wins + (IF u = t /\ winner = b /\ b # a THEN 1 ELSE 0)
         /\ TotalBattles(r2) = TotalBattles(r1) + (IF u = t THEN 1 ELSE 0)
    <3>1. CASE u = t
      <4>1. r2 = rb
        BY <1>8, <1>10, <1>14, <2>5, <3>1 DEF OnlyAt
      <4> QED
        BY <1>7, <1>8, <2>5, <3>1, <4>1 DEF Moved
    <3>2. CASE u # t
      <4>1. r2 = r1
        BY <1>8, <1>10, <1>14, <2>5, <3>2 DEF OnlyAt
      <4> QED
        BY <2>6, <2>7, <3>2, <4>1
    <3> QED
      BY <3>1, <3>2
  <2>11. /\ Cardinality(Fights(f, p)') = c + (IF u = s \/ u = t THEN 1 ELSE 0)
         /\ Cardinality(WonFights(f, p)') = w + (IF (u = s \/ u = t) /\ winner = f THEN 1 ELSE 0)
    BY <1>4, <2>2, <2>3
  <2>12. r2.wins = Cardinality(WonFights(f, p)')
    <3>1. PICK x, y : /\ x = (IF u = s /\ winner = a THEN 1 ELSE 0)
                      /\ y = (IF u = t /\ winner = b /\ b # a THEN 1 ELSE 0)
      OBVIOUS
    <3>2. x \in Nat /\ y \in Nat
      BY <3>1
    <3>3. x + y = (IF (u = s \/ u = t) /\ winner = f THEN 1 ELSE 0)
      BY <2>2, <3>1
    <3>4. r2.wins = w + (x + y)
      BY <2>4, <2>8, <2>9, <2>10, <3>1, <3>2
    <3> QED
      BY <2>11, <3>3, <3>4
  <2>13. TotalBattles(r2) <= Cardinality(Fights(f, p)') * 2
    <3>1. TotalBattles(r) \in Nat
      BY <2>6, <2>7
    <3> QED
      BY <2>4, <2>8, <2>9, <2>10, <2>11, <3>1
  <2> QED
    BY <2>1, <2>5, <2>12, <2>13 DEF CountedRating
<1>16. ASSUME promoted.challenger # "none"
       PROVE  Cardinality(Fights(promoted.challenger, promoted.org)') * 2 >= MinBattles
  <2>1. PICK f, p : f = promoted.challenger /\ p = promoted.org
    OBVIOUS
  <2>2. PICK c : c = Cardinality(Fights(f, p))
    OBVIOUS
  <2>3. c \in Nat /\ c * 2 >= MinBattles
    BY <1>16, <2>1, <2>2, FightsAreFinite DEF TournamentInv
  <2>4. PICK e \in Nat : Cardinality(Fights(f, p)') = c + e
    BY <1>4, <2>2
  <2>5. Fights(promoted.challenger, promoted.org)' = Fights(f, p)'
    BY <1>3, <2>1 DEF Fights
  <2>6. c + e >= MinBattles \/ (c + e) * 2 >= MinBattles
    BY <2>3
  <2>7. (c + e) * 2 >= MinBattles
    BY <2>3, <2>6
  <2> QED
    BY <2>4, <2>5, <2>7
<1> QED
  BY <1>3, <1>4, <1>5, <1>6, <1>12, <1>13, <1>15, <1>16 DEF TournamentInv

LEMMA TournamentStep == TournamentInv /\ [TournamentNext]_tournamentVars => TournamentInv'
<1> SUFFICES ASSUME TournamentInv, [TournamentNext]_tournamentVars PROVE TournamentInv'
  OBVIOUS
<1> USE TournamentAssumption
<1>1. MaxSwing \div 2 \in Int
  OBVIOUS
<1>2. ASSUME NEW x, NEW y PROVE WinSwings(x, y) \subseteq Int /\ DrawSwings(x, y) \subseteq Int
  <2>1. PICK h \in Int : h = MaxSwing \div 2
    BY <1>1
  <2>2. WinSwings(x, y) \subseteq Int
    BY <2>1 DEF WinSwings
  <2>3. {-n : n \in 0..(h - 1)} \subseteq Int
    OBVIOUS
  <2>4. DrawSwings(x, y) \subseteq Int
    BY <2>1, <2>3 DEF DrawSwings
  <2> QED
    BY <2>2, <2>4
<1>3. ASSUME NEW o \in FightOrgs, NEW a \in Fighters, NEW b \in Fighters, Battle(a, b, o)
      PROVE  TournamentInv'
  <2>1. PICK winner \in {a, b, "draw"}, d \in Int : RecordBattle(a, b, o, winner, d)
    BY <1>2, <1>3 DEF Battle
  <2> QED
    BY <2>1, BattleStep
<1>4. ASSUME NEW o \in FightOrgs, NEW inc \in Fighters, CheckPromotions(inc, o) PROVE TournamentInv'
  <2>1. PICK f \in Challengers(inc, o) \cup {"none"} : promoted' = [org |-> o, challenger |-> f]
    BY <1>4 DEF CheckPromotions
  <2>2. ratings' = ratings /\ battles' = battles /\ fought' = fought
    BY <1>4 DEF CheckPromotions
  <2>3. promoted'.org = o /\ promoted'.challenger = f
    BY <2>1
  <2>4. ASSUME f # "none"
        PROVE  f \in Fighters /\ Cardinality(Fights(f, o)') * 2 >= MinBattles
    <3>1. f \in Fighters /\ TotalBattles(ratings[<<f, o>>]) >= MinBattles
      BY <2>1, <2>4 DEF Challengers
    <3>2. Fights(f, o)' = Fights(f, o)
      BY <2>2 DEF Fights
    <3>3. PICK c : c = Cardinality(Fights(f, o))
      OBVIOUS
    <3>4. c \in Nat
      BY <3>3, FightsAreFinite DEF TournamentInv
    <3>5. TotalBattles(ratings[<<f, o>>]) <= c * 2
      BY <3>1, <3>3 DEF TournamentInv, CountedRating
    <3>6. ratings[<<f, o>>] \in RatingRow
      BY <3>1 DEF TournamentInv, Sides
    <3>7. TotalBattles(ratings[<<f, o>>]) \in Nat
      BY <3>6 DEF RatingRow, TotalBattles
    <3>8. c * 2 >= MinBattles
      BY <3>1, <3>4, <3>5, <3>7
    <3> QED
      BY <3>1, <3>2, <3>3, <3>8
  <2>5. \A p \in FightOrgs : Points(p)' = 0
    BY <2>2 DEF TournamentInv, Points
  <2>6. \A g \in Fighters, p \in FightOrgs : CountedRating(g, p)'
    <3>1. \A g, p : Fights(g, p)' = Fights(g, p) /\ WonFights(g, p)' = WonFights(g, p)
      BY <2>2 DEF Fights, WonFights
    <3> QED
      BY <2>2, <3>1 DEF TournamentInv, CountedRating
  <2>7. promoted'.challenger # "none" =>
          /\ promoted'.challenger \in Fighters /\ promoted'.org \in FightOrgs
          /\ Cardinality(Fights(promoted.challenger, promoted.org)') * 2 >= MinBattles
    BY <2>3, <2>4 DEF Fights
  <2> QED
    BY <2>2, <2>5, <2>6, <2>7 DEF TournamentInv
<1>5. CASE UNCHANGED tournamentVars
  <2>1. ratings' = ratings /\ battles' = battles /\ fought' = fought /\ promoted' = promoted
    BY <1>5 DEF tournamentVars
  <2>2. \A p \in FightOrgs : Points(p)' = 0
    BY <2>1 DEF TournamentInv, Points
  <2>3. \A g \in Fighters, p \in FightOrgs : CountedRating(g, p)'
    <3>1. \A g, p : Fights(g, p)' = Fights(g, p) /\ WonFights(g, p)' = WonFights(g, p)
      BY <2>1 DEF Fights, WonFights
    <3> QED
      BY <2>1, <3>1 DEF TournamentInv, CountedRating
  <2>4. \A f, p : Fights(f, p)' = Fights(f, p)
    BY <2>1 DEF Fights
  <2> QED
    BY <2>1, <2>2, <2>3, <2>4 DEF TournamentInv, Fights
<1> QED
  BY <1>3, <1>4, <1>5 DEF TournamentNext

LEMMA TournamentInvHolds == TournamentInv => StandingsAddUp
<1> SUFFICES ASSUME TournamentInv PROVE StandingsAddUp
  OBVIOUS
<1>1. \A f \in Fighters, o \in FightOrgs :
         ratings[<<f, o>>].wins = Cardinality({n \in Fights(f, o) : fought[n].winner = f})
  BY DEF TournamentInv, CountedRating, WonFights
<1> QED
  BY <1>1 DEF TournamentInv, StandingsAddUp

\* Over any battles, an agent against itself included: an organisation's points only change
\* hands, a rating counts the battles its agent won in that organisation, the records kept are
\* the last ones, and whoever is promoted has fought enough.
THEOREM StandingsAlwaysAddUp == TournamentSpec => []StandingsAddUp
<1>1. TournamentInit => TournamentInv
  BY TournamentInitially
<1>2. TournamentInv /\ [TournamentNext]_tournamentVars => TournamentInv'
  BY TournamentStep
<1>3. TournamentInv => StandingsAddUp
  BY TournamentInvHolds
<1> QED
  BY <1>1, <1>2, <1>3, PTL DEF TournamentSpec

-----------------------------------------------------------------------------
(* The tool calls                                                           *)

AuditRow == [call : ToolCallIds, boundary : {"pre_call", "post_call"},
             verdict : {"allowed", "denied", "clean", "flagged"}]

\* An entry before the tool, of what was decided.
PreAudited(c, j) ==
    /\ j \in DOMAIN toolAudit /\ AuditOf(c, "pre_call") = {j}
    /\ toolAudit[j].verdict = "denied" => ~toolCall[c].permitted
PostAudited(c, k) == k \in DOMAIN toolAudit /\ AuditOf(c, "post_call") = {k}

\* What the model is shown of a result: nothing blocked, what is flagged under a banner.
ShownSafely(r, shown) ==
    "text" \in shown =>
        /\ r.result # "blocked"
        /\ r.result = "flagged" => "banner" \in shown
        /\ r.pii => "redacted" \in shown

CallFields == {"at", "guarded", "permitted", "args", "result", "pii", "shown"}
\* How far a call is, and what it may have left by then.
GuardedCall(c) ==
    /\ DOMAIN toolCall[c] = CallFields
    /\ toolRuns[c] \in Nat /\ toolRuns[c] <= (IF toolCall[c].permitted THEN 1 ELSE 0)
    /\ toolCall[c].at \in {"idle", "execute", "post", "done"}
    /\ toolCall[c].at = "idle" => toolRuns[c] = 0 /\ AuditOf(c, "pre_call") = {}
    /\ toolCall[c].at = "execute" => toolRuns[c] = 0 /\ toolCall[c].permitted
    /\ toolCall[c].at # "done" => AuditOf(c, "post_call") = {}
    /\ toolCall[c].at \in {"execute", "post"} /\ toolCall[c].guarded /\ c \notin lostAudits =>
          \E j \in DOMAIN toolAudit : PreAudited(c, j)
    /\ toolCall[c].at = "done" =>
          /\ ShownSafely(toolCall[c], toolCall[c].shown)
          /\ toolCall[c].guarded /\ c \notin lostAudits =>
                \E j, k \in DOMAIN toolAudit : j < k /\ PreAudited(c, j) /\ PostAudited(c, k)

ToolCallsInv ==
    /\ DOMAIN toolCall = ToolCallIds /\ DOMAIN toolRuns = ToolCallIds
    /\ toolAudit \in Seq(AuditRow)
    /\ \A c \in ToolCallIds : GuardedCall(c)

LEMMA RepairAlwaysSound == RepairIsSound
<1> SUFFICES ASSUME NEW a \in Arguments
             PROVE  /\ a.misspelt = "absent" => /\ Repaired(a) # "close"
                                                /\ a.field = "right" => ~WasRepaired(a)
                    /\ ~SchemaAllows(a) => Repaired(a) # "right"
  BY DEF RepairIsSound
<1>1. a.misspelt = "absent" => Repaired(a) # "close"
  BY DEF Repaired, Coerced
<1>2. a.misspelt = "absent" /\ a.field = "right" => ~WasRepaired(a)
  BY DEF WasRepaired, Coerced, Given
<1>3. ASSUME ~SchemaAllows(a) PROVE Repaired(a) # "right"
  <2>1. a.misspelt = "absent" /\ Given(a) \in {"absent", "wrong"}
    BY <1>3 DEF SchemaAllows, HasErrors, WasRepaired
  <2> QED
    BY <2>1 DEF Repaired, Coerced
<1> QED
  BY <1>1, <1>2, <1>3

LEMMA ToolCallsInitially == ToolCallsInit => ToolCallsInv
<1> SUFFICES ASSUME ToolCallsInit PROVE ToolCallsInv
  OBVIOUS
<1>1. DOMAIN <<>> = {} /\ <<>> \in Seq(AuditRow)
  BY EmptySeq
<1>2. toolAudit = <<>> /\ \A c, b : AuditOf(c, b) = {}
  BY <1>1 DEF ToolCallsInit, AuditOf
<1>3. ASSUME NEW c \in ToolCallIds PROVE GuardedCall(c)
  <2>1. toolCall[c] = NoToolCall /\ toolRuns[c] = 0
    BY DEF ToolCallsInit
  <2>2. /\ toolCall[c].at = "idle" /\ toolCall[c].permitted = FALSE
        /\ DOMAIN toolCall[c] = CallFields
    BY <2>1 DEF NoToolCall, CallFields
  <2> QED
    BY <1>2, <2>1, <2>2 DEF GuardedCall
<1> QED
  BY <1>1, <1>2, <1>3 DEF ToolCallsInit, ToolCallsInv

\* An entry appended is one of its call and boundary, and behind every other.
LEMMA AuditAppended ==
    ASSUME toolAudit \in Seq(AuditRow), NEW row \in AuditRow, toolAudit' = Append(toolAudit, row)
    PROVE  /\ toolAudit' \in Seq(AuditRow)
           /\ \A k \in DOMAIN toolAudit : k \in DOMAIN toolAudit' /\ toolAudit'[k] = toolAudit[k]
           /\ \A d, b : d # row.call \/ b # row.boundary => AuditOf(d, b)' = AuditOf(d, b)
           /\ \E n \in DOMAIN toolAudit' :
                 /\ \A k \in DOMAIN toolAudit : k < n
                 /\ toolAudit'[n] = row
                 /\ AuditOf(row.call, row.boundary)' = AuditOf(row.call, row.boundary) \cup {n}
<1>1. PICK len \in Nat : len = Len(toolAudit)
  BY LenProperties
<1>2. /\ toolAudit' \in Seq(AuditRow) /\ DOMAIN toolAudit = 1..len /\ DOMAIN toolAudit' = 1..(len + 1)
      /\ toolAudit'[len + 1] = row /\ \A k \in 1..len : toolAudit'[k] = toolAudit[k]
  BY <1>1, AppendProperties, LenProperties
<1>3. /\ len + 1 \in DOMAIN toolAudit' /\ \A k \in DOMAIN toolAudit : k < len + 1
      /\ \A k \in DOMAIN toolAudit' : k \in DOMAIN toolAudit \/ k = len + 1
  BY <1>2
<1>4. ASSUME NEW d, NEW b, d # row.call \/ b # row.boundary PROVE AuditOf(d, b)' = AuditOf(d, b)
  BY <1>2, <1>3, <1>4 DEF AuditOf
<1>5. AuditOf(row.call, row.boundary)' = AuditOf(row.call, row.boundary) \cup {len + 1}
  BY <1>2, <1>3 DEF AuditOf
<1>6. \A k \in DOMAIN toolAudit : k \in DOMAIN toolAudit' /\ toolAudit'[k] = toolAudit[k]
  BY <1>2, <1>3
<1> QED
  BY <1>2, <1>3, <1>4, <1>5, <1>6

\* A step of one call that leaves the entries of the others alone.
LEMMA OtherCallsStay ==
    ASSUME ToolCallsInv, NEW c \in ToolCallIds,
           DOMAIN toolCall' = ToolCallIds, DOMAIN toolRuns' = ToolCallIds,
           \A d \in ToolCallIds \ {c} : toolCall'[d] = toolCall[d] /\ toolRuns'[d] = toolRuns[d],
           toolAudit' \in Seq(AuditRow),
           \A k \in DOMAIN toolAudit : k \in DOMAIN toolAudit' /\ toolAudit'[k] = toolAudit[k],
           \A d \in ToolCallIds \ {c} : \A b : AuditOf(d, b)' = AuditOf(d, b),
           lostAudits \subseteq lostAudits', GuardedCall(c)'
    PROVE  ToolCallsInv'
<1>1. ASSUME NEW d \in ToolCallIds, d # c PROVE GuardedCall(d)'
  <2>1. GuardedCall(d) /\ toolCall'[d] = toolCall[d] /\ toolRuns'[d] = toolRuns[d]
    BY <1>1 DEF ToolCallsInv
  <2>2. AuditOf(d, "pre_call")' = AuditOf(d, "pre_call") /\ AuditOf(d, "post_call")' = AuditOf(d, "post_call")
    BY <1>1
  <2>3. \A j \in DOMAIN toolAudit : /\ PreAudited(d, j) => PreAudited(d, j)'
                                    /\ PostAudited(d, j) => PostAudited(d, j)'
    BY <2>1, <2>2 DEF PreAudited, PostAudited
  <2> QED
    BY <2>1, <2>2, <2>3 DEF GuardedCall
<1> QED
  BY <1>1 DEF ToolCallsInv

LEMMA AuditsStay ==
    ASSUME toolAudit' = toolAudit
    PROVE  /\ \A k \in DOMAIN toolAudit : k \in DOMAIN toolAudit' /\ toolAudit'[k] = toolAudit[k]
           /\ \A d, b : AuditOf(d, b)' = AuditOf(d, b)
BY DEF AuditOf

LEMMA ToolCallsStep == ToolCallsInv /\ [ToolCallsNext]_toolCallVars => ToolCallsInv'
<1> SUFFICES ASSUME ToolCallsInv, [ToolCallsNext]_toolCallVars PROVE ToolCallsInv'
  OBVIOUS
<1>0. toolAudit \in Seq(AuditRow) /\ DOMAIN toolCall = ToolCallIds /\ DOMAIN toolRuns = ToolCallIds
  BY DEF ToolCallsInv
<1>1. ASSUME toolCall' = toolCall, toolRuns' = toolRuns, toolAudit' = toolAudit,
             lostAudits' = lostAudits
      PROVE  ToolCallsInv'
  <2>1. \A d, b : AuditOf(d, b)' = AuditOf(d, b)
    BY <1>1 DEF AuditOf
  <2>2. ASSUME NEW d \in ToolCallIds PROVE GuardedCall(d)'
    <3>1. GuardedCall(d)
      BY DEF ToolCallsInv
    <3>2. \A j : (PreAudited(d, j)' <=> PreAudited(d, j)) /\ (PostAudited(d, j)' <=> PostAudited(d, j))
      BY <1>1, <2>1 DEF PreAudited, PostAudited
    <3> QED
      BY <1>1, <2>1, <3>1, <3>2 DEF GuardedCall
  <2> QED
    BY <1>0, <1>1, <2>2 DEF ToolCallsInv
<1>2. ASSUME NEW c \in ToolCallIds, NEW permitted \in BOOLEAN, NEW a \in Arguments,
             PreCall(c, permitted, a)
      PROVE  ToolCallsInv'
  <2>1. PICK verdict : verdict = IF permitted THEN "allowed" ELSE "denied"
    OBVIOUS
  <2>2. PICK cl : cl = [at |-> IF permitted THEN "execute" ELSE "post", guarded |-> TRUE,
                        permitted |-> permitted, args |-> Repaired(a),
                        result |-> IF permitted THEN "none" ELSE "clean", pii |-> FALSE, shown |-> {}]
    OBVIOUS
  <2>11. cl = [NoToolCall EXCEPT
                 !.at = IF permitted THEN "execute" ELSE "post", !.guarded = TRUE,
                 !.permitted = permitted, !.args = Repaired(a),
                 !.result = IF permitted THEN "none" ELSE "clean"]
    <3>0. NoToolCall = [at |-> "idle", guarded |-> FALSE, permitted |-> FALSE, args |-> "none",
                        result |-> "none", pii |-> FALSE, shown |-> {}]
      BY DEF NoToolCall
    <3>1. PICK m1 : m1 = [NoToolCall EXCEPT !.at = IF permitted THEN "execute" ELSE "post"]
      OBVIOUS
    <3>2. m1 = [at |-> IF permitted THEN "execute" ELSE "post", guarded |-> FALSE,
                permitted |-> FALSE, args |-> "none", result |-> "none", pii |-> FALSE, shown |-> {}]
      BY <3>0, <3>1
    <3>3. PICK m2 : m2 = [m1 EXCEPT !.guarded = TRUE]
      OBVIOUS
    <3>4. m2 = [at |-> IF permitted THEN "execute" ELSE "post", guarded |-> TRUE,
                permitted |-> FALSE, args |-> "none", result |-> "none", pii |-> FALSE, shown |-> {}]
      BY <3>2, <3>3
    <3>5. PICK m3 : m3 = [m2 EXCEPT !.permitted = permitted]
      OBVIOUS
    <3>6. m3 = [at |-> IF permitted THEN "execute" ELSE "post", guarded |-> TRUE,
                permitted |-> permitted, args |-> "none", result |-> "none", pii |-> FALSE, shown |-> {}]
      BY <3>4, <3>5
    <3>7. PICK m4 : m4 = [m3 EXCEPT !.args = Repaired(a)]
      OBVIOUS
    <3>8. m4 = [at |-> IF permitted THEN "execute" ELSE "post", guarded |-> TRUE,
                permitted |-> permitted, args |-> Repaired(a), result |-> "none", pii |-> FALSE,
                shown |-> {}]
      BY <3>6, <3>7
    <3>9. PICK m5 : m5 = [m4 EXCEPT !.result = IF permitted THEN "none" ELSE "clean"]
      OBVIOUS
    <3>10. m5 = [at |-> IF permitted THEN "execute" ELSE "post", guarded |-> TRUE,
                 permitted |-> permitted, args |-> Repaired(a),
                 result |-> IF permitted THEN "none" ELSE "clean", pii |-> FALSE, shown |-> {}]
      BY <3>8, <3>9
    <3> QED
      BY <2>2, <3>1, <3>3, <3>5, <3>7, <3>9, <3>10
  <2>3. /\ toolCall[c].at = "idle" /\ toolCall' = [toolCall EXCEPT ![c] = cl]
        /\ Audits(c, "pre_call", verdict) /\ toolRuns' = toolRuns
    BY <1>2, <2>1, <2>11 DEF PreCall
  <2>4. /\ DOMAIN toolCall' = ToolCallIds /\ toolCall'[c] = cl
        /\ \A d \in ToolCallIds \ {c} : toolCall'[d] = toolCall[d]
    BY <1>0, <2>3
  <2>5. /\ toolRuns[c] = 0 /\ AuditOf(c, "pre_call") = {} /\ AuditOf(c, "post_call") = {}
    BY <2>3 DEF ToolCallsInv, GuardedCall
  <2>6. /\ cl.at \in {"execute", "post"} /\ (cl.at = "execute" => cl.permitted)
        /\ cl.permitted = permitted /\ DOMAIN cl = CallFields
    BY <2>2 DEF CallFields
  <2>7. CASE lostAudits' = lostAudits \cup {c} /\ toolAudit' = toolAudit
    <3>1. \A d, b : AuditOf(d, b)' = AuditOf(d, b)
      BY <2>7, AuditsStay
    <3>2. GuardedCall(c)'
      BY <2>3, <2>4, <2>5, <2>6, <2>7, <3>1 DEF GuardedCall
    <3> QED
      BY <1>0, <2>3, <2>4, <2>7, <3>1, <3>2, OtherCallsStay
  <2>8. CASE ~(lostAudits' = lostAudits \cup {c} /\ toolAudit' = toolAudit)
    <3>1. PICK row : row = [call |-> c, boundary |-> "pre_call", verdict |-> verdict]
      OBVIOUS
    <3>2. row \in AuditRow
      BY <2>1, <3>1 DEF AuditRow
    <3>3. row.call = c /\ row.boundary = "pre_call" /\ row.verdict = verdict
      BY <3>1
    <3>4. toolAudit' = Append(toolAudit, row) /\ lostAudits' = lostAudits
      BY <2>3, <2>8, <3>1 DEF Audits
    <3>5. /\ toolAudit' \in Seq(AuditRow)
          /\ \A k \in DOMAIN toolAudit : k \in DOMAIN toolAudit' /\ toolAudit'[k] = toolAudit[k]
          /\ \A d, b : d # c \/ b # "pre_call" => AuditOf(d, b)' = AuditOf(d, b)
      BY <1>0, <3>2, <3>3, <3>4, AuditAppended
    <3>6. PICK n \in DOMAIN toolAudit' :
                 toolAudit'[n] = row /\ AuditOf(c, "pre_call")' = AuditOf(c, "pre_call") \cup {n}
      BY <1>0, <3>2, <3>3, <3>4, AuditAppended
    <3>7. verdict = "denied" => ~cl.permitted
      BY <2>1, <2>2
    <3>8. PreAudited(c, n)'
      BY <2>4, <2>5, <3>3, <3>6, <3>7 DEF PreAudited
    <3>9. AuditOf(c, "post_call")' = {}
      BY <2>5, <3>5
    <3>10. GuardedCall(c)'
      BY <2>3, <2>4, <2>5, <2>6, <3>6, <3>8, <3>9 DEF GuardedCall
    <3>11. \A d \in ToolCallIds \ {c} : \A b : AuditOf(d, b)' = AuditOf(d, b)
      BY <3>5
    <3> QED
      BY <1>0, <2>3, <2>4, <3>4, <3>5, <3>10, <3>11, OtherCallsStay
  <2> QED
    BY <2>7, <2>8
<1>3. ASSUME NEW c \in ToolCallIds, NEW a \in Arguments, Unguarded(c, a) PROVE ToolCallsInv'
  <2>1. PICK cl : cl = [at |-> "execute", guarded |-> FALSE, permitted |-> TRUE, args |-> a.field,
                        result |-> "none", pii |-> FALSE, shown |-> {}]
    OBVIOUS
  <2>10. cl = [NoToolCall EXCEPT !.at = "execute", !.permitted = TRUE, !.args = a.field]
    <3>0. NoToolCall = [at |-> "idle", guarded |-> FALSE, permitted |-> FALSE, args |-> "none",
                        result |-> "none", pii |-> FALSE, shown |-> {}]
      BY DEF NoToolCall
    <3>1. PICK m1 : m1 = [NoToolCall EXCEPT !.at = "execute"]
      OBVIOUS
    <3>2. m1 = [at |-> "execute", guarded |-> FALSE, permitted |-> FALSE, args |-> "none",
                result |-> "none", pii |-> FALSE, shown |-> {}]
      BY <3>0, <3>1
    <3>3. PICK m2 : m2 = [m1 EXCEPT !.permitted = TRUE]
      OBVIOUS
    <3>4. m2 = [at |-> "execute", guarded |-> FALSE, permitted |-> TRUE, args |-> "none",
                result |-> "none", pii |-> FALSE, shown |-> {}]
      BY <3>2, <3>3
    <3>5. PICK m3 : m3 = [m2 EXCEPT !.args = a.field]
      OBVIOUS
    <3>6. m3 = [at |-> "execute", guarded |-> FALSE, permitted |-> TRUE, args |-> a.field,
                result |-> "none", pii |-> FALSE, shown |-> {}]
      BY <3>4, <3>5
    <3> QED
      BY <2>1, <3>1, <3>3, <3>5, <3>6
  <2>2. /\ toolCall[c].at = "idle" /\ toolCall' = [toolCall EXCEPT ![c] = cl]
        /\ toolRuns' = toolRuns /\ toolAudit' = toolAudit /\ lostAudits' = lostAudits
    BY <1>3, <2>10 DEF Unguarded
  <2>3. /\ DOMAIN toolCall' = ToolCallIds /\ toolCall'[c] = cl
        /\ \A d \in ToolCallIds \ {c} : toolCall'[d] = toolCall[d]
    BY <1>0, <2>2
  <2>4. cl.at = "execute" /\ ~cl.guarded /\ cl.permitted /\ DOMAIN cl = CallFields
    BY <2>1 DEF CallFields
  <2>5. \A d, b : AuditOf(d, b)' = AuditOf(d, b)
    BY <2>2, AuditsStay
  <2>6. toolRuns[c] = 0 /\ AuditOf(c, "post_call") = {}
    BY <2>2 DEF ToolCallsInv, GuardedCall
  <2>7. GuardedCall(c)'
    BY <2>2, <2>3, <2>4, <2>5, <2>6 DEF GuardedCall
  <2> QED
    BY <1>0, <2>2, <2>3, <2>5, <2>7, OtherCallsStay
\* The dispatcher answers, the tool reached or not.
<1>4. ASSUME NEW c \in ToolCallIds, NEW result, NEW pii, toolCall[c].at = "execute",
             ToolSays(c, result, pii), toolAudit' = toolAudit, lostAudits' = lostAudits,
             toolRuns' = toolRuns \/ toolRuns' = [toolRuns EXCEPT ![c] = @ + 1]
      PROVE  ToolCallsInv'
  <2>1. PICK one : one = [toolCall[c] EXCEPT !.at = "post"]
    OBVIOUS
  <2>2. PICK two : two = [one EXCEPT !.result = result]
    OBVIOUS
  <2>3. PICK cl : cl = [two EXCEPT !.pii = pii]
    OBVIOUS
  <2>4. /\ DOMAIN toolCall' = ToolCallIds /\ toolCall'[c] = cl
        /\ \A d \in ToolCallIds \ {c} : toolCall'[d] = toolCall[d]
    BY <1>0, <1>4, <2>1, <2>2, <2>3 DEF ToolSays
  <2>5. /\ DOMAIN toolRuns' = ToolCallIds /\ toolRuns'[c] \in {toolRuns[c], toolRuns[c] + 1}
        /\ \A d \in ToolCallIds \ {c} : toolRuns'[d] = toolRuns[d]
    BY <1>0, <1>4
  <2>6. GuardedCall(c)
    BY DEF ToolCallsInv
  <2>7. toolRuns[c] = 0 /\ toolCall[c].permitted
    BY <1>4, <2>6 DEF GuardedCall
  <2>8. toolRuns'[c] \in Nat /\ toolRuns'[c] <= 1
    BY <2>5, <2>7
  <2>9. /\ cl.permitted = toolCall[c].permitted /\ cl.guarded = toolCall[c].guarded
    BY <2>1, <2>2, <2>3
  <2>10. cl.at = "post" /\ DOMAIN cl = CallFields
    <3>1. DOMAIN toolCall[c] = CallFields
      BY <2>6 DEF GuardedCall
    <3>2. DOMAIN one = CallFields /\ one.at = "post"
      BY <2>1, <3>1 DEF CallFields
    <3>3. DOMAIN two = CallFields /\ two.at = "post"
      BY <2>2, <3>2
    <3> QED
      BY <2>3, <3>3
  <2>11. \A d, b : AuditOf(d, b)' = AuditOf(d, b)
    BY <1>4, AuditsStay
  <2>12. \A j : PreAudited(c, j) => PreAudited(c, j)'
    BY <1>4, <2>4, <2>9, <2>11 DEF PreAudited
  <2>13. GuardedCall(c)'
    BY <1>4, <2>4, <2>6, <2>7, <2>8, <2>9, <2>10, <2>11, <2>12 DEF GuardedCall
  <2> QED
    BY <1>0, <1>4, <2>4, <2>5, <2>11, <2>13, OtherCallsStay
<1>5. ASSUME NEW c \in ToolCallIds, PostCall(c) PROVE ToolCallsInv'
  <2>1. PICK shown : shown = Shown(toolCall[c])
    OBVIOUS
  <2>2. PICK one : one = [toolCall[c] EXCEPT !.at = "done"]
    OBVIOUS
  <2>3. PICK cl : cl = [one EXCEPT !.shown = shown]
    OBVIOUS
  <2>4. toolCall[c].at = "post" /\ toolRuns' = toolRuns
    BY <1>5 DEF PostCall
  <2>5. /\ DOMAIN toolCall' = ToolCallIds /\ toolCall'[c] = cl
        /\ \A d \in ToolCallIds \ {c} : toolCall'[d] = toolCall[d]
    BY <1>0, <1>5, <2>1, <2>2, <2>3 DEF PostCall
  <2>6. /\ cl.permitted = toolCall[c].permitted /\ cl.guarded = toolCall[c].guarded
        /\ cl.result = toolCall[c].result /\ cl.pii = toolCall[c].pii
    BY <2>2, <2>3
  <2>8. GuardedCall(c)
    BY DEF ToolCallsInv
  <2>7. cl.at = "done" /\ cl.shown = shown /\ DOMAIN cl = CallFields
    <3>1. DOMAIN toolCall[c] = CallFields
      BY <2>8 DEF GuardedCall
    <3>2. DOMAIN one = CallFields /\ one.at = "done"
      BY <2>2, <3>1 DEF CallFields
    <3> QED
      BY <2>3, <3>2 DEF CallFields
  <2>9. ShownSafely(toolCall[c], shown) /\ ShownSafely(cl, cl.shown)
    <3>1. ShownSafely(toolCall[c], shown)
      BY <2>1 DEF Shown, ShownSafely
    <3> QED
      BY <2>6, <2>7, <3>1 DEF ShownSafely
  <2>10. CASE ~toolCall[c].guarded
    <3>1. toolAudit' = toolAudit /\ lostAudits' = lostAudits
      BY <1>5, <2>10 DEF PostCall
    <3>2. \A d, b : AuditOf(d, b)' = AuditOf(d, b)
      BY <3>1, AuditsStay
    <3>3. GuardedCall(c)'
      BY <2>4, <2>5, <2>6, <2>7, <2>8, <2>9, <2>10 DEF GuardedCall
    <3> QED
      BY <1>0, <2>4, <2>5, <3>1, <3>2, <3>3, OtherCallsStay
  <2>11. CASE toolCall[c].guarded
    <3>1. PICK verdict \in {"clean", "flagged"} : Audits(c, "post_call", verdict)
      BY <1>5, <2>11 DEF PostCall
    <3>2. CASE lostAudits' = lostAudits \cup {c} /\ toolAudit' = toolAudit
      <4>1. \A d, b : AuditOf(d, b)' = AuditOf(d, b)
        BY <3>2, AuditsStay
      <4>2. GuardedCall(c)'
        BY <2>4, <2>5, <2>6, <2>7, <2>8, <2>9, <3>2 DEF GuardedCall
      <4> QED
        BY <1>0, <2>4, <2>5, <3>2, <4>1, <4>2, OtherCallsStay
    <3>3. CASE ~(lostAudits' = lostAudits \cup {c} /\ toolAudit' = toolAudit)
      <4>1. PICK row : row = [call |-> c, boundary |-> "post_call", verdict |-> verdict]
        OBVIOUS
      <4>2. row \in AuditRow
        BY <4>1 DEF AuditRow
      <4>3. row.call = c /\ row.boundary = "post_call"
        BY <4>1
      <4>4. toolAudit' = Append(toolAudit, row) /\ lostAudits' = lostAudits
        BY <3>1, <3>3, <4>1 DEF Audits
      <4>5. /\ toolAudit' \in Seq(AuditRow)
            /\ \A k \in DOMAIN toolAudit : k \in DOMAIN toolAudit' /\ toolAudit'[k] = toolAudit[k]
            /\ \A d, b : d # c \/ b # "post_call" => AuditOf(d, b)' = AuditOf(d, b)
        BY <1>0, <4>2, <4>3, <4>4, AuditAppended
      <4>6. PICK n \in DOMAIN toolAudit' :
                   /\ \A k \in DOMAIN toolAudit : k < n
                   /\ AuditOf(c, "post_call")' = AuditOf(c, "post_call") \cup {n}
        BY <1>0, <4>2, <4>3, <4>4, AuditAppended
      <4>7. AuditOf(c, "post_call") = {}
        BY <2>4, <2>8 DEF GuardedCall
      <4>8. PostAudited(c, n)'
        BY <4>6, <4>7 DEF PostAudited
      <4>9. ASSUME NEW j \in DOMAIN toolAudit, PreAudited(c, j) PROVE PreAudited(c, j)'
        BY <2>5, <2>6, <4>5, <4>9 DEF PreAudited
      <4>10. ASSUME c \notin lostAudits
             PROVE  \E j, k \in DOMAIN toolAudit' : j < k /\ PreAudited(c, j)' /\ PostAudited(c, k)'
        <5>1. PICK j \in DOMAIN toolAudit : PreAudited(c, j)
          BY <2>4, <2>8, <2>11, <4>10 DEF GuardedCall
        <5>2. j < n /\ j \in DOMAIN toolAudit' /\ PreAudited(c, j)'
          BY <4>5, <4>6, <4>9, <5>1
        <5> QED
          BY <4>6, <4>8, <5>2
      <4>11. GuardedCall(c)'
        BY <2>4, <2>5, <2>6, <2>7, <2>8, <2>9, <4>4, <4>10 DEF GuardedCall
      <4>12. \A d \in ToolCallIds \ {c} : \A b : AuditOf(d, b)' = AuditOf(d, b)
        BY <4>5
      <4> QED
        BY <1>0, <2>4, <2>5, <4>4, <4>5, <4>11, <4>12, OtherCallsStay
    <3> QED
      BY <3>2, <3>3
  <2> QED
    BY <2>10, <2>11
<1>6. ASSUME NEW executor, NEW endpoint, RegisterTool(executor, endpoint) PROVE ToolCallsInv'
  BY <1>1, <1>6 DEF RegisterTool
<1>7. ASSUME NEW c \in ToolCallIds, NEW result, NEW pii, ToolAnswers(c, result, pii) PROVE ToolCallsInv'
  BY <1>4, <1>7 DEF ToolAnswers
<1>8. ASSUME NEW c \in ToolCallIds, NEW reached \in BOOLEAN, ToolTimesOut(c, reached) PROVE ToolCallsInv'
  BY <1>4, <1>8 DEF ToolTimesOut
<1>9. ASSUME NEW c \in ToolCallIds, NotRegistered(c) PROVE ToolCallsInv'
  BY <1>4, <1>9 DEF NotRegistered
<1>10. CASE UNCHANGED toolCallVars
  BY <1>1, <1>10 DEF toolCallVars
<1> QED
  BY <1>2, <1>3, <1>5, <1>6, <1>7, <1>8, <1>9, <1>10 DEF ToolCallsNext

LEMMA ToolCallsInvHolds == ToolCallsInv => ToolsAreGuarded
<1> SUFFICES ASSUME ToolCallsInv PROVE ToolsAreGuarded
  OBVIOUS
<1>1. ASSUME NEW c \in ToolCallIds, toolCall[c].guarded, c \notin lostAudits, toolCall[c].at = "done"
      PROVE  \E j, k \in DOMAIN toolAudit :
                /\ j < k /\ AuditOf(c, "pre_call") = {j} /\ AuditOf(c, "post_call") = {k}
                /\ toolAudit[j].verdict = "denied" => toolRuns[c] = 0
  <2>1. GuardedCall(c)
    BY DEF ToolCallsInv
  <2>2. PICK j \in DOMAIN toolAudit, k \in DOMAIN toolAudit :
               j < k /\ PreAudited(c, j) /\ PostAudited(c, k)
    BY <1>1, <2>1 DEF GuardedCall
  <2>3. ~toolCall[c].permitted => toolRuns[c] = 0
    BY <2>1 DEF GuardedCall
  <2> QED
    BY <2>2, <2>3 DEF PreAudited, PostAudited
<1> QED
  BY <1>1, RepairAlwaysSound DEF ToolCallsInv, GuardedCall, ShownSafely, ToolsAreGuarded

\* Whatever fails on a call's way, the registry and the audit log included: a tool is reached
\* at most once and never without permission, what the model is shown of a result is not blocked,
\* flagged only under a banner, and redacted; and a guarded call leaves one entry before and one
\* after it, in that order, unless one could not be written.
THEOREM ToolsAreAlwaysGuarded == ToolCallsSpec => []ToolsAreGuarded
<1>1. ToolCallsInit => ToolCallsInv
  BY ToolCallsInitially
<1>2. ToolCallsInv /\ [ToolCallsNext]_toolCallVars => ToolCallsInv'
  BY ToolCallsStep
<1>3. ToolCallsInv => ToolsAreGuarded
  BY ToolCallsInvHolds
<1> QED
  BY <1>1, <1>2, <1>3, PTL DEF ToolCallsSpec

-----------------------------------------------------------------------------
(* The worktrees                                                            *)

EditRow == [issue : GitIssues, repo : Repos]
BranchNames == Dirs \X GitIssues
ClonedAs == Repos \cup {"none", "partial"}
PushedNames == Repos \X GitIssues

GitTypeOK ==
    /\ clone \in [Dirs -> ClonedAs] /\ DOMAIN worktree = GitIssues
    /\ DOMAIN branches = BranchNames /\ DOMAIN pushed = PushedNames
    /\ edits \in Seq(EditRow)

\* A worktree that git finished is one of a repository's clone, on a branch that was made for
\* its issue; what is open is its own.
OnItsBranch(i, row) ==
    /\ row.dir \in Dirs /\ row.branch \in GitIssues /\ clone[row.dir] \in Repos
    /\ branches[<<row.dir, row.branch>>].there /\ branches[<<row.dir, row.branch>>].by = i
SoundWorktree(i) ==
    /\ worktree[i].there => worktree[i].for \in Repos
    /\ worktree[i].there /\ worktree[i].dir # "none" => OnItsBranch(i, worktree[i])
    /\ \A n \in worktree[i].open : n \in DOMAIN edits /\ edits[n].issue = i
\* A branch has commits of the issue it was made for, and none before it is there.
SoundBranch(b) ==
    /\ \A n \in branches[b].commits :
          n \in DOMAIN edits /\ edits[n].issue = branches[b].by /\ n \in committed
    /\ ~branches[b].there => branches[b].commits = {}
\* What was pushed is on the branch of that name in a clone of the repository.
SoundPush(b) ==
    \A n \in pushed[b] :
        \E d \in Dirs : clone[d] = b[1] /\ n \in branches[<<d, b[2]>>].commits

GitInv ==
    /\ GitTypeOK
    /\ \A i \in GitIssues : SoundWorktree(i)
    /\ \A b \in BranchNames : SoundBranch(b)
    /\ \A n \in committed : \E b \in BranchNames : n \in branches[b].commits
    /\ \A b \in PushedNames : SoundPush(b)

LEMMA GitInitially == WorktreesInit => GitInv
<1> SUFFICES ASSUME WorktreesInit PROVE GitInv
  OBVIOUS
<1>1. <<>> \in Seq(EditRow)
  BY EmptySeq
<1>2. GitTypeOK
  BY <1>1 DEF WorktreesInit, GitTypeOK, BranchNames, PushedNames, ClonedAs
<1>3. NoWorktree.there = FALSE /\ NoWorktree.open = {} /\ NoBranch.commits = {}
  BY DEF NoWorktree, NoBranch
<1>4. \A i \in GitIssues : worktree[i] = NoWorktree
  BY DEF WorktreesInit
<1>5. \A b \in BranchNames : branches[b] = NoBranch
  BY DEF WorktreesInit, BranchNames
<1>6. committed = {} /\ \A b \in PushedNames : pushed[b] = {}
  BY DEF WorktreesInit, PushedNames
<1> QED
  BY <1>2, <1>3, <1>4, <1>5, <1>6 DEF GitInv, SoundWorktree, SoundBranch, SoundPush

\* Where a repository is cloned, it stays.
LEMMA CloneIsKept ==
    ASSUME GitInv, NEW r \in Repos, clone' = [clone EXCEPT ![CloneDir[r]] = CloneFor(r)]
    PROVE  /\ clone' \in [Dirs -> ClonedAs]
           /\ \A d \in Dirs : clone[d] \in Repos => clone'[d] = clone[d]
           /\ CloneDir[r] \in Dirs /\ clone'[CloneDir[r]] = CloneFor(r)
<1>1. CloneDir[r] \in Dirs /\ clone \in [Dirs -> ClonedAs]
  BY DEF Dirs, GitInv, GitTypeOK
<1>2. clone[CloneDir[r]] \in Repos => CloneFor(r) = clone[CloneDir[r]]
  BY WorktreesAssumption DEF CloneFor
<1>3. CloneFor(r) \in ClonedAs
  BY <1>1 DEF CloneFor, ClonedAs
<1> QED
  BY <1>1, <1>2, <1>3

\* What was pushed stays where it is, while clones stay and branches keep their commits.
LEMMA PushesStay ==
    ASSUME GitInv, \A d \in Dirs : clone[d] \in Repos => clone'[d] = clone[d],
           \A c \in BranchNames : branches[c].commits \subseteq branches'[c].commits,
           NEW b \in PushedNames, pushed'[b] = pushed[b]
    PROVE  SoundPush(b)'
<1>1. ASSUME NEW n \in pushed'[b]
      PROVE  \E d \in Dirs : clone'[d] = b[1] /\ n \in branches'[<<d, b[2]>>].commits
  <2>1. PICK d \in Dirs : clone[d] = b[1] /\ n \in branches[<<d, b[2]>>].commits
    BY <1>1 DEF GitInv, SoundPush
  <2>2. b[1] \in Repos /\ <<d, b[2]>> \in BranchNames
    BY DEF PushedNames, BranchNames
  <2> QED
    BY <2>1, <2>2
<1> QED
  BY <1>1 DEF SoundPush

\* Nothing but a clone or what the manager knows moves.
LEMMA OnlyClonesMove ==
    ASSUME GitInv, clone' \in [Dirs -> ClonedAs],
           \A d \in Dirs : clone[d] \in Repos => clone'[d] = clone[d],
           worktree' = worktree, branches' = branches, pushed' = pushed, edits' = edits,
           committed' = committed
    PROVE  GitInv'
<1>1. ASSUME NEW i \in GitIssues PROVE SoundWorktree(i)'
  <2>1. SoundWorktree(i)
    BY DEF GitInv
  <2> QED
    BY <2>1 DEF SoundWorktree, OnItsBranch
<1>2. \A b \in BranchNames : SoundBranch(b)'
  BY DEF GitInv, SoundBranch
<1>3. BranchNames' = BranchNames /\ PushedNames' = PushedNames
  BY DEF BranchNames, PushedNames
<1>4. \A b \in PushedNames : SoundPush(b)'
  BY PushesStay
<1> QED
  BY <1>1, <1>2, <1>3, <1>4 DEF GitInv, GitTypeOK

\* One worktree changes.
LEMMA OneWorktreeChanges ==
    ASSUME GitInv, NEW i \in GitIssues, NEW row, worktree' = [worktree EXCEPT ![i] = row],
           clone' \in [Dirs -> ClonedAs], \A d \in Dirs : clone[d] \in Repos => clone'[d] = clone[d],
           branches' = branches, pushed' = pushed, edits' = edits, committed' = committed,
           row.there => row.for \in Repos,
           row.there /\ row.dir # "none" => OnItsBranch(i, row)',
           \A n \in row.open : n \in DOMAIN edits /\ edits[n].issue = i
    PROVE  GitInv'
<1>1. DOMAIN worktree' = GitIssues /\ worktree'[i] = row
      /\ \A j \in GitIssues \ {i} : worktree'[j] = worktree[j]
  BY DEF GitInv, GitTypeOK
<1>2. ASSUME NEW j \in GitIssues PROVE SoundWorktree(j)'
  <2>1. CASE j = i
    BY <1>1, <2>1 DEF SoundWorktree, OnItsBranch
  <2>2. CASE j # i
    <3>1. SoundWorktree(j) /\ worktree'[j] = worktree[j]
      BY <1>1, <2>2 DEF GitInv
    <3> QED
      BY <3>1 DEF SoundWorktree, OnItsBranch
  <2> QED
    BY <2>1, <2>2
<1>3. \A b \in BranchNames : SoundBranch(b)'
  BY DEF GitInv, SoundBranch
<1>4. \A b \in PushedNames : SoundPush(b)'
  BY PushesStay
<1> QED
  BY <1>1, <1>2, <1>3, <1>4 DEF GitInv, GitTypeOK

\* A branch is made, and a worktree on it, half of one, or none.
LEMMA BranchIsAdded ==
    ASSUME GitInv, NEW i \in GitIssues, NEW c \in GitIssues, NEW r \in Repos, NEW row,
           AddsBranch(i, c, r),
           \/ worktree' = worktree
           \/ /\ worktree' = [worktree EXCEPT ![i] = row]
              /\ row.there /\ row.branch = c /\ row.for = r /\ row.open = {}
              /\ row.dir \in {CloneDir[r], "none"}
    PROVE  GitInv'
<1> USE WorktreesAssumption
<1>1. PICK d \in Dirs : d = CloneDir[r]
  BY DEF Dirs
<1>2. PICK b \in BranchNames : b = <<d, c>>
  BY DEF BranchNames
<1>3. PICK new : new = [there |-> TRUE, by |-> i, commits |-> {}]
  OBVIOUS
<1>4. new.there /\ new.by = i /\ new.commits = {}
  BY <1>3
<1>5. /\ CloneFor(r) # "partial" /\ clone' = [clone EXCEPT ![CloneDir[r]] = CloneFor(r)]
      /\ ~branches[b].there /\ branches' = [branches EXCEPT ![b] = new]
      /\ pushed' = pushed /\ edits' = edits /\ committed' = committed
  BY <1>1, <1>2, <1>3 DEF AddsBranch, Cloned
<1>6. /\ clone' \in [Dirs -> ClonedAs] /\ clone'[d] = CloneFor(r)
      /\ \A e \in Dirs : clone[e] \in Repos => clone'[e] = clone[e]
  BY <1>1, <1>5, CloneIsKept
<1>7. CloneFor(r) \in Repos
  BY <1>1, <1>5, <1>6 DEF ClonedAs, CloneFor
<1>8. branches[b].commits = {}
  BY <1>5 DEF GitInv, SoundBranch
<1>9. /\ DOMAIN branches' = BranchNames /\ branches'[b] = new
      /\ \A e \in BranchNames \ {b} : branches'[e] = branches[e]
  BY <1>5 DEF GitInv, GitTypeOK
<1>10. /\ DOMAIN worktree' = GitIssues
       /\ \A j \in GitIssues \ {i} : worktree'[j] = worktree[j]
       /\ worktree'[i] \in {worktree[i], row}
  BY DEF GitInv, GitTypeOK
<1>11. \A e \in BranchNames : branches'[e].commits = branches[e].commits
  BY <1>4, <1>8, <1>9
<1>12. ASSUME NEW j \in GitIssues, worktree'[j] = worktree[j] PROVE SoundWorktree(j)'
  <2>1. SoundWorktree(j)
    BY DEF GitInv
  <2>2. ASSUME worktree[j].there, worktree[j].dir # "none" PROVE OnItsBranch(j, worktree[j])'
    <3>1. PICK e : e = <<worktree[j].dir, worktree[j].branch>>
      OBVIOUS
    <3>2. OnItsBranch(j, worktree[j]) /\ e \in BranchNames /\ branches[e].there
      BY <2>1, <2>2, <3>1 DEF SoundWorktree, OnItsBranch, BranchNames
    <3>3. branches'[e] = branches[e]
      BY <1>5, <1>9, <3>2
    <3> QED
      BY <1>6, <1>12, <3>1, <3>2, <3>3 DEF OnItsBranch
  <2> QED
    BY <1>5, <1>12, <2>1, <2>2 DEF SoundWorktree
<1>13. ASSUME worktree'[i] # worktree[i] PROVE SoundWorktree(i)'
  <2>1. /\ worktree'[i] = row /\ row.there /\ row.branch = c /\ row.for = r /\ row.open = {}
        /\ row.dir \in {CloneDir[r], "none"}
    BY <1>10, <1>13
  <2>2. ASSUME row.dir # "none" PROVE OnItsBranch(i, worktree[i])'
    <3>1. row.dir = d
      BY <1>1, <2>1, <2>2
    <3> QED
      BY <1>2, <1>4, <1>6, <1>7, <1>9, <2>1, <3>1 DEF OnItsBranch
  <2> QED
    BY <2>1, <2>2 DEF SoundWorktree
<1>14. \A j \in GitIssues : SoundWorktree(j)'
  BY <1>10, <1>12, <1>13
<1>15. ASSUME NEW e \in BranchNames PROVE SoundBranch(e)'
  <2>1. SoundBranch(e)
    BY DEF GitInv
  <2>2. e = b \/ branches'[e] = branches[e]
    BY <1>9
  <2> QED
    BY <1>4, <1>5, <1>9, <1>11, <2>1, <2>2 DEF SoundBranch
<1>16. \A e \in PushedNames : SoundPush(e)'
  BY <1>5, <1>6, <1>11, PushesStay
<1> QED
  BY <1>5, <1>6, <1>9, <1>10, <1>11, <1>14, <1>15, <1>16 DEF GitInv, GitTypeOK

LEMMA GitStep == GitInv /\ [WorktreesNext]_gitVars => GitInv'
<1> SUFFICES ASSUME GitInv, [WorktreesNext]_gitVars PROVE GitInv'
  OBVIOUS
<1> USE WorktreesAssumption
<1>1. ASSUME NEW r \in Repos, CloneBreaks(r) PROVE GitInv'
  <2>1. /\ clone[CloneDir[r]] = "none" /\ clone' = [clone EXCEPT ![CloneDir[r]] = "partial"]
        /\ worktree' = worktree /\ branches' = branches /\ pushed' = pushed /\ edits' = edits
        /\ committed' = committed
    BY <1>1 DEF CloneBreaks
  <2>2. clone' \in [Dirs -> ClonedAs] /\ \A d \in Dirs : clone[d] \in Repos => clone'[d] = clone[d]
    BY <2>1 DEF GitInv, GitTypeOK, ClonedAs
  <2> QED
    BY <2>1, <2>2, OnlyClonesMove
<1>2. ASSUME NEW i \in GitIssues, NEW r \in Repos, CreateFails(i, r) PROVE GitInv'
  <2>1. /\ clone' = [clone EXCEPT ![CloneDir[r]] = CloneFor(r)]
        /\ worktree' = worktree /\ branches' = branches /\ pushed' = pushed /\ edits' = edits
        /\ committed' = committed
    BY <1>2 DEF CreateFails, Cloned
  <2>2. clone' \in [Dirs -> ClonedAs] /\ \A d \in Dirs : clone[d] \in Repos => clone'[d] = clone[d]
    BY <2>1, CloneIsKept
  <2> QED
    BY <2>1, <2>2, OnlyClonesMove
<1>3. ASSUME NEW i \in GitIssues, NEW r \in Repos, CreateExists(i, r) PROVE GitInv'
  <2>1. PICK row : row = [worktree[i] EXCEPT !.for = r]
    OBVIOUS
  <2>2. /\ worktree[i].there /\ clone' = [clone EXCEPT ![CloneDir[r]] = CloneFor(r)]
        /\ worktree' = [worktree EXCEPT ![i] = row] /\ branches' = branches /\ pushed' = pushed
        /\ edits' = edits /\ committed' = committed
    BY <1>3, <2>1 DEF CreateExists, Cloned, HasWorktree
  <2>3. clone' \in [Dirs -> ClonedAs] /\ \A d \in Dirs : clone[d] \in Repos => clone'[d] = clone[d]
    BY <2>2, CloneIsKept
  <2>4. /\ row.dir = worktree[i].dir /\ row.open = worktree[i].open
        /\ row.for = r \/ row.for = worktree[i].for
        /\ row.branch = worktree[i].branch
    BY <2>1
  <2>5. SoundWorktree(i)
    BY DEF GitInv
  <2>6. /\ row.for \in Repos
        /\ row.dir # "none" => OnItsBranch(i, row)'
    BY <2>2, <2>3, <2>4, <2>5 DEF SoundWorktree, OnItsBranch
  <2>7. \A n \in row.open : n \in DOMAIN edits /\ edits[n].issue = i
    BY <2>4, <2>5 DEF SoundWorktree
  <2> QED
    BY <2>2, <2>3, <2>6, <2>7, OneWorktreeChanges
<1>4. ASSUME NEW i \in GitIssues, NEW c \in GitIssues, NEW r \in Repos,
             CreateWorktree(i, c, r) \/ CreateBreaks(i, c, r)
      PROVE  GitInv'
  <2>1. AddsBranch(i, c, r)
    BY <1>4 DEF CreateWorktree, CreateBreaks
  <2>2. PICK dir \in {CloneDir[r], "none"} :
          AddsDirectory(i, c, r, dir) \/ worktree' = worktree
    BY <1>4 DEF CreateWorktree, CreateBreaks
  <2>3. PICK row : row = [there |-> TRUE, dir |-> dir, branch |-> c, for |-> r, open |-> {}]
    OBVIOUS
  <2>4. worktree' = [worktree EXCEPT ![i] = row] \/ worktree' = worktree
    BY <2>2, <2>3 DEF AddsDirectory
  <2>5. /\ row.there /\ row.branch = c /\ row.for = r /\ row.open = {}
        /\ row.dir \in {CloneDir[r], "none"}
    BY <2>2, <2>3
  <2> QED
    BY <2>1, <2>4, <2>5, BranchIsAdded
<1>5. ASSUME NEW i \in GitIssues, Edit(i) PROVE GitInv'
  <2>1. PICK len \in Nat : len = Len(edits)
    BY LenProperties DEF GitInv, GitTypeOK
  <2>2. PICK made : made = [issue |-> i, repo |-> worktree[i].for]
    OBVIOUS
  <2>3. worktree[i].there /\ SoundWorktree(i)
    BY <1>5 DEF Edit, HasWorktree, GitInv
  <2>4. made \in EditRow /\ made.issue = i
    BY <2>2, <2>3 DEF EditRow, SoundWorktree
  <2>5. edits' = Append(edits, made)
    BY <1>5, <2>2 DEF Edit
  <2>6. /\ edits' \in Seq(EditRow) /\ Len(edits') = len + 1 /\ DOMAIN edits = 1..len
        /\ DOMAIN edits' = 1..(len + 1) /\ edits'[len + 1] = made
        /\ \A n \in 1..len : edits'[n] = edits[n]
    BY <2>1, <2>4, <2>5, AppendProperties, LenProperties DEF GitInv, GitTypeOK
  <2>7. PICK row : row = [worktree[i] EXCEPT !.open = worktree[i].open \cup {len + 1}]
    OBVIOUS
  <2>8. /\ worktree' = [worktree EXCEPT ![i] = row] /\ clone' = clone /\ branches' = branches
        /\ pushed' = pushed /\ committed' = committed
    BY <1>5, <2>6, <2>7 DEF Edit, GitInv, GitTypeOK
  <2>9. /\ row.there = worktree[i].there /\ row.dir = worktree[i].dir /\ row.for = worktree[i].for
        /\ row.branch = worktree[i].branch /\ row.open \subseteq worktree[i].open \cup {len + 1}
    BY <2>7
  <2>10. \A n \in DOMAIN edits : n \in DOMAIN edits' /\ edits'[n] = edits[n]
    BY <2>6
  <2>11. len + 1 \in DOMAIN edits' /\ edits'[len + 1].issue = i
    BY <2>4, <2>6
  <2>12. /\ DOMAIN worktree' = GitIssues /\ worktree'[i] = row
         /\ \A j \in GitIssues \ {i} : worktree'[j] = worktree[j]
    BY <2>8 DEF GitInv, GitTypeOK
  <2>13. ASSUME NEW j \in GitIssues PROVE SoundWorktree(j)'
    <3>1. CASE j = i
      BY <2>3, <2>8, <2>9, <2>10, <2>11, <2>12, <3>1 DEF SoundWorktree, OnItsBranch
    <3>2. CASE j # i
      <4>1. SoundWorktree(j) /\ worktree'[j] = worktree[j]
        BY <2>12, <3>2 DEF GitInv
      <4> QED
        BY <2>8, <2>10, <4>1 DEF SoundWorktree, OnItsBranch
    <3> QED
      BY <3>1, <3>2
  <2>14. ASSUME NEW c \in BranchNames PROVE SoundBranch(c)'
    <3>1. SoundBranch(c)
      BY DEF GitInv
    <3> QED
      BY <2>8, <2>10, <3>1 DEF SoundBranch
  <2>15. \A c \in PushedNames : SoundPush(c)'
    BY <2>8, PushesStay
  <2> QED
    BY <2>6, <2>8, <2>12, <2>13, <2>14, <2>15 DEF GitInv, GitTypeOK
<1>6. ASSUME NEW i \in GitIssues, CommitAll(i) PROVE GitInv'
  <2>1. SoundWorktree(i) /\ OnItsBranch(i, worktree[i])
    BY <1>6 DEF CommitAll, InGit, HasWorktree, GitInv, SoundWorktree
  <2>2. PICK b \in BranchNames : b = <<worktree[i].dir, worktree[i].branch>>
    BY <2>1 DEF BranchNames, OnItsBranch
  <2>3. PICK new : new = [branches[b] EXCEPT !.commits = branches[b].commits \cup worktree[i].open]
    OBVIOUS
  <2>4. PICK row : row = [worktree[i] EXCEPT !.open = {}]
    OBVIOUS
  <2>5. /\ branches' = [branches EXCEPT ![b] = new] /\ committed' = committed \cup worktree[i].open
        /\ worktree' = [worktree EXCEPT ![i] = row] /\ clone' = clone /\ pushed' = pushed
        /\ edits' = edits
    BY <1>6, <2>2, <2>3, <2>4 DEF CommitAll, BranchOf, GitInv, GitTypeOK
  <2>6. /\ row.there = worktree[i].there /\ row.dir = worktree[i].dir /\ row.for = worktree[i].for
        /\ row.branch = worktree[i].branch /\ row.open = {}
    BY <2>4
  <2>7. branches[b].there /\ branches[b].by = i
    BY <2>1, <2>2 DEF OnItsBranch
  <2>8. /\ new.there /\ new.by = i /\ new.commits = branches[b].commits \cup worktree[i].open
    BY <2>3, <2>7
  <2>9. /\ DOMAIN branches' = BranchNames /\ branches'[b] = new
        /\ \A c \in BranchNames \ {b} : branches'[c] = branches[c]
    BY <2>5 DEF GitInv, GitTypeOK
  <2>10. /\ DOMAIN worktree' = GitIssues /\ worktree'[i] = row
         /\ \A j \in GitIssues \ {i} : worktree'[j] = worktree[j]
    BY <2>5 DEF GitInv, GitTypeOK
  <2>11. \A c \in BranchNames : /\ (branches'[c].there <=> branches[c].there)
                                /\ branches'[c].by = branches[c].by
                                /\ branches[c].commits \subseteq branches'[c].commits
    BY <2>7, <2>8, <2>9
  <2>12. ASSUME NEW j \in GitIssues PROVE SoundWorktree(j)'
    <3>1. SoundWorktree(j) /\ (\A n \in worktree'[j].open : n \in worktree[j].open)
          /\ worktree'[j].there = worktree[j].there /\ worktree'[j].dir = worktree[j].dir
          /\ worktree'[j].for = worktree[j].for /\ worktree'[j].branch = worktree[j].branch
      BY <2>6, <2>10 DEF GitInv
    <3>2. ASSUME worktree[j].there, worktree[j].dir # "none" PROVE OnItsBranch(j, worktree[j])'
      <4>1. OnItsBranch(j, worktree[j]) /\ <<worktree[j].dir, worktree[j].branch>> \in BranchNames
        BY <3>1, <3>2 DEF SoundWorktree, OnItsBranch, BranchNames
      <4> QED
        BY <2>5, <2>11, <3>1, <4>1 DEF OnItsBranch
    <3> QED
      BY <2>5, <3>1, <3>2 DEF SoundWorktree
  <2>13. ASSUME NEW c \in BranchNames PROVE SoundBranch(c)'
    <3>1. SoundBranch(c)
      BY DEF GitInv
    <3>2. CASE c = b
      <4>1. ASSUME NEW n \in new.commits
            PROVE  n \in DOMAIN edits /\ edits[n].issue = i /\ n \in committed'
        BY <2>1, <2>5, <2>7, <2>8, <3>1, <3>2 DEF SoundBranch, SoundWorktree
      <4> QED
        BY <2>5, <2>7, <2>8, <2>9, <3>2, <4>1 DEF SoundBranch
    <3>3. CASE c # b
      <4>1. branches'[c] = branches[c]
        BY <2>9, <3>3
      <4> QED
        BY <2>5, <3>1, <4>1 DEF SoundBranch
    <3> QED
      BY <3>2, <3>3
  <2>14. ASSUME NEW n \in committed' PROVE \E c \in BranchNames : n \in branches'[c].commits
    <3>1. CASE n \in committed
      BY <2>11, <3>1 DEF GitInv
    <3>2. CASE n \notin committed
      BY <2>5, <2>8, <2>9, <3>2
    <3> QED
      BY <3>1, <3>2
  <2>15. \A c \in PushedNames : SoundPush(c)'
    BY <2>5, <2>11, PushesStay
  <2> QED
    BY <2>5, <2>9, <2>10, <2>12, <2>13, <2>14, <2>15 DEF GitInv, GitTypeOK
<1>7. ASSUME NEW i \in GitIssues, PushBranch(i) PROVE GitInv'
  <2>1. OnItsBranch(i, worktree[i])
    BY <1>7 DEF PushBranch, InGit, HasWorktree, GitInv, SoundWorktree
  <2>2. PICK d \in Dirs, name \in GitIssues : d = worktree[i].dir /\ name = worktree[i].branch
    BY <2>1 DEF OnItsBranch
  <2>3. PICK b \in BranchNames : b = <<d, name>>
    BY DEF BranchNames
  <2>10. PICK to \in PushedNames : to = <<clone[d], name>>
    BY <2>1, <2>2 DEF OnItsBranch, PushedNames
  <2>4. /\ pushed' = [pushed EXCEPT ![to] = branches[b].commits] /\ clone' = clone
        /\ worktree' = worktree /\ branches' = branches /\ edits' = edits /\ committed' = committed
    BY <1>7, <2>2, <2>3, <2>10 DEF PushBranch, BranchOf
  <2>5. DOMAIN pushed' = PushedNames /\ pushed'[to] = branches[b].commits
        /\ \A e \in PushedNames \ {to} : pushed'[e] = pushed[e]
    BY <2>4 DEF GitInv, GitTypeOK
  <2>11. SoundPush(to)'
    BY <2>3, <2>4, <2>5, <2>10 DEF SoundPush
  <2>6. \A e \in PushedNames : SoundPush(e)'
    BY <2>4, <2>5, <2>11, PushesStay
  <2>7. ASSUME NEW j \in GitIssues PROVE SoundWorktree(j)'
    <3>1. SoundWorktree(j)
      BY DEF GitInv
    <3> QED
      BY <2>4, <3>1 DEF SoundWorktree, OnItsBranch
  <2>8. \A c \in BranchNames : SoundBranch(c)'
    BY <2>4 DEF GitInv, SoundBranch
  <2>9. \A n \in committed' : \E c \in BranchNames : n \in branches'[c].commits
    BY <2>4 DEF GitInv
  <2> QED
    BY <2>4, <2>5, <2>6, <2>7, <2>8, <2>9 DEF GitInv, GitTypeOK
<1>8. ASSUME NEW i \in GitIssues, Cleanup(i) PROVE GitInv'
  <2>1. PICK row : row = NoWorktree
    OBVIOUS
  <2>2. ~row.there /\ row.open = {}
    BY <2>1 DEF NoWorktree
  <2>3. /\ worktree' = [worktree EXCEPT ![i] = row] /\ clone' = clone
        /\ branches' = branches /\ pushed' = pushed /\ edits' = edits /\ committed' = committed
    BY <1>8, <2>1 DEF Cleanup
  <2>4. clone' \in [Dirs -> ClonedAs] /\ \A d \in Dirs : clone[d] \in Repos => clone'[d] = clone[d]
    BY <2>3 DEF GitInv, GitTypeOK
  <2> QED
    BY <2>2, <2>3, <2>4, OneWorktreeChanges
<1>9. CASE RestartGit \/ UNCHANGED gitVars
  <2>1. /\ clone' = clone /\ worktree' = worktree /\ branches' = branches /\ pushed' = pushed
        /\ edits' = edits /\ committed' = committed
    BY <1>9 DEF RestartGit, gitVars
  <2>2. clone' \in [Dirs -> ClonedAs] /\ \A d \in Dirs : clone[d] \in Repos => clone'[d] = clone[d]
    BY <2>1 DEF GitInv, GitTypeOK
  <2> QED
    BY <2>1, <2>2, OnlyClonesMove
<1> QED
  BY <1>1, <1>2, <1>3, <1>4, <1>5, <1>6, <1>7, <1>8, <1>9 DEF WorktreesNext

LEMMA GitInvHolds == GitInv => CommitsAreKept
<1> SUFFICES ASSUME GitInv PROVE CommitsAreKept
  OBVIOUS
<1>1. \A b \in BranchNames : \A n \in branches[b].commits : edits[n].issue = branches[b].by
  BY DEF GitInv, SoundBranch
<1>2. \A n \in committed : \E b \in BranchNames : n \in branches[b].commits
  BY DEF GitInv
<1>3. \A b \in PushedNames : \A n \in pushed[b] :
          \E d \in Dirs : clone[d] = b[1] /\ n \in branches[<<d, b[2]>>].commits
  BY DEF GitInv, SoundPush
<1> QED
  BY <1>1, <1>2, <1>3 DEF CommitsAreKept, BranchNames, PushedNames

\* However callers name branches, over restarts, killed clones and worktrees, cleanups and
\* issues taken up again: no commit is lost, a branch has commits of the one issue it was made
\* for, and what was pushed is on the branch of that name in a clone of the repository.
THEOREM CommitsAreAlwaysKept == WorktreesSpec => []CommitsAreKept
<1>1. WorktreesInit => GitInv
  BY GitInitially
<1>2. GitInv /\ [WorktreesNext]_gitVars => GitInv'
  BY GitStep
<1>3. GitInv => CommitsAreKept
  BY GitInvHolds
<1> QED
  BY <1>1, <1>2, <1>3, PTL DEF WorktreesSpec

-----------------------------------------------------------------------------
(* The webhooks                                                             *)

HooksTypeOK ==
    /\ hookClock \in Nat /\ hookClock <= MaxHookTime
    /\ DOMAIN stamps = Deliveries /\ DOMAIN accepted = Deliveries /\ DOMAIN routed = Deliveries
    /\ nonces \in [NonceIds -> Nat]
    /\ \A d \in Deliveries :
          stamps[d] # Unsent => stamps[d] \in Nat /\ stamps[d] <= hookClock + Ahead[d]

\* A copy taken: in the time of its stamp, and remembered for as long as a nonce lives.
TakenAt(d, t) ==
    /\ stamps[d] # Unsent /\ t \in Nat /\ t <= hookClock
    /\ t <= stamps[d] + Age /\ (Ahead[d] = 0 => stamps[d] <= t)
    /\ nonces[Nonce(d)] >= t + Age \/ hookClock >= t + Age
\* A nonce that lives came with a copy.
CameWithOne(n) ==
    nonces[n] > hookClock =>
        \E e \in Deliveries : Nonce(e) = n /\ \E t \in accepted[e] : nonces[n] <= t + Age

HooksInv ==
    /\ HooksTypeOK
    /\ \A d \in Deliveries : \A t \in accepted[d] : TakenAt(d, t)
    /\ \A d \in Deliveries : \A s, t \in accepted[d] : s < t => t - s >= Age
    /\ \A d \in Deliveries : routed[d] \subseteq accepted[d]
    /\ \A n \in NonceIds : CameWithOne(n)

LEMMA HooksInitially == WebhooksInit => HooksInv
<1> SUFFICES ASSUME WebhooksInit PROVE HooksInv
  OBVIOUS
<1>1. HooksTypeOK
  BY HooksAssumption DEF WebhooksInit, HooksTypeOK
<1> QED
  BY <1>1 DEF WebhooksInit, HooksInv, CameWithOne

LEMMA NonceOfSent ==
    ASSUME HooksTypeOK, NEW d \in Deliveries, stamps[d] # Unsent
    PROVE  Nonce(d) \in NonceIds
<1>1. stamps[d] \in 0..(2 * MaxHookTime)
  BY HooksAssumption DEF HooksTypeOK
<1> QED
  BY <1>1 DEF Nonce, NonceIds

LEMMA NonceStays == ASSUME NEW d, stamps'[d] = stamps[d] PROVE Nonce(d)' = Nonce(d)
BY DEF Nonce

\* The clock moves or stays, and what is forgotten has expired.
LEMMA NoncesForgotten ==
    ASSUME HooksInv, hookClock' \in Nat, hookClock' >= hookClock, hookClock' <= MaxHookTime,
           stamps' = stamps, accepted' = accepted, routed' = routed,
           nonces' \in [NonceIds -> Nat],
           \A n \in NonceIds : nonces'[n] = nonces[n] \/ (nonces'[n] = 0 /\ nonces[n] <= hookClock)
    PROVE  HooksInv'
<1> USE HooksAssumption
<1>1. HooksTypeOK'
  BY DEF HooksInv, HooksTypeOK
<1>2. ASSUME NEW d \in Deliveries, NEW t \in accepted[d] PROVE TakenAt(d, t)'
  <2>1. TakenAt(d, t)
    BY DEF HooksInv
  <2>2. Nonce(d) \in NonceIds /\ Nonce(d)' = Nonce(d)
    BY <2>1, NonceOfSent, NonceStays DEF HooksInv, TakenAt
  <2>3. PICK n \in NonceIds : n = Nonce(d)
    BY <2>2
  <2>4. nonces[n] \in Nat /\ hookClock \in Nat
    BY DEF HooksInv, HooksTypeOK
  <2>5. nonces'[n] >= t + Age \/ hookClock' >= t + Age
    BY <2>1, <2>3, <2>4 DEF TakenAt
  <2>6. t <= hookClock'
    BY <2>1, <2>4 DEF TakenAt
  <2> QED
    BY <2>1, <2>2, <2>3, <2>5, <2>6 DEF TakenAt
<1>3. ASSUME NEW n \in NonceIds PROVE CameWithOne(n)'
  <2>1. SUFFICES ASSUME nonces'[n] > hookClock'
                 PROVE  \E e \in Deliveries : Nonce(e)' = n /\ \E t \in accepted'[e] : nonces'[n] <= t + Age
    BY DEF CameWithOne
  <2>2. nonces'[n] = nonces[n] /\ nonces[n] > hookClock
    BY <2>1 DEF HooksInv, HooksTypeOK
  <2>3. PICK e \in Deliveries : Nonce(e) = n /\ \E t \in accepted[e] : nonces[n] <= t + Age
    BY <2>2 DEF HooksInv, CameWithOne
  <2>4. Nonce(e)' = n
    BY <2>3, NonceStays
  <2> QED
    BY <2>2, <2>3, <2>4
<1> QED
  BY <1>1, <1>2, <1>3 DEF HooksInv

LEMMA HooksStep == HooksInv /\ [WebhooksNext]_hookVars => HooksInv'
<1> SUFFICES ASSUME HooksInv, [WebhooksNext]_hookVars PROVE HooksInv'
  OBVIOUS
<1> USE HooksAssumption
<1>1. CASE HookTick
  <2>1. /\ hookClock' = hookClock + 1 /\ hookClock < MaxHookTime /\ stamps' = stamps
        /\ nonces' = nonces /\ accepted' = accepted /\ routed' = routed
    BY <1>1 DEF HookTick
  <2>2. hookClock \in Nat /\ nonces' \in [NonceIds -> Nat]
    BY <2>1 DEF HooksInv, HooksTypeOK
  <2>3. hookClock' \in Nat /\ hookClock' >= hookClock /\ hookClock' <= MaxHookTime
    BY <2>1, <2>2
  <2> QED
    BY <2>1, <2>2, <2>3, NoncesForgotten
<1>2. ASSUME NEW d \in Deliveries, Sends(d) PROVE HooksInv'
  <2>1. /\ stamps[d] = Unsent /\ stamps' = [stamps EXCEPT ![d] = hookClock + Ahead[d]]
        /\ hookClock' = hookClock /\ nonces' = nonces /\ accepted' = accepted /\ routed' = routed
    BY <1>2 DEF Sends
  <2>2. /\ DOMAIN stamps' = Deliveries /\ stamps'[d] = hookClock + Ahead[d]
        /\ \A e \in Deliveries \ {d} : stamps'[e] = stamps[e]
    BY <2>1 DEF HooksInv, HooksTypeOK
  <2>3. accepted[d] = {}
    BY <2>1 DEF HooksInv, TakenAt
  <2>4. HooksTypeOK'
    BY <2>1, <2>2 DEF HooksInv, HooksTypeOK
  <2>5. \A e \in Deliveries : accepted[e] # {} => stamps'[e] = stamps[e] /\ Nonce(e)' = Nonce(e)
    BY <2>2, <2>3, NonceStays
  <2>6. ASSUME NEW e \in Deliveries, NEW t \in accepted[e] PROVE TakenAt(e, t)'
    <3>1. TakenAt(e, t)
      BY DEF HooksInv
    <3> QED
      BY <2>1, <2>5, <3>1 DEF TakenAt
  <2>7. \A n \in NonceIds : CameWithOne(n)'
    BY <2>1, <2>5 DEF HooksInv, CameWithOne
  <2> QED
    BY <2>1, <2>4, <2>6, <2>7 DEF HooksInv
<1>3. ASSUME NEW d \in Deliveries, Duplicate(d) PROVE HooksInv'
  <2>1. /\ nonces' = [n \in NonceIds |-> Remembered(n)]
        /\ stamps' = stamps /\ hookClock' = hookClock /\ accepted' = accepted /\ routed' = routed
    BY <1>3 DEF Duplicate
  <2>2. hookClock \in Nat /\ nonces \in [NonceIds -> Nat] /\ hookClock <= MaxHookTime
    BY DEF HooksInv, HooksTypeOK
  <2>3. /\ nonces' \in [NonceIds -> Nat]
        /\ \A n \in NonceIds : nonces'[n] = nonces[n] \/ (nonces'[n] = 0 /\ nonces[n] <= hookClock)
    BY <2>1, <2>2 DEF Remembered
  <2> QED
    BY <2>1, <2>2, <2>3, NoncesForgotten
<1>4. ASSUME NEW d \in Deliveries, NEW processed \in BOOLEAN, Arrives(d, processed) PROVE HooksInv'
  <2>1. /\ Timely(d) /\ FreshNonce(d)
        /\ nonces' = [n \in NonceIds |-> IF n = Nonce(d) THEN hookClock + Age ELSE Remembered(n)]
        /\ accepted' = [accepted EXCEPT ![d] = accepted[d] \cup {hookClock}]
        /\ stamps' = stamps /\ hookClock' = hookClock
    BY <1>4 DEF Arrives
  <2>2. routed' = routed \/ routed' = [routed EXCEPT ![d] = routed[d] \cup {hookClock}]
    BY <1>4 DEF Arrives
  <2>3. hookClock \in Nat /\ nonces \in [NonceIds -> Nat] /\ hookClock <= MaxHookTime
    BY DEF HooksInv, HooksTypeOK
  <2>4. /\ DOMAIN accepted' = Deliveries /\ accepted'[d] = accepted[d] \cup {hookClock}
        /\ \A e \in Deliveries \ {d} : accepted'[e] = accepted[e]
    BY <2>1 DEF HooksInv, HooksTypeOK
  <2>5. /\ DOMAIN routed' = Deliveries /\ routed'[d] \subseteq routed[d] \cup {hookClock}
        /\ \A e \in Deliveries \ {d} : routed'[e] = routed[e]
    BY <2>2 DEF HooksInv, HooksTypeOK
  <2>6. stamps[d] # Unsent /\ stamps[d] \in Nat /\ stamps[d] <= hookClock + Ahead[d]
    BY <2>1 DEF Timely, HooksInv, HooksTypeOK
  <2>7. PICK m \in NonceIds : m = Nonce(d)
    BY <2>6, NonceOfSent DEF HooksInv
  <2>8. nonces[m] <= hookClock /\ hookClock <= stamps[d] + Age
    <3>1. nonces[m] \in Nat
      BY <2>3
    <3>2. nonces[m] <= hookClock
      BY <2>1, <2>3, <2>7, <3>1 DEF FreshNonce, Remembered
    <3>3. hookClock <= stamps[d] + Age
      BY <2>1, <2>3, <2>6 DEF Timely, Distance
    <3> QED
      BY <3>2, <3>3
  <2>9. /\ nonces' \in [NonceIds -> Nat] /\ nonces'[m] = hookClock + Age
        /\ \A n \in NonceIds \ {m} : nonces'[n] = IF nonces[n] > hookClock THEN nonces[n] ELSE 0
    BY <2>1, <2>3, <2>7 DEF Remembered
  <2>10. \A e \in Deliveries : Nonce(e)' = Nonce(e)
    BY <2>1, NonceStays
  <2>11. ASSUME NEW e \in Deliveries, NEW t \in accepted[e] PROVE TakenAt(e, t)'
    <3>1. TakenAt(e, t) /\ t \in Nat
      BY DEF HooksInv, TakenAt
    <3>2. PICK n \in NonceIds : n = Nonce(e)
      BY <3>1, NonceOfSent DEF HooksInv, TakenAt
    <3>3. nonces[n] \in Nat
      BY <2>3
    <3>4. nonces'[n] >= t + Age \/ hookClock >= t + Age
      <4>1. CASE n = m
        BY <2>3, <2>9, <3>1, <4>1 DEF TakenAt
      <4>2. CASE n # m
        BY <2>3, <2>9, <3>1, <3>2, <3>3, <4>2 DEF TakenAt
      <4> QED
        BY <4>1, <4>2
    <3> QED
      BY <2>1, <2>10, <3>1, <3>2, <3>4 DEF TakenAt
  <2>12. ASSUME NEW t, t = hookClock PROVE TakenAt(d, t)'
    <3>1. nonces'[Nonce(d)'] >= t + Age
      BY <2>3, <2>7, <2>9, <2>10, <2>12
    <3>2. t \in Nat /\ t <= hookClock /\ (Ahead[d] = 0 => stamps[d] <= t) /\ t <= stamps[d] + Age
      BY <2>3, <2>6, <2>8, <2>12
    <3> QED
      BY <2>1, <2>6, <3>1, <3>2 DEF TakenAt
  <2>13. ASSUME NEW e \in Deliveries, NEW t \in accepted'[e] PROVE TakenAt(e, t)'
    <3>1. CASE t \in accepted[e]
      BY <2>11, <3>1
    <3>2. CASE t \notin accepted[e]
      <4>1. e = d /\ t = hookClock
        BY <2>4, <3>2
      <4> QED
        BY <2>12, <4>1
    <3> QED
      BY <3>1, <3>2
  \* Whatever was taken of this request before, its nonce has expired.
  <2>14. ASSUME NEW t \in accepted[d] PROVE t \in Nat /\ hookClock - t >= Age
    <3>1. TakenAt(d, t) /\ nonces[m] \in Nat
      BY <2>3 DEF HooksInv
    <3> QED
      BY <2>3, <2>7, <2>8, <3>1 DEF TakenAt
  <2>15. ASSUME NEW e \in Deliveries, NEW s \in accepted'[e], NEW t \in accepted'[e], s < t
         PROVE  t - s >= Age
    <3>1. CASE s \in accepted[e] /\ t \in accepted[e]
      BY <2>15, <3>1 DEF HooksInv
    <3>2. CASE ~(s \in accepted[e] /\ t \in accepted[e])
      <4>1. e = d /\ (s = hookClock \/ t = hookClock)
        BY <2>4, <3>2
      <4>2. s \in accepted[d] \cup {hookClock} /\ t \in accepted[d] \cup {hookClock}
        BY <2>4, <4>1
      <4>3. CASE t = hookClock
        <5>1. s \in accepted[d]
          BY <2>3, <2>15, <4>2, <4>3
        <5> QED
          BY <2>14, <4>3, <5>1
      <4>4. CASE s = hookClock /\ t # hookClock
        <5>1. t \in accepted[d]
          BY <4>2, <4>4
        <5>2. t \in Nat /\ t <= hookClock
          BY <5>1 DEF HooksInv, TakenAt
        <5> QED
          BY <2>3, <2>15, <4>4, <5>2
      <4> QED
        BY <4>1, <4>3, <4>4
    <3> QED
      BY <3>1, <3>2
  <2>16. ASSUME NEW n \in NonceIds PROVE CameWithOne(n)'
    <3>1. CASE n = m
      <4>1. hookClock \in accepted'[d] /\ nonces'[n] <= hookClock + Age /\ Nonce(d)' = n
        BY <2>3, <2>4, <2>7, <2>9, <2>10, <3>1
      <4> QED
        BY <4>1 DEF CameWithOne
    <3>2. CASE n # m
      <4>1. SUFFICES ASSUME nonces'[n] > hookClock'
                     PROVE  \E e \in Deliveries :
                                Nonce(e)' = n /\ \E t \in accepted'[e] : nonces'[n] <= t + Age
        BY DEF CameWithOne
      <4>2. nonces'[n] = nonces[n] /\ nonces[n] > hookClock
        BY <2>1, <2>3, <2>9, <3>2, <4>1
      <4>3. PICK e \in Deliveries : Nonce(e) = n /\ \E t \in accepted[e] : nonces[n] <= t + Age
        BY <4>2 DEF HooksInv, CameWithOne
      <4>4. accepted[e] \subseteq accepted'[e]
        BY <2>4
      <4> QED
        BY <2>10, <4>2, <4>3, <4>4
    <3> QED
      BY <3>1, <3>2
  <2>17. \A e \in Deliveries : routed'[e] \subseteq accepted'[e]
    BY <2>4, <2>5 DEF HooksInv
  <2>18. HooksTypeOK'
    BY <2>1, <2>3, <2>4, <2>5, <2>9 DEF HooksInv, HooksTypeOK
  <2> QED
    BY <2>13, <2>15, <2>16, <2>17, <2>18 DEF HooksInv
<1>5. CASE UNCHANGED hookVars
  <2>1. /\ hookClock' = hookClock /\ stamps' = stamps /\ nonces' = nonces
        /\ accepted' = accepted /\ routed' = routed
    BY <1>5 DEF hookVars
  <2>2. hookClock \in Nat /\ nonces' \in [NonceIds -> Nat] /\ hookClock <= MaxHookTime
    BY <2>1 DEF HooksInv, HooksTypeOK
  <2> QED
    BY <2>1, <2>2, NoncesForgotten
<1> QED
  BY <1>1, <1>2, <1>3, <1>4, <1>5 DEF WebhooksNext

LEMMA HooksInvHolds == HooksInv => CopiesAreTold
<1> SUFFICES ASSUME HooksInv, NEW d \in Deliveries
             PROVE  /\ Ahead[d] = 0 => /\ Cardinality(accepted[d]) <= 2
                                       /\ \A s, t \in accepted[d] : s < t => t = stamps[d] + Age
                    /\ \A s, t \in accepted[d] : s < t => t - s >= Age
                    /\ routed[d] \subseteq accepted[d]
                    /\ Timely(d) /\ ~FreshNonce(d) =>
                          \E e \in Deliveries : /\ Nonce(e) = Nonce(d)
                                                /\ \E t \in accepted[e] : hookClock - t < Age
  BY DEF CopiesAreTold
<1> USE HooksAssumption
<1>1. ASSUME Ahead[d] = 0
      PROVE  /\ Cardinality(accepted[d]) <= 2
             /\ \A s, t \in accepted[d] : s < t => t = stamps[d] + Age
  <2>1. \A t \in accepted[d] : /\ t \in Nat /\ stamps[d] \in Nat /\ stamps[d] <= t
                               /\ t <= stamps[d] + Age
    BY <1>1 DEF HooksInv, HooksTypeOK, TakenAt
  <2>2. ASSUME NEW s \in accepted[d], NEW t \in accepted[d], s < t
        PROVE  t = stamps[d] + Age /\ s = stamps[d]
    <3>1. t - s >= Age
      BY <2>2 DEF HooksInv
    <3> QED
      BY <2>1, <3>1
  <2>3. PICK a, b : accepted[d] \subseteq {a, b}
    <3>1. CASE \A s, t \in accepted[d] : ~(s < t)
      <4>1. \A s, t \in accepted[d] : s = t
        BY <2>1, <3>1
      <4> QED
        BY <4>1
    <3>2. CASE \E s, t \in accepted[d] : s < t
      <4>1. PICK s \in accepted[d], t \in accepted[d] : s < t
        BY <3>2
      <4>2. \A x \in accepted[d] : x = s \/ x = t
        <5>1. TAKE x \in accepted[d]
        <5>2. x \in Nat /\ s \in Nat /\ t \in Nat
          BY <2>1
        <5>3. CASE x < t
          <6>1. x = stamps[d] /\ s = stamps[d]
            BY <2>2, <4>1, <5>3
          <6> QED
            BY <6>1
        <5>4. CASE x >= t
          <6>1. t = stamps[d] + Age /\ x <= stamps[d] + Age
            BY <2>1, <2>2, <4>1
          <6> QED
            BY <2>1, <5>2, <5>4, <6>1
        <5> QED
          BY <5>2, <5>3, <5>4
      <4> QED
        BY <4>2
    <3> QED
      BY <3>1, <3>2
  <2>4. PICK A : A = {a}
    OBVIOUS
  <2>5. IsFiniteSet(A) /\ Cardinality(A) = 1 /\ {a, b} = A \cup {b}
    BY <2>4, FS_Singleton
  <2>6. IsFiniteSet({a, b}) /\ Cardinality({a, b}) <= 2
    <3>1. PICK c : c = Cardinality(A \cup {b})
      OBVIOUS
    <3>2. IsFiniteSet(A \cup {b}) /\ (c = 1 \/ c = 1 + 1)
      BY <2>5, <3>1, FS_AddElement
    <3>3. c <= 2
      BY <3>2
    <3> QED
      BY <2>5, <3>1, <3>2, <3>3
  <2>7. PICK x, y : x = Cardinality(accepted[d]) /\ y = Cardinality({a, b})
    OBVIOUS
  <2>8. IsFiniteSet(accepted[d]) /\ x <= y
    BY <2>3, <2>6, <2>7, FS_Subset
  <2>9. x \in Nat /\ y \in Nat
    BY <2>6, <2>7, <2>8, FS_CardinalityType
  <2>10. x <= 2
    BY <2>6, <2>7, <2>8, <2>9
  <2> QED
    BY <2>2, <2>7, <2>10
<1>2. ASSUME Timely(d), ~FreshNonce(d)
      PROVE  \E e \in Deliveries : /\ Nonce(e) = Nonce(d)
                                   /\ \E t \in accepted[e] : hookClock - t < Age
  <2>1. PICK m \in NonceIds : m = Nonce(d)
    BY <1>2, NonceOfSent DEF HooksInv, Timely
  <2>2. hookClock \in Nat /\ nonces[m] \in Nat
    BY DEF HooksInv, HooksTypeOK
  <2>3. nonces[m] > hookClock
    BY <1>2, <2>1 DEF FreshNonce, Remembered
  <2>4. PICK e \in Deliveries : Nonce(e) = m /\ \E t \in accepted[e] : nonces[m] <= t + Age
    BY <2>3 DEF HooksInv, CameWithOne
  <2>5. PICK t \in accepted[e] : nonces[m] <= t + Age
    BY <2>4
  <2>6. t \in Nat
    BY DEF HooksInv, TakenAt
  <2>7. hookClock - t < Age
    BY <2>2, <2>3, <2>5, <2>6
  <2> QED
    BY <2>1, <2>4, <2>7
<1> QED
  BY <1>1, <1>2 DEF HooksInv

\* However often a request is sent again: one whose sender's clock agrees is taken once until
\* the last moment of its stamp, any other at times a nonce's life apart, and one is refused as
\* a duplicate only when one with its nonce was taken within that time.
THEOREM CopiesAreAlwaysTold == WebhooksSpec => []CopiesAreTold
<1>1. WebhooksInit => HooksInv
  BY HooksInitially
<1>2. HooksInv /\ [WebhooksNext]_hookVars => HooksInv'
  BY HooksStep
<1>3. HooksInv => CopiesAreTold
  BY HooksInvHolds
<1> QED
  BY <1>1, <1>2, <1>3, PTL DEF WebhooksSpec

-----------------------------------------------------------------------------
(* The levels                                                               *)

\* A function by recursion on smaller numbers, up to n: z on Base, elsewhere G of its value
\* at P.
Recurses(f, n, Base, z, P, G) ==
    /\ DOMAIN f = 0..n
    /\ \A m \in 0..n : f[m] \in Nat /\ f[m] = (IF m \in Base THEN z ELSE G[f[P[m]]])
Descends(P, Base) == P \in [Nat -> Nat] /\ \A i \in Nat \ Base : P[i] < i
RecursesAlways(h, Base, z, P, G) ==
    \A i \in Nat : h[i] = (IF i \in Base THEN z ELSE G[h[P[i]]])

LEMMA RecursionIsUnique ==
    ASSUME NEW Base, NEW z, NEW P, Descends(P, Base), NEW G \in [Nat -> Nat],
           NEW n \in Nat, NEW m \in Nat, NEW f, NEW g,
           Recurses(f, n, Base, z, P, G), Recurses(g, m, Base, z, P, G)
    PROVE  \A i \in Nat : i <= n /\ i <= m => f[i] = g[i]
<1> DEFINE Bad == {i \in Nat : i <= n /\ i <= m /\ f[i] # g[i]}
<1> SUFFICES ASSUME NEW e \in Bad PROVE FALSE
  OBVIOUS
<1>1. PICK i \in Bad : \A j \in Bad : i <= j
  <2>1. Bad \subseteq Nat
    OBVIOUS
  <2> HIDE DEF Bad
  <2> QED
    BY <2>1, LeastNatural
<1>2. /\ f[i] = (IF i \in Base THEN z ELSE G[f[P[i]]])
      /\ g[i] = (IF i \in Base THEN z ELSE G[g[P[i]]])
  <2>1. i \in 0..n /\ i \in 0..m
    OBVIOUS
  <2> QED
    BY <2>1 DEF Recurses
<1>3. i \notin Base
  BY <1>1, <1>2
<1>4. P[i] \in Nat /\ P[i] < i
  BY <1>3 DEF Descends
<1>5. P[i] <= n /\ P[i] <= m /\ P[i] \notin Bad
  BY <1>1, <1>4
<1>6. f[P[i]] = g[P[i]]
  BY <1>4, <1>5
<1> QED
  BY <1>1, <1>2, <1>3, <1>6

\* There is such a function on all numbers.
LEMMA RecursionExists ==
    ASSUME NEW Base, NEW z \in Nat, NEW P, Descends(P, Base), NEW G \in [Nat -> Nat]
    PROVE  \E h \in [Nat -> Nat] : RecursesAlways(h, Base, z, P, G)
<1>0. P \in [Nat -> Nat] /\ \A i \in Nat \ Base : P[i] < i
  BY DEF Descends
<1> DEFINE Good == {n \in Nat : \E f : Recurses(f, n, Base, z, P, G)}
<1>1. 0 \in Good
  <2>1. 0 \in Base
    <3>1. ~(P[0] < 0)
      BY <1>0
    <3> QED
      BY <1>0, <3>1
  <2>2. PICK f : f = [m \in 0..0 |-> z]
    OBVIOUS
  <2>3. Recurses(f, 0, Base, z, P, G)
    BY <2>1, <2>2 DEF Recurses
  <2> QED
    BY <2>3
<1>2. ASSUME NEW n \in Nat, n \in Good PROVE n + 1 \in Good
  <2>1. PICK f : Recurses(f, n, Base, z, P, G)
    BY <1>2
  <2>2. PICK k \in Nat : k = n + 1
    OBVIOUS
  <2>3. PICK v : v = (IF k \in Base THEN z ELSE G[f[P[k]]])
    OBVIOUS
  <2>4. v \in Nat
    <3>1. CASE k \in Base
      BY <2>3, <3>1
    <3>2. CASE k \notin Base
      <4>1. P[k] \in Nat /\ P[k] < k
        BY <1>0, <3>2
      <4>2. P[k] \in 0..n
        BY <2>2, <4>1
      <4>3. f[P[k]] \in Nat
        BY <2>1, <4>2 DEF Recurses
      <4> QED
        BY <2>3, <3>2, <4>3
    <3> QED
      BY <3>1, <3>2
  <2>5. PICK g : g = [m \in 0..k |-> IF m = k THEN v ELSE f[m]]
    OBVIOUS
  <2>6. DOMAIN g = 0..k /\ g[k] = v /\ \A m \in 0..n : g[m] = f[m]
    BY <2>2, <2>5
  <2>7. ASSUME NEW m \in 0..k
        PROVE  g[m] \in Nat /\ g[m] = (IF m \in Base THEN z ELSE G[g[P[m]]])
    <3>1. CASE m \in Base
      <4>1. CASE m = k
        BY <2>3, <2>4, <2>6, <3>1, <4>1
      <4>2. CASE m # k
        <5>1. m \in 0..n
          BY <2>2, <4>2
        <5> QED
          BY <2>1, <2>6, <3>1, <5>1 DEF Recurses
      <4> QED
        BY <4>1, <4>2
    <3>2. CASE m \notin Base
      <4>1. P[m] \in Nat /\ P[m] < m
        BY <1>0, <3>2
      <4>2. P[m] \in 0..n
        BY <2>2, <4>1
      <4>3. g[P[m]] = f[P[m]]
        BY <2>6, <4>2
      <4>4. CASE m = k
        BY <2>3, <2>4, <2>6, <3>2, <4>3, <4>4
      <4>5. CASE m # k
        <5>1. m \in 0..n
          BY <2>2, <4>5
        <5> QED
          BY <2>1, <2>6, <3>2, <4>3, <5>1 DEF Recurses
      <4> QED
        BY <4>4, <4>5
    <3> QED
      BY <3>1, <3>2
  <2>8. Recurses(g, k, Base, z, P, G)
    BY <2>6, <2>7 DEF Recurses
  <2> QED
    BY <2>2, <2>8
<1>3. Nat \subseteq Good
  <2> HIDE DEF Good
  <2> QED
    BY <1>1, <1>2, NaturalsByOne
<1>4. PICK F : F = [n \in Nat |-> CHOOSE f : Recurses(f, n, Base, z, P, G)]
  OBVIOUS
<1>5. ASSUME NEW n \in Nat PROVE Recurses(F[n], n, Base, z, P, G)
  <2>1. \E f : Recurses(f, n, Base, z, P, G)
    BY <1>3
  <2>2. F[n] = CHOOSE f : Recurses(f, n, Base, z, P, G)
    BY <1>4
  <2> QED
    BY <2>1, <2>2
<1>6. PICK h : h = [n \in Nat |-> F[n][n]]
  OBVIOUS
<1>7. ASSUME NEW n \in Nat
      PROVE  h[n] \in Nat /\ h[n] = (IF n \in Base THEN z ELSE G[h[P[n]]])
  <2>1. h[n] = F[n][n] /\ n \in 0..n
    BY <1>6
  <2>2. F[n][n] \in Nat /\ F[n][n] = (IF n \in Base THEN z ELSE G[F[n][P[n]]])
    BY <1>5, <2>1 DEF Recurses
  <2>3. CASE n \notin Base
    <3>1. PICK m \in Nat : m = P[n] /\ m <= n /\ m <= m
      BY <1>0, <2>3
    <3>2. PICK f, g : f = F[n] /\ g = F[m]
      OBVIOUS
    <3>3. Recurses(f, n, Base, z, P, G) /\ Recurses(g, m, Base, z, P, G)
      BY <1>5, <3>2
    <3>4. f[m] = g[m]
      BY <3>1, <3>3, RecursionIsUnique
    <3>5. h[m] = F[m][m]
      BY <1>6
    <3> QED
      BY <2>1, <2>2, <2>3, <3>1, <3>2, <3>4, <3>5
  <2> QED
    BY <2>1, <2>2, <2>3
<1>8. h \in [Nat -> Nat]
  BY <1>6, <1>7
<1> QED
  BY <1>7, <1>8 DEF RecursesAlways

\* The halvings and the powers of two are functions on all numbers.
LEMMA Log2Value ==
    /\ Log2 \in [Nat -> Nat]
    /\ \A n \in Nat : Log2[n] = (IF n <= 1 THEN 0 ELSE 1 + Log2[n \div 2])
<1>1. PICK Base, P, G : /\ Base = {0, 1} /\ P = [n \in Nat |-> n \div 2]
                        /\ G = [n \in Nat |-> 1 + n]
  OBVIOUS
<1>2. P \in [Nat -> Nat] /\ G \in [Nat -> Nat]
  BY <1>1
<1>3. Descends(P, Base)
  BY <1>1, <1>2 DEF Descends
<1>4. PICK h \in [Nat -> Nat] : \A n \in Nat : h[n] = (IF n \in Base THEN 0 ELSE G[h[P[n]]])
  <2>1. \E h \in [Nat -> Nat] : RecursesAlways(h, Base, 0, P, G)
    BY <1>2, <1>3, RecursionExists
  <2> QED
    BY <2>1 DEF RecursesAlways
<1>5. ASSUME NEW n \in Nat PROVE h[n] = (IF n <= 1 THEN 0 ELSE 1 + h[n \div 2])
  <2>1. n \in Base <=> n <= 1
    BY <1>1
  <2>2. P[n] = n \div 2 /\ n \div 2 \in Nat
    BY <1>1
  <2>3. h[n \div 2] \in Nat
    BY <2>2
  <2>4. G[h[n \div 2]] = 1 + h[n \div 2]
    BY <1>1, <2>3
  <2> QED
    BY <1>4, <2>1, <2>2, <2>4
<1>6. h = [n \in Nat |-> IF n <= 1 THEN 0 ELSE 1 + h[n \div 2]]
  BY <1>5
<1>7. Log2 = [n \in Nat |-> IF n <= 1 THEN 0 ELSE 1 + Log2[n \div 2]]
  BY <1>6, Zenon DEF Log2
<1>8. \A n \in Nat : Log2[n] = (IF n <= 1 THEN 0 ELSE 1 + Log2[n \div 2])
  BY <1>7, Zenon
<1>9. DOMAIN Log2 = Nat
  BY <1>7, Zenon
<1> DEFINE Bad == {n \in Nat : Log2[n] \notin Nat}
<1>10. ASSUME NEW e \in Bad PROVE FALSE
  <2>1. PICK i \in Bad : \A j \in Bad : i <= j
    <3>1. Bad \subseteq Nat
      OBVIOUS
    <3> HIDE DEF Bad
    <3> QED
      BY <1>10, <3>1, LeastNatural
  <2>2. i > 1
    BY <1>8
  <2>3. i \div 2 \in Nat /\ i \div 2 < i
    BY <2>2
  <2>4. Log2[i \div 2] \in Nat
    BY <2>1, <2>3
  <2> QED
    BY <1>8, <2>2, <2>4
<1>11. Log2 \in [Nat -> Nat]
  <2>1. \A n \in Nat : Log2[n] \in Nat
    BY <1>10
  <2> QED
    BY <1>7, <2>1, Zenon
<1> QED
  BY <1>8, <1>11

LEMMA TwoToValue ==
    /\ TwoTo \in [Nat -> Nat] /\ TwoTo[0] = 1
    /\ \A n \in Nat : TwoTo[n + 1] = 2 * TwoTo[n]
<1>1. PICK Base, P, G : /\ Base = {0} /\ P = [n \in Nat |-> IF n = 0 THEN 0 ELSE n - 1]
                        /\ G = [n \in Nat |-> 2 * n]
  OBVIOUS
<1>2. P \in [Nat -> Nat] /\ G \in [Nat -> Nat]
  BY <1>1
<1>3. Descends(P, Base)
  BY <1>1, <1>2 DEF Descends
<1>4. PICK h \in [Nat -> Nat] : \A n \in Nat : h[n] = (IF n \in Base THEN 1 ELSE G[h[P[n]]])
  <2>1. \E h \in [Nat -> Nat] : RecursesAlways(h, Base, 1, P, G)
    BY <1>2, <1>3, RecursionExists
  <2> QED
    BY <2>1 DEF RecursesAlways
<1>5. ASSUME NEW n \in Nat PROVE h[n] = (IF n = 0 THEN 1 ELSE 2 * h[n - 1])
  <2>1. n \in Base <=> n = 0
    BY <1>1
  <2>2. CASE n # 0
    <3>1. P[n] = n - 1 /\ n - 1 \in Nat
      BY <1>1, <2>2
    <3>2. h[n - 1] \in Nat
      BY <3>1
    <3>3. G[h[n - 1]] = 2 * h[n - 1]
      BY <1>1, <3>2
    <3> QED
      BY <1>4, <2>1, <2>2, <3>1, <3>3
  <2> QED
    BY <1>4, <2>1, <2>2
<1>6. h = [n \in Nat |-> IF n = 0 THEN 1 ELSE 2 * h[n - 1]]
  BY <1>5
<1>7. TwoTo = [n \in Nat |-> IF n = 0 THEN 1 ELSE 2 * TwoTo[n - 1]]
  BY <1>6, Zenon DEF TwoTo
<1>8. \A n \in Nat : TwoTo[n] = (IF n = 0 THEN 1 ELSE 2 * TwoTo[n - 1])
  BY <1>7, Zenon
<1>9. TwoTo[0] = 1
  BY <1>8
<1>10. ASSUME NEW n \in Nat PROVE TwoTo[n + 1] = 2 * TwoTo[n]
  <2>1. n + 1 \in Nat /\ n + 1 # 0 /\ n + 1 - 1 = n
    OBVIOUS
  <2> QED
    BY <1>8, <2>1
<1> DEFINE Good == {n \in Nat : TwoTo[n] \in Nat}
<1>11. Nat \subseteq Good
  <2>1. 0 \in Good /\ \A n \in Nat : n \in Good => n + 1 \in Good
    BY <1>9, <1>10
  <2> HIDE DEF Good
  <2> QED
    BY <2>1, NaturalsByOne
<1>12. TwoTo \in [Nat -> Nat]
  <2>1. \A n \in Nat : TwoTo[n] \in Nat
    BY <1>11
  <2> QED
    BY <1>7, <2>1, Zenon
<1> QED
  BY <1>9, <1>10, <1>12

LEMMA TwoToGrows ==
    ASSUME NEW a \in Nat, NEW b \in Nat, a <= b PROVE TwoTo[a] <= TwoTo[b]
<1> DEFINE Good == {n \in Nat : TwoTo[a] <= TwoTo[a + n]}
<1>1. 0 \in Good
  <2>1. a + 0 = a /\ TwoTo[a] \in Nat
    BY TwoToValue
  <2> QED
    BY <2>1
<1>2. ASSUME NEW n \in Nat, n \in Good PROVE n + 1 \in Good
  <2>1. a + n \in Nat /\ a + (n + 1) = (a + n) + 1
    OBVIOUS
  <2>2. TwoTo[a + (n + 1)] = 2 * TwoTo[a + n]
    BY <2>1, TwoToValue
  <2>3. TwoTo[a] \in Nat /\ TwoTo[a + n] \in Nat
    BY <2>1, TwoToValue
  <2> QED
    BY <1>2, <2>2, <2>3
<1>3. Nat \subseteq Good
  <2> HIDE DEF Good
  <2> QED
    BY <1>1, <1>2, NaturalsByOne
<1>4. b - a \in Nat /\ a + (b - a) = b
  OBVIOUS
<1> QED
  BY <1>3, <1>4

\* The halvings of a number are its logarithm.
LEMMA Log2Bounds ==
    ASSUME NEW p \in Nat \ {0}
    PROVE  TwoTo[Log2[p]] <= p /\ p < TwoTo[Log2[p] + 1]
<1> DEFINE Within(n) == TwoTo[Log2[n]] <= n /\ n < TwoTo[Log2[n] + 1]
           Bad == {n \in Nat \ {0} : ~Within(n)}
<1> SUFFICES ASSUME p \in Bad PROVE FALSE
  OBVIOUS
<1>1. PICK i \in Bad : \A j \in Bad : i <= j
  <2>1. Bad \subseteq Nat
    OBVIOUS
  <2> HIDE DEF Bad
  <2> QED
    BY <2>1, LeastNatural
<1>2. i \in Nat /\ i > 1
  <2>1. Log2[1] = 0 /\ TwoTo[0] = 1 /\ TwoTo[0 + 1] = 2 * TwoTo[0]
    BY Log2Value, TwoToValue
  <2>2. Within(1)
    BY <2>1
  <2>3. i # 1
    BY <2>2
  <2> QED
    BY <2>3
<1>3. PICK j \in Nat : j = i \div 2
  BY <1>2
<1>4. j # 0 /\ j < i /\ (i = 2 * j \/ i = 2 * j + 1)
  BY <1>2, <1>3
<1>5. Within(j)
  BY <1>1, <1>4
<1>6. PICK l \in Nat : l = Log2[j]
  BY Log2Value
<1>7. Log2[i] = l + 1
  <2>1. Log2[i] = 1 + Log2[i \div 2]
    BY <1>2, Log2Value
  <2> QED
    BY <1>3, <1>6, <2>1
<1>8. PICK x \in Nat, y \in Nat : x = TwoTo[l] /\ y = TwoTo[l + 1]
  <2>1. l + 1 \in Nat
    OBVIOUS
  <2> QED
    BY <2>1, TwoToValue
<1>9. x <= j /\ j < y
  BY <1>5, <1>6, <1>8
<1>10. TwoTo[l + 1] = 2 * x /\ TwoTo[(l + 1) + 1] = 2 * y
  BY <1>8, TwoToValue
<1>11. 2 * x <= i /\ i < 2 * y
  BY <1>4, <1>9
<1>12. Within(i)
  BY <1>7, <1>10, <1>11
<1> QED
  BY <1>12

LEMMA LevelsHold ==
    ASSUME TopLevel \in Nat PROVE LevelsAreEarned
<1> SUFFICES ASSUME NEW p \in 0 .. PointsForLevel(TopLevel + 1)
             PROVE  /\ PointsForLevel(LevelOf(p)) <= p
                    /\ LevelOf(p) < TopLevel => p < PointsForLevel(LevelOf(p) + 1)
  BY DEF LevelsAreEarned
<1>1. p \in Nat
  OBVIOUS
<1>2. TwoTo[0] = 1 /\ TwoTo[0 + 1] = 2 * TwoTo[0]
  BY TwoToValue
<1>3. CASE p = 0
  <2>1. LevelOf(p) = 0
    BY <1>3 DEF LevelOf
  <2> QED
    BY <1>2, <1>3, <2>1 DEF PointsForLevel
<1>4. CASE p # 0
  <2>1. PICK n \in Nat \ {0} : n = p + 1
    BY <1>1
  <2>2. PICK l \in Nat : l = Log2[n]
    BY Log2Value
  <2>3. TwoTo[l] <= n /\ n < TwoTo[l + 1]
    BY <2>2, Log2Bounds
  <2>4. PICK m \in Nat : /\ m = LevelOf(p) /\ m <= l
                         /\ (m < TopLevel => m = l)
    <3>1. LevelOf(p) = Min({l, TopLevel})
      BY <1>1, <1>4, <2>1, <2>2 DEF LevelOf
    <3>2. \E x \in {l, TopLevel} : \A y \in {l, TopLevel} : x <= y
      OBVIOUS
    <3>3. /\ Min({l, TopLevel}) \in {l, TopLevel}
          /\ \A y \in {l, TopLevel} : Min({l, TopLevel}) <= y
      BY <3>2 DEF Min
    <3> QED
      BY <3>1, <3>3
  <2>5. TwoTo[m] <= TwoTo[l] /\ TwoTo[m] \in Nat /\ TwoTo[l] \in Nat /\ TwoTo[m + 1] \in Nat
    <3>1. m + 1 \in Nat
      OBVIOUS
    <3> QED
      BY <2>4, <3>1, TwoToGrows, TwoToValue
  <2>6. TwoTo[m] - 1 <= p
    BY <1>1, <2>1, <2>3, <2>5
  <2>7. m < TopLevel => p < TwoTo[m + 1] - 1
    BY <1>1, <2>1, <2>3, <2>4, <2>5
  <2> QED
    BY <2>4, <2>6, <2>7 DEF PointsForLevel
<1> QED
  BY <1>3, <1>4

-----------------------------------------------------------------------------
(* The reports                                                              *)

RecordRow == [of : Outcomes, at : Nat, task : {""}, provider : {""}]
UseRow == [provider : Providers, tokens : Nat, at : Nat]

\* The outcomes the store in memory has dropped.
Evicted == IF outcomeStore = "memory" THEN Max({Len(history) - MaxKept, 0}) ELSE 0
UsesIn(p, key) == {k \in DOMAIN uses : uses[k].provider = p /\ CycleKeyAt(p, uses[k].at) = key}
TokensIn(p, key) == SumFunction([k \in UsesIn(p, key) |-> uses[k].tokens])

ReportsInv ==
    /\ outcomeStore \in {"memory", "postgres"} /\ halfDay \in Nat
    /\ history \in Seq(RecordRow) /\ outcomes \in Seq(RecordRow) /\ uses \in Seq(UseRow)
    /\ Evicted \in Nat /\ Len(outcomes) = Len(history) - Evicted
    /\ \A k \in DOMAIN outcomes : outcomes[k] = history[k + Evicted]
    /\ \A p \in Providers : \A key : UsageOf(p, key) = TokensIn(p, key)

LEMMA MaxWithZero ==
    ASSUME NEW n \in Int PROVE Max({n, 0}) = IF n >= 0 THEN n ELSE 0
<1>1. IsFiniteSet({n, 0})
  <2>1. IsFiniteSet({}) /\ {n, 0} = ({} \cup {0}) \cup {n}
    BY FS_EmptySet
  <2>2. IsFiniteSet({} \cup {0})
    BY <2>1, FS_AddElement
  <2> QED
    BY <2>1, <2>2, FS_AddElement
<1>2. {n, 0} # {} /\ {n, 0} \subseteq Int
  OBVIOUS
<1>3. Max({n, 0}) \in {n, 0} /\ \A m \in {n, 0} : m <= Max({n, 0})
  BY <1>1, <1>2, GreatestInteger
<1> QED
  BY <1>3

LEMMA EvictedValue ==
    ASSUME NEW len \in Nat, len = Len(history), MaxKept \in Nat
    PROVE  Evicted = IF outcomeStore = "memory" /\ len >= MaxKept THEN len - MaxKept ELSE 0
<1>1. Max({len - MaxKept, 0}) = IF len - MaxKept >= 0 THEN len - MaxKept ELSE 0
  BY MaxWithZero
<1> QED
  BY <1>1 DEF Evicted

LEMMA ReportsInitially == ReportsInit => ReportsInv
<1> SUFFICES ASSUME ReportsInit PROVE ReportsInv
  OBVIOUS
<1> USE ReportsAssumption
<1>1. /\ history = <<>> /\ outcomes = <<>> /\ uses = <<>> /\ halfDay = 0
      /\ usage = [x \in {} |-> 0] /\ outcomeStore \in {"memory", "postgres"}
  BY DEF ReportsInit
<1>2. /\ <<>> \in Seq(RecordRow) /\ <<>> \in Seq(UseRow) /\ Len(<<>>) = 0 /\ DOMAIN <<>> = {}
  BY EmptySeq
<1>3. Evicted = 0
  <2>1. PICK len \in Nat : len = Len(history) /\ len = 0
    BY <1>1, <1>2
  <2>2. Evicted = IF outcomeStore = "memory" /\ len >= MaxKept THEN len - MaxKept ELSE 0
    BY <2>1, EvictedValue
  <2> QED
    BY <2>1, <2>2
<1>4. ASSUME NEW p \in Providers, NEW key PROVE UsageOf(p, key) = TokensIn(p, key)
  <2>1. UsageOf(p, key) = 0
    BY <1>1 DEF UsageOf
  <2>2. UsesIn(p, key) = {}
    BY <1>1, <1>2 DEF UsesIn
  <2>3. [k \in UsesIn(p, key) |-> uses[k].tokens] = [k \in {} |-> 0]
    BY <2>2
  <2>4. SumFunction([k \in {} |-> 0]) = 0
    BY FS_EmptySet, SumOfZeros
  <2> QED
    BY <2>1, <2>3, <2>4 DEF TokensIn
<1> QED
  BY <1>1, <1>2, <1>3, <1>4 DEF ReportsInv

LEMMA UsesAreFinite ==
    ASSUME uses \in Seq(UseRow), NEW p, NEW key
    PROVE  /\ IsFiniteSet(UsesIn(p, key))
           /\ [k \in UsesIn(p, key) |-> uses[k].tokens] \in [UsesIn(p, key) -> Int]
<1>1. PICK len \in Nat : len = Len(uses) /\ DOMAIN uses = 1..len
  BY LenProperties
<1>2. IsFiniteSet(1..len)
  BY FS_Interval
<1>3. UsesIn(p, key) \subseteq 1..len
  BY <1>1 DEF UsesIn
<1>4. \A k \in 1..len : uses[k] \in UseRow
  BY <1>1, ElementOfSeq
<1>5. \A k \in UsesIn(p, key) : uses[k].tokens \in Int
  BY <1>3, <1>4 DEF UseRow
<1> QED
  BY <1>2, <1>3, <1>5, FS_Subset

\* A use adds to the tokens of its provider's cycle and of no other.
LEMMA UseAppended ==
    ASSUME uses \in Seq(UseRow), NEW row \in UseRow, uses' = Append(uses, row), NEW p, NEW key
    PROVE  TokensIn(p, key)' = TokensIn(p, key)
              + (IF row.provider = p /\ CycleKeyAt(p, row.at) = key THEN row.tokens ELSE 0)
<1>1. PICK len \in Nat : len = Len(uses) /\ DOMAIN uses = 1..len
  BY LenProperties
<1>2. PICK u : u = uses'
  OBVIOUS
<1>3. /\ u \in Seq(UseRow) /\ DOMAIN u = 1..(len + 1) /\ u[len + 1] = row
      /\ \A k \in 1..len : u[k] = uses[k]
  <2>1. u \in Seq(UseRow) /\ Len(u) = len + 1
    BY <1>1, <1>2, AppendProperties
  <2>2. DOMAIN u = 1..(len + 1)
    BY <2>1, LenProperties
  <2> QED
    BY <1>1, <1>2, <2>1, <2>2, AppendProperties
<1>4. PICK S : S = UsesIn(p, key)
  OBVIOUS
<1>5. PICK T : T = {k \in DOMAIN u : u[k].provider = p /\ CycleKeyAt(p, u[k].at) = key}
  OBVIOUS
<1>6. PICK f : f = [k \in S |-> uses[k].tokens]
  OBVIOUS
<1>7. PICK g : g = [k \in T |-> u[k].tokens]
  OBVIOUS
<1>8. IsFiniteSet(S) /\ f \in [S -> Int] /\ S \subseteq 1..len
  <2>1. S \subseteq 1..len
    BY <1>1, <1>4 DEF UsesIn
  <2> QED
    BY <1>4, <1>6, <2>1, UsesAreFinite
<1>9. TokensIn(p, key) = SumFunction(f)
  BY <1>4, <1>6 DEF TokensIn
<1>10. TokensIn(p, key)' = SumFunction(g)
  BY <1>2, <1>5, <1>7 DEF TokensIn, UsesIn
<1>11. PICK n : n = len + 1 /\ n \notin 1..len
  OBVIOUS
<1>12. SumFunction(f) \in Int
  BY <1>8, SumIsNumber
<1>13. CASE row.provider = p /\ CycleKeyAt(p, row.at) = key
  <2>1. T = S \cup {n} /\ n \notin S
    BY <1>1, <1>3, <1>4, <1>5, <1>8, <1>11, <1>13 DEF UsesIn
  <2>2. IsFiniteSet(T)
    BY <1>8, <2>1, FS_AddElement
  <2>3. g[n] = row.tokens /\ \A k \in S : g[k] = f[k]
    BY <1>3, <1>6, <1>7, <1>8, <1>11, <2>1
  <2>4. row.tokens \in Int
    BY DEF UseRow
  <2>5. g \in [T -> Int]
    BY <1>7, <1>8, <2>1, <2>3, <2>4
  <2>6. n \in T /\ T \in SUBSET T /\ T \ {n} = S
    BY <2>1
  <2>7. SumFunctionOnSet(g, T) = g[n] + SumFunctionOnSet(g, S)
    BY <2>2, <2>5, <2>6, OneIsTaken
  <2>8. SumFunctionOnSet(g, S) = SumFunctionOnSet(f, S)
    BY <1>8, <2>3, SumsAgree
  <2>9. DOMAIN g = T /\ DOMAIN f = S
    BY <1>6, <1>7
  <2>10. SumFunction(g) = g[n] + SumFunction(f)
    BY <2>7, <2>8, <2>9, SumOnDomain
  <2> QED
    BY <1>9, <1>10, <1>12, <1>13, <2>3, <2>4, <2>10
<1>14. CASE ~(row.provider = p /\ CycleKeyAt(p, row.at) = key)
  <2>1. T = S
    BY <1>1, <1>3, <1>4, <1>5, <1>8, <1>11, <1>14 DEF UsesIn
  <2>2. f = g
    BY <1>3, <1>6, <1>7, <1>8, <2>1
  <2> QED
    BY <1>9, <1>10, <1>12, <1>14, <2>2
<1> QED
  BY <1>13, <1>14

LEMMA UsageStep ==
    ASSUME ReportsInv, NEW p \in Providers, NEW tokens \in Nat, RecordUsage(p, tokens)
    PROVE  ReportsInv'
<1>1. PICK row : row = [provider |-> p, tokens |-> tokens, at |-> halfDay]
  OBVIOUS
<1>2. row \in UseRow /\ row.provider = p /\ row.tokens = tokens /\ row.at = halfDay
  BY <1>1 DEF ReportsInv, UseRow
<1>3. /\ uses' = Append(uses, row) /\ history' = history /\ outcomes' = outcomes
      /\ outcomeStore' = outcomeStore /\ halfDay' = halfDay
  BY <1>1 DEF RecordUsage
<1>4. PICK key : key = CycleKeyAt(p, halfDay)
  OBVIOUS
<1>5. PICK s : s = <<p, key>>
  OBVIOUS
<1>6. usage' = [k \in DOMAIN usage \union {s} |->
                   IF k = s THEN UsageOf(p, key) + tokens ELSE usage[k]]
  BY <1>4, <1>5 DEF RecordUsage
<1>7. /\ DOMAIN usage' = DOMAIN usage \cup {s} /\ usage'[s] = UsageOf(p, key) + tokens
      /\ \A k \in DOMAIN usage : k # s => usage'[k] = usage[k]
  BY <1>6
<1>8. uses' \in Seq(UseRow)
  BY <1>2, <1>3, AppendProperties DEF ReportsInv
<1>9. ASSUME NEW q \in Providers, NEW c PROVE UsageOf(q, c)' = TokensIn(q, c)'
  <2>1. TokensIn(q, c)' = TokensIn(q, c)
           + (IF p = q /\ CycleKeyAt(q, halfDay) = c THEN tokens ELSE 0)
    BY <1>2, <1>3, UseAppended DEF ReportsInv
  <2>2. UsageOf(q, c) = TokensIn(q, c)
    BY DEF ReportsInv
  <2>3. TokensIn(q, c) \in Int
    BY UsesAreFinite, SumIsNumber DEF TokensIn, ReportsInv
  <2>4. PICK v : v = <<q, c>>
    OBVIOUS
  <2>5. v = s <=> q = p /\ c = key
    BY <1>5, <2>4
  <2>6. CASE v = s
    <3>1. UsageOf(q, c)' = UsageOf(q, c) + tokens
      BY <1>5, <1>7, <2>4, <2>5, <2>6 DEF UsageOf
    <3> QED
      BY <1>4, <2>1, <2>2, <2>5, <2>6, <3>1
  <2>7. CASE v # s
    <3>1. v \in DOMAIN usage' <=> v \in DOMAIN usage
      BY <1>7, <2>7
    <3>2. UsageOf(q, c)' = UsageOf(q, c)
      BY <1>7, <2>4, <2>7, <3>1 DEF UsageOf
    <3>3. ~(p = q /\ CycleKeyAt(q, halfDay) = c)
      BY <1>4, <2>5, <2>7
    <3> QED
      BY <2>1, <2>2, <2>3, <3>2, <3>3
  <2> QED
    BY <2>6, <2>7
<1>10. Evicted' = Evicted
  BY <1>3 DEF Evicted
<1> QED
  BY <1>3, <1>8, <1>9, <1>10 DEF ReportsInv

LEMMA TokensStay ==
    ASSUME ReportsInv, uses' = uses, usage' = usage
    PROVE  \A p \in Providers : \A key : UsageOf(p, key)' = TokensIn(p, key)'
<1> SUFFICES ASSUME NEW p \in Providers, NEW key PROVE UsageOf(p, key)' = TokensIn(p, key)'
  OBVIOUS
<1>1. UsageOf(p, key)' = UsageOf(p, key)
  BY DEF UsageOf
<1>2. UsesIn(p, key)' = UsesIn(p, key)
  BY DEF UsesIn
<1>3. TokensIn(p, key)' = TokensIn(p, key)
  BY <1>2 DEF TokensIn
<1> QED
  BY <1>1, <1>3 DEF ReportsInv

\* The store keeps the end of the history.
LEMMA OutcomeStep ==
    ASSUME ReportsInv, NEW o \in Outcomes, RecordOutcome(o) PROVE ReportsInv'
<1> USE ReportsAssumption
<1>1. PICK row : row = [of |-> o, at |-> halfDay, task |-> "", provider |-> ""]
  OBVIOUS
<1>2. row \in RecordRow
  BY <1>1 DEF ReportsInv, RecordRow
<1>3. /\ history' = Append(history, row) /\ outcomes' = Append(Kept(outcomes), row)
      /\ outcomeStore' = outcomeStore /\ uses' = uses /\ usage' = usage /\ halfDay' = halfDay
  BY <1>1 DEF RecordOutcome
<1>4. PICK n \in Nat : n = Len(history) /\ DOMAIN history = 1..n
  BY LenProperties DEF ReportsInv
<1>5. PICK m \in Nat : m = Len(outcomes) /\ DOMAIN outcomes = 1..m
  BY LenProperties DEF ReportsInv
<1>6. PICK e \in Nat : e = Evicted
  BY DEF ReportsInv
<1>7. /\ e = (IF outcomeStore = "memory" /\ n >= MaxKept THEN n - MaxKept ELSE 0)
      /\ m = n - e /\ \A k \in 1..m : outcomes[k] = history[k + e]
  BY <1>4, <1>5, <1>6, EvictedValue DEF ReportsInv
<1>8. /\ history' \in Seq(RecordRow) /\ Len(history') = n + 1 /\ history'[n + 1] = row
      /\ \A k \in 1..n : history'[k] = history[k]
  BY <1>2, <1>3, <1>4, AppendProperties DEF ReportsInv
<1>9. Evicted' = IF outcomeStore = "memory" /\ n + 1 >= MaxKept THEN n + 1 - MaxKept ELSE 0
  <2>1. PICK x \in Int : x = n + 1 - MaxKept
    OBVIOUS
  <2>2. Max({x, 0}) = IF x >= 0 THEN x ELSE 0
    BY MaxWithZero
  <2>4. Len(history') - MaxKept = x
    BY <1>8, <2>1
  <2>3. Evicted' = IF outcomeStore = "memory" THEN Max({x, 0}) ELSE 0
    BY <1>3, <2>4 DEF Evicted
  <2> QED
    BY <2>1, <2>2, <2>3
<1>10. PICK e2 \in Nat : e2 = Evicted'
  BY <1>9
<1>11. PICK kept \in Seq(RecordRow), l \in Nat :
            /\ outcomes' = Append(kept, row) /\ l = Len(kept) /\ DOMAIN kept = 1..l
            /\ l = n - e2 /\ \A k \in 1..l : kept[k] = history[k + e2]
  <2>1. CASE outcomeStore = "memory" /\ m >= MaxKept
    <3>1. outcomes # <<>> /\ outcomes \in Seq(RecordRow)
      BY <1>5, <2>1, EmptySeq DEF ReportsInv
    <3>2. PICK kept \in Seq(RecordRow) : kept = Tail(outcomes)
      BY <3>1, HeadTailProperties
    <3>3. Len(kept) = m - 1 /\ \A k \in 1..Len(kept) : kept[k] = outcomes[k + 1]
      BY <1>5, <3>1, <3>2, HeadTailProperties
    <3>4. PICK l \in Nat : l = m - 1
      BY <2>1
    <3>5. DOMAIN kept = 1..l /\ l = Len(kept)
      BY <3>3, <3>4, LenProperties
    <3>6. e2 = e + 1
      BY <1>7, <1>9, <1>10, <2>1
    <3>7. l = n - e2
      BY <1>7, <3>4, <3>6
    <3>8. ASSUME NEW k \in 1..l PROVE kept[k] = history[k + e2]
      <4>1. k + 1 \in 1..m /\ kept[k] = outcomes[k + 1]
        BY <3>3, <3>4, <3>5
      <4>2. outcomes[k + 1] = history[(k + 1) + e]
        BY <1>7, <4>1
      <4>3. (k + 1) + e = k + e2
        BY <3>6
      <4> QED
        BY <4>1, <4>2, <4>3
    <3>9. outcomes' = Append(kept, row)
      BY <1>3, <1>5, <2>1, <3>2 DEF Kept
    <3> QED
      BY <3>5, <3>7, <3>8, <3>9
  <2>2. CASE ~(outcomeStore = "memory" /\ m >= MaxKept)
    <3>1. outcomes' = Append(outcomes, row)
      BY <1>3, <1>5, <2>2 DEF Kept
    <3>2. e2 = e
      BY <1>7, <1>9, <1>10, <2>2
    <3>3. outcomes \in Seq(RecordRow)
      BY DEF ReportsInv
    <3> QED
      BY <1>5, <1>7, <3>1, <3>2, <3>3
  <2> QED
    BY <2>1, <2>2
<1>12. PICK new : new = Append(kept, row)
  OBVIOUS
<1>13. /\ new \in Seq(RecordRow) /\ Len(new) = l + 1 /\ new[l + 1] = row
       /\ \A k \in 1..l : new[k] = kept[k]
  BY <1>2, <1>11, <1>12, AppendProperties
<1>14. DOMAIN new = 1..(l + 1)
  BY <1>13, LenProperties
<1>15. ASSUME NEW k \in 1..(l + 1) PROVE new[k] = history'[k + e2]
  <2>1. CASE k = l + 1
    <3>1. k + e2 = n + 1
      BY <1>11, <2>1, SMTT(30)
    <3> QED
      BY <1>8, <1>13, <2>1, <3>1
  <2>2. CASE k # l + 1
    <3>1. k \in 1..l /\ k + e2 \in 1..n
      BY <1>11, <2>2, SMTT(30)
    <3> QED
      BY <1>8, <1>11, <1>13, <3>1
  <2> QED
    BY <2>1, <2>2
<1>16. Len(new) = Len(history') - e2
  BY <1>8, <1>11, <1>13
<1>17. /\ outcomes' \in Seq(RecordRow) /\ Len(outcomes') = Len(history') - Evicted'
       /\ \A k \in DOMAIN outcomes' : outcomes'[k] = history'[k + Evicted']
  BY <1>10, <1>11, <1>12, <1>13, <1>14, <1>15, <1>16
<1>18. /\ outcomeStore' \in {"memory", "postgres"} /\ halfDay' \in Nat
       /\ uses' \in Seq(UseRow) /\ Evicted' \in Nat
  BY <1>3, <1>10 DEF ReportsInv
<1>19. \A p \in Providers : \A key : UsageOf(p, key)' = TokensIn(p, key)'
  BY <1>3, TokensStay
<1> QED
  BY <1>8, <1>17, <1>18, <1>19 DEF ReportsInv

LEMMA ReportsStep == ReportsInv /\ [ReportsNext]_usageVars => ReportsInv'
<1> SUFFICES ASSUME ReportsInv, [ReportsNext]_usageVars PROVE ReportsInv'
  OBVIOUS
<1>1. ASSUME NEW o \in Outcomes, RecordOutcome(o) PROVE ReportsInv'
  BY <1>1, OutcomeStep
<1>2. ASSUME NEW p \in Providers, RecordUsage(p, 1) PROVE ReportsInv'
  BY <1>2, UsageStep
<1>3. ASSUME outcomeStore' = outcomeStore, history' = history, outcomes' = outcomes,
             uses' = uses, usage' = usage, halfDay' \in Nat
      PROVE  ReportsInv'
  <2>1. \A p \in Providers : \A key : UsageOf(p, key)' = TokensIn(p, key)'
    BY <1>3, TokensStay
  <2>2. Evicted' = Evicted
    BY <1>3 DEF Evicted
  <2> QED
    BY <1>3, <2>1, <2>2 DEF ReportsInv
<1>4. CASE TimePasses
  BY <1>3, <1>4 DEF TimePasses, ReportsInv
<1>5. CASE AnalystEnds
  BY <1>3, <1>5 DEF AnalystEnds, ReportsInv
<1>6. ASSUME NEW org, Gather(org) PROVE ReportsInv'
  BY <1>3, <1>6 DEF Gather, ReportsInv
<1>7. CASE UNCHANGED usageVars
  BY <1>3, <1>7 DEF usageVars, ReportsInv
<1> QED
  BY <1>1, <1>2, <1>4, <1>5, <1>6, <1>7 DEF ReportsNext

-----------------------------------------------------------------------------
(* Reports                                                                  *)

SeenOf(set) == /\ IsFiniteSet(set) /\ set \subseteq DOMAIN outcomes
               /\ \A k \in set : outcomes[k].of.tokens \in Int

LEMMA SeenIsFinite ==
    ASSUME ReportsInv, NEW org, NEW days PROVE SeenOf(Seen(org, days))
<1>1. PICK len \in Nat : len = Len(outcomes) /\ DOMAIN outcomes = 1..len
  BY LenProperties DEF ReportsInv
<1>2. IsFiniteSet(1..len)
  BY FS_Interval
<1>3. Seen(org, days) \subseteq 1..len
  BY <1>1 DEF Seen
<1>4. \A k \in 1..len : outcomes[k] \in RecordRow
  BY <1>1, ElementOfSeq DEF ReportsInv
<1>5. ASSUME NEW k \in Seen(org, days) PROVE outcomes[k].of.tokens \in Int
  <2>1. outcomes[k] \in RecordRow
    BY <1>3, <1>4
  <2>2. PICK o \in Outcomes : o = outcomes[k].of
    BY <2>1 DEF RecordRow
  <2>3. o.tokens \in Nat
    BY ReportsAssumption
  <2> QED
    BY <2>2, <2>3
<1> QED
  BY <1>1, <1>2, <1>3, <1>5, FS_Subset DEF SeenOf

\* What groups of outcomes sum up to, the outcomes together do.
LEMMA GroupsAddUp ==
    ASSUME NEW S, SeenOf(S), NEW R, NEW q \in [S -> R], \A r \in R : \E k \in S : q[k] = r,
           NEW report, report = [r \in R |-> Summed({k \in S : q[k] = r})]
    PROVE  AddsUp(report, Summed(S))
<1>1. IsFiniteSet(S)
  BY DEF SeenOf
<1>2. IsFiniteSet(R)
  <2>1. q \in Surjection(S, R)
    BY DEF Surjection
  <2> QED
    BY <1>1, <2>1, FS_Surjection
<1>3. DOMAIN report = R /\ \A r \in R : report[r] = Summed({k \in S : q[k] = r})
  OBVIOUS
<1>4. ASSUME NEW r \in R
      PROVE  {k \in S : q[k] = r} \in SUBSET S /\ {k \in S : q[k] = r} \subseteq S
  OBVIOUS
<1>5. SumFunction([r \in R |-> report[r].requests]) = Summed(S).requests
  <2>1. PICK f : f = [x \in S |-> IF x \in S THEN 1 ELSE 0]
    OBVIOUS
  <2>2. f \in [S -> Int] /\ \A T \in SUBSET S : Cardinality(T \cap S) = SumFunctionOnSet(f, T)
    BY <1>1, <2>1, CountIsSum
  <2>3. \A T \in SUBSET S : Summed(T).requests = SumFunctionOnSet(f, T)
    <3> SUFFICES ASSUME NEW T \in SUBSET S PROVE Summed(T).requests = SumFunctionOnSet(f, T)
      OBVIOUS
    <3>1. T \cap S = T
      OBVIOUS
    <3>2. Cardinality(T) = SumFunctionOnSet(f, T)
      BY <2>2, <3>1
    <3> QED
      BY <3>2 DEF Summed
  <2>4. [r \in R |-> report[r].requests] = [r \in R |-> SumFunctionOnSet(f, {k \in S : q[k] = r})]
    BY <1>3, <1>4, <2>3
  <2>5. SumFunction([r \in R |-> report[r].requests]) = SumFunction(f)
    <3>1. f \in [S -> Int]
      BY <2>1
    <3> QED
      BY <1>1, <1>2, <2>4, <3>1, SumOfGroups, SMTT(30)
  <2>6. SumFunction(f) = SumFunctionOnSet(f, S)
    BY <2>1, SumOnDomain
  <2> QED
    BY <2>3, <2>5, <2>6
<1>6. SumFunction([r \in R |-> report[r].ok]) = Summed(S).ok
  <2>0. PICK P : P = {k \in S : outcomes[k].of.ok}
    OBVIOUS
  <2>1. PICK f : f = [x \in S |-> IF x \in P THEN 1 ELSE 0]
    OBVIOUS
  <2>2. \A T \in SUBSET S : Cardinality(T \cap P) = SumFunctionOnSet(f, T)
    <3>1. \A T \in SUBSET S : Cardinality(T \cap P)
                              = SumFunctionOnSet([x \in S |-> IF x \in P THEN 1 ELSE 0], T)
      BY <1>1, CountIsSum, SMTT(30)
    <3> QED
      BY <2>1, <3>1
  <2>3. \A T \in SUBSET S : Summed(T).ok = SumFunctionOnSet(f, T)
    <3> SUFFICES ASSUME NEW T \in SUBSET S PROVE Summed(T).ok = SumFunctionOnSet(f, T)
      OBVIOUS
    <3>1. T \cap P = {k \in T : outcomes[k].of.ok}
      BY <2>0
    <3>2. Cardinality({k \in T : outcomes[k].of.ok}) = SumFunctionOnSet(f, T)
      BY <2>2, <3>1
    <3> QED
      BY <3>2 DEF Summed
  <2>4. [r \in R |-> report[r].ok] = [r \in R |-> SumFunctionOnSet(f, {k \in S : q[k] = r})]
    BY <1>3, <1>4, <2>3
  <2>5. SumFunction([r \in R |-> report[r].ok]) = SumFunction(f)
    <3>1. f \in [S -> Int]
      BY <2>1
    <3> QED
      BY <1>1, <1>2, <2>4, <3>1, SumOfGroups, SMTT(30)
  <2>6. SumFunction(f) = SumFunctionOnSet(f, S)
    BY <2>1, SumOnDomain
  <2> QED
    BY <2>3, <2>5, <2>6
<1>7. SumFunction([r \in R |-> report[r].tokens]) = Summed(S).tokens
  <2>1. PICK f : f = [k \in S |-> outcomes[k].of.tokens]
    OBVIOUS
  <2>2. f \in [S -> Int]
    BY <2>1 DEF SeenOf
  <2>3. \A T \in SUBSET S : Summed(T).tokens = SumFunctionOnSet(f, T)
    <3> SUFFICES ASSUME NEW T \in SUBSET S PROVE Summed(T).tokens = SumFunctionOnSet(f, T)
      OBVIOUS
    <3>1. PICK g : g = [k \in T |-> outcomes[k].of.tokens]
      OBVIOUS
    <3>2. IsFiniteSet(T) /\ DOMAIN g = T /\ \A x \in T : g[x] = f[x]
      BY <1>1, <2>1, <3>1, FS_Subset
    <3>3. SumFunction(g) = SumFunctionOnSet(f, T)
      BY <3>2, SumsAgree, SumOnDomain
    <3> QED
      BY <3>1, <3>3 DEF Summed
  <2>4. [r \in R |-> report[r].tokens] = [r \in R |-> SumFunctionOnSet(f, {k \in S : q[k] = r})]
    BY <1>3, <1>4, <2>3
  <2>5. SumFunction([r \in R |-> report[r].tokens]) = SumFunction(f)
    BY <1>1, <1>2, <2>2, <2>4, SumOfGroups
  <2>6. SumFunction(f) = SumFunctionOnSet(f, S)
    BY <2>1, SumOnDomain
  <2> QED
    BY <2>3, <2>5, <2>6
<1> QED
  BY <1>3, <1>5, <1>6, <1>7 DEF AddsUp

LEMMA BreakdownsAddUp ==
    ASSUME ReportsInv, NEW org, NEW days \in {1, 2}, NEW dim
    PROVE  AddsUp(UsageBreakdown(org, dim, days), CompletionRate(org, days))
<1>0. SeenInUsage(org, days) = Seen(org, days)
  <2>1. ~(days <= 0)
    OBVIOUS
  <2> QED
    BY <2>1, Zenon DEF SeenInUsage
<1>1. PICK S : S = Seen(org, days)
  OBVIOUS
<1>2. PICK R : R = {GroupBy(outcomes[k], dim) : k \in S}
  OBVIOUS
<1>3. PICK q : q = [k \in S |-> GroupBy(outcomes[k], dim)]
  OBVIOUS
<1>4. q \in [S -> R] /\ \A r \in R : \E k \in S : q[k] = r
  BY <1>2, <1>3
<1>5. PICK report : report = [r \in R |-> Summed({k \in S : q[k] = r})]
  OBVIOUS
<1>6. SeenOf(S)
  BY <1>1, SeenIsFinite
<1>7. AddsUp(report, Summed(S))
  BY <1>4, <1>5, <1>6, GroupsAddUp
<1>8. \A r : {k \in S : q[k] = r} = {k \in S : GroupBy(outcomes[k], dim) = r}
  BY <1>3
<1>9. report = UsageBreakdown(org, dim, days)
  <2>1. report = [r \in R |-> Summed({k \in S : GroupBy(outcomes[k], dim) = r})]
    BY <1>5, <1>8
  <2> QED
    BY <1>0, <1>1, <1>2, <2>1 DEF UsageBreakdown
<1> QED
  BY <1>1, <1>7, <1>9 DEF CompletionRate

LEMMA SeriesAddUp ==
    ASSUME ReportsInv, NEW org, NEW days
    PROVE  AddsUp(DailySeries(org, days), CompletionRate(org, days))
<1>1. PICK S : S = Seen(org, days)
  OBVIOUS
<1>2. PICK R : R = {outcomes[k].at \div 2 : k \in S}
  OBVIOUS
<1>3. PICK q : q = [k \in S |-> outcomes[k].at \div 2]
  OBVIOUS
<1>4. q \in [S -> R] /\ \A r \in R : \E k \in S : q[k] = r
  BY <1>2, <1>3
<1>5. PICK report : report = [r \in R |-> Summed({k \in S : q[k] = r})]
  OBVIOUS
<1>6. SeenOf(S)
  BY <1>1, SeenIsFinite
<1>7. AddsUp(report, Summed(S))
  BY <1>4, <1>5, <1>6, GroupsAddUp
<1>8. \A r : {k \in S : q[k] = r} = {k \in S : outcomes[k].at \div 2 = r}
  BY <1>3
<1>9. report = DailySeries(org, days)
  <2>1. report = [r \in R |-> Summed({k \in S : outcomes[k].at \div 2 = r})]
    BY <1>5, <1>8
  <2> QED
    BY <1>1, <1>2, <2>1 DEF DailySeries
<1> QED
  BY <1>1, <1>7, <1>9 DEF CompletionRate

Named(org) == org # ""

\* What a report counts is the organisation's part of what the cap has left.
LEMMA RateCounts ==
    ASSUME ReportsInv, NEW org, Named(org), NEW days \in {1, 2}
    PROVE  CompletionRate(org, days).requests =
              Cardinality({k \in DOMAIN history : /\ k > Evicted /\ history[k].of.org = org
                                                  /\ history[k].at > halfDay - 2 * days})
<1>1. PICK S : S = Seen(org, days)
  OBVIOUS
<1>2. PICK T : T = {k \in DOMAIN history : /\ k > Evicted /\ history[k].of.org = org
                                           /\ history[k].at > halfDay - 2 * days}
  OBVIOUS
<1>3. PICK n \in Nat : n = Len(history) /\ DOMAIN history = 1..n
  BY LenProperties DEF ReportsInv
<1>4. PICK m \in Nat : m = Len(outcomes) /\ DOMAIN outcomes = 1..m
  BY LenProperties DEF ReportsInv
<1>5. PICK e \in Nat : e = Evicted
  BY DEF ReportsInv
<1>6. m = n - e
  BY <1>3, <1>4, <1>5 DEF ReportsInv
<1>7. \A k \in 1..m : outcomes[k] = history[k + e]
  BY <1>4, <1>5 DEF ReportsInv
<1>8. ASSUME NEW k \in 1..m
      PROVE  k \in S <=> outcomes[k].of.org = org /\ outcomes[k].at > halfDay - 2 * days
  <2>1. OfOrganisation(outcomes[k], org) <=> outcomes[k].of.org = org
    BY Zenon DEF OfOrganisation, Named
  <2> QED
    BY <1>1, <1>4, <2>1 DEF Seen
<1>12. S \subseteq 1..m
  BY <1>1, <1>4 DEF Seen
<1>13. PICK f : f = [k \in S |-> k + e]
  OBVIOUS
<1>9. f \in Bijection(S, T)
  <2>1. ASSUME NEW k \in S PROVE k \in 1..m /\ f[k] = k + e /\ k + e \in T
    <3>1. k \in 1..m /\ f[k] = k + e
      BY <1>12, <1>13
    <3>2. k + e \in 1..n /\ k + e > e
      BY <1>6, <3>1
    <3>3. history[k + e].of.org = org /\ history[k + e].at > halfDay - 2 * days
      BY <1>7, <1>8, <3>1
    <3> QED
      BY <1>2, <1>3, <1>5, <3>1, <3>2, <3>3
  <2>2. f \in [S -> T]
    BY <1>13, <2>1
  <2>3. ASSUME NEW j \in S, NEW k \in S, f[j] = f[k] PROVE j = k
    <3>1. j \in 1..m /\ k \in 1..m /\ j + e = k + e
      BY <2>1, <2>3
    <3> QED
      BY <3>1
  <2>4. ASSUME NEW t \in T PROVE \E k \in S : f[k] = t
    <3>1. t \in 1..n /\ t > e
      BY <1>2, <1>3, <1>5
    <3>2. PICK k \in Int : k = t - e
      BY <3>1
    <3>3. k \in 1..m /\ k + e = t
      BY <1>6, <3>1, <3>2
    <3>4. outcomes[k] = history[t]
      BY <1>7, <3>3
    <3>5. k \in S
      BY <1>2, <1>8, <3>3, <3>4
    <3> QED
      BY <2>1, <3>3, <3>5
  <2> QED
    BY <2>2, <2>3, <2>4 DEF Bijection, Injection, Surjection, IsInjective
<1>10. IsFiniteSet(S)
  BY <1>1, SeenIsFinite DEF SeenOf
<1>11. Cardinality(S) = Cardinality(T)
  BY <1>9, <1>10, FS_Bijection DEF ExistsBijection
<1> QED
  BY <1>1, <1>2, <1>11 DEF CompletionRate, Summed

LEMMA QuotaHolds ==
    ASSUME ReportsInv PROVE QuotaFollowsUse
<1> USE ReportsAssumption
<1> SUFFICES ASSUME NEW p \in Providers
             PROVE  LET q == ProviderQuota(p)
                        now == {k \in DOMAIN uses : uses[k].provider = p
                                        /\ CycleKeyAt(p, uses[k].at) = CycleKeyAt(p, halfDay)}
                    IN  /\ q.used = SumFunction([k \in now |-> uses[k].tokens])
                        /\ q.used + TokensLeft(p) >= FreeTokens[p] /\ TokensLeft(p) >= 0
                        /\ q.overage > 0 => TokensLeft(p) = 0 /\ ~q.exhausted
  BY DEF QuotaFollowsUse
<1>1. PICK key : key = CycleKeyAt(p, halfDay)
  OBVIOUS
<1>2. UsageOf(p, key) = TokensIn(p, key)
  BY DEF ReportsInv
<1>3. PICK used \in Int : used = TokensIn(p, key)
  BY UsesAreFinite, SumIsNumber DEF TokensIn, ReportsInv
<1>4. PICK free \in Int : free = FreeTokens[p]
  BY DEF Providers
<1>5. PICK q : q = ProviderQuota(p)
  OBVIOUS
<1>6. /\ q.used = used /\ (q.exhausted <=> used >= free /\ p \notin PayAsYouGo)
      /\ q.overage = IF p \in PayAsYouGo THEN Max({used - free, 0}) ELSE 0
  BY <1>1, <1>2, <1>3, <1>4, <1>5 DEF ProviderQuota
<1>7. TokensLeft(p) = Max({free - used, 0})
  BY <1>4, <1>5, <1>6 DEF TokensLeft
<1>8. /\ Max({free - used, 0}) = IF free - used >= 0 THEN free - used ELSE 0
      /\ Max({used - free, 0}) = IF used - free >= 0 THEN used - free ELSE 0
  <2>1. free - used \in Int /\ used - free \in Int
    OBVIOUS
  <2> QED
    BY <2>1, MaxWithZero
<1>9. PICK now : now = {k \in DOMAIN uses : uses[k].provider = p
                                /\ CycleKeyAt(p, uses[k].at) = CycleKeyAt(p, halfDay)}
  OBVIOUS
<1>10. used = SumFunction([k \in now |-> uses[k].tokens])
  BY <1>1, <1>3, <1>9 DEF TokensIn, UsesIn
<1>11. used + TokensLeft(p) >= free /\ TokensLeft(p) >= 0
  BY <1>7, <1>8
<1>12. q.overage > 0 => TokensLeft(p) = 0 /\ ~q.exhausted
  BY <1>6, <1>7, <1>8
<1> QED
  BY <1>4, <1>5, <1>6, <1>9, <1>10, <1>11, <1>12

LEMMA ReportsInvHolds == ReportsInv => ReportsAddUp
<1> SUFFICES ASSUME ReportsInv PROVE ReportsAddUp
  OBVIOUS
<1>1. ReportsAgree
  <2> SUFFICES ASSUME NEW org \in Organisations, NEW days \in {1, 2}
               PROVE  /\ \A dim \in Dimensions :
                            AddsUp(UsageBreakdown(org, dim, days), CompletionRate(org, days))
                      /\ AddsUp(DailySeries(org, days), CompletionRate(org, days))
                      /\ org # "" => CompletionRate(org, days).requests =
                             Cardinality({k \in DOMAIN history :
                                 /\ k > (IF outcomeStore = "memory"
                                         THEN Max({Len(history) - MaxKept, 0}) ELSE 0)
                                 /\ history[k].of.org = org
                                 /\ history[k].at > halfDay - 2 * days})
    BY DEF ReportsAgree
  <2>1. \A dim \in Dimensions :
            AddsUp(UsageBreakdown(org, dim, days), CompletionRate(org, days))
    BY BreakdownsAddUp
  <2>2. AddsUp(DailySeries(org, days), CompletionRate(org, days))
    BY SeriesAddUp
  <2>3. org # "" => CompletionRate(org, days).requests =
              Cardinality({k \in DOMAIN history : /\ k > Evicted /\ history[k].of.org = org
                                                  /\ history[k].at > halfDay - 2 * days})
    <3>1. Named(org) => CompletionRate(org, days).requests =
              Cardinality({k \in DOMAIN history : /\ k > Evicted /\ history[k].of.org = org
                                                  /\ history[k].at > halfDay - 2 * days})
      BY RateCounts
    <3> QED
      BY <3>1, Zenon DEF Named
  <2> QED
    BY <2>1, <2>2, <2>3 DEF Evicted
<1>2. QuotaFollowsUse
  BY QuotaHolds
<1>3. LevelsAreEarned
  BY LevelsHold, ReportsAssumption
<1> QED
  BY <1>1, <1>2, <1>3 DEF ReportsAddUp

\* However outcomes, days, evictions and uses interleave: every report of an organisation adds
\* up to the number of its outcomes the cap has left, a quota counts the uses of the provider's
\* present cycle and no other, and a level is the highest one whose points are reached.
THEOREM ReportsAlwaysAddUp == ReportsSpec => []ReportsAddUp
<1>1. ReportsInit => ReportsInv
  BY ReportsInitially
<1>2. ReportsInv /\ [ReportsNext]_usageVars => ReportsInv'
  BY ReportsStep
<1>3. ReportsInv => ReportsAddUp
  BY ReportsInvHolds
<1> QED
  BY <1>1, <1>2, <1>3, PTL DEF ReportsSpec

-----------------------------------------------------------------------------
(* The parts together                                                       *)

\* The catalogs are sound in the runtime of all parts: skill files passed the scan and no hopeless
\* text is in an organisation's history; a watcher that caught up serves what was last written;
\* a server is what the cluster runs while calls come one at a time and are answered; a code
\* leads to one line of tokens; a learning is shown to its own organisation; counts and lessons
\* agree with the reviews; and a process serves with every migration recorded, on open pools.
THEOREM CatalogsAreAlwaysSound == ErrandsSpec => []CatalogsAreSound
<1> DEFINE CatalogsInv == /\ ShelfInv /\ WatchInv /\ McpInv /\ TokensInv /\ LearningInv
                          /\ LifespanInv /\ ReviewInv
<1>1. ErrandsInit => CatalogsInv
  BY ShelfInitially, WatchInitially, McpInitially, TokensInitially, LearningInitially,
     LifespanInitially, ReviewInitially DEF ErrandsInit
<1>2. CatalogsInv /\ [ErrandsNext]_<<part, shelfVars, watchVars, mcpVars, tokenVars, learningVars,
                          peerVars, delegationVars, queueVars, poolVars, scheduleVars,
                          tournamentVars, toolCallVars, gitVars, hookVars, usageVars, lifeVars, strategyVars, reviewVars>>
      => CatalogsInv'
  <2> SUFFICES ASSUME CatalogsInv,
                      [ErrandsNext]_<<part, shelfVars, watchVars, mcpVars, tokenVars, learningVars,
                          peerVars, delegationVars, queueVars, poolVars, scheduleVars,
                          tournamentVars, toolCallVars, gitVars, hookVars, usageVars, lifeVars, strategyVars, reviewVars>>
               PROVE  CatalogsInv'
    OBVIOUS
  <2>1. /\ [ShelfNext]_shelfVars /\ [WatchNext]_watchVars /\ [McpNext]_mcpVars
        /\ [TokensNext]_tokenVars /\ [LearningNext]_learningVars
        /\ [LifespanNext]_lifeVars /\ [ReviewNext]_reviewVars
    BY DEF ErrandsNext
  <2>2. ShelfInv' /\ WatchInv' /\ McpInv' /\ TokensInv'
    BY <2>1, ShelfStep, WatchStep, McpStep, TokensStep
  <2>3. LearningInv' /\ LifespanInv' /\ ReviewInv'
    BY <2>1, LearningStep, LifespanStep, ReviewStep
  <2> QED
    BY <2>2, <2>3
<1>3. CatalogsInv => CatalogsAreSound
  BY ShelfInvHolds, WatchInvHolds, McpInvHolds, TokensInvHolds, LearningInvHolds,
     LifespanInvHolds, ReviewInvHolds DEF CatalogsAreSound
<1> QED
  BY <1>1, <1>2, <1>3, PTL DEF ErrandsSpec

\* The errands are sound in the runtime of all parts: every answered call is audited, an entry of
\* the queue waits or was taken, one of the two and once, schedules, standings and reports add up,
\* no refused tool runs, no commit is lost and none is on a branch made for another issue, no copy
\* is taken for new while its nonce lives, and Mason is done only after his gates have spoken.
THEOREM ErrandsAreAlwaysSound == ErrandsSpec => []ErrandsAreSound
<1> DEFINE ErrandsInv == /\ PeersInv /\ DelegationInv /\ QueueInv /\ PoolInv /\ SchedulesInv
                         /\ TournamentInv /\ ToolCallsInv /\ GitInv /\ HooksInv /\ ReportsInv /\ StrategiesInv
<1>1. ErrandsInit => ErrandsInv
  BY PeersInitially, DelegationInitially, QueueInitially, PoolInitially, SchedulesInitially,
     TournamentInitially, ToolCallsInitially,
     GitInitially, HooksInitially, ReportsInitially, StrategiesInitially DEF ErrandsInit
<1>2. ErrandsInv /\ [ErrandsNext]_<<part, shelfVars, watchVars, mcpVars, tokenVars, learningVars,
                          peerVars, delegationVars, queueVars, poolVars, scheduleVars,
                          tournamentVars, toolCallVars, gitVars, hookVars, usageVars, lifeVars, strategyVars, reviewVars>>
      => ErrandsInv'
  <2> SUFFICES ASSUME ErrandsInv,
                      [ErrandsNext]_<<part, shelfVars, watchVars, mcpVars, tokenVars, learningVars,
                          peerVars, delegationVars, queueVars, poolVars, scheduleVars,
                          tournamentVars, toolCallVars, gitVars, hookVars, usageVars, lifeVars, strategyVars, reviewVars>>
               PROVE  ErrandsInv'
    OBVIOUS
  <2>1. /\ [PeersNext]_peerVars /\ [DelegationNext]_delegationVars /\ [QueueNext]_queueVars
        /\ [PoolNext]_poolVars /\ [SchedulesNext]_scheduleVars
        /\ [TournamentNext]_tournamentVars /\ [ToolCallsNext]_toolCallVars
        /\ [WorktreesNext]_gitVars /\ [WebhooksNext]_hookVars /\ [ReportsNext]_usageVars
        /\ [StrategiesNext]_strategyVars
    BY DEF ErrandsNext
  <2>2. PeersInv' /\ DelegationInv' /\ QueueInv' /\ PoolInv' /\ SchedulesInv' /\ TournamentInv'
    BY <2>1, PeersStep, DelegationStep, QueueStep, PoolStep, SchedulesStep, TournamentStep
  <2>3. ToolCallsInv' /\ GitInv' /\ HooksInv' /\ ReportsInv' /\ StrategiesInv'
    BY <2>1, ToolCallsStep, GitStep, HooksStep, ReportsStep, StrategiesStep
  <2> QED
    BY <2>2, <2>3
<1>3. ErrandsInv => ErrandsAreSound
  BY PeersInvHolds, QueueInvHolds, SchedulesInvHolds, TournamentInvHolds, ToolCallsInvHolds,
     GitInvHolds, HooksInvHolds, ReportsInvHolds, StrategiesInvHolds
     DEF ErrandsAreSound, DelegationInv, PoolInv
<1> QED
  BY <1>1, <1>2, <1>3, PTL DEF ErrandsSpec
=============================================================================

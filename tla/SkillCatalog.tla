---------------------------- MODULE SkillCatalog ----------------------------
(***************************************************************************)
(* The skills agents are offered: how a text gets on the shelf, and how    *)
(* the catalog follows its file. The two share no state.                   *)
(***************************************************************************)
EXTENDS Integers, Sequences

(***************************************************************************)
(* One skill of the skill ecosystem (src/stronghold/skills and its routes):*)
(* the registry's entries and their versions, the files of the forge and   *)
(* of the marketplace, and the ways a text gets there: forged, installed   *)
(* from a URL, imported after a repair, or mutated by a learning.          *)
(* A text is a number; Quality says what the scanners make of it.          *)
(***************************************************************************)

CONSTANTS
    SkillOrgs,      \* organisations
    Texts,          \* texts of the skill
    Quality,        \* text -> "clean", "repairable", "leaky", "hopeless"
    RepairOf,       \* text -> what fix_content() makes of it
    InstallTiers,   \* tiers a skill may be installed with
    MaxSkillVersions,    \* bound: versions of a scope
    MaxFailures     \* bound: failed repairs counted

\* No organisation has the name of the scope of all, and fix_content() looks in what it returns
\* for what makes a text hopeless.
ASSUME ShelfAssumption ==
    /\ "global" \notin SkillOrgs
    /\ \A t \in Texts : Quality[t] \in {"repairable", "leaky"} => Quality[RepairOf[t]] # "hopeless"

VARIABLES
    shelf,          \* scope -> the skill that is registered: its tier and text
    skillVersions,       \* scope -> the history of register() and rollback()
    skillFile,      \* directory -> the text of the skill's file, or NoText
    mutation,       \* the mutation that waits for the model: its file, what it read
    repairFailures, \* failed repairs of the skill's URL
    handled         \* scopes somebody updated, deleted or rolled back

shelfVars == <<shelf, skillVersions, skillFile, mutation, repairFailures, handled>>

NoText == 0
NoSkillThere == [tier |-> "none", text |-> NoText]
Scopes == SkillOrgs \cup {"global"}
Vetted == {"t0", "t1"}
NoMutation == [dir |-> "none", read |-> NoText]
DelistThreshold == 3

ShelfInit ==
    /\ shelf = [s \in Scopes |-> NoSkillThere]
    /\ skillVersions = [s \in Scopes |-> <<>>]
    /\ skillFile = [d \in {"forged", "community"} |-> NoText]
    /\ mutation = NoMutation
    /\ repairFailures = 0 /\ handled = {}

\* register(): built-in skills are global, and a vetted skill yields to a vetted one
\* only; a refusal is logged and not told to the caller.
X_Refused(old, new) == old.tier = "t0" /\ new.tier \notin Vetted
Refused(old, new) == old.tier \in Vetted /\ new.tier \notin Vetted
RegisterSkill(skill, org) ==
    LET s == IF skill.tier = "t0" THEN "global" ELSE org IN
    IF Refused(shelf[s], skill)
    THEN UNCHANGED <<shelf, skillVersions>>
    ELSE /\ Len(skillVersions[s]) < MaxSkillVersions
         /\ shelf' = [shelf EXCEPT ![s] = skill]
         /\ skillVersions' = [skillVersions EXCEPT ![s] = Append(@, skill)]

\* get() and list_all(): an organisation's own skill comes before the global one.
Visible(org) == IF shelf[org] # NoSkillThere THEN shelf[org] ELSE shelf["global"]

\* The registry as its owner uses it.
Seed(tier, t) ==
    /\ RegisterSkill([tier |-> tier, text |-> t], "global")
    /\ UNCHANGED <<skillFile, mutation, repairFailures, handled>>

\* Where update(), rollback() look: the organisation's, else the global.
UpdateSkill(org, tier, t) ==
    LET s == IF shelf[org] # NoSkillThere THEN org ELSE "global" IN
    /\ shelf[s] # NoSkillThere
    /\ shelf' = [shelf EXCEPT ![s] = [tier |-> tier, text |-> t]]
    /\ handled' = handled \cup {s}
    /\ UNCHANGED <<skillVersions, skillFile, mutation, repairFailures>>

Rollback(org, n) ==
    LET s == IF skillVersions[org] # <<>> THEN org ELSE "global" IN
    /\ n \in 1..Len(skillVersions[s]) /\ Len(skillVersions[s]) < MaxSkillVersions
    /\ shelf' = [shelf EXCEPT ![s] = skillVersions[s][n]]
    /\ skillVersions' = [skillVersions EXCEPT ![s] = Append(@, skillVersions[s][n])]
    /\ handled' = handled \cup {s}
    /\ UNCHANGED <<skillFile, mutation, repairFailures>>

DeleteSkill(s) ==
    /\ shelf[s] # NoSkillThere
    /\ shelf' = [shelf EXCEPT ![s] = NoSkillThere]
    /\ handled' = handled \cup {s}

Scanned(t) == Quality[t] = "clean"

\* The forge's route registers what the warden lets pass, as a t3 skill; it does
\* not ask the parser's scan.
ForgeByRoute(t) ==
    /\ Quality[t] # "hopeless"
    /\ RegisterSkill([tier |-> "t3", text |-> t], "global")
    /\ UNCHANGED <<skillFile, mutation, repairFailures, handled>>

\* LLMSkillForge.forge(): a file, unless there is one.
X_ForgeFile(t) ==
    /\ skillFile.forged = NoText
    /\ skillFile' = [skillFile EXCEPT !.forged = t]
    /\ UNCHANGED <<shelf, skillVersions, mutation, repairFailures, handled>>
ForgeFile(t) ==
    /\ Scanned(t) /\ skillFile.forged = NoText
    /\ skillFile' = [skillFile EXCEPT !.forged = t]
    /\ UNCHANGED <<shelf, skillVersions, mutation, repairFailures, handled>>

\* install(): a file and a registration, which may be refused ...
Install(tier, t) ==
    /\ Scanned(t)
    /\ skillFile' = [skillFile EXCEPT !.community = t]
    /\ RegisterSkill([tier |-> tier, text |-> t], "global")
    /\ UNCHANGED <<mutation, repairFailures, handled>>

\* ... and uninstall() of what has a file.
Uninstall ==
    /\ skillFile.community # NoText
    /\ skillFile' = [skillFile EXCEPT !.community = NoText]
    /\ IF shelf["global"] # NoSkillThere THEN DeleteSkill("global")
       ELSE UNCHANGED <<shelf, handled>>
    /\ UNCHANGED <<skillVersions, mutation, repairFailures>>

\* The import scans; what fails is repaired, refused if that is hopeless, and
\* registered as it is then.
X_Imported(t) == IF Quality[t] = "clean" THEN t ELSE RepairOf[t]
Imported(t) ==
    CASE Quality[t] = "clean" -> t
      [] Quality[t] \in {"repairable", "leaky"} -> RepairOf[t]
      [] OTHER -> NoText
Import(org, t) ==
    /\ Imported(t) # NoText
    /\ RegisterSkill([tier |-> "t2", text |-> Imported(t)], org)
    /\ UNCHANGED <<skillFile, mutation, repairFailures, handled>>

\* A repair that is asked for alone: hopeless ones are counted.
Fix(t) ==
    /\ Quality[t] = "hopeless" /\ repairFailures < MaxFailures
    /\ repairFailures' = repairFailures + 1
    /\ UNCHANGED <<shelf, skillVersions, skillFile, mutation, handled>>
Delisted == repairFailures >= DelistThreshold

\* mutate(): the promoter names no tier, so none is guarded.  The forged file comes
\* before the one from the marketplace, as it does when files are loaded.
FileServed == IF skillFile.forged # NoText THEN "forged" ELSE "community"
BeginMutation ==
    /\ mutation = NoMutation /\ skillFile[FileServed] # NoText
    /\ mutation' = [dir |-> FileServed, read |-> skillFile[FileServed]]
    /\ UNCHANGED <<shelf, skillVersions, skillFile, repairFailures, handled>>

X_EndMutation(t) ==
    /\ mutation # NoMutation /\ mutation' = NoMutation
    /\ skillFile' = [skillFile EXCEPT ![mutation.dir] = t]
    /\ UNCHANGED <<shelf, skillVersions, repairFailures, handled>>
\* The reply is written where the text was read, if it passes the scan.
EndMutation(t) ==
    /\ mutation # NoMutation /\ mutation' = NoMutation
    /\ skillFile' = IF Scanned(t) THEN [skillFile EXCEPT ![mutation.dir] = t] ELSE skillFile
    /\ UNCHANGED <<shelf, skillVersions, repairFailures, handled>>

ShelfNext ==
    \E t \in Texts :
        \/ \E tier \in Vetted : Seed(tier, t)
        \/ \E o \in SkillOrgs, tier \in {"t1", "t2"} : UpdateSkill(o, tier, t)
        \/ \E o \in SkillOrgs : Import(o, t)
        \/ \E o \in SkillOrgs, n \in 1..MaxSkillVersions : Rollback(o, n)
        \/ ForgeByRoute(t) \/ ForgeFile(t)
        \/ \E tier \in InstallTiers : Install(tier, t)
        \/ Uninstall
        \/ Fix(t)
        \/ BeginMutation \/ EndMutation(t)

ShelfSpec == ShelfInit /\ [][ShelfNext]_shelfVars

-----------------------------------------------------------------------------
(* Properties                                                              *)

\* In a scope that nobody updated, deleted or rolled back, the history tells what is
\* registered, and after a vetted version there are vetted ones only, whatever was
\* forged, installed or imported under the same name.
HistoryHolds ==
    \A s \in Scopes \ handled :
        /\ shelf[s] = IF skillVersions[s] = <<>> THEN NoSkillThere
                      ELSE skillVersions[s][Len(skillVersions[s])]
        /\ \A m, n \in 1..Len(skillVersions[s]) :
              m < n /\ skillVersions[s][m].tier \in Vetted => skillVersions[s][n].tier \in Vetted

\* Every text on disk has passed the scan, a mutated one included, and no hopeless
\* text is in the history of an organisation.
OnlyScannedTexts ==
    /\ \A d \in DOMAIN skillFile : skillFile[d] # NoText => Scanned(skillFile[d])
    /\ \A o \in SkillOrgs : \A n \in 1..Len(skillVersions[o]) :
          Quality[skillVersions[o][n].text] # "hopeless"

ShelfIsSound == HistoryHolds /\ OnlyScannedTexts

\* The rest is promised and not kept.

\* "T0 built-in skills cannot be overwritten by marketplace/forge installs"
\* (skills/registry.py:41): installing and uninstalling one of its name removes it.
BuiltinsStay ==
    [][shelf["global"].tier = "t0" /\ shelf' # shelf /\ skillFile' # skillFile
         => shelf'["global"].tier \in Vetted]_shelfVars

\* "Auto-fix and re-check" (api/routes/marketplace.py:411): the repair is not checked.
ImportsAreRechecked ==
    \A o \in SkillOrgs : \A n \in 1..Len(skillVersions[o]) :
        skillVersions[o][n].tier = "t2" => Scanned(skillVersions[o][n].text)

\* "T0 (built-in) and T1 (operator-vetted) skills CANNOT be auto-mutated"
\* (skills/forge.py:170): the promoter does not say the tier.
VettedAreNotMutated ==
    [][shelf["global"].tier \in Vetted => mutation' \in {mutation, NoMutation}]_shelfVars

\* "Mutation history tracked per skill" (skills/registry.py:4): update() adds none.
HistoryIsWhole ==
    \A s \in Scopes : shelf[s] # NoSkillThere =>
        \E n \in 1..Len(skillVersions[s]) : skillVersions[s][n] = shelf[s]

\* A mutation replaces what it read: meanwhile the file may have been replaced or
\* uninstalled.
MutationReplacesWhatItRead ==
    [][mutation # NoMutation /\ mutation' = NoMutation /\ skillFile' # skillFile
         => skillFile[mutation.dir] = mutation.read]_shelfVars

-----------------------------------------------------------------------------
(***************************************************************************)
(* skills/catalog.py for one skill: its file is loaded once, then a thread *)
(* looks at the file's modification time and reloads it, while authors     *)
(* write and the catalog is asked.                                         *)
(***************************************************************************)

CONSTANTS
    MaxWrites       \* bound: writes of the file

VARIABLES
    skillText,      \* what the file holds: a text, by the write that finished it,
                    \* Partial while it is being written, Broken if it does not parse,
                    \* NoFile if it was removed
    stamp,          \* its modification time
    entry,          \* the catalog's builtin entry: a text, or NoEntry
    seenStamp,      \* the modification time that was noted, or NoEntry before
    loader,         \* load_directory(): its step and the text it has read
    watcher,        \* _check_for_changes(): its step, the time and text it has read
    loadRaced       \* the file was written between the loader's two looks at it

watchVars == <<skillText, stamp, entry, seenStamp, loader, watcher, loadRaced>>

NoEntry == 0 - 1
Broken == 0 - 2
NoFile == 0 - 3
Partial == 0
AtRest == [does |-> "rest", stamp |-> 0, text |-> NoEntry]

WatchInit ==
    /\ skillText = 1 /\ stamp = 1
    /\ entry = NoEntry /\ seenStamp = NoEntry
    /\ loader = [AtRest EXCEPT !.does = "read"] /\ watcher = AtRest
    /\ loadRaced = FALSE

\* An author writes: part of the text first, or something that does not parse.
Write(text) ==
    /\ stamp < MaxWrites
    /\ stamp' = stamp + 1
    /\ skillText' = IF text = "whole" THEN stamp' ELSE IF text = "part" THEN Partial ELSE Broken
    /\ loadRaced' = (loadRaced \/ loader.does = "stat")
    /\ UNCHANGED <<entry, seenStamp, loader, watcher>>

\* An author removes the file; nothing tells the catalog.
RemoveFile == skillText' = NoFile /\ UNCHANGED <<stamp, entry, seenStamp, loader, watcher, loadRaced>>

\* load_directory(): the text is read, registered, and only then the time is noted.
LoadText ==
    /\ loader.does = "read"
    /\ IF skillText \in {Broken, NoFile}
       THEN loader' = AtRest /\ UNCHANGED entry
       ELSE loader' = [AtRest EXCEPT !.does = "stat"] /\ entry' = skillText
    /\ UNCHANGED <<skillText, stamp, seenStamp, watcher, loadRaced>>
LoadStamp ==
    /\ loader.does = "stat"
    /\ seenStamp' = IF skillText = NoFile THEN seenStamp ELSE stamp
    /\ loader' = AtRest
    /\ UNCHANGED <<skillText, stamp, entry, watcher, loadRaced>>

\* The watching thread: a file that is new or newer than noted ...
LookAtStamp ==
    /\ loader = AtRest /\ watcher = AtRest /\ stamp > seenStamp /\ skillText # NoFile
    /\ watcher' = [AtRest EXCEPT !.does = "read", !.stamp = stamp]
    /\ UNCHANGED <<skillText, stamp, entry, seenStamp, loader, loadRaced>>

\* ... is read, and left alone if it does not parse or has gone ...
ReadText ==
    /\ watcher.does = "read"
    /\ watcher' = IF skillText \in {Broken, NoFile} THEN AtRest
                  ELSE [watcher EXCEPT !.does = "drop", !.text = skillText]
    /\ UNCHANGED <<skillText, stamp, entry, seenStamp, loader, loadRaced>>

\* ... the old entry is taken out under the lock ...
DropEntry ==
    /\ watcher.does = "drop"
    /\ entry' = NoEntry /\ watcher' = [watcher EXCEPT !.does = "add"]
    /\ UNCHANGED <<skillText, stamp, seenStamp, loader, loadRaced>>

\* ... the new one registered under it again, and the time noted that was seen first.
AddEntry ==
    /\ watcher.does = "add"
    /\ entry' = watcher.text /\ watcher' = [watcher EXCEPT !.does = "note"]
    /\ UNCHANGED <<skillText, stamp, seenStamp, loader, loadRaced>>
X_NoteStamp ==
    /\ watcher.does = "note"
    /\ seenStamp' = stamp /\ watcher' = AtRest
    /\ UNCHANGED <<skillText, stamp, entry, loader, loadRaced>>
NoteStamp ==
    /\ watcher.does = "note"
    /\ seenStamp' = watcher.stamp /\ watcher' = AtRest
    /\ UNCHANGED <<skillText, stamp, entry, loader, loadRaced>>

WatchNext ==
    \/ \E text \in {"whole", "part", "broken"} : Write(text)
    \/ RemoveFile
    \/ LoadText \/ LoadStamp
    \/ LookAtStamp \/ ReadText \/ DropEntry \/ AddEntry \/ NoteStamp

WatchSpec == WatchInit /\ [][WatchNext]_watchVars

-----------------------------------------------------------------------------
(* Properties                                                              *)

\* Once the watcher has caught up with the file, the catalog serves what it holds,
\* however the writes and removals fell between the steps of the reloads; a load
\* during which the file was written may stay behind, and a file that was removed
\* is served for good.
CatalogFollows ==
    loader = AtRest /\ watcher = AtRest /\ seenStamp >= stamp /\ ~loadRaced /\ skillText # NoFile
        => skillText # Broken /\ entry = skillText

\* The same without the exception: "No process restart needed"
\* (docs/adr/ADR-K8S-022-skill-catalog.md:116).  load_directory() notes the time
\* after it has read, so what was written in between is missed.
LoadsFollow ==
    loader = AtRest /\ watcher = AtRest /\ seenStamp >= stamp /\ skillText # NoFile
        => entry = skillText

\* "the watcher debounces for 500ms after the last write event before loading"
\* (docs/adr/ADR-K8S-022-skill-catalog.md:201): it does not wait.
NothingPartialIsServed == [][watcher.does = "add" => entry' # Partial]_watchVars

\* "can be safely hot-reloaded" (docs/adr/ADR-K8S-022-skill-catalog.md:111): between
\* the two uses of the lock the skill is not there.
NeverMissing == [][entry # NoEntry => entry' # NoEntry]_watchVars
=============================================================================

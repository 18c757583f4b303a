---------------------------- MODULE Marketplace ----------------------------
(***************************************************************************)
(* Looking through the marketplace (skills/connectors.py and the browse    *)
(* and scan routes of api/routes/marketplace.py): what ClawHub, the list   *)
(* of Claude plugins and GitHub answer, with demo items in their stead,    *)
(* the plugin list kept for a while, the filter of delisted items, and the *)
(* scan of an item fetched file by file.  An item is known by its URL;     *)
(* items without one share the empty URL.                                  *)
(***************************************************************************)
EXTENDS Integers, Sequences, SequencesExt

CONSTANTS
    PluginsOf,      \* version of the plugin list -> its items; versions are published in turn
    HubAnswers,     \* what ClawHub may answer
    DemoOf,         \* source -> the demo items
    BrowsedSources, \* of "all", "clawhub", "claude" and "agents"
    PerPage, Pages,
    ListLife,       \* _CLAUDE_CACHE_TTL
    DelistAfter,    \* _DELIST_THRESHOLD
    Shoppers,       \* concurrent requests
    Flawed,         \* URLs that fixes are asked for with
    MaxBrowses, MaxFixes, MaxPushes, MaxMarketTime    \* bounds

VARIABLES
    marketClock,
    published,      \* the current version of the list
    replacedAt,     \* version -> when the next one came, -1 while it is current or to come
    cached,         \* [version, stamp] of _claude_cache, version 0 before the first
    failedFixes,    \* URL -> failure_count
    browse,         \* shopper -> its request: shown are the places of the results it shows
    browses,        \* bound counter
    files,          \* file of the scanned repository -> its content now
    pushes,         \* bound counter
    itemScan        \* the scan: [kind, at, got (file -> what was fetched), verdict]

marketVars == <<marketClock, published, replacedAt, cached, failedFixes, browse, browses,
                files, pushes, itemScan>>
pageVars == <<published, replacedAt, cached, failedFixes, browse, browses>>
scanVars == <<files, pushes, itemScan>>

ListVersions == DOMAIN PluginsOf
Urls == UNION ({ToSet(PluginsOf[v]) : v \in ListVersions} \union {ToSet(a) : a \in HubAnswers}
               \union {ToSet(DemoOf[s]) : s \in DOMAIN DemoOf})
ASSUME MarketAssumption ==
    /\ ListVersions = 1 .. Len(PluginsOf) /\ Len(PluginsOf) \in Nat \ {0}
    /\ \A v \in ListVersions : PluginsOf[v] \in Seq(Urls)
    /\ HubAnswers \subseteq Seq(Urls)
    /\ {"clawhub", "claude", "agents"} \subseteq DOMAIN DemoOf
    /\ \A s \in DOMAIN DemoOf : DemoOf[s] \in Seq(Urls)
    /\ PerPage \in Nat \ {0} /\ Pages \subseteq Nat \ {0}
    /\ ListLife \in Nat \ {0} /\ DelistAfter \in Nat

Contents == {"clean", "leaky", "suspicious"}

NoBrowse == [at |-> "none", source |-> "", page |-> 1, asked |-> 0, version |-> 0, results |-> <<>>,
             seen |-> 0, shown |-> <<>>, hidden |-> {}]
NoScan(kind) == [kind |-> kind, at |-> 1, got |-> [n \in 1 .. 3 |-> "absent"], verdict |-> ""]

MarketInit ==
    /\ marketClock = 0 /\ published = 1 /\ replacedAt = [v \in ListVersions |-> -1]
    /\ cached = [version |-> 0, stamp |-> 0] /\ failedFixes = [u \in Urls |-> 0]
    /\ browse = [b \in Shoppers |-> NoBrowse] /\ browses = 0
    /\ files = [n \in 1 .. 3 |-> "clean"] /\ pushes = 0 /\ itemScan = NoScan("agent")

-----------------------------------------------------------------------------
(* Browsing                                                                *)

\* A request of browse_skills() (source "all", "clawhub", "claude") or browse_agents().
Browse(b, source, page) ==
    /\ browse[b].at = "none" /\ browses < MaxBrowses /\ browses' = browses + 1
    /\ browse' = [browse EXCEPT ![b] = [NoBrowse EXCEPT
           !.at = CASE source \in {"all", "clawhub"} -> "hub"
                    [] source = "claude" -> "plugins"
                    [] OTHER -> "repos",
           !.source = source, !.page = page,
           !.hidden = {u \in Urls : failedFixes[u] >= DelistAfter}]]
    /\ UNCHANGED <<marketClock, published, replacedAt, cached, failedFixes, scanVars>>

\* A page of a list, and a request that has its items from a source and goes on.
PageOf(list, page) ==
    SubSeq(list, (page - 1) * PerPage + 1, IF page * PerPage < Len(list) THEN page * PerPage
                                          ELSE Len(list))
Receive(b, items) ==
    [browse[b] EXCEPT !.results = @ \o items,
                      !.at = IF @ = "hub" /\ browse[b].source = "all" THEN "plugins" ELSE "filter"]

\* search_clawhub(): an empty answer is as good as none, although its docstring speaks of an
\* API that is unreachable (skills/connectors.py:586).
SearchHub(b, answer) ==
    /\ browse[b].at = "hub"
    /\ browse' = [browse EXCEPT ![b] =
           IF answer # <<>> THEN Receive(b, PageOf(answer, 1))
           ELSE Receive(b, PageOf(DemoOf["clawhub"], browse[b].page))]
    /\ UNCHANGED <<marketClock, published, replacedAt, cached, failedFixes, browses, scanVars>>
HubIsDown(b) ==
    /\ browse[b].at = "hub"
    /\ browse' = [browse EXCEPT ![b] =
           Receive(b, PageOf(DemoOf["clawhub"], browse[b].page))]
    /\ UNCHANGED <<marketClock, published, replacedAt, cached, failedFixes, browses, scanVars>>

\* search_claude_plugins(): a list that is not empty serves for a while ...
InTime == /\ cached.version # 0 /\ PluginsOf[cached.version] # <<>>
          /\ marketClock - cached.stamp < ListLife
ServeCached(b) ==
    /\ browse[b].at = "plugins" /\ InTime
    /\ browse' = [browse EXCEPT ![b] =
           [Receive(b, PluginsOf[cached.version]) EXCEPT
               !.asked = marketClock, !.version = cached.version]]
    /\ UNCHANGED <<marketClock, published, replacedAt, cached, failedFixes, browses, scanVars>>
AskForList(b) ==
    /\ browse[b].at = "plugins" /\ ~InTime
    /\ browse' = [browse EXCEPT ![b].at = "asking", ![b].asked = marketClock]
    /\ UNCHANGED <<marketClock, published, replacedAt, cached, failedFixes, browses, scanVars>>
\* ... from when it was asked for: what arrives was current at some time since.
X_Stamp(b) == marketClock
Stamp(b) == browse[b].asked
ListArrives(b, v) ==
    /\ browse[b].at = "asking" /\ v <= published
    /\ replacedAt[v] = -1 \/ replacedAt[v] >= browse[b].asked
    /\ cached' = [version |-> v, stamp |-> Stamp(b)]
    /\ browse' = [browse EXCEPT ![b] =
           [Receive(b, PluginsOf[v]) EXCEPT !.version = v]]
    /\ UNCHANGED <<marketClock, published, replacedAt, failedFixes, browses, scanVars>>
ListIsDown(b) ==
    /\ browse[b].at = "asking"
    /\ browse' = [browse EXCEPT ![b] = Receive(b, DemoOf["claude"])]
    /\ UNCHANGED <<marketClock, published, replacedAt, cached, failedFixes, browses, scanVars>>

\* search_gitagent_repos(): GitHub is asked only when there is a query, and the answer is
\* as for ClawHub.
SearchRepos(b, answer) ==
    /\ browse[b].at = "repos"
    /\ browse' = [browse EXCEPT ![b] =
           IF answer # <<>> THEN Receive(b, answer)
           ELSE Receive(b, DemoOf["agents"])]
    /\ UNCHANGED <<marketClock, published, replacedAt, cached, failedFixes, browses, scanVars>>

\* The filter asks for one item after the other.
X_DelistedNow(u) == failedFixes[u] > DelistAfter
DelistedNow(u) == failedFixes[u] >= DelistAfter
FilterItem(b) ==
    /\ browse[b].at = "filter" /\ browse[b].seen < Len(browse[b].results)
    /\ LET k == browse[b].seen + 1
       IN  browse' = [browse EXCEPT ![b].seen = k, ![b].shown =
               IF DelistedNow(browse[b].results[k]) THEN @ ELSE Append(@, k)]
    /\ UNCHANGED <<marketClock, published, replacedAt, cached, failedFixes, browses, scanVars>>
Answer(b) ==
    /\ browse[b].at = "filter" /\ browse[b].seen = Len(browse[b].results)
    /\ browse' = [browse EXCEPT ![b] = NoBrowse]
    /\ UNCHANGED <<marketClock, published, replacedAt, cached, failedFixes, browses, scanVars>>

\* A fix of a deeply flawed item is counted under the URL it is asked for with.
CountFailure(u) ==
    /\ failedFixes[u] < MaxFixes /\ failedFixes' = [failedFixes EXCEPT ![u] = @ + 1]
    /\ UNCHANGED <<marketClock, published, replacedAt, cached, browse, browses, scanVars>>

Publish ==
    /\ published + 1 \in ListVersions /\ published' = published + 1
    /\ replacedAt' = [replacedAt EXCEPT ![published] = marketClock]
    /\ UNCHANGED <<marketClock, cached, failedFixes, browse, browses, scanVars>>
MarketTick ==
    /\ marketClock < MaxMarketTime /\ marketClock' = marketClock + 1
    /\ UNCHANGED <<pageVars, scanVars>>

-----------------------------------------------------------------------------
(* Scanning                                                                *)

\* scan_item() fetches the three files of an agent, or the one of a skill; one that does not
\* come is left out.
FetchFile(comes) ==
    /\ itemScan.at \in 1 .. 3
    /\ itemScan' = [itemScan EXCEPT !.at = IF itemScan.kind = "skill" THEN 4 ELSE @ + 1,
                            !.got[itemScan.at] = IF comes THEN files[itemScan.at] ELSE "absent"]
    /\ UNCHANGED <<marketClock, pageVars, files, pushes>>

\* What there is is scanned by pattern and by the warden, who may see more.
X_Unsafe(got) == \E n \in {1} : got[n] \in {"leaky", "suspicious"}
Unsafe(got) == \E n \in 1 .. 3 : got[n] \in {"leaky", "suspicious"}
Judge(alarm) ==
    /\ itemScan.at = 4
    /\ itemScan' = [itemScan EXCEPT !.at = 5, !.verdict =
           IF \A n \in 1 .. 3 : itemScan.got[n] = "absent" THEN "not found"
           ELSE IF alarm \/ Unsafe(itemScan.got) THEN "unsafe" ELSE "safe"]
    /\ UNCHANGED <<marketClock, pageVars, files, pushes>>
ScanAgain(kind) ==
    /\ itemScan.at = 5 /\ itemScan' = NoScan(kind)
    /\ UNCHANGED <<marketClock, pageVars, files, pushes>>

Push(n, content) ==
    /\ pushes < MaxPushes /\ pushes' = pushes + 1
    /\ files' = [files EXCEPT ![n] = content]
    /\ UNCHANGED <<marketClock, pageVars, itemScan>>

BrowsingNext ==
    \/ \E b \in Shoppers :
        \/ \E s \in BrowsedSources, page \in Pages : Browse(b, s, page)
        \/ \E a \in HubAnswers : SearchHub(b, a) \/ SearchRepos(b, a)
        \/ HubIsDown(b) \/ ServeCached(b) \/ AskForList(b) \/ ListIsDown(b)
        \/ \E v \in ListVersions : ListArrives(b, v)
        \/ FilterItem(b) \/ Answer(b)
    \/ \E u \in Flawed : CountFailure(u)
    \/ Publish \/ MarketTick
ScanningNext ==
    \/ \E yes \in BOOLEAN : FetchFile(yes) \/ Judge(yes)
    \/ \E kind \in {"agent", "skill"} : ScanAgain(kind)
    \/ \E n \in 1 .. 3, c \in Contents : Push(n, c)

MarketNext == BrowsingNext \/ ScanningNext
MarketSpec == MarketInit /\ [][MarketNext]_marketVars

-----------------------------------------------------------------------------
\* Whatever order answers come in, the plugin list shown had been replaced for less than the
\* life of the list when it was taken.
ListIsRecent ==
    \A b \in Shoppers : LET v == browse[b].version IN
        v # 0 /\ replacedAt[v] # -1 => browse[b].asked - replacedAt[v] < ListLife

\* What was delisted when a request came in is not on its page, everything else is, unless
\* it was delisted meanwhile, and in the order of the sources.
PagesAreFiltered ==
    \A b \in Shoppers :
        LET r == browse[b] IN
        /\ \A k \in ToSet(r.shown) : k <= r.seen /\ r.results[k] \notin r.hidden
        /\ \A k \in (1 .. r.seen) \ ToSet(r.shown) : failedFixes[r.results[k]] >= DelistAfter
        /\ \A k \in 1 .. Len(r.shown) - 1 : r.shown[k] < r.shown[k + 1]

\* An item is called safe only when something of it was fetched and all of that is clean.
SafeIsClean ==
    itemScan.verdict = "safe" =>
        /\ \E n \in 1 .. 3 : itemScan.got[n] # "absent"
        /\ \A n \in 1 .. 3 : itemScan.got[n] \in {"clean", "absent"}

MarketIsHonest == ListIsRecent /\ PagesAreFiltered /\ SafeIsClean

-----------------------------------------------------------------------------
\* Stated, and not so.
\* api/routes/marketplace.py:34 "items that fail 3x": the items without a URL fail together.
ItemsFailAlone == failedFixes[""] < DelistAfter

\* marketplace.py:212 "Runs the full security pipeline": an item may be called safe with
\* files nobody has read, or read of different versions.
SafeIsWhole ==
    itemScan.kind = "agent" /\ itemScan.verdict = "safe" =>
        \A n \in 1 .. 3 : itemScan.got[n] = "clean"
=============================================================================

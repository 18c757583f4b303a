----------------------------- MODULE Standings ------------------------------
(***************************************************************************)
(* How agents, users and providers stand: scores of tournaments, and the   *)
(* reports of use. The two share no state.                                 *)
(***************************************************************************)
EXTENDS Integers, Sequences, FiniteSets, FiniteSetsExt, Functions

(***************************************************************************)
(* Head-to-head scores of agents (agents/tournament.py), for one intent.   *)
(* A rating is an integer: a battle moves some points from one side to the *)
(* other, how many depending on both ratings.                              *)
(***************************************************************************)

CONSTANTS
    Fighters, FightOrgs,
    MaxSwing,               \* K factor
    Margin, MinBattles,     \* promotion threshold, battles it needs
    MaxBattles,             \* battles kept
    MaxFought               \* bound: battles fought

ASSUME TournamentAssumption ==
    /\ IsFiniteSet(Fighters) /\ {"draw", "none"} \cap Fighters = {}
    /\ MaxSwing \in Nat /\ Margin \in Int /\ MinBattles \in Nat /\ MaxBattles \in Nat \ {0}

VARIABLES
    ratings,    \* <<agent, organisation>> -> AgentRating
    battles,    \* records kept, the oldest first
    fought,     \* every battle, for the properties
    promoted    \* what check_promotions() last answered, and for whom

tournamentVars == <<ratings, battles, fought, promoted>>

NewRating == [elo |-> 0, wins |-> 0, losses |-> 0, draws |-> 0]
NoPromotion == [org |-> "none", challenger |-> "none"]
TotalBattles(r) == r.wins + r.losses + r.draws

TournamentInit ==
    /\ ratings = [p \in Fighters \X FightOrgs |-> NewRating]
    /\ battles = <<>> /\ fought = <<>> /\ promoted = NoPromotion

\* The points the higher side of a decided battle, or of a draw, gives and takes: a
\* win takes fewer from a lower side than from a higher one.
WinSwings(winner, loser) ==
    IF winner.elo > loser.elo THEN 1..(MaxSwing \div 2)
    ELSE IF winner.elo = loser.elo THEN {MaxSwing \div 2} ELSE (MaxSwing \div 2)..(MaxSwing - 1)
DrawSwings(a, b) ==
    IF a.elo = b.elo THEN {0} ELSE IF a.elo < b.elo THEN 0..(MaxSwing \div 2 - 1)
    ELSE {-n : n \in 0..(MaxSwing \div 2 - 1)}

\* The two ratings after a battle in which a gained d points; an agent may meet itself.
Won(r, d) == [r EXCEPT !.elo = @ + d, !.wins = @ + 1]
Lost(r, d) == [r EXCEPT !.elo = @ - d, !.losses = @ + 1]
Drawn(r, d) == [r EXCEPT !.elo = @ + d, !.draws = @ + 1]
X_RecordBattle(a, b, o, winner, d) ==
    LET after == IF winner = "draw"
                 THEN [ratings EXCEPT ![<<a, o>>] = Drawn(@, d), ![<<b, o>>] = Drawn(@, d)]
                 ELSE [ratings EXCEPT ![<<a, o>>] = Won(@, d), ![<<b, o>>] = Lost(@, d)]
    IN  /\ ratings' = after
        /\ fought' = Append(fought, [a |-> a, b |-> b, org |-> o, winner |-> winner])
        /\ battles' = Append(IF Len(battles) >= MaxBattles THEN Tail(battles) ELSE battles,
                             Len(fought'))
        /\ UNCHANGED promoted
RecordBattle(a, b, o, winner, d) ==
    /\ LET first == [ratings EXCEPT ![<<a, o>>] =
                        CASE winner = "draw" -> Drawn(@, d)
                          [] winner = a -> Won(@, d) [] OTHER -> Lost(@, d)]
       IN  ratings' = [first EXCEPT ![<<b, o>>] =
                          CASE winner = "draw" -> Drawn(@, -d)
                            [] winner = a -> Lost(@, d) [] OTHER -> Won(@, d)]
    /\ fought' = Append(fought, [a |-> a, b |-> b, org |-> o, winner |-> winner])
    /\ battles' = Append(IF Len(battles) >= MaxBattles THEN Tail(battles) ELSE battles,
                         Len(fought'))
    /\ UNCHANGED promoted

Battle(a, b, o) ==
    /\ Len(fought) < MaxFought
    /\ \/ \E d \in WinSwings(ratings[<<a, o>>], ratings[<<b, o>>]) : RecordBattle(a, b, o, a, d)
       \/ \E d \in WinSwings(ratings[<<b, o>>], ratings[<<a, o>>]) : RecordBattle(a, b, o, b, d)
       \/ \E d \in DrawSwings(ratings[<<a, o>>], ratings[<<b, o>>]) : RecordBattle(a, b, o, "draw", d)

\* The challenger with the largest margin, if that reaches the threshold.
X_Challengers(inc, o) ==
    {f \in Fighters \ {inc} : ratings[<<f, o>>].elo - ratings[<<inc, o>>].elo >= Margin}
Challengers(inc, o) ==
    {f \in Fighters \ {inc} : /\ TotalBattles(ratings[<<f, o>>]) >= MinBattles
                              /\ ratings[<<f, o>>].elo - ratings[<<inc, o>>].elo >= Margin}
CheckPromotions(inc, o) ==
    /\ \E f \in {g \in Challengers(inc, o) :
                    \A h \in Challengers(inc, o) : ratings[<<h, o>>].elo <= ratings[<<g, o>>].elo}
               \cup (IF Challengers(inc, o) = {} THEN {"none"} ELSE {}) :
          promoted' = [org |-> o, challenger |-> f]
    /\ UNCHANGED <<ratings, battles, fought>>

TournamentNext ==
    \E o \in FightOrgs : \/ \E a, b \in Fighters : Battle(a, b, o)
                         \/ \E inc \in Fighters : CheckPromotions(inc, o)

TournamentSpec == TournamentInit /\ [][TournamentNext]_tournamentVars

-----------------------------------------------------------------------------
(* Properties                                                              *)

Fights(f, o) == {n \in DOMAIN fought : fought[n].org = o /\ f \in {fought[n].a, fought[n].b}}
\* Points of an organisation's agents together.
Points(o) == SumFunction([f \in Fighters |-> ratings[<<f, o>>].elo])

\* Over any battles, an agent against itself included: an organisation's points only
\* change hands, a rating counts the battles its agent won in that organisation, the
\* records kept are the last ones, and whoever is promoted has fought enough there.
StandingsAddUp ==
    /\ \A o \in FightOrgs :
          /\ Points(o) = 0
          /\ \A f \in Fighters : ratings[<<f, o>>].wins =
                Cardinality({n \in Fights(f, o) : fought[n].winner = f})
    /\ \A k \in DOMAIN battles : battles[k] = Len(fought) - Len(battles) + k
    /\ Len(battles) <= MaxBattles
    /\ promoted.challenger # "none" =>
          Cardinality(Fights(promoted.challenger, promoted.org)) * 2 >= MinBattles

-----------------------------------------------------------------------------
(***************************************************************************)
(* What the organisation is told of its use: the outcome stores            *)
(* (memory/outcomes.py, persistence/pg_outcomes.py) that agents write      *)
(* after a request, the quota tracker (quota/tracker.py), and the reports  *)
(* of api/routes/admin.py and profile.py that add them up.  A report is    *)
(* an operator of the state; the analyst's is gathered piece by piece      *)
(* while requests go on.  Time is counted in half days.                    *)
(***************************************************************************)

CONSTANTS
    Outcomes,       \* what may be recorded: [user, org, model, ok, tokens]
    MaxKept,        \* max_outcomes of the store in memory
    FreeTokens,     \* provider -> tokens of a billing cycle
    CycleOf,        \* provider -> "daily", "monthly"
    PayAsYouGo,     \* providers that take more than their free tokens
    TokensPerPoint, TopLevel,
    MaxRecorded,    \* bound: outcomes
    MaxUses,        \* bound: uses of a provider
    MaxHalfDays     \* bound: the clock

ASSUME ReportsAssumption ==
    /\ \A o \in Outcomes : o.tokens \in Nat
    /\ FreeTokens \in [DOMAIN FreeTokens -> Nat]
    /\ MaxKept \in Nat \ {0} /\ TopLevel \in Nat

VARIABLES
    outcomeStore,   \* "memory" or "postgres"
    history,        \* everything recorded: an outcome and its time
    outcomes,       \* what the store has kept of it
    uses,           \* calls of record_usage(): [provider, tokens, at]
    usage,          \* the tracker: <<provider, cycle>> -> tokens
    analyst,        \* the question under analysis: how many sections of its data are
                    \* read, the requests the first one counts, whether all agree
    halfDay         \* the clock

usageVars == <<outcomeStore, history, outcomes, uses, usage, analyst, halfDay>>

Providers == DOMAIN FreeTokens
Dimensions == {"user", "model", "provider"}
AnalystSections == 2        \* of four: two are enough to disagree
Organisations == {o.org : o \in Outcomes} \union {""}
HalfDaysOfMonth == 4
NoQuestion == [read |-> 0, first |-> 0, agree |-> TRUE]

ReportsInit ==
    /\ outcomeStore \in {"memory", "postgres"}
    /\ history = <<>> /\ outcomes = <<>>
    /\ uses = <<>> /\ usage = [x \in {} |-> 0]
    /\ analyst = NoQuestion /\ halfDay = 0

\* record(): the store in memory drops its oldest at the cap.
X_Kept(s) == IF outcomeStore = "memory" /\ Len(s) > MaxKept THEN Tail(s) ELSE s
Kept(s) == IF outcomeStore = "memory" /\ Len(s) >= MaxKept THEN Tail(s) ELSE s

\* An agent has answered (agents/base.py): task type and provider are never filled in.
RecordOutcome(o) ==
    /\ Len(history) < MaxRecorded
    /\ LET row == [of |-> o, at |-> halfDay, task |-> "", provider |-> ""]
       IN  /\ history' = Append(history, row)
           /\ outcomes' = Append(Kept(outcomes), row)
    /\ UNCHANGED <<outcomeStore, uses, usage, analyst, halfDay>>

\* cycle_key() of a time.
CycleKeyAt(p, t) == IF CycleOf[p] = "daily" THEN <<"day", t \div 2>>
                    ELSE <<"month", t \div HalfDaysOfMonth>>

\* record_usage() of either tracker.
UsageOf(p, key) == IF <<p, key>> \in DOMAIN usage THEN usage[<<p, key>>] ELSE 0
RecordUsage(p, tokens) ==
    /\ Len(uses) < MaxUses
    /\ LET key == CycleKeyAt(p, halfDay) IN
       usage' = [k \in DOMAIN usage \union {<<p, key>>} |->
                    IF k = <<p, key>> THEN UsageOf(p, key) + tokens ELSE usage[k]]
    /\ uses' = Append(uses, [provider |-> p, tokens |-> tokens, at |-> halfDay])
    /\ UNCHANGED <<outcomeStore, history, outcomes, analyst, halfDay>>

TimePasses ==
    /\ halfDay < MaxHalfDays /\ halfDay' = halfDay + 1
    /\ UNCHANGED <<outcomeStore, history, outcomes, uses, usage, analyst>>

-----------------------------------------------------------------------------
(* Reports                                                                 *)

\* Which records a caller sees: those of its organisation, where one without any sees what
\* has none, in PostgreSQL nothing; and those of the window, which no days make empty.
OfOrganisation(row, org) == row.of.org = org /\ (outcomeStore = "postgres" => org # "")
Seen(org, days) ==
    {k \in DOMAIN outcomes :
        OfOrganisation(outcomes[k], org) /\ outcomes[k].at > halfDay - 2 * days}
\* Only the breakdown of PostgreSQL takes no days for all of time.
SeenInUsage(org, days) ==
    IF outcomeStore = "postgres" /\ days <= 0
    THEN {k \in DOMAIN outcomes : OfOrganisation(outcomes[k], org)} ELSE Seen(org, days)

Summed(set) == [requests |-> Cardinality(set),
                ok |-> Cardinality({k \in set : outcomes[k].of.ok}),
                tokens |-> SumFunction([k \in set |-> outcomes[k].of.tokens])]
GroupBy(row, dimension) ==
    CASE dimension = "user" -> row.of.user
      [] dimension = "model" -> row.of.model
      [] dimension = "provider" -> IF row.provider = "" THEN "unknown" ELSE row.provider

\* get_task_completion_rate(), with what it says by model.
CompletionRate(org, days) == Summed(Seen(org, days))
\* get_usage_breakdown()
UsageBreakdown(org, dimension, days) ==
    LET Group(k) == GroupBy(outcomes[k], dimension)
    IN  [g \in {Group(k) : k \in SeenInUsage(org, days)} |->
            Summed({k \in SeenInUsage(org, days) : Group(k) = g})]
\* get_daily_timeseries(), not grouped
DailySeries(org, days) ==
    [d \in {outcomes[k].at \div 2 : k \in Seen(org, days)} |->
        Summed({k \in Seen(org, days) : outcomes[k].at \div 2 = d})]
\* get_experience_context(): failures of the week, of one type of task
Failures(org, task) ==
    {k \in Seen(org, 7) : ~outcomes[k].of.ok /\ outcomes[k].task = task}

\* get_quota(): a provider in its present cycle.
ProviderQuota(p) ==
    LET used == UsageOf(p, CycleKeyAt(p, halfDay))
    IN  [used |-> used, exhausted |-> used >= FreeTokens[p] /\ p \notin PayAsYouGo,
         overage |-> IF p \in PayAsYouGo THEN Max({used - FreeTokens[p], 0}) ELSE 0]
X_TokensLeft(p) == FreeTokens[p] - ProviderQuota(p).used
TokensLeft(p) == Max({FreeTokens[p] - ProviderQuota(p).used, 0})

\* _calculate_level(): floor(log2(points + 1)), by halving.
Log2[n \in Nat] == IF n <= 1 THEN 0 ELSE 1 + Log2[n \div 2]
X_LevelOf(points) == IF points <= 0 THEN 0 ELSE Min({Log2[points], TopLevel})
LevelOf(points) == IF points <= 0 THEN 0 ELSE Min({Log2[points + 1], TopLevel})
TwoTo[n \in Nat] == IF n = 0 THEN 1 ELSE 2 * TwoTo[n - 1]
PointsForLevel(level) == TwoTo[level] - 1

\* get_profile(): the points of a user are those of all time.
PointsOf(user, org) ==
    LET b == UsageBreakdown(org, "user", 0)
    IN  (IF user \in DOMAIN b THEN b[user].tokens ELSE 0) \div TokensPerPoint

\* analyze_quota(), past the scan of the question: breakdowns by user, team, model and
\* provider, each read on its own ...
Gather(org) ==
    /\ analyst.read < AnalystSections
    /\ LET n == CompletionRate(org, 30).requests IN
       analyst' = [read |-> analyst.read + 1,
                   first |-> IF analyst.read = 0 THEN n ELSE analyst.first,
                   agree |-> analyst.agree /\ (analyst.read = 0 \/ n = analyst.first)]
    /\ UNCHANGED <<outcomeStore, history, outcomes, uses, usage, halfDay>>
\* ... and then the model is called, and answers or not.
AnalystEnds ==
    /\ analyst.read = AnalystSections /\ analyst' = NoQuestion
    /\ UNCHANGED <<outcomeStore, history, outcomes, uses, usage, halfDay>>

ReportsNext ==
    \/ \E o \in Outcomes : RecordOutcome(o)
    \/ \E p \in Providers : RecordUsage(p, 1)
    \/ TimePasses
    \/ AnalystEnds \/ \E org \in Organisations \ {""} : Gather(org)

ReportsSpec == ReportsInit /\ [][ReportsNext]_usageVars

-----------------------------------------------------------------------------
AddsUp(report, c) ==
    /\ SumFunction([g \in DOMAIN report |-> report[g].requests]) = c.requests
    /\ SumFunction([g \in DOMAIN report |-> report[g].ok]) = c.ok
    /\ SumFunction([g \in DOMAIN report |-> report[g].tokens]) = c.tokens

\* However outcomes, days and evictions interleave, the reports of an organisation agree:
\* each breakdown and the series add up to the completion rate, and that counts just the
\* organisation's outcomes of the window that the cap has left in the store.
ReportsAgree ==
    \A org \in Organisations, days \in {1, 2} :
        LET c == CompletionRate(org, days)
            left == IF outcomeStore = "memory" THEN Max({Len(history) - MaxKept, 0}) ELSE 0
        IN  /\ \A dim \in Dimensions : AddsUp(UsageBreakdown(org, dim, days), c)
            /\ AddsUp(DailySeries(org, days), c)
            /\ org # "" => c.requests =
                   Cardinality({k \in DOMAIN history : k > left /\ history[k].of.org = org
                                                       /\ history[k].at > halfDay - 2 * days})

\* A provider's quota counts the uses of its present cycle and no other; what is left, over
\* and exhausted follow from that one number.
QuotaFollowsUse ==
    \A p \in Providers :
        LET q == ProviderQuota(p)
            now == {k \in DOMAIN uses : uses[k].provider = p
                                        /\ CycleKeyAt(p, uses[k].at) = CycleKeyAt(p, halfDay)}
        IN  /\ q.used = SumFunction([k \in now |-> uses[k].tokens])
            /\ q.used + TokensLeft(p) >= FreeTokens[p] /\ TokensLeft(p) >= 0
            /\ q.overage > 0 => TokensLeft(p) = 0 /\ ~q.exhausted

\* The level of a user is the highest one whose points are reached.
LevelsAreEarned ==
    \A points \in 0 .. PointsForLevel(TopLevel + 1) :
        /\ PointsForLevel(LevelOf(points)) <= points
        /\ LevelOf(points) < TopLevel => points < PointsForLevel(LevelOf(points) + 1)

ReportsAddUp == ReportsAgree /\ QuotaFollowsUse /\ LevelsAreEarned

-----------------------------------------------------------------------------
\* Stated, and not so.
\* api/routes/profile.py:193 "days: Time window (0 = all-time": not in memory.
ZeroDaysIsAllTime ==
    \A o \in {history[k].of : k \in DOMAIN history} :
        o.org # "" => PointsOf(o.user, o.org) > 0 \/ o.tokens < TokensPerPoint

\* triggers.py:62 "Outcome stats snapshot": it asks for no organisation, and so of all
\* requests counts those that have none, or in PostgreSQL no request at all.
SnapshotCounts == history # <<>> => CompletionRate("", 7).requests > 0

\* memory/outcomes.py:3 "Tracks request outcomes for ... experience-augmented prompts": no
\* outcome has the type of its task.
FailuresAreTold ==
    \A k \in DOMAIN outcomes : ~outcomes[k].of.ok =>
        \E task \in {"code", "chat"} : Failures(outcomes[k].of.org, task) # {}

\* The sections the analyst is given are those of one moment.
SectionsAgree == analyst.agree
=============================================================================

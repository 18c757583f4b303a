------------------------------ MODULE MCServices ------------------------------
(***************************************************************************)
(* The parts of Stronghold that share no state, checked in one run: `part' *)
(* is chosen once, and only that part moves.  A state is a state of one    *)
(* part, so the run says of each what a run of its own would say.          *)
(***************************************************************************)
EXTENDS Conduit, AgentTurn, CoinLedger, SessionStores, RequestGuards, WorkQueues,
        Rollouts, BuildersRun, AgentFleet, Accounts, Marketplace

VARIABLE part

MCSessionOf == [r \in Requests |-> IF r = "r3" THEN "t" ELSE "s"]
MCConfigOrder == <<"open", "safe">>
MCQualityOrder == <<"open", "safe">>
MCCallLists == {<<>>, <<"fine">>, <<"fine", "oversize">>}
MCRates == [small |-> [base |-> 0, input |-> 1000, output |-> 1000],
            large |-> [base |-> 0, input |-> 5000, output |-> 5000]]
MCWallets == [org   |-> [owner |-> "org", denomination |-> "copper", cycle |-> "daily"],
              purse |-> [owner |-> "user", denomination |-> "copper", cycle |-> "daily"],
              vault |-> [owner |-> "user", denomination |-> "silver", cycle |-> "monthly"]]
MCLimits == [org |-> {10000}, purse |-> {2000, 10000}, vault |-> {10000}]
MCListings == { [a \in Artifacts |-> n] : n \in {0, 2} }
MCPlugins == << <<"p", "">>, <<"q">> >>
MCHub == {<<>>, <<"">>}
MCDemo == [clawhub |-> <<"", "d">>, claude |-> <<"d">>, agents |-> <<"d">>]
MCTeamOf == [e \in Emails |-> "team"]

\* Parts that do not move start in one state only.
ServicesInit ==
    /\ part \in {"conduit", "turns", "coins", "sessions", "limiters", "strikes", "issues",
                "tasks", "canaries", "builders", "fleet", "accounts", "prompts",
                "market", "scans"}
    /\ ConduitInit /\ (part = "conduit" \/ active = Providers)
    /\ TurnInit
    /\ CoinInit
    /\ SessionInit /\ (part = "sessions" \/ backend = "memory")
    /\ RateInit /\ (part = "limiters" \/ limiter = "memory")
    /\ StrikesInit
    /\ IssueInit
    /\ TasksInit
    /\ CanaryInit
    /\ BuildersInit
    /\ FleetInit /\ (part = "fleet" \/ creations = 0)
    /\ AccountsInit
    /\ PromptInit /\ (part = "prompts" \/ manager = "memory")
    /\ MarketInit

ServicesNext ==
    /\ UNCHANGED part
    /\ IF part = "conduit" THEN ConduitNext ELSE UNCHANGED conduitVars
    /\ IF part = "turns" THEN TurnNext ELSE UNCHANGED turnVars
    /\ IF part = "coins" THEN CoinNext ELSE UNCHANGED coinVars
    /\ IF part = "sessions" THEN SessionNext ELSE UNCHANGED sessionVars
    /\ IF part = "limiters" THEN RateNext ELSE UNCHANGED rateVars
    /\ IF part = "strikes" THEN StrikesNext ELSE UNCHANGED strikeVars
    /\ IF part = "issues" THEN IssueNext ELSE UNCHANGED issueVars
    /\ IF part = "tasks" THEN TasksNext ELSE UNCHANGED taskVars
    /\ IF part = "canaries" THEN CanaryNext ELSE UNCHANGED canaryVars
    /\ IF part = "builders" THEN BuildersNext ELSE UNCHANGED buildersVars
    /\ IF part = "fleet" THEN FleetNext ELSE UNCHANGED fleetVars
    /\ IF part = "accounts" THEN AccountsNext ELSE UNCHANGED accountVars
    /\ IF part = "prompts" THEN PromptNext ELSE UNCHANGED promptVars
    /\ IF part = "market" THEN BrowsingNext
       ELSE IF part = "scans" THEN ScanningNext ELSE UNCHANGED marketVars

ServicesSpec ==
    ServicesInit
    /\ [][ServicesNext]_<<part, conduitVars, turnVars, coinVars, sessionVars, rateVars,
                          strikeVars, issueVars, taskVars, canaryVars, buildersVars,
                          fleetVars, accountVars, promptVars, marketVars>>

\* No window admits more than its limit, no account is locked or freed but by rule, and no page
\* of the marketplace shows what was delisted, or a list that was replaced too long ago.
LimitsHold == NoWindowOverLimit /\ StrikesAreConsistent /\ MarketIsHonest
=============================================================================

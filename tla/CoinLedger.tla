----------------------------- MODULE CoinLedger -----------------------------
(***************************************************************************)
(* The PostgreSQL coin ledger, src/stronghold/quota/coins.py, as the       *)
(* request pipeline uses it: ensure_can_afford() before the agent runs,    *)
(* charge_usage() after it; and the exchange of copper for silver in       *)
(* api/routes/admin.py.  They read the wallets and decide on what they     *)
(* read; only the insertion of their entries is one transaction.           *)
(* All requests are for one user, team and organisation.  A wallet keeps   *)
(* its billing cycle (an administrator's change of it is not modelled).    *)
(***************************************************************************)
EXTENDS Integers, FiniteSets, FiniteSetsExt, Functions

CONSTANTS
    Clients,        \* requests in flight at a time
    Rates,          \* model -> [base, input, output] in microchips (per request, per 1000 tokens)
    Tokens,         \* token counts of a request
    Wallets,        \* wallet -> [owner, denomination, cycle]
    Limits,         \* wallet -> hard limits an administrator may set
    Copper, Silver, \* the user's wallets an exchange takes from and gives to;
                    \* convert_coins() makes the silver one itself, a monthly one
    Exchanged,      \* microchips of an exchange
    BankingRate,    \* banking_rate_pct
    MaxCharges,     \* bound: charges
    MaxCycles       \* bound: days

Models == DOMAIN Rates
WalletIds == DOMAIN Wallets
Factor == [copper |-> 1, silver |-> 10, gold |-> 100, platinum |-> 500, diamond |-> 1000]
MicrochipsPerCopper == 1000

VARIABLES
    phase,      \* client -> where its request is
    request,    \* client -> model and tokens of its request
    seen,       \* client -> the wallets as charge_usage() read them
    limit,      \* hard_limit_microchips
    debits,     \* ledger entries: wallet and cycle key -> sum of its debits
    credits,    \* and of its credits
    day,        \* the clock, in days
    charges     \* number of charges so far

coinVars == <<phase, request, seen, limit, debits, credits, day, charges>>

\* cycle_key(): a day or a month.  A month of two days is enough for a daily
\* wallet to outlive its cycle.
LedgerKeys == {"daily", "monthly"} \X (0 .. MaxCycles)
KeyOf(cycle, d) == IF cycle = "daily" THEN <<"daily", d>> ELSE <<"monthly", d \div 2>>
CycleKey(w, d) == KeyOf(Wallets[w].cycle, d)

NoRequest == [model |-> CHOOSE m \in Models : TRUE, tokens |-> 0]
Unread == [w \in WalletIds |-> [cycle |-> KeyOf("daily", 0), remaining |-> 0]]

CoinInit ==
    /\ phase = [c \in Clients |-> "idle"]
    /\ request = [c \in Clients |-> NoRequest]
    /\ seen = [c \in Clients |-> Unread]
    /\ limit = [w \in WalletIds |-> Max(Limits[w])]
    /\ debits = [w \in WalletIds |-> [k \in LedgerKeys |-> 0]]
    /\ credits = [w \in WalletIds |-> [k \in LedgerKeys |-> 0]]
    /\ day = 0
    /\ charges = 0

-----------------------------------------------------------------------------
(* Quotes                                                                   *)

\* Rounded half up to a whole microchip; as many output as input tokens.
Quote(m, n) ==
    (2 * (1000 * Rates[m].base + n * (Rates[m].input + Rates[m].output)) + 1000) \div 2000

\* The highest denomination that a typical request (1000 tokens each way) costs.
DenominationOf(m) ==
    LET typical == Rates[m].base + Rates[m].input + Rates[m].output
        met == { d \in DOMAIN Factor : typical >= Factor[d] * MicrochipsPerCopper }
    IN  IF met = {} THEN "copper" ELSE CHOOSE d \in met : \A e \in met : Factor[e] <= Factor[d]

Dearest == Max({ Quote(m, n) : m \in Models, n \in Tokens })

-----------------------------------------------------------------------------
(* Wallets                                                                  *)

Budgets == { w \in WalletIds : Wallets[w].owner \in {"org", "team"} }
UserWallets == { w \in WalletIds : Wallets[w].owner = "user" }

\* An exchange is of ten whole coppers at least, between two wallets of the user.
ASSUME CoinAssumption ==
    /\ IsFiniteSet(Clients) /\ Clients # {}
    /\ IsFiniteSet(Models) /\ Models # {}
    /\ Rates \in [Models -> [base : Nat, input : Nat, output : Nat]]
    /\ IsFiniteSet(Tokens) /\ Tokens # {} /\ Tokens \subseteq Nat
    /\ IsFiniteSet(WalletIds) /\ "none" \notin WalletIds
    /\ \A w \in WalletIds : Wallets[w].cycle \in {"daily", "monthly"}
    /\ \A w \in WalletIds : IsFiniteSet(Limits[w]) /\ Limits[w] # {} /\ Limits[w] \subseteq Nat
    /\ {Copper, Silver} \subseteq UserWallets /\ Copper # Silver
    /\ Exchanged \in Nat \ {0} /\ Exchanged % MicrochipsPerCopper = 0
    /\ Exchanged >= 10 * MicrochipsPerCopper
    /\ BankingRate \in 1 .. 100
    /\ MaxCycles \in Nat

FactorOf(w) == Factor[Wallets[w].denomination]
Eligible(m) == { w \in UserWallets : FactorOf(w) >= Factor[DenominationOf(m)] }

\* _hydrate_wallet(): what is left in the cycle of today, never below zero.
Remaining(w) ==
    LET k == CycleKey(w, day) IN Max({limit[w] + credits[w][k] - debits[w][k], 0})
Hydrated == [w \in WalletIds |-> [cycle |-> CycleKey(w, day), remaining |-> Remaining(w)]]

\* ensure_can_afford() for an estimate of n tokens.
Affordable(m, n) ==
    /\ \A w \in Budgets : Remaining(w) >= Quote(m, n)
    /\ UserWallets # {} => \E w \in Eligible(m) : Remaining(w) >= Quote(m, n)

\* The wallet charge_usage() takes: of those that could pay when they were
\* read, one of the lowest denomination; none, if none could.
X_TargetsUnread(c) == Eligible(request[c].model)
Targets(c) ==
    LET cost == Quote(request[c].model, request[c].tokens)
        able == { w \in Eligible(request[c].model) : seen[c][w].remaining >= cost }
    IN  { w \in able : \A v \in able : FactorOf(w) <= FactorOf(v) }

-----------------------------------------------------------------------------
(* Requests and exchanges                                                   *)

Settle(c) ==
    /\ phase' = [phase EXCEPT ![c] = "idle"]
    /\ request' = [request EXCEPT ![c] = NoRequest]
    /\ seen' = [seen EXCEPT ![c] = Unread]

\* The bound on requests and exchanges, those in flight included.
ChargesLeft == charges + Cardinality({ c \in Clients : phase[c] # "idle" }) < MaxCharges

Ensure(c, m, n) ==
    /\ phase[c] = "idle" /\ ChargesLeft
    /\ Affordable(m, n)
    /\ request' = [request EXCEPT ![c] = [model |-> m, tokens |-> n]]
    /\ phase' = [phase EXCEPT ![c] = "running"]
    /\ UNCHANGED <<seen, limit, debits, credits, day, charges>>

\* The agent has answered with n tokens used: charge_usage() reads the wallets.
LoadWallets(c, n) ==
    /\ phase[c] = "running"
    /\ request' = [request EXCEPT ![c].tokens = n]
    /\ seen' = [seen EXCEPT ![c] = Hydrated]
    /\ phase' = [phase EXCEPT ![c] = "charging"]
    /\ UNCHANGED <<limit, debits, credits, day, charges>>

\* Its entries, under the cycle keys that were read.
X_Charged(c, w, target) == w = target \/ (w \in Budgets /\ seen[c][w].remaining > 0)
Charged(c, w, target) == w \in Budgets \/ w = target

ChargeUsage(c) ==
    /\ phase[c] = "charging"
    /\ \E target \in IF Targets(c) = {} THEN {"none"} ELSE Targets(c) :
         debits' = [w \in WalletIds |->
           IF Charged(c, w, target)
           THEN [debits[w] EXCEPT ![seen[c][w].cycle] =
                   @ + Quote(request[c].model, request[c].tokens)]
           ELSE debits[w]]
    /\ charges' = charges + 1
    /\ Settle(c)
    /\ UNCHANGED <<limit, credits, day>>

\* convert_coins(): enough copper was left when the wallets were read, in the
\* wallet's own cycle ...
ReadForExchange(c) ==
    /\ phase[c] = "idle" /\ ChargesLeft
    /\ Remaining(Copper) >= Exchanged
    /\ phase' = [phase EXCEPT ![c] = "exchanging"]
    /\ UNCHANGED <<request, seen, limit, debits, credits, day, charges>>

\* ... and it is taken under the key of the day, and the silver given under
\* that of the month, whatever the cycles of the two wallets.
Exchange(c) ==
    /\ phase[c] = "exchanging"
    /\ debits' = [debits EXCEPT ![Copper][KeyOf("daily", day)] = @ + Exchanged]
    /\ credits' = [credits EXCEPT ![Silver][KeyOf("monthly", day)] =
                     @ + (Exchanged * BankingRate) \div 100]
    /\ charges' = charges + 1
    /\ Settle(c)
    /\ UNCHANGED <<limit, day>>

\* The agent fails, or the process is restarted: nothing is charged.
Abandon(c) ==
    /\ phase[c] # "idle"
    /\ Settle(c)
    /\ UNCHANGED <<limit, debits, credits, day, charges>>

\* upsert_wallet() of an existing wallet.
SetLimit(w, l) ==
    /\ limit' = [limit EXCEPT ![w] = l]
    /\ UNCHANGED <<phase, request, seen, debits, credits, day, charges>>

Midnight ==
    /\ day < MaxCycles
    /\ day' = day + 1
    /\ UNCHANGED <<phase, request, seen, limit, debits, credits, charges>>

CoinNext ==
    \/ \E c \in Clients, n \in Tokens :
         LoadWallets(c, n) \/ \E m \in Models : Ensure(c, m, n)
    \/ \E c \in Clients : ChargeUsage(c) \/ ReadForExchange(c) \/ Exchange(c) \/ Abandon(c)
    \/ \E w \in WalletIds : \E l \in Limits[w] : SetLimit(w, l)
    \/ Midnight

CoinSpec == CoinInit /\ [][CoinNext]_coinVars

-----------------------------------------------------------------------------
(* Properties                                                              *)

\* The user's wallets whose debits are all filed under keys of their own cycle:
\* all but a monthly one that copper is taken from, see ExchangeCostsCopper.
Counted == { w \in UserWallets : w = Copper => Wallets[w].cycle = "daily" }

\* Such a wallet is overdrawn only by requests that were in flight together:
\* in a cycle it pays at most its limit, its credit and one dearest request or
\* exchange for each other client, however many there are (checks in
\* ensure_can_afford and convert_coins, insertions in charge_usage and later).
OverdraftNeedsCompany ==
    \A w \in Counted, k \in LedgerKeys :
        debits[w][k] <= Max(Limits[w]) + credits[w][k]
                          + (Cardinality(Clients) - 1) * Max({Dearest, Exchanged})

\* What users spend shows in every budget above them, whatever the cycles of
\* the wallets and whenever a charge crosses midnight; copper that was exchanged
\* is not spent.
ExchangedCopper == (SumFunction(credits[Silver]) * 100) \div BankingRate
SpentByUsers == SumFunction([w \in UserWallets |-> SumFunction(debits[w])])
BudgetsSeeEverySpend ==
    \A b \in Budgets : SumFunction(debits[b]) + ExchangedCopper >= SpentByUsers

\* What is spent is within the limits but for requests in flight, and seen.
SpendingIsControlled == OverdraftNeedsCompany /\ BudgetsSeeEverySpend

\* "Debit full copper from daily wallet (they lose the full amount)": after an
\* exchange the wallet shows that much less, or nothing.  The entry is filed
\* under the day; a monthly wallet, which is what an upsert makes when no cycle
\* is given, never reads that key and shows no less than before.
ExchangeCostsCopper ==
    [][\A c \in Clients : phase[c] = "exchanging" /\ phase'[c] = "idle" /\ charges' # charges =>
         Remaining(Copper)' <= Max({Remaining(Copper) - Exchanged, 0})]_coinVars

\* "convert free daily copper into persistent silver": time alone takes no
\* silver away.
SilverPersists == [][day' # day => Remaining(Silver)' >= Remaining(Silver)]_coinVars
=============================================================================

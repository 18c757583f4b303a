\* Copper of a monthly wallet is exchanged for silver.
CONSTANTS
    Clients = {client1, client2}
    Rates <- MCRates
    Tokens = {500, 1000}
    Wallets <- MCWallets
    Limits <- MCLimits
    Copper = "purse"
    Silver = "vault"
    Exchanged = 10000
    BankingRate = 40
    MaxCharges = 3
    MaxCycles = 1
SPECIFICATION CoinSpec
PROPERTIES
    ExchangeCostsCopper
CHECK_DEADLOCK FALSE

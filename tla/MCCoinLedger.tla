----------------------------- MODULE MCCoinLedger -----------------------------
(* One user whose copper wallet is a monthly one.                           *)
EXTENDS CoinLedger

MCRates == [small |-> [base |-> 0, input |-> 1000, output |-> 1000]]
MCWallets == [purse |-> [owner |-> "user", denomination |-> "copper", cycle |-> "monthly"],
              vault |-> [owner |-> "user", denomination |-> "silver", cycle |-> "monthly"]]
MCLimits == [purse |-> {10000}, vault |-> {0, 10000}]
=============================================================================

------------------------------ MODULE MCLedger ------------------------------
(* Model values and small sets for checking the ledger operations with   *)
(* TLC.                                                                    *)
EXTENDS LedgerQueries

CONSTANTS root, alice, deposit, bonus

MCAccounts == {root, alice}
MCFunds == {deposit}
\* A second fund, whose rows sort among the rows of deposit.
MCTwoFunds == {deposit, bonus}
\* 0 is an amount validate() rejects.
MCAmounts == {0, 1}
MCRequestIds == {0}
MCUserTypes == {0}
MCMonths == {1}
\* 2 and 0 are a usertype and a month validate() rejects.
MCOpUserTypes == {0, 2}
MCOpMonths == {0, 1}
\* A complete time at or before the head block time is rejected by
\* transfer_savings.
MCCompletes == {1, 2}
\* -1 is rejected by staking_fund; 100 is a 100% interest cell.
MCInterests == {-1, 0, 100}
\* "alice" < "root" and "bonus" < "deposit" as names.
MCAccountRank == [a \in MCAccounts |-> IF a = alice THEN 0 ELSE 1]
MCFundRank == [f \in MCTwoFunds |-> IF f = bonus THEN 0 ELSE 1]
=============================================================================

CONSTANTS
    root = root
    alice = alice
    deposit = deposit
    bonus = bonus
    AccountRank <- MCAccountRank
    FundRank <- MCFundRank
    Accounts <- MCAccounts
    Root = root
    Funds <- MCTwoFunds
    Amounts <- MCAmounts
    RequestIds <- MCRequestIds
    UserTypes <- MCUserTypes
    Months <- MCMonths
    OpUserTypes <- MCOpUserTypes
    OpMonths <- MCOpMonths
    Completes <- MCCompletes
    Interests <- MCInterests
    MonthLength = 1
    GenesisSupply = 2
    MaxTime = 2
    MaxSupply = 3
SPECIFICATION OpsSpec
CONSTRAINT LedgerBound
INVARIANT FundWithdrawListComplete

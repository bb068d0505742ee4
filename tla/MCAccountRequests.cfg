CONSTANTS
    alice = alice
    bob = bob
    carol = carol
    token = token
    Accounts <- MCAccounts
    GenesisAccounts <- MCGenesisAccounts
    AuthTypes <- MCAuthTypes
    RecoveryPeriod = 2
    GenesisTime = 1
    MaxTime = 1
SPECIFICATION OpsSpec
CONSTRAINT TimeBound
VIEW RequestsView
INVARIANT TypeOK
INVARIANT AuthTokenListPagesComplete
PROPERTY RequestHistoryCoversChanges

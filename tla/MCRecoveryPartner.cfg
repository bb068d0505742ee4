CONSTANTS
    alice = alice
    bob = bob
    carol = carol
    token = token
    Accounts <- MCPartnerAccounts
    GenesisAccounts <- MCGenesisAccounts
    AuthTypes <- MCAuthTypes
    RecoveryPeriod = 2
    GenesisTime = 1
    MaxTime = 4
SPECIFICATION OpsSpec
CONSTRAINT TimeBound
VIEW RequestsView
PROPERTY PartnerChangesAfterRecoveryPeriod

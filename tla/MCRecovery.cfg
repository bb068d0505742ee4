CONSTANTS
    alice = alice
    carol = carol
    k1 = k1
    kc = kc
    open = open
    key1 = key1
    key2 = key2
    Accounts <- MCAccounts
    GenesisAccounts <- MCGenesisAccounts
    Auths <- MCAuths
    Threshold <- MCThreshold
    IsImpossible <- MCIsImpossible
    Refs <- MCRefs
    GenesisAuth = k1
    TopBobserver = alice
    UpdateLimit = 0
    RequestExpiration = 1
    RecoveryPeriod = 1
    GenesisTime = 1
    MaxTime = 3
    MaxOwnerChanges = 2
SPECIFICATION OpsSpec
CONSTRAINT RecoveryBound
VIEW RecoveryView
INVARIANT TypeOK
INVARIANT OwnersListedByHistory
INVARIANT AuthoritiesNameFoundAccounts
INVARIANT SigningQueriesAgree
PROPERTY OwnerUpdatesRateLimited
PROPERTY RecoveryWithinTimeLimits
PROPERTY OwnerReplacedOnlyWithOwnerKeys
PROPERTY AccountHistoryCoversChanges

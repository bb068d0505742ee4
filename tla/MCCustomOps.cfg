CONSTANTS
    k1 = k1
    a = a
    b = b
    r = r
    q = q
    alice = alice
    plugin = plugin
    unknown = unknown
    Keys <- MCKeys
    Values <- MCValues
    InitValue = 0
    InnerOps <- MCInnerOps
    Write <- MCWrite
    Auths <- MCAuths
    Others <- MCOthers
    Outers <- MCOuters
    MaxBatch = 3
    Ids <- MCIds
    Registered <- MCRegistered
SPECIFICATION Spec
INVARIANT TypeOK
PROPERTY ImplementsAtomic

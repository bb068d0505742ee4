CONSTANTS
    PoolSize <- MCPoolSize
    MaxTicks <- MCMaxTicks
SPECIFICATION FairSpec
\* Generation stops for good once stop_generation has run or the node ended.
CHECK_DEADLOCK FALSE
INVARIANT
    NoncesDistinct

CONSTANTS
    Producers <- MCProducers
    NumSlots = 2
    MaxVoted = 2
    HardforkRequired = 2
    Votes <- MCVotes
    Versions <- MCVersions
    HfVotes <- MCHfVotes
    InitMiner = 1
    MaxBlock = 6

SPECIFICATION Spec

INVARIANT TypeOK

PROPERTY ScheduleIsTopEligible
PROPERTY MajorityVersionIsHighestSupported
PROPERTY HardforkFollowsSupermajority
CONSTRAINT BlockBound
INVARIANT ProducerListsPageCompletely

CHECK_DEADLOCK FALSE

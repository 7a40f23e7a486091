SPECIFICATION Spec
CONSTANTS
    MaxRepos = 7
    ShardSize = 3
    HasRawBucket = TRUE
INVARIANTS TypeOK ShardsAreDisjoint AnnouncedJobIsWhole UnfinishedJobIsSilent
PROPERTIES ControllerEnds ImplementsBatchJob
CHECK_DEADLOCK FALSE

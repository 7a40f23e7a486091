SPECIFICATION Spec
CONSTANTS
    NumShards = 1
    ShardRepos <- TwoRepos
    Workers = {w1, w2}
    MaxReceives = 3
    MaxFaults = 2
    NoMessage = NoMessage
    NoFile = NoFile
INVARIANTS TypeOK AckedShardHasResult CompletedShardIsWhole RetriesHeal UnannouncedJobIsUntouched
PROPERTIES EveryShardSettles QueueDrains ImplementsBatchJob BucketFillsForTransfer
CHECK_DEADLOCK FALSE

SPECIFICATION Spec
CONSTANTS
    NumShards = 1
    ShardRepos <- TwoRepos
    Workers = {w1, w2}
    MaxReceives = 3
    MaxFaults = 0
    NoMessage = NoMessage
    NoFile = NoFile
INVARIANT DeadLetterMeansFailure
CHECK_DEADLOCK FALSE

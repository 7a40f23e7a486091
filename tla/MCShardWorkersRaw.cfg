SPECIFICATION Spec
CONSTANTS
    NumShards = 1
    ShardRepos <- TwoRepos
    Workers = {w1, w2}
    MaxReceives = 3
    MaxFaults = 3
    NoMessage = NoMessage
    NoFile = NoFile
INVARIANT RawMatchesCanonical
CHECK_DEADLOCK FALSE

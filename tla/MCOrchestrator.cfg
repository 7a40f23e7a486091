SPECIFICATION Spec
CONSTANTS
    Requests = {q1, q2}
    NumCommits = 2
    Latest = Latest
    Concurrency = 1
    Ttl = 0
    MaxAge = 0
    MaxTime = 1
    None = None
    Failed = Failed
INVARIANTS TypeOK PinnedAnswerIsThatCommit LatestIsAlsoPinned
PROPERTIES EveryRequestAnswered FlightsLand
CHECK_DEADLOCK FALSE

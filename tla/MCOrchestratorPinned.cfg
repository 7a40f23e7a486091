SPECIFICATION Spec
CONSTANTS
    Requests = {q1, q2}
    NumCommits = 2
    Latest = Latest
    Concurrency = 1
    Ttl = 0
    MaxAge = 1
    MaxTime = 2
    None = None
    Failed = Failed
PROPERTY PinnedIsImmutable
CHECK_DEADLOCK FALSE

SPECIFICATION Spec
CONSTANTS
    Messages = {m1, m2}
    Unparseable = {m2}
    Kinds <- AllKinds
    MaxReceives = 2
    MaxFaults = 1
    NoDelivery = NoDelivery
INVARIANTS TypeOK SqsRenewsOnlyWhatItHolds HeldMessageIsRenewed NoChannelClosedTwice
PROPERTIES SqsNeverEndsHolding SqsShutdownIsClean

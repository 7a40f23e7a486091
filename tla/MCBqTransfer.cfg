SPECIFICATION Spec
CONSTANTS
    Jobs = {1, 2, 3}
    JobSize <- Sizes
    Day <- Days
    ThresholdNum = 2
    ThresholdDen = 3
    HasWebhook = TRUE
    MaxFaults = 2
    Nothing = Nothing
INVARIANTS TypeOK TransferredJobIsInTable OnlyAnnouncedJobsMove
PROPERTIES MarkedJobIsNotReloaded CompleteJobIsTransferred
CHECK_DEADLOCK FALSE

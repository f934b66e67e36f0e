CONSTANTS
    DigitBits = 1
    IdDigits = 4
    Net <- MCNet
    Fresh <- MCFresh
    SampleIds <- MCSampleIds
    MaxPublished = 2
SPECIFICATION Spec
INVARIANTS QueuedIsDeliverable InboxSound AnswersReachAskers OneShardPerAccount RoutedOnce
CHECK_DEADLOCK FALSE

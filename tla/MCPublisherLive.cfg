CONSTANTS
    QueueSize = 1
    MaxMsgs = 5
    MaxChunk = 1
SPECIFICATION FairSpec
PROPERTIES EveryMessageReceipted EndsUnlessWedged
CHECK_DEADLOCK FALSE

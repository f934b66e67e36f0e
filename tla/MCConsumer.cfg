CONSTANTS
    QueueSize = 3
    MaxMsgs = 5
    MaxFailures = 2
    Poison = {4}
SPECIFICATION FairSpec
INVARIANTS NoLoss AcksOutstanding PutFindsRoom
PROPERTIES ImplementsAtLeastOnce EveryMessageTransferred
CHECK_DEADLOCK FALSE

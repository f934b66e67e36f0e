\* A connection lost while the publisher cannot place a receipt.
CONSTANTS
    QueueSize = 1
    MaxMsgs = 4
    MaxChunk = 1
SPECIFICATION FairSpec
PROPERTY LostConnectionEndsTask
CHECK_DEADLOCK FALSE

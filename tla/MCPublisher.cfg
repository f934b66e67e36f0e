CONSTANTS
    QueueSize = 2
    MaxMsgs = 5
    MaxChunk = 2
SPECIFICATION Spec
INVARIANTS TypeOK ReceiptsTruthful ReceiptsAscend WindowBound NoLostResume NoLostWakeup BacklogBound
PROPERTY ImplementsReceiptService
CHECK_DEADLOCK FALSE

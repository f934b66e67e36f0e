CONSTANT MaxMsgs = 4
SPECIFICATION FairSpec
INVARIANTS TypeOK ReceiptsBacked ReceiptsOrdered FramesWellFormed
PROPERTY DisconnectAnswered
CHECK_DEADLOCK FALSE

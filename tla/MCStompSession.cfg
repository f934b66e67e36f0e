CONSTANT MaxMsgs = 2
SPECIFICATION FairSpec
INVARIANTS AcksTruthful AcksAscend NeitherRefuses
PROPERTIES DisconnectCompletes SessionEnds
CHECK_DEADLOCK FALSE

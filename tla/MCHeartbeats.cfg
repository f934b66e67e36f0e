CONSTANTS
    HbSendMin = 1
    MaxNetworkDelay = 2
    HbConfigs <- MCHbConfigs
    LongTime = 11
SPECIFICATION FairSpec
INVARIANTS NoFalseAlarm NoticedInTime
PROPERTIES CutIsNoticed
CHECK_DEADLOCK FALSE

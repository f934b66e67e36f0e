CONSTANTS
    DigitBits = 1
    IdDigits = 4
    Net <- SignNet
    Fresh <- NoFresh
    SampleIds <- MCSampleIds
    MaxPublished = 1
SPECIFICATION Spec
INVARIANT TranslatedIntoRange
CHECK_DEADLOCK FALSE

CONSTANTS
    COMMAND_MAX = 2
    FIELD_MAX = 4
    LINES_MAX = 2
    HEADER_MAX_LENGTH = 16
    BODY_MAX_LENGTH = 4
    Sendable <- MCSendable
    Breaks <- MCBreaks
    Noise <- None
    Slips <- None
SPECIFICATION Spec
INVARIANT RaisesOnlyOnViolation
CHECK_DEADLOCK FALSE

CONSTANTS
    COMMAND_MAX = 2
    FIELD_MAX = 4
    LINES_MAX = 2
    HEADER_MAX_LENGTH = 16
    BODY_MAX_LENGTH = 4
    Sendable <- MCSendable
    Breaks <- MCBreaks
    Noise <- MCNoise
    Slips <- MCSlips
SPECIFICATION Spec
INVARIANTS ChunkingInvisible FramesArrive BufferBounded
CHECK_DEADLOCK FALSE

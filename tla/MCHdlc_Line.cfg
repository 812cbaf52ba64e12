CONSTANTS
    Byte <- MCByte
    FlagByte = 126
    EscapeByte = 125
    NeedsEscape <- MCNeedsEscape
    EscapeXform <- MCEscapeXform
    Crc <- MCCrc
    Frames <- MCFrames
    Noise <- MCNoise
    MaxErrors = 2
    MaxSent = 3
SPECIFICATION Spec
INVARIANTS Resynchronises NothingForged
CHECK_DEADLOCK FALSE

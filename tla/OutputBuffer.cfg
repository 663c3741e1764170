SPECIFICATION Spec
CONSTANTS
    Widths = {1, 2, 3, 4}
    MaxBytes = 9
    MaxChars = 6
    MaxChunk = 3
INVARIANTS
    TruncateIsLongestHead
    BufferSound
CHECK_DEADLOCK FALSE

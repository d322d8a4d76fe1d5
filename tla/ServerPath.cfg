CONSTANTS
    blank = blank
    Blank <- blank
    Chars <- MCChars
    MaxName = 3
    MaxBuf = 5

SPECIFICATION Spec

INVARIANT PathWritten

CHECK_DEADLOCK FALSE

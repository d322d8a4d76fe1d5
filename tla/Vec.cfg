CONSTANTS
    v1 = v1
    v2 = v2
    v3 = v3
    garbage = garbage
    Values <- MCValues
    Garbage <- garbage
    MaxLen = 4
    WordBits = 3

SPECIFICATION Spec

INVARIANT TypeOK
INVARIANT BlockHoldsElements
INVARIANT SubMatchesSubSeq
PROPERTY RefinesSeq

CONSTANTS
    c1 = c1
    c2 = c2
    Clients <- MCClients
    ReplyWords <- MCReplyWords
    IdBits = 3
    MaxCalls = 3
    MaxRefs = 2

SPECIFICATION FaultySpec
SYMMETRY ClientSymmetry

INVARIANT RequestsHaveCallers

CHECK_DEADLOCK FALSE

CONSTANTS
    c1 = c1
    c2 = c2
    Clients <- MCClients
    ReplyWords <- MCReplyWords
    IdBits = 3
    MaxCalls = 7
    MaxRefs = 2

SPECIFICATION Spec
SYMMETRY ClientSymmetry

INVARIANT TypeOK
INVARIANT InFlightAccounted
INVARIANT ViewsMatchCalls
PROPERTY RecvOldestFirst

CHECK_DEADLOCK FALSE

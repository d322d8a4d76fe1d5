SPECIFICATION Spec
CONSTANTS
    s1 = s1
    s2 = s2
    s3 = s3
    x1 = x1
    x2 = x2
    Instances <- MCInstances
    Contexts <- MCContexts
    Names <- MCNames
    MaxRefs = 2
SYMMETRY Symmetry

INVARIANT LiveAreRegistered

CHECK_DEADLOCK FALSE

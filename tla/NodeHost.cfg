SPECIFICATION Spec
CONSTANTS
    r1 = r1
    r2 = r2
    r3 = r3
    r4 = r4
    r5 = r5
    o1 = o1
    a = a
    b = b
    None = None
    NoBucket = NoBucket
    Blank = Blank
    Torn = Torn
    Callers <- AllRequests
    Ops <- OneOp
    Inodes <- SomeInodes
    Keys <- TwoClients
    Limit <- TwoOrThree
    WindowMs = 2
    StartMs = 4
    RecentEventLimit = 2
    DistributionValueLimit = 2
    MaxMethods = 1
    Faults <- FileErrors
    Traffic <- Mixes
SYMMETRY Symmetry
INVARIANTS
    AcknowledgedVisible
    AcknowledgedDurable
    WindowBound
    BucketsBounded
    AnswersCounted
    HostInv
PROPERTIES
    SoloFlushRepairs
\* Every request may have been answered.
CHECK_DEADLOCK FALSE

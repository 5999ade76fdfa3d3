SPECIFICATION Spec
CONSTANTS
    c1 = c1
    c2 = c2
    o1 = o1
    o2 = o2
    o3 = o3
    u1 = u1
    u2 = u2
    k1 = k1
    x1 = x1
    j1 = j1
    None = None
    Keys <- OneKey
    Jobs <- OneJob
    MaxIndex = 1
    Calls <- TwoCalls
    Ops <- ThreeOps
    Users <- TwoUsers
    Capsules <- OneDraft
    Kinds <- RacingKinds
    Seeds <- FromEarlier
    Faults <- AllFaults
    MaxPolls = 1
    Overlapping = TRUE
SYMMETRY Symmetry
INVARIANTS
    PublishedIsLive
    IndexSound
    ImportInv
PROPERTIES
    OwnOperationsOnly
    OwnerFixed
\* Every call may have ended.
CHECK_DEADLOCK FALSE

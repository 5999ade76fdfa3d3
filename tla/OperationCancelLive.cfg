SPECIFICATION Spec
CONSTANTS
    c1 = c1
    c2 = c2
    o1 = o1
    o2 = o2
    o3 = o3
    u1 = u1
    u2 = u2
    k1 = k1
    x1 = x1
    j1 = j1
    None = None
    Keys <- OneKey
    Jobs <- OneJob
    MaxIndex = 2
    Calls <- TwoCalls
    Ops <- OneOp
    Users <- OneUser
    Capsules <- OneDraft
    Kinds <- CancelKinds
    Seeds <- FromEarlier
    Faults <- NoFaults
    MaxPolls = 1
    Overlapping = FALSE
INVARIANTS
    CanceledNeverLive
CHECK_DEADLOCK FALSE

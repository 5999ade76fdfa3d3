SPECIFICATION Spec
CONSTANTS
    n1 = n1
    n2 = n2
    m1 = m1
    d1 = d1
    d2 = d2
    v1 = v1
    v2 = v2
    p1 = p1
    p2 = p2
    b1 = b1
    b2 = b2
    r1 = r1
    r2 = r2
    g1 = g1
    g2 = g2
    i1 = i1
    None = None
    Logins <- TwoLogins
    Clients <- OneClient
    Redirects <- TwoRedirects
    Verifiers <- TwoVerifiers
    Registered <- OneRegistered
    ProviderCodes <- TwoProviderCodes
    Callbacks <- TwoCallbacks
    Requests <- TwoRequests
    Codes <- TwoCodes
    Isolates <- OneIsolate
    Faults <- AllFaults
SYMMETRY Symmetry
INVARIANTS
    TypeOK
    RightfulSession
    StateUsedOnce
    CodesInv
PROPERTY
    OneShotCode
\* Every request may have ended.
CHECK_DEADLOCK FALSE

SPECIFICATION FairSpec
CONSTANTS
    r1 = r1
    r2 = r2
    r3 = r3
    t1 = t1
    t2 = t2
    t3 = t3
    t4 = t4
    c1 = c1
    c2 = c2
    p1 = p1
    p2 = p2
    p3 = p3
    None = None
    Requests <- TwoRequests
    Tokens <- ThreeTokens
    InitialTokens <- OneInitial
    Clients <- TwoClients
    Providers <- TwoProviders
    MaxAttempts = 2
    Coordinated = FALSE
    Faults <- Orderly
PROPERTIES
    EveryRequestAnswered
    LeadershipReleased
    ReplayOutlivesFailures
\* Every request may have ended and nothing need arrive any more.
CHECK_DEADLOCK FALSE

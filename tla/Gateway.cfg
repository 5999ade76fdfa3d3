SPECIFICATION Spec
CONSTANTS
    r1 = r1
    r2 = r2
    r3 = r3
    b1 = b1
    k1 = k1
    Nobody = Nobody
    NoLogin = NoLogin
    Requests <- ThreeRequests
    Raw <- OneProvider
    Logins <- OneLogin
    Instances <- ThreeHandlers
    Told <- TwoLifetimes
    MinTtl = 1
    Margin = 1
    ExchangeTtl = 2
    StateTtl = 1
    LoginTtl = 2
    LinkTtl = 3
    MaxNestedCalls = 2
    Plans <- AllPlans
INVARIANTS
    OnlyLiveCredentials
    OneSessionPerLogin
    WritesGated
    SandboxBounded
    AnswersTruthful
    GatewayInv
\* Every request may have been answered.
CHECK_DEADLOCK FALSE

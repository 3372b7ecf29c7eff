SPECIFICATION Spec
CONSTANTS
    c1 = c1
    r1 = r1
    r2 = r2
    alice = alice
    bob = bob
    long = long
    s1 = s1
    s2 = s2
    Anonymous = anonymous
    AnonSecret = anonSecret
    Garbage = garbage
    NoKey = noKey
    Secrets = {s1, s2}
    Conns = {c1}
    Reqs = {r1, r2}
    ConnOf <- MCConnOf
    Workloads <- MCCalls
    Handlers <- MCHandlers
    ApiKeyIds <- MCApiKeyIds
    IdLen <- MCIdLen
    KeyStore <- MCKeyStore
    Creds <- MCCreds
    IdleCfg = 0
    DefaultIdle = 1
    LifetimeCfg = 2
    DefaultLifetime = 9
    MaxTime = 3
INVARIANTS
    TypeOK
    IndInv
    HandlerIdentity
    SessionsOwned
    ServedUntilOutlived
    FailureHasCause
    NoHandlerAfterExpiry
PROPERTIES
    NoResurrection
    ImplementsRpc
    EveryCallReturns
    ClosedConnForgotten
    ExpiredCollected
CHECK_DEADLOCK FALSE

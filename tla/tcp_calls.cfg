SPECIFICATION Spec
CONSTANTS
    c1 = c1
    k1 = k1
    k2 = k2
    k3 = k3
    alice = alice
    bob = bob
    long = long
    wrap0 = wrap0
    wrap8 = wrap8
    s1 = s1
    s2 = s2
    Anonymous = anonymous
    AnonSecret = anonSecret
    Garbage = garbage
    NoKey = noKey
    NoCall = noCall
    Torn = torn
    Junk = junk
    Faults = {"panic"}
    Secrets = {s1, s2}
    Conns = {c1}
    Calls = {k1, k2}
    ConnOf <- MCConnOf
    Workloads <- MCWorkloads
    Handlers <- MCHandlers
    ApiKeyIds <- MCApiKeyIds
    IdLen <- MCIdLen
    KeyStore <- MCKeyStore
    Creds <- MCCreds
    IdleCfg = 0
    DefaultIdle = 1
    LifetimeCfg = 2
    DefaultLifetime = 9
    MaxTime = 3
INVARIANTS
    TypeOK
    HandlerIdentity
PROPERTIES
    ImplementsRpc
    EveryCallReturns
    LostConnForgotten
    ExpiredCollected
CHECK_DEADLOCK FALSE

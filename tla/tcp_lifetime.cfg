SPECIFICATION Spec
CONSTANTS
    c1 = c1
    k1 = k1
    k2 = k2
    k3 = k3
    alice = alice
    bob = bob
    long = long
    wrap0 = wrap0
    wrap8 = wrap8
    s1 = s1
    s2 = s2
    Anonymous = anonymous
    AnonSecret = anonSecret
    Garbage = garbage
    NoKey = noKey
    NoCall = noCall
    Torn = torn
    Junk = junk
    Faults = {}
    Secrets = {s1, s2}
    Conns = {c1}
    Calls = {k1, k2}
    ConnOf <- MCConnOf
    Workloads <- MCEchos
    Handlers <- MCHandlers
    ApiKeyIds <- MCApiKeyIds
    IdLen <- MCIdLen
    KeyStore <- MCKeyStore
    Creds <- MCGood
    IdleCfg = 5
    DefaultIdle = 1
    LifetimeCfg = 1
    DefaultLifetime = 9
    MaxTime = 2
INVARIANT
    LifetimeBounded
CHECK_DEADLOCK FALSE

SPECIFICATION Spec
CONSTANTS
    c1 = c1
    r1 = r1
    r2 = r2
    alice = alice
    bob = bob
    long = long
    s1 = s1
    s2 = s2
    Anonymous = anonymous
    AnonSecret = anonSecret
    Garbage = garbage
    NoKey = noKey
    Secrets = {s1, s2}
    Conns = {c1}
    Reqs = {r1, r2}
    ConnOf <- MCConnOf
    Workloads <- MCBoth
    Handlers <- MCHandlers
    ApiKeyIds <- MCApiKeyIds
    IdLen <- MCIdLen
    KeyStore <- MCKeyStore
    Creds <- MCPair
    IdleCfg = 0
    DefaultIdle = 1
    LifetimeCfg = 2
    DefaultLifetime = 9
    MaxTime = 3
PROPERTY
    ExpiredOnlyWhenIdle
CHECK_DEADLOCK FALSE

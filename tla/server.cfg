SPECIFICATION Spec
CONSTANTS
    q1 = q1
    q2 = q2
    t1 = t1
    t2 = t2
    k1 = k1
    alice = alice
    s1 = s1
    Anonymous = anonymous
    AnonSecret = anonSecret
    Garbage = garbage
    NoKey = noKey
    NoCall = noCall
    Torn = torn
    Junk = junk
    Conns = {q1, q2, t1, t2}
    QuicConns = {q1, q2}
    TcpConns = {t1, t2}
    Silent = {q2, t2}
    Calls = {k1}
    ConnOf <- MCConnOf
    Workloads <- MCWorkloads
    Handlers <- MCHandlers
    Faults = {"panic"}
    Secrets = {s1}
    ApiKeyIds = {alice}
    IdLen <- MCIdLen
    KeyStore <- MCKeyStore
    Creds <- MCCreds
    IdleCfg = 1
    DefaultIdle = 1
    LifetimeCfg = 1
    DefaultLifetime = 9
    MaxTime = 2
INVARIANTS
    OwnSession
PROPERTIES
    Accepted
CHECK_DEADLOCK FALSE

SPECIFICATION Spec
CONSTANTS
    t1 = t1
    t2 = t2
    Tokens = {t1, t2}
    NoClient = noClient
    MaxSessions = 2
    MaxTables = 2
    MaxTokenTtl = 1
    IdleCfg = 0
    DefaultIdle = 1
    LifetimeCfg = 2
    DefaultLifetime = 9
    MaxTime = 4
INVARIANTS
    TypeOK
    AbsoluteTtl
    RefusedForGood
PROPERTY
    RefusedWithCause
CHECK_DEADLOCK FALSE

CONSTANTS
    s1 = s1
    s2 = s2
    t1 = t1
    t2 = t2
    Sids = {s1, s2}
    Tokens = {t1, t2}
    Hosts <- MCHosts
    MaxDials = 2
    Browsers = {b1}
    MaxSessions = 1
    MaxRestarts = 1
    None = None
SPECIFICATION FairSpec
INVARIANTS TypeOK HeldSessionFound TreesAgree NobodyStranded
PROPERTIES ImplementsDirectory AbandonedExpires LossIsTold
CHECK_DEADLOCK FALSE

CONSTANTS
    s1 = s1
    s2 = s2
    t1 = t1
    t2 = t2
    Sids = {s1}
    Tokens = {t1}
    Hosts <- OneHost
    MaxDials = 2
    Browsers = {b1}
    MaxSessions = 1
    MaxRestarts = 0
    None = None
SPECIFICATION Spec
INVARIANT ServedSessionFound
CHECK_DEADLOCK FALSE

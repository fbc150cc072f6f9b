CONSTANTS
    w1 = w1
    r1 = r1
    p1 = p1
    p2 = p2
    None = None
    Paths = {p1}
    Browsers = {w1, r1}
    Writers = {w1}
    Opened <- AllOpened
    Wanted <- ReadersWanted
    Edits = {"write", "replace", "delete"}
    MaxTexts = 1
    MaxSaves = 1
    MaxAsks = 1
SPECIFICATION FairSpec
INVARIANTS TypeOK RelayConverges PageConverges
PROPERTY LoneRequestAnswered
CHECK_DEADLOCK FALSE

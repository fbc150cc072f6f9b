CONSTANTS
    w1 = w1
    r1 = r1
    p1 = p1
    p2 = p2
    None = None
    Paths = {p1}
    Browsers = {w1}
    Writers = {w1}
    Opened <- AllOpened
    Wanted <- NoneWanted
    Edits = {}
    MaxTexts = 2
    MaxSaves = 2
    MaxAsks = 0
SPECIFICATION Spec
INVARIANT ConflictHasCause
CHECK_DEADLOCK FALSE

CONSTANTS
    w1 = w1
    r1 = r1
    p1 = p1
    p2 = p2
    None = None
    Paths = {p1, p2}
    Browsers = {w1}
    Writers = {w1}
    Opened <- AllOpened
    Wanted <- AllWanted
    Edits = {"write"}
    MaxTexts = 2
    MaxSaves = 0
    MaxAsks = 0
SPECIFICATION Spec
PROPERTY UnsavedKept
CHECK_DEADLOCK FALSE

CONSTANTS
    b1 = b1
    b2 = b2
    f1 = f1
    f2 = f2
    Browsers = {b1, b2}
    Files = {f1, f2}
    Opened = {f1}
    MaxEvents = 4
    None = None
SYMMETRY Alike
SPECIFICATION Spec
INVARIANTS TypeOK PagesKnowGuide FollowersShowState FollowersCounted
PROPERTY BreakAwayKept
CHECK_DEADLOCK FALSE

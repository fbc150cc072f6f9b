CONSTANTS
    h1 = h1
    h2 = h2
    t1 = t1
    Handlers = {h1, h2}
    MaxComments = 2
    TourIds = {t1}
    MaxMessages = 2
    MaxBusy = 0
    None = None
SPECIFICATION Spec
INVARIANT RepliesHaveParent
CHECK_DEADLOCK FALSE

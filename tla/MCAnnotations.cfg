CONSTANTS
    h1 = h1
    h2 = h2
    t1 = t1
    Handlers = {h1, h2}
    MaxComments = 2
    TourIds = {t1}
    MaxMessages = 2
    MaxBusy = 1
    None = None
SPECIFICATION FairSpec
INVARIANTS TypeOK ContentKept PagesCurrent
PROPERTY CommentsReachAll
CHECK_DEADLOCK FALSE

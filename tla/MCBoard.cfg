CONSTANTS
    f1 = f1
    f2 = f2
    t1 = t1
    t2 = t2
    Files = {f1, f2}
    Opened = {f1}
    TourIds = {t1, t2}
    FirstTours <- ATour
    MaxLine = 2
    MaxSteps = 2
    MaxEvents = 5
    None = None
SPECIFICATION Spec
INVARIANTS TypeOK StepShown TourFollowsGuide SavedTourShown
PROPERTY StepInTour
CHECK_DEADLOCK FALSE

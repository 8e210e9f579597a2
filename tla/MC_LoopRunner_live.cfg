\* Two subtasks, or one that a lens reviews: a stop and an ended session are seen through.
SPECIFICATION FairSpec
CONSTANTS
    t1 = t1
    t2 = t2
    Task = {t1, t2}
    Parent = parent
    Plan <- StopPlans
    CONC = 2
    CLAIMS = 2
PROPERTIES StopEnds EndedIsSettled
CHECK_DEADLOCK FALSE

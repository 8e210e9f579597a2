\* A task from before arming and its comments, two processes, one locked statement and one death.
SPECIFICATION Spec
CONSTANTS
    t = t
    c = c
    d = d
    Row = {t, c, d}
    Task = {t}
    Parent <- HangsOff
    Before = {t}
    Proc = {p, q}
    VERSIONS = 3
    OPS = 3
    BUSY = 1
    CRASHES = 1
INVARIANTS LatestCaptured DeletedCaptured ParentsCapturedFirst
CHECK_DEADLOCK FALSE

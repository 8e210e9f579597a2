\* Two subtasks, one blocking the other or not, or one that a lens reviews; one death or one human move.
SPECIFICATION Spec
CONSTANTS
    t1 = t1
    t2 = t2
    Task = {t1, t2}
    Parent = parent
    Plan <- Plans
    CONC = 2
    CLAIMS = 4
INVARIANTS HeldBySomeone NoneStranded CompletedChecked EachPhaseOnce
PROPERTIES StartsAfterVerdicts RedReopens
CHECK_DEADLOCK FALSE

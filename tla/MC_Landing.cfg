\* A run in its worktree, and two more or two landings by hand or one of each, and two deaths.
SPECIFICATION Spec
CONSTANTS
    Runner = runner
    Lander = {land, lund}
    COMMITS = 3
    BASES = 1
    LATER = 2
    CRASHES = 2
SYMMETRY Landers
INVARIANTS PublishedGreen LeftRecoverable 
PROPERTIES OnlyOwnOverwritten
CHECK_DEADLOCK FALSE

\* Two devices, edits in the same millisecond, deletes, pages applied twice: a task and its comment,
\* two tasks of one label, two rows of one natural key.
SPECIFICATION Spec
CONSTANTS
    Device = {1, 2}
    Actor <- MCActor
    Tie = TRUE
    Row = {1, 2}
    NoParent = 0
    Plans <- Kept
    Limit = 2
    Overlap = TRUE
    EditsComments = FALSE
INVARIANTS KeptRowsAgree LatestEditSurvives ConstraintsHold
PROPERTIES RereadChangesNothing
CHECK_DEADLOCK FALSE

\* Three prompts, two of them stopped, two questions, and a connection that closes.
SPECIFICATION FairSpec
CONSTANTS
    PROMPTS = 3
    CANCELS = 2
    UPDATES = 1
    ASKS = 2
    DEATHS = 1
INVARIANTS AnsweredOrHeld OwnUntilCancelled InstructionsArrive
PROPERTIES EarlierUntouched TurnEnds
CHECK_DEADLOCK FALSE

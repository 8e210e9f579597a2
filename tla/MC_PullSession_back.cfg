\* The log is rolled back under a laptop that goes on pulling and pushing.
SPECIFICATION FairSpec
CONSTANTS
    laptop = laptop
    phone = phone
    cli = cli
    hook = hook
    Reader = laptop
    Writer = {phone}
    Proc = {cli, hook}
    MaxSeq = 2
    MaxGap = 0
    MaxSchema = 1
    Limit = 1
    MaxBatches = 1
    MaxRestores = 1
PROPERTIES BackWithinLog
CHECK_DEADLOCK FALSE

\* Two processes of one laptop pulling and pushing, two schemas, gaps in the log.
SPECIFICATION FairSpec
CONSTANTS
    laptop = laptop
    phone = phone
    cli = cli
    hook = hook
    Reader = laptop
    Writer = {phone}
    Proc = {cli, hook}
    MaxSeq = 3
    MaxGap = 1
    MaxSchema = 2
    Limit = 2
    MaxBatches = 2
    MaxRestores = 0
INVARIANTS TypeOK NothingMissed
PROPERTIES CaughtUp
CHECK_DEADLOCK FALSE

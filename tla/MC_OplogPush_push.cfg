\* A laptop and the hub over their own transports; either op of the laptop, both or none may be
\* poison, the first one with the second behind it or in its chunk; every one is pushed past.
SPECIFICATION FairSpec
CONSTANTS
    laptop = laptop
    hub = hub
    cli = cli
    hook = hook
    Device = {laptop, hub}
    Http = {laptop}
    Proc = {cli}
    MaxOps = 2
    Bytes <- MCBytes
    Unstorable = {1, 2}
    BatchBytes = 3
    Limit = 2
    MaxBatches = 2
    MaxAttempts = 2
    MaxWire = 0
    MaxCrashes = 1
    Outage = FALSE
PROPERTIES AppendsAbove PoisonNeverBlocks
CHECK_DEADLOCK FALSE

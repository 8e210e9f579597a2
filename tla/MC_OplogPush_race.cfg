\* Two processes of one laptop pushing at once, with outages, crashes and late requests.
SPECIFICATION Spec
CONSTANTS
    laptop = laptop
    hub = hub
    cli = cli
    hook = hook
    Device = {laptop}
    Http = {laptop}
    Proc = {cli, hook}
    MaxOps = 3
    Bytes <- MCBytes
    Unstorable = {1}
    BatchBytes = 3
    Limit = 2
    MaxBatches = 1
    MaxAttempts = 1
    MaxWire = 1
    MaxCrashes = 1
    Outage = TRUE
SYMMETRY ProcSymmetry
INVARIANTS TypeOK NothingSkipped DeviceOrder
PROPERTIES ImplementsOutbox
CHECK_DEADLOCK FALSE

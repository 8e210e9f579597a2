\* Three processes contending for one lock, which a fourth may have died with; any may die
\* at any call.
SPECIFICATION LockFairSpec
CONSTANTS
    Taker = {p0, p1, p2, p3}
    Gone = {p0}
    Mortal = {p1}
    NoFile = NoFile
    ATTEMPTS = 2
INVARIANTS LockTypeOK MutualExclusion
PROPERTIES OnlyDeadLocksRemoved StaleNeverBlocks
CHECK_DEADLOCK FALSE

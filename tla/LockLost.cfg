\* Two processes that lock, one that drops.
CONSTANTS
    Lockers = {p, q}
    Droppers = {s}
    Forces = {TRUE, FALSE}
SPECIFICATION LockSpec
INVARIANT LockedTableStays
CHECK_DEADLOCK FALSE

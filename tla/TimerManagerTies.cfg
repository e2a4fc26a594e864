CONSTANTS
    r1 = r1
    r2 = r2
    once = once
    Timers <- MCTimers
    Interval <- MCInterval
    MaxDelay = 2
    MaxLate = 2
    Ties = TRUE
SPECIFICATION Spec
INVARIANTS SizesAgree
CHECK_DEADLOCK FALSE

CONSTANTS
    r1 = r1
    r2 = r2
    once = once
    Timers <- MCTimers
    Interval <- MCInterval
    MaxDelay = 2
    MaxLate = 2
    Ties = FALSE
SPECIFICATION FairSpec
INVARIANTS TypeOK TablesMatch CancelledStaysDead ArmedForFirst
PROPERTIES TimersExpire
CHECK_DEADLOCK FALSE

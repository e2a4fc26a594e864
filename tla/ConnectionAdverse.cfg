SPECIFICATION Spec
CONSTANTS
    Long = Long
    Messages = {Short, Long}
    Size <- MCSize
    Cap = 1
    Threads = {t1, t2}
    PeerAborts = TRUE
INVARIANTS
    StreamInOrder
    ClosedOnce
CHECK_DEADLOCK FALSE

SPECIFICATION Spec
CONSTANTS
    Long = Long
    Messages = {Short, Long}
    Size <- MCSize
    Cap = 1
    Threads = {t1}
    PeerAborts = FALSE
INVARIANTS
    FunctorsFindConnection
CHECK_DEADLOCK FALSE

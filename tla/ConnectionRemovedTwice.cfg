SPECIFICATION Spec
CONSTANTS
    Long = Long
    Messages = {Short, Long}
    Size <- MCSize
    Cap = 1
    Threads = {}
    PeerAborts = TRUE
INVARIANTS
    RemovedFromMap
CHECK_DEADLOCK FALSE

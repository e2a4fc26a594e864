SPECIFICATION Spec
CONSTANTS
    Long = Long
    Messages = {Short, Long}
    Size <- MCSize
    Cap = 1
    Threads = {}
    PeerAborts = FALSE
INVARIANTS
    NothingDropped

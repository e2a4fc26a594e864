SPECIFICATION FairSpec
CONSTANTS
    Long = Long
    Messages = {Short, Long, Last}
    Size <- MCSize
    Cap = 2
    Threads = {}
    PeerAborts = FALSE
INVARIANTS
    TypeOK
    OutputWatched
    FinLast
    ClosedByPeer
    NoFailure
PROPERTIES
    PeerCloseCleansUp
    ShutdownCompletes
    OutputDrains

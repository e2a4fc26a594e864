CONSTANTS
    c1 = c1
    c2 = c2
    c3 = c3
    Consumers <- MCConsumers
    Producers <- MCProducers
    Main = 1
    Quota = 2
    MostThreads = 2
    Conns <- MCConns
    ServerAvoids = {"foreign start", "quit", "early destruction"}
SPECIFICATION FairSpec
INVARIANTS ChannelSafe ServerSound
PROPERTIES EveryoneStops ServerLives
CHECK_DEADLOCK FALSE

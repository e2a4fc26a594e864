CONSTANTS
    f1 = f1
    f2 = f2
    f3 = f3
    t1 = t1
    t2 = t2
    Functors <- MCFunctors
    Threads <- MCThreads
    MaxEventfd = 1
SPECIFICATION FairSpec
INVARIANTS TypeOK NoLostWakeup NoLostQuit WakeupReadSucceeds ExactlyOnceInOrder
PROPERTIES QuitReturns ImplementsExecutor
CHECK_DEADLOCK FALSE

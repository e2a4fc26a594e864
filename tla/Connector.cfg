CONSTANTS
    fd1 = fd1
    fd2 = fd2
    t1 = t1
    t2 = t2
    timer1 = timer1
    timer2 = timer2
    NoFd = NoFd
    Fds <- MCFds
    Threads <- MCThreads
    TimerIds <- MCTimerIds
    InitRetryMs = 500
    MaxRetryMs = 30000
SPECIFICATION FairSpec
INVARIANTS TypeOK OneAttempt NoFailure
PROPERTIES KeepsTrying StopSettles

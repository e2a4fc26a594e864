--------------------------- MODULE ConnectorProofs ---------------------------
(***************************************************************************)
(* One attempt at a time and no failed assertion, for any number of        *)
(* descriptors, threads and timers.                                        *)
(*                                                                         *)
(* OneAttempt is not inductive: that startInLoop meets a disconnected      *)
(* Connector without a dispatcher depends on everything that may lead to   *)
(* it (a start, a restart, a retry timer) excluding everything else.       *)
(***************************************************************************)
EXTENDS Connector, TLAPS

-----------------------------------------------------------------------------
(* The inductive invariant.                                                *)

Once(s, f) == \A i, j \in DOMAIN s : s[i] = f /\ s[j] = f => i = j

Queued(f) == f \in Elements(pending) \/ f \in Elements(batch)
QueuedOnce(f) ==
    /\ Once(pending, f) /\ Once(batch, f)
    /\ ~(f \in Elements(pending) /\ f \in Elements(batch))

InThread == \E t \in Threads : tpc[t] = "start"
StartComing == starting \/ InThread \/ Queued("start")

\* At most one call of startInLoop is on its way from start or restart, and
\* then nothing else is.
OneStart ==
    /\ starting => ~InThread /\ ~Queued("start")
    /\ InThread => ~Queued("start")
    /\ \A t, u \in Threads : tpc[t] = "start" /\ tpc[u] = "start" => t = u
    /\ QueuedOnce("start")
    /\ StartComing => /\ state = "disconnected" /\ dispatcher = NoFd
                      /\ Idle /\ started /\ ~destroyed

\* At most one retry timer, the one _timerId names.
OneTimer ==
    /\ timers \cup due \subseteq timerId
    /\ timers \cap due = {}
    /\ \A a, b \in timerId : a = b
    /\ ~Idle => state = "disconnected" /\ started

\* The user has at most one connection, and only of a Connector that is
\* connected; the dispatcher it was made with is gone when it ends.
Users(fd) == descriptor[fd] \in {"handed", "used"}
OneConnection ==
    /\ (ended \/ \E fd \in Fds : Users(fd)) => state = "connected"
    /\ ended => ~\E fd \in Fds : Users(fd)
    /\ \A fd, gd \in Fds : Users(fd) /\ Users(gd) => fd = gd
    /\ (ended \/ \E fd \in Fds : descriptor[fd] = "used") => dispatcher = NoFd

\* A dispatcher that left the poller is destroyed by the functor queued for
\* it before the next poll.
OneReset ==
    /\ Queued("reset") <=> dispatcher # NoFd /\ ~watched
    /\ QueuedOnce("reset")
    /\ place # "functors" => batch = <<>>
    /\ place # "dispatch" => "reset" \notin Elements(pending)

\* What poll reported is still what the handlers expect when they get to it.
EventsMeet ==
    /\ active # {} => place = "dispatch"
    /\ "timer" \in active => /\ "write" \notin active /\ "error" \notin active
                             /\ dispatcher = NoFd \/ watched
    /\ "error" \in active => watched /\ descriptor[dispatcher] = "failed"
    /\ "write" \in active =>
         \/ watched /\ descriptor[dispatcher] \in Resolved
         \/ ~watched /\ state = "disconnected" /\ dispatcher # NoFd

\* Before the first start nothing happens, and after the destruction nothing
\* is left that would.
BeforeAndAfter ==
    /\ ~started => state = "disconnected" /\ dispatcher = NoFd
    /\ destroyed => Idle /\ dispatcher = NoFd

ConnectorInv ==
    /\ TypeOK /\ OneAttempt /\ NoFailure
    /\ OneStart /\ OneTimer /\ OneConnection /\ OneReset /\ EventsMeet /\ BeforeAndAfter

-----------------------------------------------------------------------------
(* Queues of functors.                                                     *)

Functors == {"start", "reset"}

\* What Append adds to the elements of a queue.
LEMMA AppendAdds ==
    ASSUME NEW s \in Seq(Functors), NEW f \in Functors
    PROVE  /\ Append(s, f) \in Seq(Functors)
           /\ Elements(Append(s, f)) = Elements(s) \cup {f}
<1>1. Append(s, f) \in Seq(Functors)
  OBVIOUS
<1>2. /\ DOMAIN Append(s, f) = 1 .. Len(s) + 1
      /\ DOMAIN s = 1 .. Len(s) /\ Len(s) \in Nat
      /\ Append(s, f)[Len(s) + 1] = f
      /\ \A i \in 1 .. Len(s) : Append(s, f)[i] = s[i]
  OBVIOUS
<1>3. Elements(Append(s, f)) = Elements(s) \cup {f}
  BY <1>2 DEF Elements
<1> QED  BY <1>1, <1>3

\* A functor that was not queued is queued once, and others as often as before.
LEMMA AppendOnce ==
    ASSUME NEW s \in Seq(Functors), NEW f \in Functors, NEW g \in Functors,
           Once(s, g), f = g => f \notin Elements(s)
    PROVE  Once(Append(s, f), g)
<1>1. /\ DOMAIN Append(s, f) = 1 .. Len(s) + 1
      /\ DOMAIN s = 1 .. Len(s) /\ Len(s) \in Nat
      /\ Append(s, f)[Len(s) + 1] = f
      /\ \A i \in 1 .. Len(s) : Append(s, f)[i] = s[i]
  OBVIOUS
<1> QED  BY <1>1 DEF Once, Elements

\* What is left when the first functor is taken, which was queued once.
LEMMA TailTakes ==
    ASSUME NEW s \in Seq(Functors), s # <<>>
    PROVE  /\ Tail(s) \in Seq(Functors) /\ Head(s) \in Functors
           /\ Elements(s) = Elements(Tail(s)) \cup {Head(s)}
           /\ \A g \in Functors :
                  Once(s, g) => /\ Once(Tail(s), g)
                                /\ Head(s) = g => g \notin Elements(Tail(s))
<1>1. /\ Tail(s) \in Seq(Functors) /\ Head(s) \in Functors /\ Head(s) = s[1]
      /\ DOMAIN s = 1 .. Len(s) /\ Len(s) \in Nat \ {0}
      /\ DOMAIN Tail(s) = 1 .. Len(s) - 1
      /\ \A i \in 1 .. Len(s) - 1 : Tail(s)[i] = s[i + 1]
  OBVIOUS
<1>2. \A i \in 1 .. Len(s) : i = 1 \/ (i - 1 \in 1 .. Len(s) - 1 /\ (i - 1) + 1 = i)
  BY <1>1
<1>3. Elements(s) = Elements(Tail(s)) \cup {Head(s)}
  <2>1. ASSUME NEW i \in 1 .. Len(s)
        PROVE  s[i] \in Elements(Tail(s)) \cup {Head(s)}
    <3>1. CASE i = 1
      BY <1>1, <3>1
    <3>2. CASE i # 1
      <4>1. i - 1 \in DOMAIN Tail(s) /\ Tail(s)[i - 1] = s[i]
        BY <1>1, <1>2, <3>2
      <4> QED  BY <4>1 DEF Elements
    <3> QED  BY <3>1, <3>2
  <2>2. ASSUME NEW i \in 1 .. Len(s) - 1
        PROVE  Tail(s)[i] \in Elements(s)
    BY <1>1 DEF Elements
  <2> QED  BY <1>1, <2>1, <2>2 DEF Elements
<1>4. ASSUME NEW g \in Functors, Once(s, g)
      PROVE  Once(Tail(s), g) /\ (Head(s) = g => g \notin Elements(Tail(s)))
  BY <1>1, <1>4 DEF Elements, Once
<1> QED  BY <1>1, <1>3, <1>4

\* Nothing is in an empty queue.
LEMMA EmptyQueue == Elements(<<>>) = {} /\ \A g : Once(<<>>, g)
  BY DEF Elements, Once

-----------------------------------------------------------------------------
(* Every action keeps the invariant.                                       *)

LEMMA LoopStartKeeps ==
    ASSUME ConnectorInv, LoopStart
    PROVE  ConnectorInv'
<1>1. TypeOK'
  BY DEF attempt, retries, functors, LoopStart, TypeOK, ConnectorInv
<1>2. OneStart'
  BY DEF attempt, retries, functors, Idle, UserCode, LoopStart, Queued, QueuedOnce,
     InThread, StartComing, OneStart, OneTimer, BeforeAndAfter, ConnectorInv
<1>3. OneTimer'
  BY DEF retries, Idle, LoopStart, OneTimer, ConnectorInv
<1>4. BeforeAndAfter'
  BY DEF UserCode, LoopStart, BeforeAndAfter
<1>5. (OneAttempt /\ NoFailure /\ OneConnection /\ OneReset /\ EventsMeet)'
  BY DEF attempt, retries, functors, Idle, LoopStart, OneAttempt, NoFailure, Queued,
     QueuedOnce, Users, OneConnection, OneReset, EventsMeet, ConnectorInv
<1> QED  BY <1>1, <1>2, <1>3, <1>4, <1>5 DEF ConnectorInv

LEMMA LoopRestartKeeps ==
    ASSUME ConnectorInv, LoopRestart
    PROVE  ConnectorInv'
<1>1. TypeOK'
  <2>1. InitRetryMs \in InitRetryMs .. MaxRetryMs
    BY DelayAssumption
  <2> QED  BY <2>1 DEF functors, States, LoopRestart, TypeOK, ConnectorInv
<1>2. OneAttempt'
  BY DEF LoopRestart, OneAttempt, OneConnection, ConnectorInv
<1>3. OneStart'
  BY DEF functors, Idle, UserCode, LoopRestart, OneAttempt, Queued, QueuedOnce,
     InThread, StartComing, OneStart, OneConnection, BeforeAndAfter, ConnectorInv
<1>4. OneTimer'
  BY DEF Idle, LoopRestart, OneTimer, ConnectorInv
<1>5. OneConnection'
  BY DEF LoopRestart, Users, OneConnection, ConnectorInv
<1>6. EventsMeet'
  BY DEF LoopRestart, EventsMeet, ConnectorInv
<1>7. BeforeAndAfter'
  BY DEF Idle, LoopRestart, BeforeAndAfter, ConnectorInv
<1>8. (NoFailure /\ OneReset)'
  BY DEF functors, LoopRestart, NoFailure, Queued, QueuedOnce, OneReset,
     ConnectorInv
<1> QED  BY <1>1, <1>2, <1>3, <1>4, <1>5, <1>6, <1>7, <1>8 DEF ConnectorInv

LEMMA StartCalledKeeps ==
    ASSUME ConnectorInv, StartCalled
    PROVE  ConnectorInv'
<1>1. TypeOK'
  BY DEF attempt, retries, functors, users, States, Attempting, Becomes, Fails,
     Connecting, Abandons, Connect, StartInLoop, StartCalled, TypeOK, ConnectorInv
<1>2. OneAttempt'
  BY DEF attempt, retries, Attempting, Idle, Becomes, Connecting, Abandons, Connect,
     StartInLoop, StartCalled, TypeOK, OneAttempt, StartComing, OneStart,
     ConnectorInv
<1>3. NoFailure'
  BY DEF Connecting, Abandons, Connect, StartInLoop, StartCalled, NoFailure,
     StartComing, OneStart, ConnectorInv
<1>4. OneStart'
  BY DEF functors, users, StartCalled, Queued, QueuedOnce, InThread, StartComing,
     OneStart, ConnectorInv
<1>5. OneTimer'
  BY DEF retries, Idle, StartCalled, StartComing, OneStart, OneTimer, ConnectorInv
<1>6. OneConnection'
  BY DEF attempt, users, Becomes, Fails, Connecting, Abandons, Connect, StartInLoop,
     StartCalled, TypeOK, Users, OneConnection, StartComing, OneStart, ConnectorInv
<1>7. OneReset'
  BY DEF attempt, functors, Fails, Connecting, Abandons, Connect, StartInLoop,
     StartCalled, Queued, QueuedOnce, OneReset, StartComing, OneStart, ConnectorInv
<1>8. EventsMeet'
  BY DEF attempt, loop, Fails, Connecting, Abandons, Connect, StartInLoop, StartCalled,
     StartComing, OneStart, OneAttempt, EventsMeet, ConnectorInv
<1>9. BeforeAndAfter'
  BY DEF users, StartCalled, StartComing, OneStart, BeforeAndAfter, ConnectorInv
<1> QED  BY <1>1, <1>2, <1>3, <1>4, <1>5, <1>6, <1>7, <1>8, <1>9 DEF ConnectorInv

LEMMA StopKeeps ==
    ASSUME ConnectorInv, StopEffect
    PROVE  ConnectorInv'
<1>1. TypeOK'
  BY DEF attempt, retries, loop, functors, users, StopEffect, TypeOK, ConnectorInv
<1>2. (OneAttempt /\ NoFailure /\ OneStart /\ OneTimer)'
  BY DEF attempt, retries, loop, functors, users, Idle, StopEffect, OneAttempt,
     NoFailure, Queued, QueuedOnce, InThread, StartComing, OneStart, OneTimer,
     ConnectorInv
<1>3. (OneConnection /\ OneReset /\ EventsMeet /\ BeforeAndAfter)'
  BY DEF attempt, retries, loop, functors, users, Idle, StopEffect, Queued, QueuedOnce,
     Users, OneConnection, OneReset, EventsMeet, BeforeAndAfter, ConnectorInv
<1> QED  BY <1>1, <1>2, <1>3 DEF ConnectorInv

LEMMA UserClosesKeeps ==
    ASSUME ConnectorInv, NEW fd \in Fds, UserCloses(fd)
    PROVE  ConnectorInv'
<1>1. TypeOK'
  BY DEF attempt, retries, loop, functors, Becomes, UserCloses, TypeOK, ConnectorInv
<1>2. OneAttempt'
  BY DEF attempt, retries, Resolved, Attempting, Idle, Becomes, UserCloses,
     OneAttempt, ConnectorInv
<1>3. OneConnection'
  BY DEF attempt, Becomes, UserCloses, TypeOK, Users, OneConnection, ConnectorInv
<1>4. EventsMeet'
  BY DEF attempt, loop, Resolved, Becomes, UserCloses, EventsMeet, ConnectorInv
<1>5. (NoFailure /\ OneStart /\ OneTimer /\ OneReset /\ BeforeAndAfter)'
  BY DEF attempt, retries, loop, functors, Idle, UserCloses, NoFailure, Queued,
     QueuedOnce, InThread, StartComing, OneStart, OneTimer, OneReset, BeforeAndAfter,
     ConnectorInv
<1> QED  BY <1>1, <1>2, <1>3, <1>4, <1>5 DEF ConnectorInv

LEMMA DestroyKeeps ==
    ASSUME ConnectorInv, Destroy
    PROVE  ConnectorInv'
<1>1. TypeOK'
  BY DEF attempt, loop, functors, CancelTimer, Destroy, TypeOK, ConnectorInv
<1>2. OneAttempt'
  BY DEF attempt, Idle, CancelTimer, Destroy, OneAttempt, ConnectorInv
<1>3. OneStart'
  BY DEF attempt, loop, functors, UserCode, Destroy, Queued, QueuedOnce, InThread,
     StartComing, OneStart, ConnectorInv
<1>4. OneTimer'
  BY DEF attempt, Idle, CancelTimer, Destroy, OneTimer, ConnectorInv
<1>5. BeforeAndAfter'
  BY DEF attempt, Idle, CancelTimer, Destroy, OneTimer, BeforeAndAfter, ConnectorInv
<1>6. (NoFailure /\ OneConnection /\ OneReset /\ EventsMeet)'
  BY DEF attempt, loop, functors, Destroy, NoFailure, Queued, QueuedOnce, Users,
     OneConnection, OneReset, EventsMeet, ConnectorInv
<1> QED  BY <1>1, <1>2, <1>3, <1>4, <1>5, <1>6 DEF ConnectorInv

LEMMA PollKeeps ==
    ASSUME ConnectorInv, Poll
    PROVE  ConnectorInv'
<1>1. ~Queued("reset")
  BY EmptyQueue DEF Poll, Queued, OneReset, ConnectorInv
<1>2. /\ \A fd \in Fds :
          /\ Users(fd)' <=> Users(fd)
          /\ descriptor[fd] \in Attempting => descriptor'[fd] = descriptor[fd]
          /\ descriptor'[fd] \in Attempting => descriptor'[fd] = descriptor[fd]
      /\ watched => dispatcher \in Fds /\ descriptor[dispatcher] \in Attempting
  BY DEF Poll, Users, Attempting, Resolved, OneAttempt, ConnectorInv
<1>3. TypeOK'
  BY DEF attempt, retries, functors, users, Reported, Poll, TypeOK, ConnectorInv
<1>4. OneAttempt'
  <2>1. {fd \in Fds : descriptor'[fd] \in Attempting}
            = {fd \in Fds : descriptor[fd] \in Attempting}
    BY <1>2
  <2>2. UNCHANGED <<state, dispatcher, watched, timers, due>> /\ OneAttempt
    BY DEF attempt, retries, Poll, ConnectorInv
  <2> QED  BY <2>1, <2>2 DEF Idle, Attempting, Resolved, OneAttempt
<1>5. OneConnection'
  <2>1. (\E fd \in Fds : Users(fd)) => dispatcher = NoFd
    BY <1>1 DEF OneConnection, OneReset, OneAttempt, ConnectorInv
  <2>2. \A fd \in Fds : descriptor'[fd] = "used" => Users(fd)'
    BY DEF Users
  <2>3. UNCHANGED <<state, dispatcher, ended>> /\ OneConnection
    BY DEF attempt, users, Poll, ConnectorInv
  <2>4. \A fd \in Fds : Users(fd)' <=> Users(fd)
    BY <1>2
  <2>5. (ended' \/ \E fd \in Fds : descriptor'[fd] = "used") => dispatcher' = NoFd
    BY <2>1, <2>2, <2>3, <2>4 DEF OneConnection
  <2> QED  BY <2>3, <2>4, <2>5 DEF OneConnection
<1>6. EventsMeet'
  <2>1. due # {} => ~watched /\ dispatcher = NoFd
    BY <1>1 DEF Idle, OneAttempt, OneReset, ConnectorInv
  <2> QED  BY <1>2, <2>1 DEF attempt, Reported, Resolved, Attempting, Poll, EventsMeet
<1>7. OneReset'
  BY DEF attempt, functors, Poll, Queued, QueuedOnce, OneReset, ConnectorInv
<1>8. (NoFailure /\ OneStart /\ OneTimer /\ BeforeAndAfter)'
  BY DEF attempt, retries, functors, users, Idle, Poll, NoFailure, Queued, QueuedOnce,
     InThread, StartComing, OneStart, OneTimer, BeforeAndAfter, ConnectorInv
<1> QED  BY <1>3, <1>4, <1>5, <1>6, <1>7, <1>8 DEF ConnectorInv

\* What removeAndResetDispatcher queues when the dispatcher is in the poller.
LEMMA ResetQueued ==
    ASSUME ConnectorInv, watched, RemoveAndResetDispatcher
    PROVE  /\ pending' \in Seq(Functors)
           /\ Elements(pending') = Elements(pending) \cup {"reset"}
           /\ Once(pending', "start") /\ Once(pending', "reset")
           /\ "reset" \notin Elements(batch)
<1>1. pending \in Seq(Functors) /\ ~Queued("reset")
  BY DEF TypeOK, OneReset, Functors, ConnectorInv
<1>2. Once(pending, "start") /\ Once(pending, "reset")
  BY DEF QueuedOnce, OneStart, OneReset, ConnectorInv
<1> QED  BY <1>1, <1>2, AppendAdds, AppendOnce
     DEF RemoveAndResetDispatcher, Queued, Functors

\* An attempt that ended, and failed: its socket is closed, and a timer
\* started for the next attempt if one is wanted.
LEMMA RetryKeeps ==
    ASSUME ConnectorInv, state = "connecting", watched, place = "dispatch",
           NEW event \in {"write", "error"}, event \in active, active' = active \ {event},
           event = "error" \/ "error" \notin active,
           RemoveAndResetDispatcher, Retry(dispatcher),
           UNCHANGED <<connect, place, starting, batch, users, gaveUp, crash>>
    PROVE  ConnectorInv'
<1>1. /\ dispatcher \in Fds /\ dispatcher # NoFd
      /\ descriptor[dispatcher] \in Attempting
      /\ Idle /\ ~StartComing /\ "timer" \notin active
  BY NoFdAssumption DEF OneAttempt, OneStart, EventsMeet, ConnectorInv
<1>2. /\ watched' = FALSE /\ dispatcher' = dispatcher /\ state' = "disconnected"
      /\ descriptor' = [descriptor EXCEPT ![dispatcher] = "free"]
  BY DEF RemoveAndResetDispatcher, Retry, Close, Becomes
<1>3. \A fd \in Fds : Users(fd)' <=> Users(fd)
  BY <1>1, <1>2 DEF Users, Attempting, Resolved, TypeOK, ConnectorInv
<1>4. /\ retryDelay' \in InitRetryMs .. MaxRetryMs
      /\ timerId' \in SUBSET TimerIds
      /\ timers' \cup due' \subseteq timerId' /\ timers' \cap due' = {}
      /\ \A a, b \in timerId' : a = b
  <2>1. CASE connect
    BY <1>1, <2>1, DelayAssumption DEF Retry, Schedule, Smaller, Idle, TypeOK, ConnectorInv
  <2>2. CASE ~connect
    BY <2>2 DEF Retry, retries, TypeOK, OneTimer, ConnectorInv
  <2> QED  BY <2>1, <2>2
<1>5. TypeOK'
  <2>1. descriptor' \in [Fds -> {"free", "handed", "used"} \cup Attempting]
    BY <1>1, <1>2 DEF TypeOK, ConnectorInv
  <2>2. /\ timers' \in SUBSET TimerIds /\ due' \in SUBSET TimerIds
        /\ active' \in SUBSET {"write", "error", "timer"}
    BY <1>4 DEF TypeOK, ConnectorInv
  <2>3. /\ dispatcher' \in Fds \cup {NoFd} /\ watched' \in BOOLEAN
        /\ state' \in States
    BY <1>1, <1>2 DEF States
  <2>4. pending' \in Seq({"start", "reset"})
    BY ResetQueued DEF Functors
  <2> QED  BY <1>4, <2>1, <2>2, <2>3, <2>4 DEF users, TypeOK, ConnectorInv
<1>6. OneAttempt'
  BY <1>1, <1>2 DEF Attempting, Resolved, TypeOK, OneAttempt, ConnectorInv
<1>7. OneStart'
  BY <1>1, ResetQueued DEF users, Queued, QueuedOnce, InThread, StartComing, OneStart,
     ConnectorInv
<1>8. OneTimer'
  BY <1>2, <1>4 DEF users, OneTimer, BeforeAndAfter, ConnectorInv
<1>9. OneConnection'
  BY <1>1, <1>2, <1>3 DEF users, OneConnection, ConnectorInv
<1>10. OneReset'
  BY <1>1, <1>2, ResetQueued DEF Queued, QueuedOnce, OneReset, ConnectorInv
<1>11. EventsMeet'
  BY <1>1, <1>2 DEF EventsMeet, ConnectorInv
<1>12. (NoFailure /\ BeforeAndAfter)'
  BY <1>1, <1>2 DEF users, NoFailure, BeforeAndAfter, ConnectorInv
<1> QED  BY <1>5, <1>6, <1>7, <1>8, <1>9, <1>10, <1>11, <1>12 DEF ConnectorInv

LEMMA HandleErrorKeeps ==
    ASSUME ConnectorInv, HandleError
    PROVE  ConnectorInv'
<1>1. state = "connecting" /\ watched
  BY DEF HandleError, Dispatching, EventsMeet, OneAttempt, ConnectorInv
<1> QED  BY <1>1, RetryKeeps DEF HandleError, Dispatching

\* An attempt that succeeded: its descriptor is the user's, or closed.
LEMMA ConnectedKeeps ==
    ASSUME ConnectorInv, state = "connecting", watched, place = "dispatch",
           "write" \in active, "error" \notin active, active' = active \ {"write"},
           RemoveAndResetDispatcher, Connected(dispatcher),
           UNCHANGED <<connect, place, starting, batch, users, gaveUp, crash>>
    PROVE  ConnectorInv'
<1>1. /\ dispatcher \in Fds /\ dispatcher # NoFd
      /\ descriptor[dispatcher] \in Attempting
      /\ Idle /\ ~StartComing /\ "timer" \notin active
      /\ ~ended /\ \A fd \in Fds : ~Users(fd)
  BY NoFdAssumption DEF OneAttempt, OneStart, OneConnection, EventsMeet, ConnectorInv
<1>2. /\ watched' = FALSE /\ dispatcher' = dispatcher /\ state' = "connected"
      /\ \E what \in {"handed", "free"} :
            descriptor' = [descriptor EXCEPT ![dispatcher] = what]
  BY DEF RemoveAndResetDispatcher, Connected, Becomes
<1>3. timers' = {} /\ due' = {} /\ timerId' = timerId /\ retryDelay' = retryDelay
  BY <1>1 DEF Connected, retries, Idle
<1>4. TypeOK'
  <2>1. descriptor' \in [Fds -> {"free", "handed", "used"} \cup Attempting]
    BY <1>1, <1>2 DEF TypeOK, ConnectorInv
  <2>2. /\ timers' \in SUBSET TimerIds /\ due' \in SUBSET TimerIds
        /\ timerId' \in SUBSET TimerIds /\ retryDelay' \in InitRetryMs .. MaxRetryMs
        /\ active' \in SUBSET {"write", "error", "timer"}
    BY <1>3 DEF TypeOK, ConnectorInv
  <2>3. /\ dispatcher' \in Fds \cup {NoFd} /\ watched' \in BOOLEAN
        /\ state' \in States
    BY <1>1, <1>2 DEF States
  <2>4. pending' \in Seq({"start", "reset"})
    BY ResetQueued DEF Functors
  <2> QED  BY <2>1, <2>2, <2>3, <2>4 DEF users, TypeOK, ConnectorInv
<1>5. OneAttempt'
  BY <1>1, <1>2, <1>3 DEF Idle, Attempting, Resolved, TypeOK, OneAttempt, ConnectorInv
<1>6. OneStart'
  BY <1>1, ResetQueued DEF users, Queued, QueuedOnce, InThread, StartComing, OneStart,
     ConnectorInv
<1>7. OneTimer'
  BY <1>3 DEF Idle, OneTimer, ConnectorInv
<1>8. OneConnection'
  <2>1. /\ ~ended'
        /\ \A fd \in Fds : fd # dispatcher => ~Users(fd)'
        /\ descriptor'[dispatcher] # "used"
    BY <1>1, <1>2 DEF users, Users, TypeOK, ConnectorInv
  <2> QED  BY <1>2, <2>1 DEF OneConnection, Users
<1>9. OneReset'
  BY <1>1, <1>2, ResetQueued DEF Queued, QueuedOnce, OneReset, ConnectorInv
<1>10. EventsMeet'
  BY <1>1 DEF EventsMeet, ConnectorInv
<1>11. (NoFailure /\ BeforeAndAfter)'
  BY <1>1 DEF users, NoFailure, BeforeAndAfter, ConnectorInv
<1> QED  BY <1>4, <1>5, <1>6, <1>7, <1>8, <1>9, <1>10, <1>11 DEF ConnectorInv

\* A write event after an error that handleError has dealt with.
LEMMA WriteIgnoredKeeps ==
    ASSUME ConnectorInv, place = "dispatch", active' = active \ {"write"},
           UNCHANGED <<connect, attempt, retries, place, starting, functors, descriptor,
                       users, gaveUp, crash>>
    PROVE  ConnectorInv'
<1>1. TypeOK'
  BY DEF attempt, retries, functors, users, TypeOK, ConnectorInv
<1>2. (OneAttempt /\ NoFailure /\ OneStart /\ OneTimer)'
  BY DEF attempt, retries, functors, users, Idle, OneAttempt, NoFailure, Queued,
     QueuedOnce, InThread, StartComing, OneStart, OneTimer, ConnectorInv
<1>3. (OneConnection /\ OneReset /\ EventsMeet /\ BeforeAndAfter)'
  BY DEF attempt, retries, functors, users, Idle, Queued, QueuedOnce, Users,
     OneConnection, OneReset, EventsMeet, BeforeAndAfter, ConnectorInv
<1> QED  BY <1>1, <1>2, <1>3 DEF ConnectorInv

LEMMA HandleWriteKeeps ==
    ASSUME ConnectorInv, HandleWrite
    PROVE  ConnectorInv'
<1>1. /\ "write" \in active /\ "error" \notin active /\ active' = active \ {"write"}
      /\ place = "dispatch" /\ UNCHANGED <<connect, place, starting, users>>
  BY DEF HandleWrite, Dispatching
<1>2. \/ watched /\ state = "connecting"
      \/ state = "disconnected"
  BY <1>1 DEF EventsMeet, OneAttempt, ConnectorInv
<1>3. CASE state = "connecting"
  <2>1. RemoveAndResetDispatcher /\ UNCHANGED <<batch, gaveUp, crash>> /\ watched
    BY <1>2, <1>3 DEF HandleWrite
  <2>2. CASE descriptor[dispatcher] = "open"
    BY <1>1, <1>3, <2>1, <2>2, ConnectedKeeps DEF HandleWrite
  <2>3. CASE descriptor[dispatcher] # "open"
    BY <1>1, <1>3, <2>1, <2>3, RetryKeeps DEF HandleWrite
  <2> QED  BY <2>2, <2>3
<1>4. CASE state = "disconnected"
  BY <1>1, <1>4, WriteIgnoredKeeps DEF HandleWrite
<1> QED  BY <1>2, <1>3, <1>4

LEMMA RunTimerKeeps ==
    ASSUME ConnectorInv, NEW id \in TimerIds, RunTimer(id)
    PROVE  ConnectorInv'
<1>1. TypeOK'
  BY DEF attempt, loop, functors, users, States, Attempting, Becomes, Fails, Connecting,
     Abandons, Connect, StartInLoop, RunTimer, TypeOK, ConnectorInv
<1>2. OneAttempt'
  BY DEF attempt, Attempting, Idle, Becomes, Fails, Connecting, Abandons, Connect,
     StartInLoop, RunTimer, TypeOK, OneAttempt, OneTimer, ConnectorInv
<1>3. NoFailure'
  BY DEF Idle, Connecting, Abandons, Connect, StartInLoop, RunTimer, NoFailure,
     OneAttempt, EventsMeet, BeforeAndAfter, ConnectorInv
<1>4. OneStart'
  BY DEF loop, functors, users, Idle, RunTimer, Queued, QueuedOnce, InThread,
     StartComing, OneStart, ConnectorInv
<1>5. OneTimer'
  BY DEF users, Idle, RunTimer, OneTimer, ConnectorInv
<1>6. OneConnection'
  BY DEF attempt, users, Idle, Attempting, Becomes, Fails, Connecting, Abandons, Connect,
     StartInLoop, RunTimer, TypeOK, Users, OneTimer, OneConnection, ConnectorInv
<1>7. OneReset'
  BY DEF attempt, loop, functors, Fails, Connecting, Abandons, Connect, StartInLoop,
     RunTimer, Queued, QueuedOnce, OneReset, ConnectorInv
<1>8. EventsMeet'
  BY DEF attempt, loop, Resolved, Fails, Connecting, Abandons, Connect, StartInLoop,
     RunTimer, EventsMeet, ConnectorInv
<1>9. BeforeAndAfter'
  BY DEF attempt, loop, functors, users, Idle, RunTimer, OneTimer, BeforeAndAfter,
     ConnectorInv
<1> QED  BY <1>1, <1>2, <1>3, <1>4, <1>5, <1>6, <1>7, <1>8, <1>9 DEF ConnectorInv

LEMMA TimersHandledKeeps ==
    ASSUME ConnectorInv, TimersHandled
    PROVE  ConnectorInv'
<1>1. TypeOK'
  BY DEF attempt, retries, functors, users, Dispatching, TimersHandled, TypeOK,
     ConnectorInv
<1>2. EventsMeet'
  BY DEF attempt, Dispatching, TimersHandled, EventsMeet, ConnectorInv
<1>3. (/\ OneAttempt /\ NoFailure /\ OneStart /\ OneTimer /\ OneConnection
       /\ OneReset /\ BeforeAndAfter)'
  BY DEF attempt, retries, functors, users, Idle, TimersHandled, OneAttempt,
     NoFailure, Queued, QueuedOnce, InThread, StartComing, OneStart, OneTimer,
     Users, OneConnection, OneReset, BeforeAndAfter, ConnectorInv
<1> QED  BY <1>1, <1>2, <1>3 DEF ConnectorInv

LEMMA BeginFunctorsKeeps ==
    ASSUME ConnectorInv, BeginFunctors
    PROVE  ConnectorInv'
<1>1. TypeOK'
  BY DEF attempt, retries, users, BeginFunctors, TypeOK, ConnectorInv
<1>2. OneStart'
  BY DEF attempt, retries, users, Idle, BeginFunctors, Queued, QueuedOnce, InThread,
     StartComing, OneStart, OneReset, ConnectorInv
<1>3. OneReset'
  BY EmptyQueue DEF attempt, BeginFunctors, Queued, QueuedOnce, OneReset,
     ConnectorInv
<1>4. EventsMeet'
  BY DEF BeginFunctors, EventsMeet
<1>5. (OneAttempt /\ NoFailure /\ OneTimer /\ OneConnection /\ BeforeAndAfter)'
  BY DEF attempt, retries, users, Idle, BeginFunctors, OneAttempt, NoFailure,
     OneTimer, Users, OneConnection, BeforeAndAfter, ConnectorInv
<1> QED  BY <1>1, <1>2, <1>3, <1>4, <1>5 DEF ConnectorInv

LEMMA RunStartKeeps ==
    ASSUME ConnectorInv, RunStart
    PROVE  ConnectorInv'
<1>1. TypeOK'
  BY TailTakes DEF attempt, retries, loop, users, States, Attempting, Becomes,
     Fails, Connecting, Abandons, Connect, StartInLoop, Running, RunStart, TypeOK,
     ConnectorInv, Functors
<1>2. OneAttempt'
  BY TailTakes DEF attempt, retries, Attempting, Idle, Becomes, Connecting,
     Abandons, Connect, StartInLoop, Running, RunStart, TypeOK, OneAttempt, Queued,
     StartComing, OneStart, ConnectorInv, Functors
<1>3. NoFailure'
  BY TailTakes DEF Connecting, Abandons, Connect, StartInLoop, Running, RunStart,
     TypeOK, NoFailure, Queued, StartComing, OneStart, ConnectorInv, Functors
<1>4. OneStart'
  BY TailTakes DEF loop, users, Running, RunStart, TypeOK, Queued, QueuedOnce,
     InThread, StartComing, OneStart, ConnectorInv, Functors
<1>5. OneTimer'
  BY TailTakes DEF retries, Idle, Running, RunStart, TypeOK, Queued, StartComing,
     OneStart, OneTimer, ConnectorInv, Functors
<1>6. OneConnection'
  BY DEF attempt, users, Becomes, Fails, Connecting, Abandons, Connect, StartInLoop,
     RunStart, TypeOK, Users, OneConnection, ConnectorInv
<1>7. OneReset'
  BY TailTakes DEF attempt, loop, Fails, Connecting, Abandons, Connect, StartInLoop,
     Running, RunStart, TypeOK, Queued, QueuedOnce, OneReset, ConnectorInv, Functors
<1>8. EventsMeet'
  BY DEF loop, Running, RunStart, EventsMeet, ConnectorInv
<1>9. BeforeAndAfter'
  BY TailTakes DEF users, Running, RunStart, TypeOK, Queued, StartComing, OneStart,
     BeforeAndAfter, ConnectorInv, Functors
<1> QED  BY <1>1, <1>2, <1>3, <1>4, <1>5, <1>6, <1>7, <1>8, <1>9 DEF ConnectorInv

LEMMA RunResetKeeps ==
    ASSUME ConnectorInv, RunReset
    PROVE  ConnectorInv'
<1>1. TypeOK'
  BY DEF retries, loop, users, Running, RunReset, TypeOK, ConnectorInv
<1>2. OneAttempt'
  BY TailTakes DEF retries, Idle, Running, RunReset, TypeOK, OneAttempt, Queued,
     OneReset, ConnectorInv, Functors
<1>3. NoFailure'
  BY TailTakes DEF Running, RunReset, TypeOK, NoFailure, Queued, OneReset,
     BeforeAndAfter, ConnectorInv, Functors
<1>4. OneStart'
  BY TailTakes DEF retries, loop, users, Idle, Running, RunReset, TypeOK, Queued,
     QueuedOnce, InThread, StartComing, OneStart, ConnectorInv, Functors
<1>5. OneConnection'
  BY DEF users, RunReset, Users, OneConnection, ConnectorInv
<1>6. OneReset'
  BY TailTakes DEF loop, Running, RunReset, TypeOK, Queued, QueuedOnce, OneReset,
     ConnectorInv, Functors
<1>7. EventsMeet'
  BY DEF loop, Running, RunReset, EventsMeet, ConnectorInv
<1>8. BeforeAndAfter'
  BY DEF retries, users, Idle, RunReset, BeforeAndAfter, ConnectorInv
<1>9. OneTimer'
  BY DEF retries, users, Idle, RunReset, OneTimer, ConnectorInv
<1> QED  BY <1>1, <1>2, <1>3, <1>4, <1>5, <1>6, <1>7, <1>8, <1>9 DEF ConnectorInv

LEMMA EndFunctorsKeeps ==
    ASSUME ConnectorInv, EndFunctors
    PROVE  ConnectorInv'
<1>1. TypeOK'
  BY DEF attempt, retries, functors, users, EndFunctors, TypeOK, ConnectorInv
<1>2. OneReset'
  BY DEF attempt, functors, EndFunctors, Queued, QueuedOnce, OneReset, ConnectorInv
<1>3. EventsMeet'
  BY DEF EndFunctors, EventsMeet, ConnectorInv
<1>4. (/\ OneAttempt /\ NoFailure /\ OneStart /\ OneTimer /\ OneConnection
       /\ BeforeAndAfter)'
  BY DEF attempt, retries, functors, users, Idle, EndFunctors, OneAttempt,
     NoFailure, Queued, QueuedOnce, InThread, StartComing, OneStart, OneTimer,
     Users, OneConnection, BeforeAndAfter, ConnectorInv
<1> QED  BY <1>1, <1>2, <1>3, <1>4 DEF ConnectorInv

LEMMA ResolveKeeps ==
    ASSUME ConnectorInv, NEW fd \in Fds, NEW how \in Resolved, Resolve(fd, how)
    PROVE  ConnectorInv'
<1>1. TypeOK'
  BY DEF attempt, retries, loop, functors, users, Attempting, Becomes, Resolve,
     TypeOK, ConnectorInv
<1>2. OneAttempt'
  BY DEF attempt, retries, Attempting, Idle, Becomes, Resolve, OneAttempt,
     ConnectorInv
<1>3. OneConnection'
  BY DEF attempt, users, Resolved, Becomes, Resolve, Users, OneConnection,
     ConnectorInv
<1>4. EventsMeet'
  BY DEF attempt, loop, Becomes, Resolve, EventsMeet, ConnectorInv
<1>5. (NoFailure /\ OneStart /\ OneTimer /\ OneReset /\ BeforeAndAfter)'
  BY DEF attempt, retries, loop, functors, users, Idle, Resolve, NoFailure, Queued,
     QueuedOnce, InThread, StartComing, OneStart, OneTimer, OneReset,
     BeforeAndAfter, ConnectorInv
<1> QED  BY <1>1, <1>2, <1>3, <1>4, <1>5 DEF ConnectorInv

LEMMA ResetByPeerKeeps ==
    ASSUME ConnectorInv, NEW fd \in Fds, ResetByPeer(fd)
    PROVE  ConnectorInv'
<1>1. TypeOK'
  BY DEF attempt, retries, loop, functors, users, Resolved, Attempting, Becomes,
     ResetByPeer, TypeOK, ConnectorInv
<1>2. OneAttempt'
  BY DEF attempt, retries, Resolved, Attempting, Idle, Becomes, ResetByPeer,
     OneAttempt, ConnectorInv
<1>3. OneConnection'
  BY DEF attempt, users, Becomes, ResetByPeer, Users, OneConnection, ConnectorInv
<1>4. EventsMeet'
  BY DEF attempt, loop, Resolved, Becomes, ResetByPeer, EventsMeet, ConnectorInv
<1>5. (NoFailure /\ OneStart /\ OneTimer /\ OneReset /\ BeforeAndAfter)'
  BY DEF attempt, retries, loop, functors, users, Idle, ResetByPeer, NoFailure,
     Queued, QueuedOnce, InThread, StartComing, OneStart, OneTimer, OneReset,
     BeforeAndAfter, ConnectorInv
<1> QED  BY <1>1, <1>2, <1>3, <1>4, <1>5 DEF ConnectorInv

LEMMA ExpireKeeps ==
    ASSUME ConnectorInv, NEW id \in TimerIds, Expire(id)
    PROVE  ConnectorInv'
<1>1. TypeOK'
  BY DEF attempt, loop, functors, users, Expire, TypeOK, ConnectorInv
<1>2. OneAttempt'
  BY DEF attempt, Idle, Expire, OneAttempt, ConnectorInv
<1>3. OneStart'
  BY DEF loop, functors, users, Idle, Expire, Queued, QueuedOnce, InThread,
     StartComing, OneStart, ConnectorInv
<1>4. OneTimer'
  BY DEF attempt, users, Idle, Expire, OneTimer, ConnectorInv
<1>5. BeforeAndAfter'
  BY DEF attempt, users, Idle, Expire, BeforeAndAfter, ConnectorInv
<1>6. (NoFailure /\ OneConnection /\ OneReset /\ EventsMeet)'
  BY DEF attempt, loop, functors, users, Expire, NoFailure, Queued, QueuedOnce,
     Users, OneConnection, OneReset, EventsMeet, ConnectorInv
<1> QED  BY <1>1, <1>2, <1>3, <1>4, <1>5, <1>6 DEF ConnectorInv

LEMMA ThreadStartKeeps ==
    ASSUME ConnectorInv, NEW t \in Threads, ThreadStart(t)
    PROVE  ConnectorInv'
<1>1. TypeOK'
  BY DEF attempt, retries, loop, functors, ThreadStart, TypeOK, ConnectorInv
<1>2. OneStart'
  BY DEF attempt, retries, loop, functors, Idle, ThreadStart, Queued, QueuedOnce,
     InThread, StartComing, OneStart, OneTimer, BeforeAndAfter, ConnectorInv
<1>3. OneTimer'
  BY DEF retries, Idle, ThreadStart, OneTimer, ConnectorInv
<1>4. BeforeAndAfter'
  BY DEF ThreadStart, BeforeAndAfter
<1>5. (OneAttempt /\ NoFailure /\ OneConnection /\ OneReset /\ EventsMeet)'
  BY DEF attempt, retries, loop, functors, Idle, ThreadStart, OneAttempt, NoFailure,
     Queued, QueuedOnce, Users, OneConnection, OneReset, EventsMeet, ConnectorInv
<1> QED  BY <1>1, <1>2, <1>3, <1>4, <1>5 DEF ConnectorInv

LEMMA ThreadEnqueuesKeeps ==
    ASSUME ConnectorInv, NEW t \in Threads, ThreadEnqueues(t)
    PROVE  ConnectorInv'
<1>1. TypeOK'
  BY DEF attempt, retries, loop, ThreadEnqueues, TypeOK, ConnectorInv
<1>2. OneStart'
  BY AppendOnce DEF attempt, retries, loop, Idle, ThreadEnqueues, TypeOK, Queued,
     QueuedOnce, InThread, StartComing, OneStart, ConnectorInv, Functors
<1>3. OneReset'
  BY AppendAdds, AppendOnce DEF attempt, loop, ThreadEnqueues, TypeOK, Queued,
     QueuedOnce, OneReset, ConnectorInv, Functors
<1>4. (/\ OneAttempt /\ NoFailure /\ OneTimer /\ OneConnection /\ EventsMeet
       /\ BeforeAndAfter)'
  BY DEF attempt, retries, loop, Idle, ThreadEnqueues, OneAttempt, NoFailure,
     OneTimer, Users, OneConnection, EventsMeet, BeforeAndAfter, ConnectorInv
<1> QED  BY <1>1, <1>2, <1>3, <1>4 DEF ConnectorInv

-----------------------------------------------------------------------------
(* The invariant holds initially and every step keeps it.                  *)

LEMMA ConnectorInitial == Init => ConnectorInv
<1> SUFFICES ASSUME Init PROVE ConnectorInv
  OBVIOUS
<1>1. TypeOK
  <2>1. InitRetryMs \in InitRetryMs .. MaxRetryMs
    BY DelayAssumption
  <2>2. <<>> \in Seq({"start", "reset"})
    OBVIOUS
  <2> QED  BY <2>1, <2>2 DEF Init, TypeOK, States
<1>2. OneAttempt /\ NoFailure /\ OneTimer /\ OneConnection /\ BeforeAndAfter
  BY DEF Init, OneAttempt, NoFailure, OneTimer, OneConnection, BeforeAndAfter, Users,
     Idle, Attempting, Resolved
<1>3. OneStart /\ OneReset /\ EventsMeet
  BY EmptyQueue DEF Init, OneStart, OneReset, EventsMeet, StartComing, InThread, Queued,
     QueuedOnce
<1> QED  BY <1>1, <1>2, <1>3 DEF ConnectorInv

LEMMA StutterKeeps == ConnectorInv /\ UNCHANGED vars => ConnectorInv'
<1> SUFFICES ASSUME ConnectorInv, UNCHANGED vars PROVE ConnectorInv'
  OBVIOUS
<1>1. TypeOK'
  BY DEF vars, attempt, retries, loop, functors, users, TypeOK, ConnectorInv
<1>2. (OneAttempt /\ NoFailure /\ OneStart /\ OneTimer)'
  BY DEF vars, attempt, retries, loop, functors, users, Idle, OneAttempt, NoFailure,
     Queued, QueuedOnce, InThread, StartComing, OneStart, OneTimer, ConnectorInv
<1>3. (OneConnection /\ OneReset /\ EventsMeet /\ BeforeAndAfter)'
  BY DEF vars, attempt, retries, loop, functors, users, Idle, Queued, QueuedOnce, Users,
     OneConnection, OneReset, EventsMeet, BeforeAndAfter, ConnectorInv
<1> QED  BY <1>1, <1>2, <1>3 DEF ConnectorInv

LEMMA StepKeeps == ConnectorInv /\ [Next]_vars => ConnectorInv'
<1> SUFFICES ASSUME ConnectorInv, [Next]_vars PROVE ConnectorInv'
  OBVIOUS
<1>1. CASE LoopStep
  BY <1>1, StartCalledKeeps, PollKeeps, HandleErrorKeeps, HandleWriteKeeps,
     RunTimerKeeps, TimersHandledKeeps, BeginFunctorsKeeps, RunStartKeeps,
     RunResetKeeps, EndFunctorsKeeps DEF LoopStep
<1>2. CASE UserStep
  BY <1>2, LoopStartKeeps, LoopRestartKeeps, StopKeeps, DestroyKeeps, UserClosesKeeps
     DEF UserStep, LoopStop
<1>3. CASE \E fd \in Fds, how \in Resolved : Resolve(fd, how)
  BY <1>3, ResolveKeeps
<1>4. CASE \E fd \in Fds : ResetByPeer(fd)
  BY <1>4, ResetByPeerKeeps
<1>5. CASE \E id \in TimerIds : Expire(id)
  BY <1>5, ExpireKeeps
<1>6. CASE \E t \in Threads : ThreadStart(t) \/ ThreadEnqueues(t) \/ ThreadStop(t)
  BY <1>6, ThreadStartKeeps, ThreadEnqueuesKeeps, StopKeeps DEF ThreadStop
<1>7. CASE UNCHANGED vars
  BY <1>7, StutterKeeps
<1> QED  BY <1>1, <1>2, <1>3, <1>4, <1>5, <1>6, <1>7 DEF Next

LEMMA InvariantHolds == Spec => []ConnectorInv
  BY ConnectorInitial, StepKeeps, PTL DEF Spec

\* Every variable of the Connector keeps its type; the delay stays between
\* its first value and the maximum.
THEOREM ConnectorTyped == Spec => []TypeOK
<1>1. ConnectorInv => TypeOK
  BY DEF ConnectorInv
<1> QED  BY <1>1, InvariantHolds, PTL

\* One attempt at a time: every socket connect() made and the user did not
\* get is the one being watched, and none is watched beside a retry timer.
THEOREM AttemptsOneAtATime == Spec => []OneAttempt
<1>1. ConnectorInv => OneAttempt
  BY DEF ConnectorInv
<1> QED  BY <1>1, InvariantHolds, PTL

\* No assertion of the class fails and nothing runs on a destroyed Connector.
THEOREM NeverFails == Spec => []NoFailure
<1>1. ConnectorInv => NoFailure
  BY DEF ConnectorInv
<1> QED  BY <1>1, InvariantHolds, PTL
=============================================================================

----------------------------- MODULE Connector -----------------------------
(***************************************************************************)
(* Connector: the active side of a connection.  It makes one attempt after *)
(* another, with a timer in between, until one succeeds and its descriptor *)
(* is handed to the user, or until it is told to stop.                     *)
(*                                                                         *)
(* The model holds the Connector, the parts of its loop it uses (poll, the *)
(* active dispatchers, the pending functors, the timers) and the network.  *)
(* start and stop may be called by any thread, restart and the destructor  *)
(* by the loop thread.  _connect is a plain bool that other threads write; *)
(* every read follows a call the compiler cannot see through, so it is a   *)
(* load of the current value.  A stop that falls between a test of         *)
(* _connect and what the test decides leads to the same state as one that  *)
(* comes just after, so the two are one step; start and restart, which set *)
(* _connect before it is tested, are two.                                  *)
(*                                                                         *)
(* Callers: start is called once, stop at any time, restart after the      *)
(* connection handed over has ended, and the destructor, as its assertion  *)
(* asks, while there is no dispatcher, no start is under way and no timer's *)
(* callback is running.  The state is private, so no caller depends on it. *)
(* A start after a stop is left out: it fails the assertion of startInLoop *)
(* unless the attempts had failed and no retry timer was pending.          *)
(***************************************************************************)
EXTENDS Integers, Sequences

CONSTANTS Fds,          \* descriptors
          NoFd,         \* stands for a null _dispatcher
          Threads,      \* threads other than the loop thread
          TimerIds,     \* bound: timers pending at a time
          InitRetryMs, MaxRetryMs

ASSUME NoFdAssumption == NoFd \notin Fds
ASSUME DelayAssumption ==
    /\ InitRetryMs \in Nat \ {0}
    /\ MaxRetryMs \in Nat
    /\ InitRetryMs =< MaxRetryMs

VARIABLES
    connect,      \* _connect
    state,        \* _state
    dispatcher,   \* the descriptor of _dispatcher, or NoFd
    watched,      \* is _dispatcher in the poller, interested in writing?
    retryDelay,   \* _retryDelay
    timerId,      \* the timer _timerId names, as a set that is empty at first
    place,        \* where the loop is: poll, dispatch or functors
    starting,     \* the loop thread is in start or restart, before startInLoop
    active,       \* what poll reported and is not yet handled
    timers,       \* retry timers that are pending
    due,          \* retry timers that have expired and have not run
    pending,      \* _pendingFunctors of the loop
    batch,        \* the functors being executed
    descriptor,   \* what each descriptor is
    tpc,          \* per other thread: outside, or inside start
    started,      \* start was called
    ended,        \* the connection last handed over has ended
    destroyed,    \* the Connector was destroyed
    gaveUp,       \* history: ::connect failed at once, which ends the attempts
    crash         \* none, or the assertion that failed

attempt == <<state, dispatcher, watched>>
retries == <<retryDelay, timerId, timers, due>>
loop == <<place, starting, active>>
functors == <<pending, batch>>
users == <<tpc, started, ended, destroyed>>
vars == <<connect, attempt, retries, loop, functors, descriptor, users, gaveUp, crash>>

States == {"disconnected", "connecting", "connected"}
Resolved == {"open", "failed", "self"}
Attempting == {"connecting"} \cup Resolved

Smaller(a, b) == IF a < b THEN a ELSE b
Elements(s) == {s[i] : i \in DOMAIN s}
Idle == timers = {} /\ due = {}

Init ==
    /\ connect = FALSE
    /\ state = "disconnected" /\ dispatcher = NoFd /\ watched = FALSE
    /\ retryDelay = InitRetryMs /\ timerId = {}
    /\ timers = {} /\ due = {}
    /\ place = "functors" /\ starting = FALSE /\ active = {}
    /\ pending = <<>> /\ batch = <<>>
    /\ descriptor = [fd \in Fds |-> "free"]
    /\ tpc = [t \in Threads |-> "idle"]
    /\ started = FALSE /\ ended = FALSE /\ destroyed = FALSE
    /\ gaveUp = FALSE
    /\ crash = "none"

Up == crash = "none"
Becomes(fd, what) == descriptor' = [descriptor EXCEPT ![fd] = what]
Fails(assertion) ==
    /\ crash' = assertion
    /\ UNCHANGED <<attempt, descriptor, gaveUp>>

-----------------------------------------------------------------------------
(* Forms of the operations with a plausible bug, used only to check that   *)
(* the properties can fail.                                                *)

\* A delay that doubles without limit.
ScheduleUncapped ==
    \E id \in TimerIds \ (timers \cup due) :
        /\ timers' = timers \cup {id}
        /\ timerId' = {id}
        /\ retryDelay' = 2 * retryDelay
        /\ UNCHANGED due

\* retry without its timer.
ScheduleNothing == UNCHANGED retries

\* retry that leaves the socket open.
CloseNothing(fd) == UNCHANGED descriptor

\* A destructor that does not cancel.
CancelNothing == UNCHANGED retries

\* A success whose descriptor is forgotten once stop was called.
ConnectedUnlessStopped(fd) ==
    /\ state' = "connected"
    /\ IF connect THEN Becomes(fd, "handed") ELSE UNCHANGED descriptor
    /\ UNCHANGED retries

-----------------------------------------------------------------------------
(* Attempts.                                                               *)

\* connecting(fd), and connect as far as it leads there.
Connecting(fd) ==
    /\ state' = "connecting"
    /\ dispatcher' = fd
    /\ watched' = TRUE
    /\ Becomes(fd, "connecting")
    /\ UNCHANGED <<gaveUp, crash>>

\* connect() whose ::connect fails at once: the socket is closed, nothing follows.
Abandons ==
    /\ gaveUp' = TRUE
    /\ UNCHANGED <<attempt, descriptor, crash>>

Connect ==
    \/ Abandons
    \/ dispatcher # NoFd /\ Fails("connecting")
    \/ /\ dispatcher = NoFd
       /\ \E fd \in Fds : descriptor[fd] = "free" /\ Connecting(fd)

StartInLoop ==
    \/ destroyed /\ Fails("destroyed")
    \/ ~destroyed /\ state # "disconnected" /\ Fails("startInLoop")
    \/ ~destroyed /\ state = "disconnected" /\ connect /\ Connect
    \/ /\ ~destroyed /\ state = "disconnected" /\ ~connect
       /\ UNCHANGED <<attempt, descriptor, gaveUp, crash>>

\* runAfter, and the doubling of the delay.
Schedule ==
    \E id \in TimerIds \ (timers \cup due) :
        /\ timers' = timers \cup {id}
        /\ timerId' = {id}
        /\ retryDelay' = Smaller(MaxRetryMs, 2 * retryDelay)
        /\ UNCHANGED due

Close(fd) == Becomes(fd, "free")

Retry(fd) ==
    /\ Close(fd)
    /\ state' = "disconnected"
    /\ IF connect THEN Schedule ELSE UNCHANGED retries

\* removeAndResetDispatcher: the object is destroyed by a functor, because
\* this runs inside its handleEvent.
RemoveAndResetDispatcher ==
    /\ watched' = FALSE
    /\ pending' = Append(pending, "reset")
    /\ UNCHANGED dispatcher

-----------------------------------------------------------------------------
(* The loop thread: user code.                                             *)

UserCode == Up /\ place \in {"dispatch", "functors"} /\ ~starting /\ ~destroyed

LoopStart ==
    /\ UserCode
    /\ ~started
    /\ connect' = TRUE
    /\ started' = TRUE
    /\ starting' = TRUE
    /\ UNCHANGED <<attempt, retries, place, active, functors, descriptor, tpc, ended,
                   destroyed, gaveUp, crash>>

LoopRestart ==
    /\ UserCode
    /\ ended
    /\ state' = "disconnected"
    /\ retryDelay' = InitRetryMs
    /\ connect' = TRUE
    /\ ended' = FALSE
    /\ starting' = TRUE
    /\ UNCHANGED <<dispatcher, watched, timerId, timers, due, place, active, functors,
                   descriptor, tpc, started, destroyed, gaveUp, crash>>

\* The startInLoop that start and restart call.
StartCalled ==
    /\ Up /\ starting
    /\ StartInLoop
    /\ starting' = FALSE
    /\ UNCHANGED <<connect, retries, place, active, functors, users>>

StopEffect ==
    /\ connect' = FALSE
    /\ UNCHANGED <<attempt, retries, loop, functors, descriptor, users, gaveUp, crash>>

LoopStop == UserCode /\ StopEffect

\* The user's connection, noticed by a later poll, ends.
UserCloses(fd) ==
    /\ UserCode
    /\ descriptor[fd] = "used"
    /\ Becomes(fd, "free")
    /\ ended' = TRUE
    /\ UNCHANGED <<connect, attempt, retries, loop, functors, tpc, started, destroyed,
                   gaveUp, crash>>

\* cancel(_timerId) in the destructor.
CancelTimer ==
    /\ timers' = timers \ timerId
    /\ due' = due \ timerId
    /\ UNCHANGED <<retryDelay, timerId>>

Destroy ==
    /\ UserCode
    /\ dispatcher = NoFd
    /\ \A t \in Threads : tpc[t] = "idle"
    /\ "start" \notin Elements(pending) \cup Elements(batch)
    /\ CancelTimer
    /\ destroyed' = TRUE
    /\ UNCHANGED <<connect, attempt, loop, functors, descriptor, tpc, started, ended,
                   gaveUp, crash>>

-----------------------------------------------------------------------------
(* The loop thread: the loop.                                              *)

Reported ==
    (IF watched /\ descriptor[dispatcher] \in Resolved THEN {"write"} ELSE {})
    \cup (IF watched /\ descriptor[dispatcher] = "failed" THEN {"error"} ELSE {})
    \cup (IF due # {} THEN {"timer"} ELSE {})

Poll ==
    /\ Up /\ place = "poll"
    /\ active' = Reported
    /\ place' = "dispatch"
    /\ descriptor' = [fd \in Fds |->
                         IF descriptor[fd] = "handed" THEN "used" ELSE descriptor[fd]]
    /\ UNCHANGED <<connect, attempt, retries, starting, functors, users, gaveUp, crash>>

Dispatching(event) ==
    /\ Up /\ place = "dispatch" /\ ~starting
    /\ event \in active
    /\ active' = active \ {event}

HandleError ==
    /\ Dispatching("error")
    /\ \/ /\ state # "connecting" /\ Fails("handleError")
          /\ UNCHANGED <<retries, functors>>
       \/ /\ state = "connecting"
          /\ RemoveAndResetDispatcher
          /\ Retry(dispatcher)
          /\ UNCHANGED <<batch, gaveUp, crash>>
    /\ UNCHANGED <<connect, place, starting, users>>

\* The attempt has succeeded: the descriptor goes to the user, or is closed
\* if stop was called in the meantime.
Connected(fd) ==
    /\ state' = "connected"
    /\ Becomes(fd, IF connect THEN "handed" ELSE "free")
    /\ UNCHANGED retries

\* handleWrite; poll reports it after an error too, when handleError has run.
HandleWrite ==
    /\ "error" \notin active
    /\ Dispatching("write")
    /\ \/ /\ state = "connecting"
          /\ RemoveAndResetDispatcher
          /\ IF descriptor[dispatcher] = "open"
             THEN Connected(dispatcher) ELSE Retry(dispatcher)
          /\ UNCHANGED <<batch, gaveUp, crash>>
       \/ /\ state = "disconnected"
          /\ UNCHANGED <<attempt, retries, functors, descriptor, gaveUp, crash>>
       \/ /\ state = "connected" /\ Fails("handleWrite")
          /\ UNCHANGED <<retries, functors>>
    /\ UNCHANGED <<connect, place, starting, users>>

\* The callback of a retry timer.
RunTimer(id) ==
    /\ Up /\ place = "dispatch" /\ ~starting
    /\ "timer" \in active
    /\ id \in due
    /\ due' = due \ {id}
    /\ StartInLoop
    /\ UNCHANGED <<connect, retryDelay, timerId, timers, loop, functors, users>>

TimersHandled ==
    /\ due = {}
    /\ Dispatching("timer")
    /\ UNCHANGED <<connect, attempt, retries, place, starting, functors, descriptor,
                   users, gaveUp, crash>>

BeginFunctors ==
    /\ Up /\ place = "dispatch" /\ ~starting
    /\ active = {}
    /\ batch' = pending
    /\ pending' = <<>>
    /\ place' = "functors"
    /\ UNCHANGED <<connect, attempt, retries, starting, active, descriptor, users,
                   gaveUp, crash>>

Running(functor) ==
    /\ Up /\ place = "functors" /\ ~starting
    /\ batch # <<>>
    /\ Head(batch) = functor
    /\ batch' = Tail(batch)

RunStart ==
    /\ Running("start")
    /\ StartInLoop
    /\ UNCHANGED <<connect, retries, loop, pending, users>>

\* resetDispatcher.
RunReset ==
    /\ Running("reset")
    /\ dispatcher' = NoFd
    /\ crash' = IF destroyed THEN "destroyed" ELSE crash
    /\ UNCHANGED <<connect, state, watched, retries, loop, pending, descriptor, users,
                   gaveUp>>

EndFunctors ==
    /\ Up /\ place = "functors" /\ ~starting
    /\ batch = <<>>
    /\ place' = "poll"
    /\ UNCHANGED <<connect, attempt, retries, starting, active, functors, descriptor,
                   users, gaveUp, crash>>

-----------------------------------------------------------------------------
(* The network, the clock and the other threads.                           *)

\* The attempt comes to its end: connected, refused, or connected to itself.
Resolve(fd, how) ==
    /\ Up
    /\ descriptor[fd] = "connecting"
    /\ Becomes(fd, how)
    /\ UNCHANGED <<connect, attempt, retries, loop, functors, users, gaveUp, crash>>

\* The new connection is reset before handleWrite saw it.
ResetByPeer(fd) ==
    /\ Up
    /\ descriptor[fd] = "open"
    /\ Becomes(fd, "failed")
    /\ UNCHANGED <<connect, attempt, retries, loop, functors, users, gaveUp, crash>>

Expire(id) ==
    /\ Up
    /\ id \in timers
    /\ timers' = timers \ {id}
    /\ due' = due \cup {id}
    /\ UNCHANGED <<connect, attempt, retryDelay, timerId, loop, functors, descriptor,
                   users, gaveUp, crash>>

\* start by another thread: _connect is set, then startInLoop is enqueued.
ThreadStart(t) ==
    /\ Up /\ ~destroyed
    /\ tpc[t] = "idle"
    /\ ~started
    /\ connect' = TRUE
    /\ started' = TRUE
    /\ tpc' = [tpc EXCEPT ![t] = "start"]
    /\ UNCHANGED <<attempt, retries, loop, functors, descriptor, ended, destroyed,
                   gaveUp, crash>>

ThreadEnqueues(t) ==
    /\ Up
    /\ tpc[t] = "start"
    /\ pending' = Append(pending, "start")
    /\ tpc' = [tpc EXCEPT ![t] = "idle"]
    /\ UNCHANGED <<connect, attempt, retries, loop, batch, descriptor, started, ended,
                   destroyed, gaveUp, crash>>

ThreadStop(t) ==
    /\ Up /\ ~destroyed
    /\ tpc[t] = "idle"
    /\ StopEffect

-----------------------------------------------------------------------------
LoopStep ==
    \/ StartCalled \/ Poll \/ HandleError \/ HandleWrite
    \/ (\E id \in TimerIds : RunTimer(id)) \/ TimersHandled
    \/ BeginFunctors \/ RunStart \/ RunReset \/ EndFunctors

UserStep ==
    \/ LoopStart \/ LoopRestart \/ LoopStop \/ Destroy
    \/ \E fd \in Fds : UserCloses(fd)

Next ==
    \/ LoopStep \/ UserStep
    \/ \E fd \in Fds, how \in Resolved : Resolve(fd, how)
    \/ \E fd \in Fds : ResetByPeer(fd)
    \/ \E id \in TimerIds : Expire(id)
    \/ \E t \in Threads : ThreadStart(t) \/ ThreadEnqueues(t) \/ ThreadStop(t)

Spec == Init /\ [][Next]_vars

\* The loop runs, an attempt ends one way or another (the kernel gives up
\* after its own timeout), timers expire, and a thread inside start leaves it.
FairSpec ==
    /\ Spec
    /\ WF_vars(LoopStep)
    /\ \A fd \in Fds : WF_vars(\E how \in Resolved : Resolve(fd, how))
    /\ \A id \in TimerIds : WF_vars(Expire(id))
    /\ \A t \in Threads : WF_vars(ThreadEnqueues(t))

-----------------------------------------------------------------------------
(* Properties.                                                             *)

TypeOK ==
    /\ connect \in BOOLEAN
    /\ state \in States
    /\ dispatcher \in Fds \cup {NoFd}
    /\ watched \in BOOLEAN
    /\ retryDelay \in InitRetryMs .. MaxRetryMs
    /\ timerId \in SUBSET TimerIds
    /\ timers \in SUBSET TimerIds /\ due \in SUBSET TimerIds
    /\ place \in {"poll", "dispatch", "functors"}
    /\ starting \in BOOLEAN
    /\ active \in SUBSET {"write", "error", "timer"}
    /\ pending \in Seq({"start", "reset"}) /\ batch \in Seq({"start", "reset"})
    /\ descriptor \in [Fds -> {"free", "handed", "used"} \cup Attempting]
    /\ tpc \in [Threads -> {"idle", "start"}]
    /\ started \in BOOLEAN /\ ended \in BOOLEAN /\ destroyed \in BOOLEAN
    /\ gaveUp \in BOOLEAN
    /\ crash \in {"none", "startInLoop", "connecting", "handleError", "handleWrite",
                  "destroyed"}

\* Every socket that connect() created and the user did not get is the one of
\* the attempt in progress: none is leaked, closed too early or attempted in
\* parallel, over errors, stops, retries and restarts; and no attempt is in
\* progress together with a retry timer.  (connecting, handleWrite,
\* handleError, retry)
OneAttempt ==
    /\ watched <=> state = "connecting"
    /\ {fd \in Fds : descriptor[fd] \in Attempting} = IF watched THEN {dispatcher} ELSE {}
    /\ ~Idle => state = "disconnected"

\* No assertion of the class fails (startInLoop: the state is DISCONNECTED;
\* connecting: the old dispatcher is gone; handleError and handleWrite: the
\* events of one poll meet the state they expect), and no functor or timer
\* runs on a destroyed Connector.
NoFailure == crash = "none"

\* It keeps trying: a connector that is wanted and not connected makes
\* another attempt unless it is stopped, destroyed or ::connect fails at once.
KeepsTrying ==
    connect /\ state = "disconnected" ~>
        state = "connecting" \/ ~connect \/ gaveUp \/ destroyed

\* A stop settles: if _connect stays false, then from some time on there is
\* no attempt, no timer and no open socket the user was not given.
StopSettles ==
    <>[](~connect) =>
        <>[](~watched /\ Idle /\ \A fd \in Fds : descriptor[fd] \notin Attempting)
=============================================================================

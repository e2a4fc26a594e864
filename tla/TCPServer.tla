----------------------------- MODULE TCPServer -----------------------------
(***************************************************************************)
(* TCPServer with its Listener and its pool of EventLoopThreads.  Loop 0   *)
(* is the base loop, whose thread starts the server, runs the loop and     *)
(* destroys the server; loop k lives on the stack of the k-th thread of    *)
(* the pool.  A loop runs the functors of its queue in order (Executor is  *)
(* what EventLoop promises); of a connection only what the server sees is  *)
(* here (TCPConnection models the rest): "closing" is what it is between    *)
(* handleClose and connectionClosed.  accept succeeds: a Socket is made of *)
(* a failed one too, and closing that aborts.  A failed assertion, an      *)
(* abort or the use of a destroyed object makes sound FALSE, but for the   *)
(* one use that careful callers meet too: the destructor that wakes a loop *)
(* already gone is "late".                                                 *)
(***************************************************************************)
EXTENDS Integers, Sequences, FiniteSets

CONSTANTS MostThreads,   \* bound: what setNumThreads is called with
          Conns,         \* connections that peers make
          ServerAvoids   \* what callers and the system do not do, see below

ASSUME ServerAssumption == MostThreads \in Nat /\ IsFiniteSet(Conns)

Threads == 1 .. MostThreads
Loops == 0 .. MostThreads

VARIABLES pc, k,         \* where the base thread is, and with which thread of the pool
          nThreads, started,
          thread,        \* where each EventLoopThread's thread is
          running,       \* its _running
          freed,         \* the EventLoopThreads destroyed
          done,          \* _done of the loops of the pool
          loops, next,   \* _loops and _next of the pool
          listening,
          pending,       \* the functors queued for each loop
          loopOf, conn,  \* each connection's loop and state
          connections,   \* _connections
          sound

poolVars == <<pc, k, nThreads, started, thread, running, freed, done, loops>>
connVars == <<next, loopOf, conn, connections>>
serverVars == <<poolVars, connVars, listening, pending, sound>>

Alive(l) == l = 0 \/ thread[l] \in {"published", "running", "looping"}
Looping(l) == IF l = 0 THEN pc = "looping" ELSE thread[l] = "looping"
Assert(condition) == sound' = (sound /\ condition)

ServerInit ==
    /\ pc = "setup" /\ k = 1
    /\ nThreads = 0 /\ started = FALSE
    /\ thread = [t \in Threads |-> "none"]
    /\ running = [t \in Threads |-> FALSE]
    /\ freed = {}
    /\ done = [t \in Threads |-> FALSE]
    /\ loops = <<>> /\ next = 0
    /\ listening = FALSE
    /\ pending = [l \in Loops |-> <<>>]
    /\ loopOf = [c \in Conns |-> 0]
    /\ conn = [c \in Conns |-> "none"]
    /\ connections = {}
    /\ sound = TRUE

-----------------------------------------------------------------------------
(* Starting *)

\* Ignored once the pool is started.
SetNumThreads(n) ==
    /\ pc \in {"setup", "looping"}
    /\ nThreads' = IF started THEN nThreads ELSE n
    /\ UNCHANGED <<pc, k, started, thread, running, freed, done, loops, connVars, listening, pending, sound>>

\* start() in the base thread.
Start ==
    /\ pc = "setup"
    /\ started' = TRUE
    /\ pc' = "starting"
    /\ UNCHANGED <<k, nThreads, thread, running, freed, done, loops, connVars, listening, pending, sound>>

StartThread ==
    /\ pc = "starting" /\ k =< nThreads
    /\ Assert(thread[k] = "none")
    /\ thread' = [thread EXCEPT ![k] = "started"]
    /\ pc' = "waiting"
    /\ UNCHANGED <<k, nThreads, started, running, freed, done, loops, connVars, listening, pending>>

\* startLoop with the mutex: _loop is null until the thread published it.
StartLoop ==
    /\ pc = "waiting"
    /\ IF Alive(k) THEN pc' = "starting" /\ loops' = Append(loops, k) /\ k' = k + 1
                   ELSE pc' = "asleep" /\ UNCHANGED <<loops, k>>
    /\ UNCHANGED <<nThreads, started, thread, running, freed, done, connVars, listening, pending, sound>>

\* pthread_cond_wait returns although nothing was notified.
WakeUnasked ==
    /\ pc = "asleep" /\ pc' = "waiting"
    /\ UNCHANGED <<k, nThreads, started, thread, running, freed, done, loops, connVars, listening, pending, sound>>

\* The rest of start() listens at once, and loop() follows.
Listen ==
    /\ pc = "starting" /\ k > nThreads
    /\ listening' = TRUE
    /\ pc' = "looping"
    /\ UNCHANGED <<k, nThreads, started, thread, running, freed, done, loops, connVars, pending, sound>>

\* start() in another thread: the pool's start aborts there; if that is
\* done, listening is left to the loop.  One call is queued at a time.
ForeignStart ==
    /\ "foreign start" \in ServerAvoids => started
    /\ pc \in {"setup", "starting", "waiting", "asleep", "looping"}
    /\ <<"listen">> \notin {pending[0][i] : i \in DOMAIN pending[0]}
    /\ Assert(started)
    /\ pending' = IF listening THEN pending ELSE [pending EXCEPT ![0] = Append(@, <<"listen">>)]
    /\ UNCHANGED <<poolVars, connVars, listening>>

-----------------------------------------------------------------------------
(* The threads of the pool *)

\* Mutant of Publish: nobody is notified.
PublishSilently(t) ==
    /\ thread[t] = "started"
    /\ thread' = [thread EXCEPT ![t] = "published"]
    /\ UNCHANGED <<pc, k, nThreads, started, running, freed, done, loops, connVars, listening, pending, sound>>

\* threadFunc makes its loop, stores its address under the mutex and
\* notifies startLoop.
Publish(t) ==
    /\ thread[t] = "started"
    /\ thread' = [thread EXCEPT ![t] = "published"]
    /\ pc' = IF pc = "asleep" /\ k = t THEN "waiting" ELSE pc
    /\ UNCHANGED <<k, nThreads, started, running, freed, done, loops, connVars, listening, pending, sound>>

\* _running is set without the mutex, after startLoop may have returned.
SetRunning(t) ==
    /\ thread[t] = "published"
    /\ Assert(t \notin freed)
    /\ thread' = [thread EXCEPT ![t] = "running"]
    /\ running' = [running EXCEPT ![t] = TRUE]
    /\ UNCHANGED <<pc, k, nThreads, started, freed, done, loops, connVars, listening, pending>>

EnterLoop(t) ==
    /\ thread[t] = "running"
    /\ thread' = [thread EXCEPT ![t] = "looping"]
    /\ UNCHANGED <<pc, k, nThreads, started, running, freed, done, loops, connVars, listening, pending, sound>>

\* The loop ends, and with threadFunc the loop object and its functors.
LeaveLoop(t) ==
    /\ thread[t] = "looping" /\ done[t]
    /\ thread' = [thread EXCEPT ![t] = "ended"]
    /\ pending' = [pending EXCEPT ![t] = <<>>]
    /\ UNCHANGED <<pc, k, nThreads, started, running, freed, done, loops, connVars, listening, sound>>

\* A functor or a callback quits the loop that runs it, and no wake-up is
\* needed; careful ones do not quit it before the server's destruction does.
QuitInLoop(t) ==
    /\ "quit" \in ServerAvoids => pc \in {"waking", "joining"} /\ k = t
    /\ Looping(t)
    /\ done' = [done EXCEPT ![t] = TRUE]
    /\ UNCHANGED <<pc, k, nThreads, started, thread, running, freed, loops, connVars, listening, pending, sound>>

-----------------------------------------------------------------------------
(* Connections *)

GetNextLoop == IF loops = <<>> THEN 0 ELSE loops[next + 1]
Advanced == IF loops = <<>> \/ next + 1 >= Len(loops) THEN 0 ELSE next + 1

\* Listener::handleRead accepts one connection and newConnection hands it
\* over to the next loop.
NewConnection(c) ==
    LET l == GetNextLoop
    IN /\ pc = "looping" /\ listening
       /\ conn[c] = "none"
       /\ next' = Advanced
       /\ loopOf' = [loopOf EXCEPT ![c] = l]
       /\ connections' = connections \cup {c}
       /\ Assert(c \notin connections /\ Alive(l))
       /\ conn' = [conn EXCEPT ![c] = IF l = 0 THEN "connected" ELSE "connecting"]
       /\ pending' = IF l = 0 THEN pending ELSE [pending EXCEPT ![l] = Append(@, <<"established", c>>)]
       /\ UNCHANGED <<poolVars, listening>>

\* connectionClosed is always queued, for the loop of the connection.
RemoveConnectionInLoop(c, queues) ==
    /\ Assert(c \in connections /\ Alive(loopOf[c]))
    /\ connections' = connections \ {c}
    /\ pending' = [queues EXCEPT ![loopOf[c]] = Append(@, <<"closed", c>>)]

\* handleClose in the connection's loop: removal is done by the base loop.
HandleClose(c) ==
    /\ Looping(loopOf[c]) /\ conn[c] = "connected"
    /\ conn' = [conn EXCEPT ![c] = "closing"]
    /\ IF loopOf[c] = 0 THEN RemoveConnectionInLoop(c, pending)
       ELSE /\ pending' = [pending EXCEPT ![0] = Append(@, <<"remove", c>>)]
            /\ UNCHANGED <<connections, sound>>
    /\ UNCHANGED <<poolVars, next, loopOf, listening>>

Popped(l) == [pending EXCEPT ![l] = Tail(@)]
First(l, kind) == Looping(l) /\ pending[l] # <<>> /\ pending[l][1][1] = kind

RunListen ==
    /\ First(0, "listen")
    /\ listening' = TRUE
    /\ pending' = Popped(0)
    /\ UNCHANGED <<poolVars, connVars, sound>>

RunEstablished(l) ==
    /\ First(l, "established")
    /\ LET c == pending[l][1][2]
       IN Assert(conn[c] = "connecting") /\ conn' = [conn EXCEPT ![c] = "connected"]
    /\ pending' = Popped(l)
    /\ UNCHANGED <<poolVars, next, loopOf, connections, listening>>

RunRemove ==
    /\ First(0, "remove")
    /\ RemoveConnectionInLoop(pending[0][1][2], Popped(0))
    /\ UNCHANGED <<poolVars, next, loopOf, conn, listening>>

RunClosed(l) ==
    /\ First(l, "closed")
    /\ LET c == pending[l][1][2]
       IN Assert(conn[c] = "closing") /\ conn' = [conn EXCEPT ![c] = "closed"]
    /\ pending' = Popped(l)
    /\ UNCHANGED <<poolVars, next, loopOf, connections, listening>>

-----------------------------------------------------------------------------
(* Destruction *)

\* The base loop is quit and returns, and the server is destroyed; callers
\* that are careful wait until every thread runs its loop.
QuitBase ==
    /\ "early destruction" \in ServerAvoids => \A i \in DOMAIN loops : running[loops[i]]
    /\ pc = "looping"
    /\ pc' = "destroying" /\ k' = 1
    /\ UNCHANGED <<nThreads, started, thread, running, freed, done, loops, connVars, listening, pending, sound>>

\* Mutant of QuitThread: the loop is quit and its thread not joined.
QuitThreadUnjoined ==
    /\ pc = "destroying" /\ k =< Len(loops)
    /\ running' = [running EXCEPT ![k] = FALSE]
    /\ done' = [done EXCEPT ![k] = TRUE]
    /\ freed' = freed \cup {k}
    /\ k' = k + 1
    /\ UNCHANGED <<pc, nThreads, started, thread, loops, connVars, listening, pending, sound>>

\* ~EventLoopThread quits and joins only a thread it knows to run.  Of quit
\* this is the store of _done, which the loop may see at once.
QuitThread ==
    /\ pc = "destroying" /\ k =< Len(loops)
    /\ IF running[k]
       THEN /\ running' = [running EXCEPT ![k] = FALSE]
            /\ done' = [done EXCEPT ![k] = TRUE]
            /\ Assert(thread[k] # "ended")
            /\ pc' = "waking"
            /\ UNCHANGED <<freed, k>>
       ELSE /\ freed' = freed \cup {k}
            /\ k' = k + 1
            /\ UNCHANGED <<pc, running, done, sound>>
    /\ UNCHANGED <<nThreads, started, thread, loops, connVars, listening, pending>>

\* The rest of quit, which wakes the loop up, or what is left of it where its
\* thread already ended: nothing is said of the program after that.
WakeThread ==
    /\ pc = "waking"
    /\ pc' = IF thread[k] = "ended" THEN "late" ELSE "joining"
    /\ UNCHANGED <<k, nThreads, started, thread, running, freed, done, loops, connVars, listening, pending, sound>>

Join ==
    /\ pc = "joining" /\ thread[k] = "ended"
    /\ pc' = "destroying" /\ k' = k + 1
    /\ freed' = freed \cup {k}
    /\ UNCHANGED <<nThreads, started, thread, running, done, loops, connVars, listening, pending, sound>>

\* The connections that are left and the listener go last.
Destroyed ==
    /\ pc = "destroying" /\ k > Len(loops)
    /\ pc' = "gone"
    /\ connections' = {}
    /\ UNCHANGED <<k, nThreads, started, thread, running, freed, done, loops, next, loopOf, conn, listening, pending, sound>>

BaseStep ==
    \/ StartThread \/ StartLoop \/ Listen
    \/ RunListen \/ RunRemove \/ RunClosed(0)
    \/ QuitThread \/ WakeThread \/ Join \/ Destroyed
ThreadStep(t) ==
    \/ Publish(t) \/ SetRunning(t) \/ EnterLoop(t) \/ LeaveLoop(t)
    \/ RunEstablished(t) \/ RunClosed(t)

ServerNext ==
    /\ sound /\ pc # "late"
    /\ \/ \E n \in 0 .. MostThreads : SetNumThreads(n)
       \/ Start \/ WakeUnasked \/ ForeignStart \/ QuitBase
       \/ BaseStep
       \/ \E t \in Threads : ThreadStep(t) \/ QuitInLoop(t)
       \/ \E c \in Conns : NewConnection(c) \/ HandleClose(c)

ServerSpec == ServerInit /\ [][ServerNext]_serverVars

-----------------------------------------------------------------------------
(* Properties *)

InUse == pc \notin {"destroying", "waking", "joining", "late", "gone"}
Assigned(l) == {c \in Conns : conn[c] # "none" /\ loopOf[c] = l}

\* startLoop returned only loops that exist, and they exist until the server
\* is destroyed; then no thread of the pool is left.
LoopsLive ==
    /\ InUse => \A i \in DOMAIN loops : Alive(loops[i])
    /\ pc = "gone" => \A t \in Threads : thread[t] \in {"none", "ended"}

\* Connections go round the loops, a functor about one is queued for its own
\* loop, and the map holds it from acceptance to removal.
ConnectionsTracked ==
    /\ \A i, j \in DOMAIN loops :
         Cardinality(Assigned(loops[i])) =< Cardinality(Assigned(loops[j])) + 1
    /\ \A l \in Loops : \A i \in DOMAIN pending[l] :
         pending[l][i][1] \in {"established", "closed"} => loopOf[pending[l][i][2]] = l
    /\ InUse => \A c \in Conns :
         /\ conn[c] \in {"connecting", "connected"} => c \in connections
         /\ conn[c] \in {"none", "closed"} => c \notin connections

\* Callers that keep to ServerAvoids meet no failed assertion, no abort and no
\* use of a destroyed object other than the late wake-up (see QuitMeetsLoop).
ServerSound == sound /\ LoopsLive /\ ConnectionsTracked

\* The loop that ~EventLoopThread quits is there until quit has returned, so
\* that wakeup writes its eight bytes to the loop's eventfd, as it asserts.
\* Between the store of _done and the write the loop may see _done, after an
\* event or the timeout of poll, and end with the thread whose stack it is on.
QuitMeetsLoop == pc # "late"

=============================================================================

---------------------------- MODULE TCPConnection ----------------------------
(***************************************************************************)
(* One TCPConnection from TCPServer::newConnection to connectionClosed: its*)
(* state, its output buffer, its dispatcher in the loop it was given to,   *)
(* its entry in TCPServer::_connections (kept by the server's base loop),  *)
(* and the functors that travel between the two loops.                     *)
(*                                                                         *)
(* EventLoop, EventDispatcher and Poller appear by what they do to this    *)
(* connection: phases of the loop, a FIFO of functors swapped out whole,   *)
(* the events asked for, and a slot that is polled until disabled once.    *)
(* The socket and its peer are the environment.  A message is a model      *)
(* value repeated Size times; a functor holding a message is a bound       *)
(* sendInLoop, and the other functors are named for what they call.        *)
(*                                                                         *)
(* POLLHUP without POLLIN is not reported while POLLIN is asked for, and   *)
(* POLLIN is asked for as long as the slot is polled: that branch of       *)
(* handleEvent is never taken for a connection.                            *)
(***************************************************************************)
EXTENDS Integers, SequencesExt

CONSTANTS Messages,   \* messages ever sent
          Size,       \* their lengths
          Cap,        \* capacity of the socket's send buffer
          Threads,    \* threads other than the loop's that hold a TCPConnectionPtr
          PeerAborts  \* may the peer close for good, or reset the connection?

ASSUME SizeAssumption == Size \in [Messages -> Nat \ {0}]
ASSUME CapAssumption == Cap \in Nat \ {0}
ASSUME AbortsAssumption == PeerAborts \in BOOLEAN

VARIABLES
    sameLoop,    \* is the connection's loop the server's base loop? (never changes)
    state,       \* _state
    events,      \* _dispatcher->_events
    registered,  \* is the dispatcher in the poller's tables?
    polled,      \* ... and its slot not ignored?
    outbuf,      \* _outputBuffer
    inMap,       \* is the connection in TCPServer::_connections?
    removals,    \* removeConnectionInLoop functors queued in the base loop
    pc,          \* the part of EventLoop::loop being run
    mid,         \* in handleEvent, and not in user code
    revents,     \* events of this dispatcher reported and not yet handled
    queue,       \* _pendingFunctors that concern this connection
    batch, at,   \* the functors swapped out, and the one to run next
    wire,        \* what the socket took, in order
    room,        \* free space in the socket's send buffer
    incoming,    \* is there unread data?
    peer,        \* open, half (shut down its writing) or closed
    reset,       \* the connection was reset
    sockErr,     \* the socket's pending error
    fin,         \* shutdown(SHUT_WR) was done
    tpc,         \* per other thread: where it is in send or shutdown
    asked,       \* history: messages handed to send while CONNECTED
    accepted,    \* history: what was written or buffered, in order
    crash        \* none, or how the program ended

conn == <<state, events, registered, polled, outbuf>>
server == <<sameLoop, inMap, removals>>
loop == <<pc, mid, revents, batch, at>>
socket == <<wire, room, incoming, peer, reset, sockErr, fin>>
calls == <<tpc, asked>>
vars == <<conn, server, loop, queue, socket, calls, accepted, crash>>

Owning == {"established", "closed", "writeComplete"}  \* these hold a shared_ptr

ASSUME MessagesAssumption ==
    Messages \cap (Owning \cup {"shutdown", "shutting", "idle", "gone"}) = {}

Init ==
    /\ sameLoop \in BOOLEAN
    /\ state = "CONNECTING" /\ events = {} /\ outbuf = <<>>
    /\ registered = FALSE /\ polled = FALSE
    /\ inMap = FALSE /\ removals = 0
    /\ pc = "poll" /\ mid = FALSE /\ revents = {}
    /\ queue = <<>> /\ batch = <<>> /\ at = 1
    /\ wire = <<>> /\ room = Cap /\ incoming = FALSE
    /\ peer = "open" /\ reset = FALSE /\ sockErr = "none" /\ fin = FALSE
    /\ tpc = [t \in Threads |-> "idle"]
    /\ asked = {} /\ accepted = <<>>
    /\ crash = "none"

Bytes(m) == [i \in 1 .. Size[m] |-> m]
Written(s) == Min({Len(s), room})            \* ::write of s takes this much
Unwritten(s) == SubSeq(s, Written(s) + 1, Len(s))
IsWriting == "out" \in events

\* The program has not stopped.
Up == crash = "none"

\* The program stops: a failed assertion, abort(), or a destroyed object used.
Crash(why) ==
    /\ crash' = why
    /\ UNCHANGED <<conn, server, queue, socket, accepted>>

\* updateEventDispatcher for a dispatcher in the tables: once its slot is
\* ignored it stays so.
Update(ev) ==
    /\ events' = ev
    /\ polled' = (polled /\ ev # {})

-----------------------------------------------------------------------------
(* Closing: handleClose, removeConnection, removeConnectionInLoop.         *)

\* A close that leaves the interest as it was: used only to check that NoFailure
\* can fail.
CloseKeepingEvents(ev) ==
    /\ UNCHANGED <<events, polled, sameLoop, inMap, queue>>
    /\ removals' = removals + 1

CanClose ==
    /\ state \in {"CONNECTED", "DISCONNECTING"}
    /\ registered
    /\ sameLoop => inMap

\* handleClose, after which the dispatcher's events are ev.
HandleClose(ev) ==
    /\ events' = ev
    /\ polled' = FALSE
    /\ UNCHANGED sameLoop
    /\ IF sameLoop
       THEN inMap' = FALSE /\ queue' = Append(queue, "closed") /\ UNCHANGED removals
       ELSE removals' = removals + 1 /\ UNCHANGED <<inMap, queue>>

\* Without the check of what was erased, used only to check that ClosedOnce can fail.
RemoveUnchecked ==
    /\ Up
    /\ removals > 0
    /\ removals' = removals - 1
    /\ inMap' = FALSE
    /\ queue' = Append(queue, "closed")
    /\ UNCHANGED <<sameLoop, conn, socket, accepted, crash, loop, calls>>

\* The base loop runs the functor of removeConnection.
RemoveConnectionInLoop ==
    /\ Up
    /\ removals > 0
    /\ IF inMap
       THEN /\ removals' = removals - 1
            /\ inMap' = FALSE
            /\ queue' = Append(queue, "closed")
            /\ UNCHANGED <<sameLoop, conn, socket, accepted, crash>>
       ELSE Crash("removal")
    /\ UNCHANGED <<loop, calls>>

-----------------------------------------------------------------------------
(* Sending: send, sendInLoop, shutdown, shutdownInLoop.                    *)

\* Forms with a plausible bug, used only to check that properties can fail:
\* send without its test, sendInLoop that ignores waiting output, or that does
\* not watch for the rest.
CanSendAlways == state # "CONNECTING"
CanWriteAlways == TRUE
SendWritesUnwatched(m) ==
    /\ ~IsWriting /\ outbuf = <<>> /\ ~fin /\ ~reset
    /\ wire' = wire \o SubSeq(Bytes(m), 1, Written(Bytes(m)))
    /\ room' = room - Written(Bytes(m))
    /\ outbuf' = Unwritten(Bytes(m))
    /\ accepted' = accepted \o Bytes(m)
    /\ UNCHANGED <<state, events, registered, polled, server, queue, incoming, peer,
                   reset, sockErr, fin, crash>>

CanSend == state = "CONNECTED"
CanWrite == ~IsWriting /\ outbuf = <<>>
WriteFails == fin \/ reset
WriteError == IF sockErr = "none" THEN "EPIPE" ELSE sockErr

\* Output already waits: the message is left out.
SendNothing ==
    /\ ~CanWrite
    /\ UNCHANGED <<conn, server, queue, socket, accepted, crash>>

\* As much as possible is written (nothing, when the socket would block) and
\* the rest buffered and watched for.
SendWrites(m) ==
    /\ CanWrite /\ ~WriteFails
    /\ wire' = wire \o SubSeq(Bytes(m), 1, Written(Bytes(m)))
    /\ room' = room - Written(Bytes(m))
    /\ outbuf' = outbuf \o Unwritten(Bytes(m))
    /\ accepted' = accepted \o Bytes(m)
    /\ IF Unwritten(Bytes(m)) = <<>>
       THEN UNCHANGED <<events, polled>>
       ELSE registered /\ Update(events \cup {"out"})
    /\ UNCHANGED <<state, registered, server, queue, incoming, peer, reset,
                   sockErr, fin, crash>>

\* EPIPE: the connection is closed, then the message buffered and watched for.
SendClosed(m) ==
    /\ CanWrite /\ WriteFails /\ WriteError = "EPIPE"
    /\ CanClose
    /\ HandleClose({"out"})
    /\ outbuf' = Bytes(m)
    /\ accepted' = accepted \o Bytes(m)
    /\ sockErr' = "none"
    /\ UNCHANGED <<state, registered, wire, room, incoming, peer, reset, fin, crash>>

\* Another error, or an assertion on the way.
SendCrashes(m) ==
    /\ CanWrite
    /\ \/ WriteFails /\ WriteError # "EPIPE" /\ Crash("abort")
       \/ WriteFails /\ WriteError = "EPIPE" /\ ~CanClose /\ Crash("assert")
       \/ ~WriteFails /\ Unwritten(Bytes(m)) # <<>> /\ ~registered /\ Crash("assert")

SendInLoop(m) == SendNothing \/ SendWrites(m) \/ SendClosed(m) \/ SendCrashes(m)

\* ::shutdown fails on a socket that is closed both ways.
NotConnected == reset \/ (fin /\ peer # "open")

\* Without the test of isWriting, used only to check that FinLast can fail.
ShutdownAtOnce ==
    IF NotConnected THEN crash' = "abort" /\ UNCHANGED fin
                    ELSE fin' = TRUE /\ UNCHANGED crash

ShutdownInLoop ==
    IF IsWriting THEN UNCHANGED <<fin, crash>>
    ELSE IF NotConnected THEN crash' = "abort" /\ UNCHANGED fin
    ELSE fin' = TRUE /\ UNCHANGED crash

\* User code runs in the loop thread: a callback of this or of another
\* dispatcher, or a functor.
InUserCode == pc # "poll" /\ ~mid

LoopSend(m) ==
    /\ Up
    /\ InUserCode
    /\ m \notin asked
    /\ CanSend
    /\ SendInLoop(m)
    /\ asked' = asked \cup {m}
    /\ UNCHANGED <<loop, tpc>>

LoopShutdown ==
    /\ Up
    /\ InUserCode
    /\ CanSend
    /\ state' = "DISCONNECTING"
    /\ ShutdownInLoop
    /\ UNCHANGED <<events, registered, polled, outbuf, server, loop, queue, wire, room,
                   incoming, peer, reset, sockErr, calls, accepted>>

-----------------------------------------------------------------------------
(* The same calls from another thread: the test of _state, what follows    *)
(* it, and the end of the pointer are steps of their own.                  *)

ThreadChecks(t, call) ==
    /\ Up
    /\ tpc[t] = "idle"
    /\ CanSend
    /\ call \notin asked
    /\ tpc' = [tpc EXCEPT ![t] = call]
    /\ asked' = asked \cup ({call} \cap Messages)
    /\ UNCHANGED <<conn, server, loop, queue, socket, accepted, crash>>

ThreadSetsState(t) ==
    /\ Up
    /\ tpc[t] = "shutdown"
    /\ state' = "DISCONNECTING"
    /\ tpc' = [tpc EXCEPT ![t] = "shutting"]
    /\ UNCHANGED <<events, registered, polled, outbuf, server, loop, queue, socket,
                   asked, accepted, crash>>

ThreadEnqueues(t) ==
    /\ Up
    /\ tpc[t] \in Messages \cup {"shutting"}
    /\ queue' = Append(queue, IF tpc[t] = "shutting" THEN "shutdown" ELSE tpc[t])
    /\ tpc' = [tpc EXCEPT ![t] = "idle"]
    /\ UNCHANGED <<conn, server, loop, socket, asked, accepted, crash>>

ThreadReleases(t) ==
    /\ Up
    /\ tpc[t] = "idle"
    /\ state # "CONNECTING"
    /\ tpc' = [tpc EXCEPT ![t] = "gone"]
    /\ UNCHANGED <<conn, server, loop, queue, socket, asked, accepted, crash>>

-----------------------------------------------------------------------------
(* The loop: poll, handleEvent (errors, then reading, then writing) and    *)
(* the functors.                                                           *)

Ready ==
    IF ~polled THEN {}
    ELSE   {e \in {"err"} : sockErr # "none"}
      \cup {e \in events \cap {"in"} : incoming \/ peer # "open" \/ reset}
      \cup {e \in events \cap {"out"} : room > 0 \/ reset}

Poll ==
    /\ Up
    /\ pc = "poll"
    /\ revents' = Ready
    /\ pc' = "dispatch"
    /\ UNCHANGED <<conn, server, mid, queue, batch, at, socket, calls, accepted, crash>>

HandleError ==
    /\ Up
    /\ pc = "dispatch"
    /\ "err" \in revents
    /\ sockErr' = "none"
    /\ revents' = revents \ {"err"}
    /\ mid' = (revents' # {})
    /\ UNCHANGED <<conn, server, pc, queue, batch, at, wire, room, incoming, peer, reset,
                   fin, calls, accepted, crash>>

\* handleRead is next, and done after this step.
Reading ==
    /\ Up
    /\ pc = "dispatch"
    /\ "in" \in revents /\ "err" \notin revents
    /\ revents' = revents \ {"in"}
    /\ UNCHANGED <<pc, batch, at, calls, accepted>>

\* Data: the message callback runs.
ReadMessage ==
    /\ Reading
    /\ incoming
    /\ incoming' = FALSE
    /\ mid' = FALSE
    /\ UNCHANGED <<conn, server, queue, wire, room, peer, reset, sockErr, fin, crash>>

\* End of file.
ReadClose ==
    /\ Reading
    /\ ~incoming /\ sockErr = "none"
    /\ mid' = (revents' # {})
    /\ IF CanClose
       THEN /\ HandleClose({})
            /\ UNCHANGED <<state, registered, outbuf, socket, crash>>
       ELSE Crash("assert")

\* An error that came in after the poll.
ReadError ==
    /\ Reading
    /\ ~incoming /\ sockErr # "none"
    /\ sockErr' = "none"
    /\ mid' = (revents' # {})
    /\ UNCHANGED <<conn, server, queue, wire, room, incoming, peer, reset, fin, crash>>

\* Used only to check that properties can fail: the shutdown is forgotten; all
\* interest, or none of it, is given up when output was written.
EndsNothing == FALSE
DisableAll == {}
DisableNothing == events

\* handleWrite, once all was written, ends the shutdown asked for before.
EndsShutdown == state = "DISCONNECTING"

\* The interest that is left when all output was written.
DisableWriting == events \ {"out"}

HandleWrite ==
    /\ Up
    /\ pc = "dispatch"
    /\ revents = {"out"}
    /\ revents' = {} /\ mid' = FALSE
    /\ IF IsWriting /\ ~WriteFails /\ Written(outbuf) > 0
       THEN /\ wire' = wire \o SubSeq(outbuf, 1, Written(outbuf))
            /\ room' = room - Written(outbuf)
            /\ outbuf' = Unwritten(outbuf)
            /\ IF outbuf' = <<>>
               THEN /\ Update(DisableWriting)
                    /\ queue' = Append(queue, "writeComplete")
                    /\ fin' = (fin \/ EndsShutdown)
               ELSE UNCHANGED <<events, polled, queue, fin>>
            /\ UNCHANGED sockErr
       ELSE /\ sockErr' = IF IsWriting THEN "none" ELSE sockErr
            /\ UNCHANGED <<wire, room, outbuf, events, polled, queue, fin>>
    /\ UNCHANGED <<state, registered, server, pc, batch, at, incoming, peer, reset,
                   calls, accepted, crash>>

BeginFunctors ==
    /\ Up
    /\ pc = "dispatch"
    /\ revents = {} /\ ~mid
    /\ pc' = "functors"
    /\ batch' = queue /\ queue' = <<>>
    /\ UNCHANGED <<conn, server, mid, revents, at, socket, calls, accepted, crash>>

\* The connection exists while somebody points to it: the server, a functor
\* queued or in the batch (kept until the whole batch has run), or a thread.
Alive ==
    \/ inMap \/ removals > 0
    \/ Owning \cap (ToSet(queue) \cup ToSet(batch)) # {}
    \/ \E t \in Threads : tpc[t] # "gone"

\* The next functor of the batch is f, and done after this step.
Running(f) ==
    /\ Up
    /\ pc = "functors"
    /\ at <= Len(batch)
    /\ batch[at] = f
    /\ at' = at + 1
    /\ UNCHANGED <<pc, mid, revents, batch, calls>>

\* connectionEstablished, up to the connection callback.
Established ==
    /\ state' = "CONNECTED"
    /\ registered' = TRUE
    /\ events' = {"in"} /\ polled' = TRUE
    /\ UNCHANGED outbuf

RunEstablished ==
    /\ Running("established")
    /\ Established
    /\ UNCHANGED <<server, queue, socket, accepted, crash>>

\* connectionClosed.  In its connection callback send and shutdown do nothing.
RunClosed ==
    /\ Running("closed")
    /\ IF state \in {"CONNECTED", "DISCONNECTING"} /\ registered
       THEN /\ state' = "DISCONNECTED"
            /\ events' = {} /\ polled' = FALSE
            /\ registered' = FALSE
            /\ UNCHANGED <<outbuf, server, queue, socket, accepted, crash>>
       ELSE Crash("assert")

\* The user's write-complete callback: see LoopSend and LoopShutdown.
RunWriteComplete ==
    /\ Running("writeComplete")
    /\ UNCHANGED <<conn, server, queue, socket, accepted, crash>>

\* What another thread sent.
RunSend ==
    /\ \E m \in Messages : Running(m) /\ IF Alive THEN SendInLoop(m) ELSE Crash("freed")

RunShutdown ==
    /\ Running("shutdown")
    /\ IF Alive
       THEN /\ ShutdownInLoop
            /\ UNCHANGED <<conn, server, queue, wire, room, incoming, peer, reset,
                           sockErr, accepted>>
       ELSE Crash("freed")

\* The place in the batch not reset: used only to check that TypeOK can fail.
EndFunctorsKeepingPlace ==
    /\ Up
    /\ pc = "functors"
    /\ at > Len(batch)
    /\ pc' = "poll"
    /\ batch' = <<>>
    /\ UNCHANGED <<conn, server, mid, revents, queue, at, socket, calls, accepted, crash>>

EndFunctors ==
    /\ Up
    /\ pc = "functors"
    /\ at > Len(batch)
    /\ pc' = "poll"
    /\ batch' = <<>> /\ at' = 1
    /\ UNCHANGED <<conn, server, mid, revents, queue, socket, calls, accepted, crash>>

-----------------------------------------------------------------------------
(* The server accepts the connection; the peer and the network.            *)

\* newConnection, in the base loop: the connection's own loop establishes it
\* at once when it is that loop, or from a functor.
NewConnection ==
    /\ Up
    /\ state = "CONNECTING" /\ ~inMap
    /\ inMap' = TRUE
    /\ IF sameLoop
       THEN pc = "dispatch" /\ Established /\ UNCHANGED queue
       ELSE queue' = Append(queue, "established") /\ UNCHANGED conn
    /\ UNCHANGED <<sameLoop, removals, loop, socket, calls, accepted, crash>>

PeerSends ==
    /\ Up
    /\ peer = "open"
    /\ incoming' = TRUE
    /\ UNCHANGED <<conn, server, loop, queue, wire, room, peer, reset, sockErr, fin,
                   calls, accepted, crash>>

PeerReads ==
    /\ Up
    /\ room < Cap /\ ~reset
    /\ room' = room + 1
    /\ UNCHANGED <<conn, server, loop, queue, wire, incoming, peer, reset, sockErr, fin,
                   calls, accepted, crash>>

PeerCloses(how) ==
    /\ Up
    /\ peer = "open"
    /\ how = "closed" => PeerAborts
    /\ peer' = how
    /\ UNCHANGED <<conn, server, loop, queue, wire, room, incoming, reset, sockErr, fin,
                   calls, accepted, crash>>

\* A reset: of an open connection, or in answer to data a closed peer gets.
PeerResets ==
    /\ Up
    /\ PeerAborts /\ ~reset
    /\ peer # "open" => ~fin /\ wire # <<>>
    /\ reset' = TRUE
    /\ peer' = "closed"
    /\ sockErr' = IF peer = "open" THEN "ECONNRESET" ELSE "EPIPE"
    /\ UNCHANGED <<conn, server, loop, queue, wire, room, incoming, fin, calls, accepted, crash>>

-----------------------------------------------------------------------------
LoopStep ==
    \/ Poll \/ HandleError \/ ReadMessage \/ ReadClose \/ ReadError \/ HandleWrite
    \/ BeginFunctors \/ RunEstablished \/ RunClosed \/ RunWriteComplete
    \/ RunSend \/ RunShutdown \/ EndFunctors

ThreadStep(t) ==
    \/ \E call \in Messages \cup {"shutdown"} : ThreadChecks(t, call)
    \/ ThreadSetsState(t) \/ ThreadEnqueues(t) \/ ThreadReleases(t)

Next ==
    \/ LoopStep \/ RemoveConnectionInLoop
    \/ LoopShutdown \/ \E m \in Messages : LoopSend(m)
    \/ \E t \in Threads : ThreadStep(t)
    \/ NewConnection \/ PeerSends \/ PeerReads \/ PeerResets
    \/ \E how \in {"half", "closed"} : PeerCloses(how)

Spec == Init /\ [][Next]_vars

\* Both loops run, poll() reports what is ready, callbacks return, and a peer
\* that is sent data reads it.
FairSpec ==
    /\ Spec
    /\ WF_vars(LoopStep)
    /\ WF_vars(RemoveConnectionInLoop)
    /\ WF_vars(PeerReads)

-----------------------------------------------------------------------------
(* Properties.                                                             *)

Queued == Owning \cup Messages \cup {"shutdown"}

TypeOK ==
    /\ state \in {"CONNECTING", "CONNECTED", "DISCONNECTING", "DISCONNECTED"}
    /\ events \in SUBSET {"in", "out"} /\ outbuf \in Seq(Messages)
    /\ registered \in BOOLEAN /\ polled \in BOOLEAN
    /\ inMap \in BOOLEAN /\ removals \in Nat
    /\ pc \in {"poll", "dispatch", "functors"} /\ mid \in BOOLEAN
    /\ revents \in SUBSET {"err", "in", "out"}
    /\ queue \in Seq(Queued) /\ batch \in Seq(Queued) /\ at \in 1 .. Len(batch) + 1
    /\ wire \in Seq(Messages) /\ room \in 0 .. Cap
    /\ incoming \in BOOLEAN /\ peer \in {"open", "half", "closed"}
    /\ reset \in BOOLEAN /\ sockErr \in {"none", "EPIPE", "ECONNRESET"}
    /\ fin \in BOOLEAN
    /\ tpc \in [Threads -> {"idle", "shutdown", "shutting", "gone"} \cup Messages]
    /\ asked \in SUBSET Messages /\ accepted \in Seq(Messages)
    /\ crash \in {"none", "assert", "removal", "abort", "freed"}

\* The connection is being removed, or was.
Closing == removals > 0 \/ (~inMap /\ state # "CONNECTING")

\* What the socket took and what waits in the buffer are the accepted messages,
\* whole and in the order they were accepted: a message sent while output
\* waits, a short write or an error never splits or reorders the stream.
StreamInOrder ==
    wire \o outbuf = accepted

\* Until the connection closes, an established one is polled, and polled for
\* writing exactly while output waits: none is stuck, and the loop never spins
\* on a writable socket with nothing to write.
OutputWatched ==
    registered /\ ~Closing => polled /\ (IsWriting <=> outbuf # <<>>)

\* The half of the connection we write is shut down only after everything
\* accepted was written, whatever the order of shutdown and of partial writes.
\* (A connection that is closing gives its output up: handleClose disables the
\* dispatcher, and a shutdown after it ends the stream where it stands.)
FinLast == fin => outbuf = <<>> \/ Closing

\* A connection only the loop thread uses is closed only because its peer closed.
ClosedByPeer == Closing => peer # "open"

\* No assertion fails, nothing aborts, no destroyed connection is used, when the
\* connection is used from its loop and the peer neither resets it nor closes
\* it while data is on the way.
NoFailure == crash = "none"

\* The functors that are still to run.
ToRun == SubSeq(batch, at, Len(batch)) \o queue
ExactlyOnce(f, s) == \E i \in DOMAIN s : \A j \in DOMAIN s : s[j] = f <=> i = j

\* connectionClosed is on its way once, and only once, from the moment the
\* connection left the server's map until its dispatcher left the poller: a
\* connection closed by two handlers or used by other threads is not closed twice.
ClosedOnce ==
    IF registered /\ ~inMap THEN ExactlyOnce("closed", ToRun)
                            ELSE "closed" \notin ToSet(ToRun)

\* A connection whose peer shut down its writing is cleaned up: it leaves the
\* map and the poller and is DISCONNECTED, whatever was being sent.
PeerCloseCleansUp ==
    peer # "open" /\ inMap ~> state = "DISCONNECTED" /\ ~inMap /\ ~registered

\* shutdown reaches the socket once the output has drained, or the connection
\* is closed.
ShutdownCompletes == state = "DISCONNECTING" ~> fin \/ state = "DISCONNECTED"

\* Waiting output is written, or the connection is closed.
OutputDrains == outbuf # <<>> ~> outbuf = <<>> \/ Closing

\* test_eventloop8.cc: two messages sent one after the other from the connection
\* callback are both sent: send() loses nothing while CONNECTED.
NothingDropped == asked \subseteq ToSet(accepted)

\* The assertion of removeConnectionInLoop: the connection it removes is in the
\* map.
RemovedFromMap == crash # "removal"

\* TCPConnection.h: send() and shutdown() can be called from another thread, by
\* one that may drop its pointer afterwards: their functors find the connection.
FunctorsFindConnection == crash # "freed"
=============================================================================

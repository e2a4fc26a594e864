------------------------------- MODULE Poller -------------------------------
(***************************************************************************)
(* Poller and EventDispatcher: the vector of struct pollfd given to        *)
(* ::poll, the map from descriptors to dispatchers, and the index each     *)
(* dispatcher keeps into the vector.  Everything runs in the loop thread.  *)
(*                                                                         *)
(* Slots are numbered from 1 and index 0 stands for the code's -1.  An     *)
(* ignored slot holds -fd-1, as in the code.  Two dispatcher objects may   *)
(* have the same descriptor one after the other, as Connector's dispatcher *)
(* and the TCPConnection's have.  The dispatchers poll() reports are       *)
(* handled in slot order by the code and in any order here.                *)
(*                                                                         *)
(* Interest changes in any order from any callback or functor.  Removal    *)
(* and destruction are the two of lib/net.  A Connector's dispatcher is    *)
(* removed in its own callback and deleted by a functor enqueued there.  A *)
(* connection's is closed in any callback or functor, removed by           *)
(* connectionClosed, which is always enqueued, and deleted whenever the    *)
(* last pointer to the connection goes, in any thread.  A functor waits    *)
(* for one pass or for more (it may come through the base loop).           *)
(***************************************************************************)
EXTENDS Integers, Sequences

CONSTANTS Dispatchers,   \* EventDispatcher objects ever created
          Fd,            \* their descriptors
          Connectors,    \* those of Connectors; the others are connections'
          None           \* no dispatcher

ASSUME FdAssumption == Fd \in [Dispatchers -> Nat]
ASSUME ConnectorsAssumption == Connectors \subseteq Dispatchers
ASSUME NoneAssumption == None \notin Dispatchers

VARIABLES
    pollfds,      \* _pollfds: sequence of [fd, events]
    dispatchers,  \* _dispatchers: descriptor to dispatcher, None if absent
    index,        \* _index of each dispatcher
    events,       \* _events of each dispatcher
    life,         \* where each object is in its life: "new" before its first
                  \* update, then "live"; "closing" once connectionClosed is
                  \* enqueued and "released" once it ran; "removed" once
                  \* resetDispatcher is enqueued; "destroyed"
    gaveUp,       \* history: the dispatchers that have asked for nothing since
                  \* their first update
    phase,        \* the part of EventLoop::loop being run
    active,       \* dispatchers reported by poll() and not yet handled
    current       \* the dispatcher whose handleEvent is running, or None

tables == <<pollfds, dispatchers, index>>
control == <<phase, active, current>>
pollerVars == <<tables, events, life, gaveUp, control>>

Interest == {"in", "out"}
Fds == {Fd[d] : d \in Dispatchers}
Slots == [fd : Int, events : SUBSET Interest]

\* The descriptor a slot stands for, and the value that makes poll() skip it.
Negated(fd) == -fd - 1
RealFd(fd) == IF fd < 0 THEN Negated(fd) ELSE fd

PollerInit ==
    /\ pollfds = <<>>
    /\ dispatchers = [fd \in Fds |-> None]
    /\ index = [d \in Dispatchers |-> 0]
    /\ events = [d \in Dispatchers |-> {}]
    /\ life = [d \in Dispatchers |-> "new"]
    /\ gaveUp = {}
    /\ phase = "functors"
    /\ active = {}
    /\ current = None

-----------------------------------------------------------------------------
(* Poller::updateEventDispatcher, with the events already changed.         *)

AddSlot(d, ev) ==
    /\ index[d] = 0
    /\ pollfds' = Append(pollfds, [fd |-> Fd[d], events |-> ev])
    /\ index' = [index EXCEPT ![d] = Len(pollfds) + 1]
    /\ dispatchers' = [dispatchers EXCEPT ![Fd[d]] = d]

\* --- forms with a plausible bug, used only to check that properties can fail ---

\* An ignored dispatcher keeps its descriptor in the slot.
ChangeEventsOnly(d, ev) ==
    /\ index[d] # 0
    /\ pollfds' = [pollfds EXCEPT ![index[d]].events = ev]
    /\ UNCHANGED <<dispatchers, index>>

\* A dispatcher that does not read is taken for an ignored one.
IgnoreUnlessReading(d, ev) ==
    /\ index[d] # 0
    /\ pollfds' = [pollfds EXCEPT ![index[d]] =
                     [fd |-> IF "in" \in ev THEN @.fd ELSE Negated(Fd[d]), events |-> ev]]
    /\ UNCHANGED <<dispatchers, index>>

ChangeSlot(d, ev) ==
    /\ index[d] # 0
    /\ pollfds' = [pollfds EXCEPT ![index[d]] =
                     [fd |-> IF ev = {} THEN Negated(Fd[d]) ELSE @.fd, events |-> ev]]
    /\ UNCHANGED <<dispatchers, index>>

\* The caller may use d now: from functors, or from a callback.
CallerRuns == phase = "functors" \/ current # None

Update(d, ev) ==
    /\ CallerRuns
    /\ events' = [events EXCEPT ![d] = ev]
    /\ AddSlot(d, ev) \/ ChangeSlot(d, ev)
    /\ gaveUp' = IF ev = {} THEN gaveUp \cup {d} ELSE gaveUp
    /\ UNCHANGED control

Live == {d \in Dispatchers : life[d] \in {"live", "closing"}}

\* A descriptor is given to a new dispatcher when the last one with it is gone.
Enable(d, what) ==
    /\ d \in Live \/ (life[d] = "new" /\ dispatchers[Fd[d]] = None)
    /\ Update(d, events[d] \cup {what})
    /\ life' = [life EXCEPT ![d] = IF @ = "new" THEN "live" ELSE @]

DisableWriting(d) == d \in Live /\ Update(d, events[d] \ {"out"}) /\ UNCHANGED life

Disable(d) == d \in Live /\ Update(d, {}) /\ UNCHANGED life

\* TCPConnection::handleClose in its loop, called by the handlers of its own
\* dispatcher and by sends; connectionClosed follows by way of the server.
HandleClose(d) ==
    /\ d \in Dispatchers \ Connectors
    /\ life[d] = "live"
    /\ Update(d, {})
    /\ life' = [life EXCEPT ![d] = "closing"]

-----------------------------------------------------------------------------
(* Poller::removeEventDispatcher.                                          *)

\* The last slot takes the place of slot i, and the vector shrinks by one.
FillHole(i) ==
    [k \in 1 .. Len(pollfds) - 1 |-> IF k = i THEN pollfds[Len(pollfds)] ELSE pollfds[k]]

LastDispatcher == dispatchers[RealFd(pollfds[Len(pollfds)].fd)]

\* --- forms with a plausible bug, used only to check that properties can fail ---

\* The index of the dispatcher moved into the hole is not corrected.
RemoveKeepingIndices(d) ==
    /\ dispatchers' = [dispatchers EXCEPT ![Fd[d]] = None]
    /\ pollfds' = FillHole(index[d])
    /\ UNCHANGED index

\* Only the map forgets the dispatcher.
RemoveFromMap(d) ==
    /\ dispatchers' = [dispatchers EXCEPT ![Fd[d]] = None]
    /\ UNCHANGED <<pollfds, index>>

\* The index of the removed dispatcher is left as it was.
Remove(d) ==
    /\ dispatchers' = [dispatchers EXCEPT ![Fd[d]] = None]
    /\ pollfds' = FillHole(index[d])
    /\ index' = IF index[d] = Len(pollfds) THEN index
                ELSE [index EXCEPT ![LastDispatcher] = index[d]]

\* Disabled and removed; to what is left comes the end called next.
Retire(d, next) ==
    /\ Remove(d)
    /\ events' = [events EXCEPT ![d] = {}]
    /\ gaveUp' = gaveUp \cup {d}
    /\ life' = [life EXCEPT ![d] = next]
    /\ UNCHANGED control

\* Connector::removeAndResetDispatcher, in handleWrite and handleError, and
\* the functor it enqueues.
RemoveAndReset(d) ==
    /\ d \in Connectors
    /\ life[d] = "live"
    /\ current = d
    /\ Retire(d, "removed")

ResetDispatcher(d) ==
    /\ life[d] = "removed"
    /\ phase = "functors"
    /\ life' = [life EXCEPT ![d] = "destroyed"]
    /\ UNCHANGED <<tables, events, gaveUp, control>>

\* Mutant of ConnectionClosed: called where the connection closes, as
\* runInLoop would call it.
ConnectionClosedAtOnce(d) ==
    /\ life[d] = "closing"
    /\ CallerRuns
    /\ Retire(d, "released")

ConnectionClosed(d) ==
    /\ life[d] = "closing"
    /\ phase = "functors"
    /\ Retire(d, "released")

\* The last TCPConnectionPtr goes, in whatever thread has it.
Release(d) ==
    /\ life[d] = "released"
    /\ life' = [life EXCEPT ![d] = "destroyed"]
    /\ UNCHANGED <<tables, events, gaveUp, control>>

-----------------------------------------------------------------------------
(* One iteration of the loop around the table.                             *)

\* ::poll reports any of the slots it does not skip; fillDispatchers finds
\* their dispatchers by descriptor.
Poll(ready) ==
    /\ phase = "poll"
    /\ \A i \in ready : pollfds[i].fd >= 0
    /\ active' = {dispatchers[pollfds[i].fd] : i \in ready}
    /\ phase' = "dispatch"
    /\ UNCHANGED <<tables, events, life, gaveUp, current>>

HandleEvent(d) ==
    /\ phase = "dispatch"
    /\ current = None
    /\ d \in active
    /\ current' = d
    /\ active' = active \ {d}
    /\ UNCHANGED <<tables, events, life, gaveUp, phase>>

EventHandled ==
    /\ current # None
    /\ current' = None
    /\ UNCHANGED <<tables, events, life, gaveUp, phase, active>>

RunFunctors ==
    /\ phase = "dispatch"
    /\ active = {} /\ current = None
    /\ phase' = "functors"
    /\ UNCHANGED <<tables, events, life, gaveUp, active, current>>

NextIteration ==
    /\ phase = "functors"
    /\ phase' = "poll"
    /\ UNCHANGED <<tables, events, life, gaveUp, active, current>>

PollerNext ==
    \/ \E d \in Dispatchers :
          \/ \E what \in Interest : Enable(d, what)
          \/ DisableWriting(d) \/ Disable(d) \/ HandleClose(d)
          \/ RemoveAndReset(d) \/ ResetDispatcher(d)
          \/ ConnectionClosed(d) \/ Release(d)
          \/ HandleEvent(d)
    \/ \E ready \in SUBSET (1 .. Len(pollfds)) : Poll(ready)
    \/ EventHandled \/ RunFunctors \/ NextIteration

PollerSpec == PollerInit /\ [][PollerNext]_pollerVars

-----------------------------------------------------------------------------
(* Properties.                                                             *)

PollerTypeOK ==
    /\ pollfds \in Seq(Slots)
    /\ dispatchers \in [Fds -> Dispatchers \cup {None}]
    /\ index \in [Dispatchers -> Nat]
    /\ events \in [Dispatchers -> SUBSET Interest]
    /\ life \in [Dispatchers -> {"new", "live", "closing", "removed", "released", "destroyed"}]
    /\ gaveUp \in SUBSET Dispatchers
    /\ phase \in {"poll", "dispatch", "functors"}
    /\ active \in SUBSET Dispatchers
    /\ current \in Dispatchers \cup {None}

\* The vector, the map and the indices agree, whatever was swapped into a hole:
\* a live dispatcher's index is the slot of its descriptor, the map leads from
\* that descriptor to it, and every slot and every entry of the map is the
\* slot and the entry of a live dispatcher.  These are the assertions of
\* updateEventDispatcher and removeEventDispatcher, and what the unchecked
\* find in fillDispatchers relies on.
TablesAgree ==
    /\ \A d \in Live :
          /\ index[d] \in 1 .. Len(pollfds)
          /\ RealFd(pollfds[index[d]].fd) = Fd[d]
          /\ dispatchers[Fd[d]] = d
    /\ \A i \in 1 .. Len(pollfds) : \E d \in Live : index[d] = i
    /\ \A fd \in Fds : dispatchers[fd] # None =>
          dispatchers[fd] \in Live /\ Fd[dispatchers[fd]] = fd

\* A slot is never polled for events its dispatcher did not ask for, and not
\* polled at all when it asked for none (poll would report errors and hang-ups
\* for ever): the changes of a dispatcher reach its own slot.
NothingUnasked ==
    \A d \in Live :
        /\ pollfds[index[d]].events = events[d]
        /\ events[d] = {} => pollfds[index[d]].fd < 0

\* No dispatcher poll() reported is deleted before its handleEvent has
\* returned: the raw pointers of the active list stay valid for the whole pass,
\* and ~EventDispatcher finds no event being handled, whoever closes whom in
\* the callbacks of the pass and whenever the pointers to a connection go.
ActiveNotDestroyed ==
    \A d \in active \cup ({current} \ {None}) : life[d] # "destroyed"

\* A dispatcher is polled for what it asks as long as it has always asked for
\* something, and never again after it once asked for nothing, whatever it
\* enables then: the negated descriptor is not restored (Poller.cc:86-89).  In
\* lib/net only a dispatcher on its way out gives up all interest; sendInLoop
\* enables writing after that when it met EPIPE (TCPConnection.cc:219, 237).
PolledUntilGivenUp ==
    \A d \in Live : pollfds[index[d]].fd = Fd[d] <=> d \notin gaveUp

=============================================================================

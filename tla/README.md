# oplib in TLA+

oplib is a small C++ library: a reactor network library (`lib/net`), wrappers of
pthreads (`lib/thread`) and hand-written containers (`lib/ds`). This directory holds
TLA+ models of it, TLC configurations that check them on small instances, and proofs
checked by TLAPS. Every definition is translated from the code; `PROJECT.json` maps
each one to the lines it stands for.

    tlc -workers 2 -config EventLoop.cfg MCEventLoop.tla     # model-check
    tlapm EventLoopProofs.tla                                # check proofs

## The system

| Component | State | Operations | What makes it correct |
|---|---|---|---|
| `EventLoop` | `_looping`, `_executingFunctors`, `_done`, `_pendingFunctors` (under `_mutex`), an eventfd | `loop`, `runInLoop`, `enqueue`, `quit`, `wakeup`, `handleRead`, `executePendingFunctors` | no functor or quit is slept over; functors run once, in order |
| `Poller`, `EventDispatcher` | `_pollfds`, `_dispatchers`, each dispatcher's `_index`, `_events`, `_revents` | `poll`, `updateEventDispatcher`, `removeEventDispatcher`, `enable*`/`disable*` | vector, map and indices agree; the interest asked for is the interest polled |
| `TimerManager` | `_timers` (multimap), `_activeTimers` (set), `_cancelledTimers`, a timerfd | `addTimer`, `cancel`, `handleRead`, `reset` | both tables hold the same timers; the timerfd is armed for the first; cancelled timers never run again |
| `TCPConnection` | `_state`, `_outputBuffer`, dispatcher, socket | `send`, `shutdown`, `connectionEstablished`, `connectionClosed`, `handleRead/Write/Close/Error` | the byte stream is in order, FIN comes last, closing happens once |
| `TCPServer` | `_connections`, `_nextConnId`, `_started` | `start`, `newConnection`, `removeConnection(InLoop)` | a connection is removed once, in the base loop, and closed in its own |
| `EventLoopThread`, `EventLoopThreadPool` | `_loop`, `_running`; `_loops`, `_next` | `startLoop`, `threadFunc`, destructor; `start`, `getNextLoop` | start hands out a live loop; the destructor ends and joins it |
| `Listener`, `Connector` | listening socket; `_state`, `_connect`, `_retryDelay`, `_timerId` | `listen`, `handleRead`; `start`, `stop`, `restart`, `retry` | one attempt at a time; stop stops; every descriptor is closed or handed over |
| `Mutex`, `Condition`, `CountdownLatch`, `Channel`, `Thread`, `Singleton` | holder, waiters, count, queue | `lock`, `wait`, `notify`, `countDown`, `enqueue`, `dequeue`, `start`, `join` | no lost notification, the channel's order, the holder bookkeeping |
| `Buffer`, `MinHeap`, `RBTree` (`Map`, `Set`), `Hashtable`, `TSTTrie`, `Linkedlist`, `Vector` | their own | insertion, erasure, iteration | they behave as a queue, heap, sorted set, hash set, set of strings, list, sequence |

They interact by callbacks and by functors. A loop thread runs `poll`, then the
callbacks of the reported dispatchers, then the functors that were pending. Timers,
the wake-up eventfd, listeners, connectors and connections are dispatchers of some
loop; whatever another thread wants from a loop it enqueues as a functor. A server
lives in a base loop and gives its connections to the loops of a pool, so a closing
connection travels: its own loop (`handleClose`), the base loop
(`removeConnectionInLoop`), its own loop again (`connectionClosed`).

What is hard: the order of push, wake-up, swap and sleep (EventLoop); indices and
pointers kept across removals and callbacks (Poller); timers changed by the callbacks
of the batch being run, and expiries that coincide (TimerManager); partial writes,
shutdown, end of file and errors in any order, with state tested in one thread and used
in another (TCPConnection). `PROJECT.json` lists these hazards at their lines.

## What is modelled

### EventLoop and Executor

`EventLoop.tla` has one loop thread and any set of other threads. The loop thread's
program counter `pc` runs start, test (of `_done`), poll, dispatch, exec (the loop over
the batch), body (inside a functor), returned; `_looping` is `pc \in Looping`. An
`enqueue` by another thread is two steps, as in the code: `ThreadEnqueue` is the critical
section, `ThreadWakeup` the write to the eventfd; `quit` is split alike. User code (a
functor, the callback of another dispatcher, or the owner before `loop()`) may enqueue
and quit from the loop thread. `HandleRead` takes the whole count of the eventfd.

`Executor.tla` is what users of a loop rely on: a FIFO of functors, each run once, that
never stays idle with work to do, and stops exactly when told to. A *lazy* functor is
one nobody is woken for: the loop's are those its owner enqueues before `loop()`, for
which `enqueue` writes no eventfd (neither "another thread" nor "executing functors"
holds), so that the first `poll` sleeps on them for up to 5 s. `ImplementsExecutor` is
the refinement, liveness included.

### Poller

`Poller.tla` keeps `_pollfds` as a sequence of slots (numbered from 1; index 0 is the
code's -1), the map, and per dispatcher its index, its interest and its life. A slot of
an ignored dispatcher holds `-fd-1`. Two dispatcher objects may have one descriptor, one
after the other, as when a Connector hands its socket to a connection. Any caller may change
the interest of a live dispatcher in any way, from any callback or functor. How a dispatcher
ends is translated from its two kinds of owners: a Connector's (`Connectors`) is removed in its
own callback and deleted by the functor enqueued there (`RemoveAndReset`, `ResetDispatcher`); a
connection's is closed in any callback or functor (`HandleClose`), removed by
`ConnectionClosed`, which `removeConnectionInLoop` always enqueues, and deleted at any moment
after that, in any phase of the loop, since the last pointer may be anybody's (`Release`). That
none is deleted while `poll`'s list still names it is therefore a consequence: with
`connectionClosed` called directly (the mutant) one callback's closing of another's connection
breaks it.

`updateEventDispatcher` negates the descriptor of an ignored dispatcher (`Poller.cc:86-89`) and
never restores it. `PolledUntilGivenUp` says exactly that: a slot holds the descriptor as long as
its dispatcher has never asked for nothing (`gaveUp` remembers which have), and never after. In
`lib/net` the case arises: `sendInLoop` on EPIPE calls `handleClose`, which disables
(`TCPConnection.cc:219`, `:163`), and then `enableWriting` (`:237`). The connection is closing by
then, so that nothing is lost by it; a user of `EventDispatcher` who disables and enables again is
not polled.

### TimerManager

`TimerManager.tla` measures time relative to the clock: `Tick` brings every expiry one
step closer, so repeating timers run for ever in finitely many states. The multimap is a
sorted sequence, in which `UpperBound` is where the map puts another timer of the same
expiry. `HandleRead` goes up to the first callback, `RunTimer` starts one, `Reset` restarts
the repeating ones of the batch one by one (`Restarted`); additions and cancellations happen
between and inside callbacks. `_executingExpiredTimers` starts with either value because the
constructor leaves it unset. Two things are stated as they are: a cancel erases the first
timer that expires together with the one asked for, and a clock that equals an expiry
fails the assertion after `lower_bound` (`HandleReadAtExpiry`).

### TCPConnection

`TCPConnection.tla` composes a connection with the parts of its server, its two loops and
its poller slot that it touches. `sameLoop`, chosen at the start, says whether its loop is
the base loop (removal is then a call, otherwise a functor each way). A message is a
model value repeated once per unit of its length, so a partial write splits it. The
order of `handleEvent` (error, then read, then write) is kept, and user code runs only
where the code calls out: `mid` marks the points in between. `send` and `shutdown` by the
loop thread are one step; by another thread, the test of `_state`, the assignment, the
enqueue and the release of the pointer are steps of their own. `crash` records a failed
assertion, an abort, or a functor that finds its connection destroyed. The peer may send,
read, shut down its writing, and, with `PeerAborts`, close or reset.

### Connector

`Connector.tla` holds one Connector, the poll, functor and timer phases of its loop, and
the network: an attempt is open, failed (poll reports error and write, and both handlers
run) or a connection to itself. `removeAndResetDispatcher` leaves the object to a functor,
so `dispatcher` outlives `watched` by a part of an iteration. Descriptors and timers are
taken from small sets and used again after they are closed or have run, so retries go on
for ever in finitely many states. `start` and `restart` set `_connect` in one step and
test it in another; other threads may start and stop at any time. `crash` records which
assertion failed, or that a functor or timer found the Connector destroyed. Callers start
once; a start after a stop is left out because it fails the assertion of `startInLoop` as
soon as the first attempt, its timer or its connection is still there.

### TCPServer, EventLoopThread, EventLoopThreadPool, Listener

`TCPServer.tla` has the base loop's thread (its program counter `pc`, and `k`, the thread of
the pool it is at), the threads of the pool, and the functors queued for each loop.
`startLoop` is the locked test (`StartLoop`), the wait (`asleep`, left by `Publish` or for no
reason) and the return; `threadFunc` publishes its loop, sets `_running` and loops in steps
of their own. Of a connection only what the server sees is there: its loop, the map, and the
functors that establish, remove and close it. The destructor goes through the threads of the
pool. Of `quit` the store of `_done` (`QuitThread`) and the wake-up (`WakeThread`) are separate
steps, as in `EventLoop.h:37-46`, and `Join` a third, because the thread may end in between:
before the wake-up it takes the loop on its stack with it. The program counter is then `late`,
and nothing is said of what follows; `ServerSound` is everything else that could go wrong, and
`QuitMeetsLoop`, which the code violates, says that it does not come to that.
`ServerAvoids` names what careful callers do not do, each a defect when they do:

- `foreign start`: the first `start` by another thread, which `TCPServer.h:28` allows, aborts
  in the pool's `inLoopThreadOrDie`;
- `quit`: a loop of the pool that a callback of its own quits (`QuitInLoop`; no wake-up is needed
  there) is gone when `~EventLoopThread` quits it. A quit by another thread does the same, as in
  `test_eventloop5.cc:26-27`, with the two steps besides; it is not modelled;
- `early destruction`: before a thread set `_running` its destructor neither quits nor joins.

### Channel, CountdownLatch

`Channel.tla` is the program `test_LatchAndQueue.cc`: consumers count the latch down and
take values until they get a stop, producers wait for the latch and put values. A critical
section is one step; a wait releases the mutex and needs a later step to lock it again;
`enqueue` notifies in a step after it released the mutex (`Channel.h:91`), and any sleeper
may be the one woken, or wake for no reason. The channel is unbounded, as in the code.

`Concurrency.tla` puts the two programs side by side, one of them chosen at the start.

### The containers

Each is a module of operators on one record, with a variable for the structure and one for
what it should hold; one container is chosen at the start and any sequence of its operations
is performed. `Arrays.tla` composes the three that keep their elements in one array (heap,
vector, buffer), `Nodes.tla`, which extends it, adds the hash table, the trie and the list, and
`Containers.tla`, which extends that, the tree, and `Poller.tla`, whose tables are one more
structure to choose. The modules `Arrays` and `Nodes`
use declare no recursive operator, so that they can be proved about: a loop or a recursion
(`siftDown`, `std::unique`, the walk through a chain, the descent into a trie, `merge`) is a
function from the number of turns, or of levels still below, to what there is after them; the
recursion of `sort`, which calls itself twice, is a stack of calls that a turn takes the top
of. The tree and the list keep their pointers: each is a memory, a function from live nodes to their links,
so that a wrong link, a leaked node or a freed one shows. A chain of the hash table is the
sequence of its elements, and a node of the trie is the way to it from the root: no operation
of either shares a node or moves one from its parent. `ok` turns FALSE when an assertion
fails or an invalid pointer is followed.

| Module | Structure | Compared with |
|---|---|---|
| `RBTree` | nodes with links and colour, the header as a node; `insertUnique`, hints, `insertEqual`, `erase` with its six cases, ranges, copy, move | how often each key was put in; order forwards and backwards, bounds, no two reds, equal black depths |
| `Hashtable` | vector of chains, the list of primes a parameter | a set of keys; each in the bucket of its hash, at most once |
| `TSTTrie` | nodes with three subtries | the last value put for each string; how many strings `keys` and `keysWithPrefix` list (not which); the longest prefix, where `longestPrefixOf` returns |
| `MinHeap` | vector and index map | a map from keys to scores; heap order, index |
| `Linkedlist` | two rings of nodes, with `transfer` and all built on it | two sequences, forwards and backwards; no node lost |
| `Vector` | elements and capacity | a sequence |
| `Buffer` | indices, size, bytes | the bytes not yet retrieved |

The `...Avoids` constants name the calls the modelled callers do not make, because the code
fails on them. They were found by TLC, one at a time, with the set empty:

- `TreeAvoids`: `not first`, erasing any element but the first: one with two children
  (`RBTreeT.C:634`: `swapNode` exchanges the two nodes' own links and leaves their neighbours'),
  or one on the right, where rebalancing rotates to the wrong side, asserts the colour of the
  wrong nephew or meets a null pointer. Many such erasures go well, but which do is a matter of
  the shape of the tree, which no caller knows; `only node`, erasing the only element
  (`switchNode` leaves the header pointing at it). So the erasures the run covers are those at
  the front, single and as ranges from `begin()`. `upper_bound` and `equal_range` are asked for
  keys below the last only: past it they read the key of the header, although
  `testMap.cc:191` and `testSet.cc:186` expect `end()`.
- `HashAvoids`: `second`, erasing the second node of a chain, which unlinks the first too
  (`Hashtable.h:362`); `chains`, erasing a range that meets a chain (the iterator of an
  erased node is advanced).
- `TrieAvoids`: `empty`, removing the empty string, which removes the root's value.
- `HeapAvoids` (scores may be equal otherwise, as `MinHeap.h:13` says): `tie`, erasing the last
  element where its parent has its score, so that `siftUp` swaps a place with itself against the
  assertion; `duplicates`, construction with a
  key given twice whose scores are not adjacent after the sort.
- `VectorAvoids`: `single`, growth of a vector of capacity 1 (by half, to 1); `end`,
  `emplace` at the end with room; `short tail`, `insert` of more elements than follow the
  position, with room (`VectorT.C:106`).
- `BufferAvoids`: `too much`, `retrieve` of more than is readable.
- `Linkedlist` has no constant: `rotate` of an empty list (a division by zero) and `reverse` of
  an empty range (which runs out of it) are left out by the actions' guards.

## What the runs check

| Run | Bounds | Shows |
|---|---|---|
| `loop` | 3 functors, 2 threads | safety, obeyed quits and refinement of the loop |
| `timers` | repeating timers of 1 and 2 ticks, one that runs once, delays to 2, lateness counted to 2 | tables, timerfd, cancellation, progress |
| `timers_tie_cancel` | same, ties cancelled | violation: the wrong timer is erased |
| `connection` | 3 messages, one longer than the socket's buffer of 2, used from its loop | output watching, FIN, closing, cleanup, liveness |
| `connection_adverse` | 2 messages, buffer of 1, 2 other threads, resets | order of the stream, single closing, until the process stops |
| `connector` | 2 descriptors, 2 timers, 2 other threads, the code's delays | one attempt at a time, no leak, no failed assertion, it keeps trying, a stop settles |
| `containers` | 6 tree keys, one of them up to twice; 6 hash keys, tables of 2, 3 and 5; 6 strings; 6 heap keys with 2 scores; 4 nodes in two lists; 5 elements in a vector; 6 bytes in a buffer; 4 dispatchers on 3 descriptors, one of them a Connector's | contents and inner structure of every container; the poller's tables, what is polled, and the life of active dispatchers |
| `threads` | 3 consumers, 2 producers of 2 values; pools of 0 to 2 threads, 3 connections | no missed notification, order, live loops, round robin, removal once, joined threads up to a late wake-up |
| `server_late_wakeup` | same | violation: the destructor's `quit` wakes a loop that is gone |
| `connection_drops` | 2 messages, one thread | violation: the second message of `test_eventloop8.cc` is lost |
| `connection_removed_twice` | same, peer may close | violation: `assert(n == 1)` in `removeConnectionInLoop` |
| `connection_thread_send` | same, one other thread | violation: a functor outlives its connection |

Why the bounds are enough: three functors are a batch in hand, one pending and one pushed
from inside a functor; two threads let one write the eventfd while another pushes or
quits; three live slots are the removed one, the one moved into its place and a
bystander, and a fourth object takes over a descriptor;
three timers are one being cancelled, one cancelling and one first in the map; a message
longer than the buffer is written in two parts with anything in between, and with three
messages another can be sent before and after; a second descriptor and a second timer let
a new attempt overlap the last one if the code allowed it; seven nodes give a tree each
case of rebalancing; hash keys collide in the small tables and part in the larger; six heap
keys make three levels, so that the element moved into a hole may have to go up; three
consumers are one woken, one that takes its value first and one asleep; with two loops and
three connections the round starts again. `MaxEventfd` stops threads from quitting
again and again, `MaxLate` stops lateness from growing; neither is part of the code.

`CHECK_DEADLOCK FALSE` is said where the program does stop: the loop after it returned, a
timer manager after the assertion on an exact expiry, a connection whose process aborted, a
server that is destroyed.

### Fairness

`EventLoop!FairSpec`: the loop thread is scheduled and its callbacks return (`WF(LoopStep)`),
and a thread that began `enqueue` or `quit` finishes it. The 5 s timeout of `poll` and the
readiness of other descriptors are *not* assumed: the code's wake-ups must do without.
`TimerManager!FairSpec`: time passes, a readable timerfd is served (the loop polls it) and
callbacks return. `TCPConnection!FairSpec`: both loops keep running (which is what
`EventLoop` shows), and a peer that is sent data reads it; nothing is assumed of user
code, of the peer's closing, or of other threads. `Connector!FairSpec`: the loop runs, the
kernel ends an attempt one way or another, timers expire, and a thread inside `start`
leaves it; that an attempt ever succeeds is not assumed. `Concurrency!FairSpec`: every thread
goes on while it can (mutexes are free again after a critical section); peers, the user who
quits the server, later calls of `start` and spurious wake-ups are under no obligation.

## What is proved

`EventLoopProofs.tla`, for any set of functors, any set of threads and any bound:

- `TypeCorrect`, `NeverSleepsOnWork`, `NeverSleepsOnQuit`, `ReadNeverFails`,
  `RunsExactlyOnceInOrder`, the safety invariants of run `loop`, from one inductive
  invariant `IInv`. `NoLostWakeup` is not inductive: that `poll` starts with the eventfd
  readable depends on what happened since the last swap. `IInv` puts `WorkIsAnnounced` in
  its place (everywhere but between the read of the eventfd and the swap, late work has a
  wake-up due: a functor that enqueues wakes because `_executingFunctors` is set, a callback
  need not because the swap is still ahead) and adds `PhasesAgree` (the flag, the batch and
  the active list match the phase of the loop).
- `RefinesExecutor`: initial states and steps map to those of `Executor`. Liveness is
  left to TLC.

`PollerProofs.tla`, for any set of dispatchers and any assignment of descriptors:

- `TypeCorrect`, `TablesAlwaysAgree`, `NothingIsPolledUnasked`, `PolledExactlyUntilGivenUp`,
  without a hypothesis about callers. The inductive invariant has these with `IndexMeansKnown`
  (an object has an index from its first update on, so that `AddSlot` is never taken for a live
  one) and `NewAskNothing`. They need one another: that the active list holds dispatchers at all,
  the type of `active`, is what `TablesAgree` says of the map `fillDispatchers` searches
  unchecked. Lemmas say what the hole left by a removal, an addition and a change do to the
  tables.
- `ActiveStayValid`: where each reported dispatcher may be in its life (`Reported`: in the tables,
  or removed with its deletion still queued), because nothing passes `connectionClosed` before
  the functors run, when nothing is active (`ActiveInDispatch`). That a connection may be deleted
  in any phase once it is past it makes the argument necessary.

`TimerManagerProofs.tla`, for any timers, intervals and bounds:

- `TypeCorrect`, with ties or without. That the expiries stay within the bounds needs the
  guards of `Tick`; that a batch is a sequence of timers is an induction over the loop of `reset`.
- `TablesAlwaysMatch`, `CancelledStayDead`, `AlwaysArmedForFirst`, the other invariants of run
  `timers`, under `~Ties` (no timer is cancelled that expires together with another): run
  `timers_tie_cancel` shows that they are false without it. The inductive invariant adds to
  them that the multimap is sorted and holds no timer twice, that the timers of the batch
  being run are in neither table (`BatchApart`), and that no timer in the tables is one whose
  cancel was executed (`NoneDead`). Insertion and `reset` are lemmas of their own: where the
  upper bound is, what an insertion there keeps, and what is in the map after any number of
  turns of the loop.

`NodesProofs.tla`, first for any elements, sizes, byte strings, keys and scores, about
`ArraysSpec`, whose steps are those `Containers` takes with an array in use:

- `SequencesAlwaysAgree`, under `CarefulVector` and `CarefulBuffer` (`VectorAvoids` and
  `BufferAvoids` hold the calls listed above). `Fits` and `Holds` tie the structure to the
  sequence it stands for, as it must be to be kept: `Holds` says of every index which byte is
  there, and that the room to go back to when the buffer is emptied is inside it. Each
  operation has a lemma, whatever its sizes: emplacing and inserting with and without room,
  erasing a range, growth, reading into two arrays, moving the bytes down.
- `HeapAlwaysAgrees`, under `CarefulHeap`. The inductive invariant is that vector and index
  name the same places (`Indexed`), heap order (`Ordered`), and that the scores are those put
  in. The argument is the textbook one made exact: with an element replaced, only its place may
  be out of order, and what is below the place is not smaller than what is above (`Near`). A
  turn of `siftUp` moves such a place to its parent, after which the element can only be too
  small (`MayRise`), a turn of `siftDown` to the smallest child (`MaySink`); the place grows or
  shrinks with each turn, so that as many turns as `SiftUp` and `SiftDown` allow are enough. An
  erasure of the last place is the case the hypothesis is for: `siftUp` then reads the score
  left behind the end, and does nothing exactly because it exceeds the parent's. A heap made
  from a list is in order because the list was sorted, and has no key twice because there are
  as many keys as places (a surjection between finite sets of one size is an injection).

Proofs about loops use induction as the existence of a least counterexample (`LeastElement`), taken
from the well-foundedness of the naturals: the library's induction rules take an operator as a
parameter and cannot be cited.

Then, for any keys, any list of positive bucket counts, any set of strings and any values, about
`NodesSpec`, whose steps are those `Containers` takes with the hash table, the trie or the list
in use:

- `HashAlwaysAgrees`, under `CarefulHash` (`HashAvoids` holds the two calls above). Every
  element lies in the bucket of its hash for the *present* number of buckets, and nowhere
  twice; the count of elements is that of the set. A rehash is a function of turns: after each,
  the buckets not yet moved and the new ones together hold every element once. Erasing keeps
  the table because only the first, or a node behind the second, is unlinked.
- `TrieAlwaysFinds`, under `CarefulTrie` (the empty string is not removed). The number of
  characters matched at a node is how often its way goes through a middle, so a search can only
  end at one node for a string, and two strings that end at one node are equal. `put`
  adds nodes and takes none away, so the searches of other strings end where they did. For what
  is counted and listed the invariant adds that every value belongs to a string that was put
  (`Owned`) and every node lies on the way to one (`Reached`): `collect` below a node, taken
  by the height of the node, returns as many strings as were put and pass through it, so
  `keys` and `keysWithPrefix` have the right length, and `longestPrefixOf`, followed turn by
  turn, ends at the longest string put that begins the one asked for.
  That what `keys` lists are the strings put is false (see the findings), so nothing more is
  proved of it.

`LinkedlistProofs.tla`, for any values and any number of nodes:

- `ListAlwaysHolds`. The invariant is `Sound`: memory holds exactly the cells of the sequences
  and their sentinels, no node is in two places, and the neighbours of every place are linked
  both ways (`Ringed`). Everything rests on what the six stores of `transfer` leave, which is
  read off once (`TransferIs`, in terms of the neighbours of the three nodes) and then in terms
  of rings: two parts of one ring change places (`Exchanged`), or a part of one ring goes into
  another (`Reduced`, `Given`). Each loop has an invariant over its turns: `unique` and
  `remove` keep what was looked at and have not touched the rest, `reverse` has turned the last
  places to the front, `merge` has the first elements in place and compares the others, the
  split of `sort` has on each side what was there, in its order. `SortIs` is an induction over
  the length of the list, for any stack of calls above it: the parts are shorter, the calls for
  them come back before `Joined`, and three turns for each element are enough. That the result is
  the one `StablySorted` chooses needs that there is only one way to sort a sequence of different
  nodes and keep equal values in their order (`OneSorting`).
- `NodesAlwaysAgree`: the invariant `NodesAgree` of run `containers`, from this and the two above,
  under the hypotheses of both; of the strings a trie lists it has the number only.

`ConnectorProofs.tla`, for any sets of descriptors, threads and timers and any delays:

- `ConnectorTyped`, `AttemptsOneAtATime`, `NeverFails`, the safety invariants of run
  `connector`. `OneAttempt` is not inductive: `startInLoop` finds the Connector disconnected
  and without a dispatcher only because whatever leads to it excludes the rest. `ConnectorInv`
  says so: at most one start or restart is on its way, and then there is no timer, attempt or
  connection (`OneStart`); at most one retry timer, the one `_timerId` names (`OneTimer`); at
  most one connection of the user's, whose dispatcher is gone when it ends (`OneConnection`);
  a dispatcher that left the poller is destroyed by the functor queued for it before the next
  poll (`OneReset`); what poll reported meets the state the handlers expect (`EventsMeet`).
  `RetryKeeps` and `ConnectedKeeps` are the two ways an attempt ends.

`TCPConnectionProofs.tla`, for any messages of any length, any capacity of the socket and
any number of threads, with resets and aborting peers:

- `ConnectionTyped`, `OutputIsWatched`, `FinIsLast`, `ClosesOnce`, from the inductive
  invariant `ConnectionInv`. `ClosedOnce` needs to know that a removal finds a connection
  that was established: `EstablishedOnce` says that `connectionEstablished` is to run at most
  once, and only while nothing else happened; `StateMatches` that a connection in the map
  that left CONNECTING is in the poller; `BatchMatches` that the batch is empty elsewhere, so
  that swapping the queue out leaves what is to run as it is. `OutputWatched` is strengthened
  by `Watched` (reading is asked for too, so that giving up writing does not end the polling).
- `StreamIsInOrder`: each write splits the bytes in two, and both parts are accounted for.
- `ClosesForPeer`, `NeverFails`, the other invariants of run `connection`, under its two
  hypotheses: no other thread has a pointer (`Threads = {}`), and the peer does not abort
  (`~PeerAborts`). Without them the program may end: the runs of the findings show how. The invariant
  adds `NoTrouble` (no error is pending, writing is not shut down while CONNECTED, every
  functor holds a pointer) and `CloseFits` (whatever leads to `handleClose` finds the
  connection registered and not yet closing).

`ConcurrencyProofs.tla`, for any finite sets of consumers, producers and connections, any quota
and any number of threads:

- `ChannelIsSafe`, the invariant of run `threads`. Its inductive invariant `ChannelInv` is
  `ChannelSafe` with `ChannelTypeOK`. The hard conjunct is `NoneStranded`, a count: while a
  consumer sleeps there are at most as many values as woken consumers and notifications on
  their way. A woken consumer that finds the queue empty goes back to sleep, one that takes a
  value gives up both a value and itself, and one that takes a value another was woken for
  only makes the left side smaller. The lemmas `OneMore`, `OneLess` and `AtLeastOne` say what
  a single thread's step does to such a cardinality, from the library's facts on finite sets.
- `ServerIsSound`, the invariant `ServerSound` of run `threads`, under the hypothesis
  `Careful` (`ServerAvoids` holds the three misuses). `ServerInv` is `sound` with three
  parts, each proved on its own. `PoolInv` says where each thread is from what the base
  thread has done: before `k` it has published its loop, at `k` it may be on its way, after
  `k` there is none; in the destruction those before `k` have ended and the others run, which
  needs that nobody destroys the server before `_running` is set. `ConnInv` says that a
  queued functor is the only one about its connection and finds it as it was when it was
  queued (`FunctorsMatch`), and what the map holds. `RoundInv` says that the loops before
  `_next` are one connection ahead of the others, which turns the bound of
  `ConnectionsTracked` into an exact count. The theorem speaks of runs up to a late wake-up: it
  says that for careful callers nothing else goes wrong, not that this does not happen.
- `ProgramsAreSafe`: both of `Concurrency`, the two programs side by side, as run `threads`
  checks them.

The only other assumptions are those named in the modules that declare the constants. One of
them is more than a type: `BufferAssumption` lets two buffers be swapped only if the room one
asks to have in front fits in the other, because `swap` leaves `_prependable` where it is; the
default sizes, 8 bytes in front of 1024, are far from the limit.

Only model-checked are `TreeSound`, about the red-black tree, whose module follows pointers with
recursive operators, and all that is temporal: progress, obeyed quits, and the liveness of the
executor. Both are out of the prover's reach.

## Findings

Each is shown by a run that expects a violation, and quoted in `PROJECT.json`: cancelling a timer erases another
one with the same expiry (`TimerManager.cc:186`, a shadowed iterator); `sendInLoop` drops a
message when output waits (`TCPConnection.cc:196`); a connection is removed twice
(`TCPConnection.cc:219`, `TCPServer.cc:84`); `send` from another thread may run on a
destroyed connection (`TCPConnection.cc:187`); the destructor of `EventLoopThread` may wake a
loop that no longer exists (`EventLoopThread.cc:21`, `EventLoop.h:39-44`).

Others have no run of their own:

- `keys` and `keysWithPrefix` of a trie list strings nobody put (`TSTTrie.h:154`, `:179` promise the
  keys), because `collect` goes to the left and right subtries with the character of the node
  they hang from (`TSTTrie.h:279`). `KeysListed` of `TSTTrie.tla` says that `keys` lists what was
  put; TLC refutes it with two calls of `put`. `longestPrefixOf` (`:166`) throws where a string
  that was put goes on past its argument.
- A dispatcher enabled after `disable` is not polled (`Poller.cc:86-89`, see above).
- `upper_bound` past the last key of `Map` and `Set` reads a key that was never constructed
  (`testMap.cc:191`, `testSet.cc:186`).
- What the `...Avoids` constants name.

## Not modelled, and what is left

Not done: the red-black tree in a form that can be proved about; `TimerManager` composed with the queue of `EventLoop` (a cancel that overtakes the `addTimer` it is meant
for) and with `Connector` (a destructor called in the batch its timer expired in); a pass of
`handleEvent` over several connections.

Left out of modelled parts: the holder of `Mutex` and what `Condition` writes to it (nothing
in the library reads it); names and detaching of `Thread`; `Singleton` (`pthread_once`); a
failed `accept` (its `Socket` of -1 aborts); exceptions thrown by elements; `copy_from` of
`Hashtable`, which names members that do not exist and is never instantiated.

Left out for good: `Socket`, `SocketUtils`, `InetAddress`, `Types` (wrappers of system calls,
present as environment actions), `Timestamp` and `Common` (value types), and
`app/searchEngine` (input and output only), the allocator and traits of `lib/ds`.

----------------------------- MODULE EventLoop -----------------------------
(***************************************************************************)
(* EventLoop: one loop thread in loop(), any number of other threads that  *)
(* hand it functors with runInLoop/enqueue and stop it with quit.          *)
(*                                                                         *)
(* The loop thread sleeps in ::poll; the wake-up protocol (push under the  *)
(* mutex, then a write to the eventfd outside it; the swap of the pending  *)
(* vector; the _executingFunctors flag read by enqueue) is what keeps a    *)
(* functor or a quit from being slept over.  runInLoop called by the loop  *)
(* thread runs the functor on the spot and leaves no state; called by      *)
(* another thread it is enqueue.  _looping is pc \in Looping.              *)
(*                                                                         *)
(* _done is a plain bool written by other threads.  Its only reads are in  *)
(* the while condition, after calls the compiler cannot see through, so    *)
(* each is a load of the current value.                                    *)
(***************************************************************************)
EXTENDS Integers, Sequences

CONSTANTS Functors,    \* identities of the functors ever enqueued
          Threads,     \* the threads other than the loop thread
          MaxEventfd   \* bound: threads stop calling quit above this count

ASSUME MaxEventfdAssumption == MaxEventfd \in Nat

VARIABLES
    pc,          \* where the loop thread is
    active,      \* dispatchers poll() reported and not yet handled
    executing,   \* _executingFunctors
    toExecute,   \* the local vector of executePendingFunctors
    pending,     \* _pendingFunctors
    eventfd,     \* counter of the eventfd _wakeupfd
    done,        \* _done
    tpc,         \* per other thread: outside, or between its write and wakeup()
    ran,         \* history: queued functors, in the order they were started
    submitted,   \* history: functors, in the order they were pushed
    early        \* history: functors the loop thread pushed before loop()

loopVars == <<pc, active, executing, toExecute>>
shared == <<pending, eventfd, done, tpc>>
history == <<ran, submitted, early>>
vars == <<loopVars, shared, history>>

Sources == {"wakeup", "other"}
Looping == {"test", "poll", "dispatch", "exec", "body"}

Elements(s) == {s[i] : i \in DOMAIN s}

Init ==
    /\ pc = "start"
    /\ active = {}
    /\ executing = FALSE
    /\ toExecute = <<>>
    /\ pending = <<>>
    /\ eventfd = 0
    /\ done = FALSE
    /\ tpc = [t \in Threads |-> "idle"]
    /\ ran = <<>>
    /\ submitted = <<>>
    /\ early = {}

-----------------------------------------------------------------------------
(* Operations of the class.                                                *)

\* wakeup(): adds one to the eventfd.
Wakeup == eventfd' = eventfd + 1

\* The critical section of enqueue.
Push(f) ==
    /\ f \notin Elements(submitted)
    /\ pending' = Append(pending, f)
    /\ submitted' = Append(submitted, f)

-----------------------------------------------------------------------------
(* Forms of the operations with a plausible bug, used only to check that   *)
(* the properties can fail.                                                *)

\* enqueue without the "|| _executingFunctors".
NeverWakeSelf == FALSE

\* enqueue from another thread that trusts a loop that is executing functors.
ThreadEnqueueUnlessExecuting(t, f) ==
    /\ tpc[t] = "idle"
    /\ Push(f)
    /\ tpc' = IF executing THEN tpc ELSE [tpc EXCEPT ![t] = "wake"]
    /\ UNCHANGED <<loopVars, eventfd, done, ran, early>>

\* quit without its wakeup().
ThreadQuitSilently(t) ==
    /\ tpc[t] = "idle"
    /\ eventfd < MaxEventfd
    /\ done' = TRUE
    /\ UNCHANGED <<loopVars, pending, eventfd, tpc, history>>

\* An EFD_SEMAPHORE eventfd, read in every iteration.
ReadSemaphore ==
    /\ pc = "dispatch"
    /\ eventfd' = eventfd - 1
    /\ active' = active \ {"wakeup"}
    /\ UNCHANGED <<pc, executing, toExecute, pending, done, tpc, history>>

\* The wake-up dispatcher left in the list after it was handled.
HandleReadTwice ==
    /\ pc = "dispatch"
    /\ "wakeup" \in active
    /\ eventfd' = 0
    /\ UNCHANGED <<loopVars, pending, done, tpc, history>>

\* A copy of the pending functors instead of the swap.
CopyPending ==
    /\ pc = "dispatch"
    /\ active = {}
    /\ executing' = TRUE
    /\ toExecute' = pending
    /\ pc' = "exec"
    /\ UNCHANGED <<active, shared, history>>

-----------------------------------------------------------------------------
(* The loop thread.                                                        *)

\* The condition under which enqueue, called by the loop thread, wakes the loop.
MustWakeSelf == executing

\* The loop thread is in user code: before loop(), in a callback of another
\* dispatcher (a connection, a timer), or in a functor.
InUserCode ==
    \/ pc \in {"start", "body"}
    \/ pc = "dispatch" /\ "other" \in active

EnterLoop ==
    /\ pc = "start"
    /\ pc' = "test"
    /\ UNCHANGED <<active, executing, toExecute, shared, history>>

TestDone ==
    /\ pc = "test"
    /\ pc' = IF done THEN "returned" ELSE "poll"
    /\ UNCHANGED <<active, executing, toExecute, shared, history>>

PollReturns(ready) ==
    /\ pc = "poll"
    /\ ("wakeup" \in ready) <=> (eventfd > 0)
    /\ active' = ready
    /\ pc' = "dispatch"
    /\ UNCHANGED <<executing, toExecute, shared, history>>

PollWakeup == \E ready \in SUBSET Sources : "wakeup" \in ready /\ PollReturns(ready)
PollOther == PollReturns({"other"})
PollTimeout == PollReturns({})

HandleRead ==
    /\ pc = "dispatch"
    /\ "wakeup" \in active
    /\ eventfd' = 0
    /\ active' = active \ {"wakeup"}
    /\ UNCHANGED <<pc, executing, toExecute, pending, done, tpc, history>>

\* The callbacks of the other dispatchers have returned.
OtherHandled ==
    /\ pc = "dispatch"
    /\ "other" \in active
    /\ active' = active \ {"other"}
    /\ UNCHANGED <<pc, executing, toExecute, shared, history>>

BeginExecute ==
    /\ pc = "dispatch"
    /\ active = {}
    /\ executing' = TRUE
    /\ toExecute' = pending
    /\ pending' = <<>>
    /\ pc' = "exec"
    /\ UNCHANGED <<active, eventfd, done, tpc, history>>

RunFunctor ==
    /\ pc = "exec"
    /\ toExecute # <<>>
    /\ ran' = Append(ran, Head(toExecute))
    /\ toExecute' = Tail(toExecute)
    /\ pc' = "body"
    /\ UNCHANGED <<active, executing, shared, submitted, early>>

FunctorReturns ==
    /\ pc = "body"
    /\ pc' = "exec"
    /\ UNCHANGED <<active, executing, toExecute, shared, history>>

EndExecute ==
    /\ pc = "exec"
    /\ toExecute = <<>>
    /\ executing' = FALSE
    /\ pc' = "test"
    /\ UNCHANGED <<active, toExecute, shared, history>>

\* enqueue and quit called by the loop thread, from user code.
LoopEnqueue(f) ==
    /\ InUserCode
    /\ Push(f)
    /\ IF MustWakeSelf THEN Wakeup ELSE UNCHANGED eventfd
    /\ early' = IF pc = "start" THEN early \cup {f} ELSE early
    /\ UNCHANGED <<loopVars, done, tpc, ran>>

LoopQuit ==
    /\ InUserCode
    /\ done' = TRUE
    /\ UNCHANGED <<loopVars, pending, eventfd, tpc, history>>

-----------------------------------------------------------------------------
(* The other threads.                                                      *)

ThreadEnqueue(t, f) ==
    /\ tpc[t] = "idle"
    /\ Push(f)
    /\ tpc' = [tpc EXCEPT ![t] = "wake"]
    /\ UNCHANGED <<loopVars, eventfd, done, ran, early>>

ThreadQuit(t) ==
    /\ tpc[t] = "idle"
    /\ eventfd < MaxEventfd
    /\ done' = TRUE
    /\ tpc' = [tpc EXCEPT ![t] = "wake"]
    /\ UNCHANGED <<loopVars, pending, eventfd, history>>

ThreadWakeup(t) ==
    /\ tpc[t] = "wake"
    /\ Wakeup
    /\ tpc' = [tpc EXCEPT ![t] = "idle"]
    /\ UNCHANGED <<loopVars, pending, done, history>>

-----------------------------------------------------------------------------
LoopStep ==
    \/ EnterLoop \/ TestDone \/ PollWakeup \/ HandleRead \/ OtherHandled
    \/ BeginExecute \/ RunFunctor \/ FunctorReturns \/ EndExecute

Next ==
    \/ LoopStep \/ PollOther \/ PollTimeout \/ LoopQuit
    \/ \E f \in Functors : LoopEnqueue(f)
    \/ \E t \in Threads : ThreadQuit(t) \/ ThreadWakeup(t)
    \/ \E t \in Threads, f \in Functors : ThreadEnqueue(t, f)

Spec == Init /\ [][Next]_vars

\* The loop thread is scheduled, its callbacks and functors return, and a
\* thread that has begun enqueue or quit finishes it.  Nothing is assumed of
\* other descriptors becoming ready, of the 5 s timeout, or of new calls.
FairSpec ==
    /\ Spec
    /\ WF_vars(LoopStep)
    /\ \A t \in Threads : WF_vars(ThreadWakeup(t))

-----------------------------------------------------------------------------
(* Properties.                                                             *)

TypeOK ==
    /\ pc \in Looping \cup {"start", "returned"}
    /\ active \in SUBSET Sources
    /\ executing \in BOOLEAN
    /\ toExecute \in Seq(Functors)
    /\ pending \in Seq(Functors)
    /\ eventfd \in Nat
    /\ done \in BOOLEAN
    /\ tpc \in [Threads -> {"idle", "wake"}]
    /\ ran \in Seq(Functors)
    /\ submitted \in Seq(Functors)
    /\ early \in SUBSET Functors

\* poll() will return without waiting for its timeout or for other events.
WakeupDue == eventfd > 0 \/ \E t \in Threads : tpc[t] = "wake"

\* A functor is pending that was not pushed by the loop thread before loop().
LateWork == \E f \in Elements(pending) : f \notin early

\* The loop never sleeps over a functor: while the loop thread is in poll()
\* with a functor pending, the eventfd is readable or its writer is on its way.
\* Functors the owner enqueued before loop() are the exception: enqueue wakes
\* nobody for them.  (enqueue, wakeup, handleRead, executePendingFunctors)
NoLostWakeup == pc = "poll" /\ LateWork => WakeupDue

\* The loop never sleeps over a quit: the same for _done set by another
\* thread at any moment, between the test of the while and the poll included.
NoLostQuit == pc = "poll" /\ done => WakeupDue

\* The assertion of handleRead: when it reads the eventfd, 8 bytes are there.
WakeupReadSucceeds == "wakeup" \in active => pc = "dispatch" /\ eventfd > 0

\* No functor is lost, run twice or run out of order: what was pushed, in the
\* order of the pushes, is what was started, then the batch in hand, then what
\* is pending.  Pushes race with the swap of executePendingFunctors.
ExactlyOnceInOrder == submitted = ran \o toExecute \o pending

\* After a quit the loop returns, again without the timeout.
QuitReturns == done ~> pc = "returned"

\* The loop implements the abstract executor, liveness included, again without
\* the timeout: the queue is the batch in hand followed by the pending vector,
\* and only what the owner pushed before loop() is lazy.
Abstract == INSTANCE Executor WITH
                queue    <- toExecute \o pending,
                history  <- ran,
                lazy     <- early,
                quitting <- done,
                stopped  <- (pc = "returned")
ImplementsExecutor == Abstract!Spec
=============================================================================

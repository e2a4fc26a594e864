---------------------------- MODULE TimerManager ----------------------------
(***************************************************************************)
(* TimerManager: the multimap of timers by expiry, the set of active       *)
(* timers, the timers cancelled while a batch of expired ones runs, and    *)
(* the timerfd that wakes the loop for the earliest one.  Everything runs  *)
(* in the loop thread (other threads go through runInLoop, see EventLoop): *)
(* user code is a timer's callback or anything the loop runs between two   *)
(* calls of handleRead.                                                    *)
(*                                                                         *)
(* The multimap is a sequence sorted by expiry in which a timer is placed  *)
(* after its equals, as std::multimap::insert places it.  Times are        *)
(* relative to the clock: a tick of the clock brings every expiry closer,  *)
(* so that repeating timers run for ever in finitely many states.  The 100 *)
(* microseconds resetTimerfd rounds a short gap up to are one tick.        *)
(* Callers do not ask for the epoch, which resetTimerfd takes for invalid. *)
(***************************************************************************)
EXTENDS Integers, SequencesExt

CONSTANTS Timers,    \* timers ever created
          Interval,  \* interval of a repeating timer, 0 for one that runs once
          MaxDelay,  \* bound: how far ahead a timer is asked for
          MaxLate,   \* bound: how late a timer is is not counted further
          Ties       \* may a timer be cancelled that expires with another?

ASSUME IntervalAssumption == Interval \in [Timers -> Nat]
ASSUME BoundsAssumption == MaxDelay \in Nat /\ MaxLate \in Nat \ {0}
ASSUME TiesAssumption == Ties \in BOOLEAN

VARIABLES
    timers,           \* _timers: sequence of [at, id]
    activeTimers,     \* _activeTimers: set of [at, id], at the timer's _when
    cancelledTimers,  \* _cancelledTimers
    executing,        \* _executingExpiredTimers, unset by the constructor
    armed, deadline,  \* is the timerfd set, and when it becomes readable
    pc,               \* idle, in the callbacks of handleRead, or aborted
    expireds,         \* the batch of handleRead
    next,             \* position in the batch of the callback to start
    created,          \* timers handed to addTimer so far
    dead              \* history: timers whose cancel was executed

timerfd == <<armed, deadline>>
batch == <<expireds, next>>
vars == <<timers, activeTimers, cancelledTimers, executing, timerfd, pc, batch,
          created, dead>>

Ids(set) == {timer.id : timer \in set}
Later(a, b) == IF a < b THEN b ELSE a

Init ==
    /\ timers = <<>>
    /\ activeTimers = {} /\ cancelledTimers = {}
    /\ executing \in BOOLEAN
    /\ armed = FALSE /\ deadline = 0
    /\ pc = "idle"
    /\ expireds = <<>> /\ next = 1
    /\ created = {} /\ dead = {}

-----------------------------------------------------------------------------
(* What user code calls.                                                   *)

\* How many timers of the multimap come before the first that expires after at.
UpperBound(s, at) ==
    CHOOSE n \in 0 .. Len(s) :
        /\ \A i \in 1 .. n : s[i].at <= at
        /\ n < Len(s) => s[n + 1].at > at

\* insert: the new position in the multimap, and whether the first changed.
InsertTimer(s, timer) == InsertAt(s, UpperBound(s, timer.at) + 1, timer)

\* --- forms with a plausible bug, used only to check that properties can fail ---

\* Only the first timer ever changes the first expiry, or none does.
FirstWhenEmpty(s, at) == s = <<>>
FirstNever(s, at) == FALSE

\* The gap handed to timerfd_settime as it is.
DeadlineInThePast(s) == Head(s).at

\* Cancelled timers restart with the others.
RestartsCancelled(id) == Interval[id] > 0

\* The multimap keeps the cancelled timer.
CancelInSetOnly(timer) ==
    /\ activeTimers' = activeTimers \ {timer}
    /\ UNCHANGED <<timers, pc, cancelledTimers>>

FirstChanges(s, at) == s = <<>> \/ at < Head(s).at

\* resetTimerfd: the deadline for the first of s.
FirstDeadline(s) == Later(Head(s).at, 1)

InUserCode == pc = "idle" \/ (pc = "callbacks" /\ next > 1)

\* addTimerInLoop, for a timer not seen before.  runEvery asks for the first
\* expiry one interval from now; runAt and runAfter for any time.
AddTimerInLoop(id, at) ==
    /\ InUserCode
    /\ id \notin created
    /\ Interval[id] > 0 => at = Interval[id]
    /\ LET timer == [at |-> at, id |-> id]
       IN  /\ timers' = InsertTimer(timers, timer)
           /\ activeTimers' = activeTimers \cup {timer}
    /\ IF FirstChanges(timers, at)
       THEN armed' = TRUE /\ deadline' = FirstDeadline(timers')
       ELSE UNCHANGED timerfd
    /\ created' = created \cup {id}
    /\ UNCHANGED <<cancelledTimers, executing, pc, batch, dead>>

\* Two timers at -MaxLate may be there because of the bound, not of a tie.
MayCancel(timer) ==
    (\E i \in DOMAIN timers : timers[i].at = timer.at /\ timers[i].id # timer.id)
        => Ties /\ timer.at > -MaxLate

\* The loop of cancelInLoop declares an iterator of its own: what is erased is
\* the first of the timers that expire with the one to cancel.
CancelActive(timer) ==
    LET sameTime == {i \in DOMAIN timers : timers[i].at = timer.at}
    IN  /\ MayCancel(timer)
        /\ IF sameTime # {}
           THEN /\ timers' = RemoveAt(timers, Min(sameTime))
                /\ activeTimers' = activeTimers \ {timer}
                /\ UNCHANGED pc
           ELSE pc' = "aborted" /\ UNCHANGED <<timers, activeTimers>>
        /\ UNCHANGED cancelledTimers

CancelInactive(id) ==
    /\ id \notin Ids(activeTimers)
    /\ cancelledTimers' = IF executing THEN cancelledTimers \cup {id} ELSE cancelledTimers
    /\ UNCHANGED <<timers, activeTimers, pc>>

CancelInLoop(id) ==
    /\ InUserCode
    /\ id \in created
    /\ \/ \E timer \in activeTimers : timer.id = id /\ CancelActive(timer)
       \/ CancelInactive(id)
    /\ dead' = dead \cup {id}
    /\ UNCHANGED <<executing, timerfd, batch, created>>

-----------------------------------------------------------------------------
(* The loop thread serving the timerfd.                                    *)

\* The assertion of insert, cancelInLoop and expiredTimers.
SizesAgree == Len(timers) = Cardinality(activeTimers)

TimerfdReadable == pc = "idle" /\ armed /\ deadline <= 0

\* handleRead up to the first callback, with the clock read a moment after
\* the tick: every timer up to it has expired.  expiredTimers ends with the
\* assertion that both tables shrank alike.
HandleRead ==
    LET expired == UpperBound(timers, 0)
    IN  /\ TimerfdReadable
        /\ armed' = FALSE /\ deadline' = 0
        /\ timers' = SubSeq(timers, expired + 1, Len(timers))
        /\ expireds' = [i \in 1 .. expired |-> timers[i].id]
        /\ activeTimers' = activeTimers \ {timers[i] : i \in 1 .. expired}
        /\ cancelledTimers' = {}
        /\ executing' = TRUE
        /\ next' = 1
        /\ pc' = IF SizesAgree' THEN "callbacks" ELSE "aborted"
        /\ UNCHANGED <<created, dead>>

\* handleRead with the clock read at the instant a timer expires: lower_bound
\* stops at that timer, and the assertion after it fails.
HandleReadAtExpiry ==
    /\ TimerfdReadable
    /\ \E i \in DOMAIN timers : timers[i].at = 0
    /\ armed' = FALSE /\ deadline' = 0
    /\ pc' = "aborted"
    /\ UNCHANGED <<timers, activeTimers, cancelledTimers, executing, batch, created, dead>>

RunTimer ==
    /\ pc = "callbacks"
    /\ next <= Len(expireds)
    /\ next' = next + 1
    /\ UNCHANGED <<timers, activeTimers, cancelledTimers, executing, timerfd, pc,
                   expireds, created, dead>>

\* reset: the expired timers that repeat and were not cancelled start again,
\* in the order they expired in.
Restarts(id) == Interval[id] > 0 /\ id \notin cancelledTimers

Again(id) == [at |-> Interval[id], id |-> id]

Restarted(s, ids) ==
    LET table[n \in 0 .. Len(ids)] ==
            IF n = 0 THEN s
            ELSE IF Restarts(ids[n]) THEN InsertTimer(table[n - 1], Again(ids[n]))
            ELSE table[n - 1]
    IN  table[Len(ids)]

Reset ==
    /\ pc = "callbacks"
    /\ next > Len(expireds)
    /\ timers' = Restarted(timers, expireds)
    /\ activeTimers' = activeTimers \cup {Again(id) : id \in {x \in ToSet(expireds) : Restarts(x)}}
    /\ IF timers' # <<>>
       THEN armed' = TRUE /\ deadline' = FirstDeadline(timers')
       ELSE UNCHANGED timerfd
    /\ executing' = FALSE
    /\ pc' = "idle"
    /\ expireds' = <<>> /\ next' = 1
    /\ UNCHANGED <<cancelledTimers, created, dead>>

\* A tick of the clock.
Closer(timer) == [timer EXCEPT !.at = Later(@ - 1, -MaxLate)]

Tick ==
    /\ pc # "aborted"
    /\ timers' = [i \in DOMAIN timers |-> Closer(timers[i])]
    /\ activeTimers' = {Closer(timer) : timer \in activeTimers}
    /\ deadline' = Later(deadline - 1, 0)
    /\ UNCHANGED <<cancelledTimers, executing, armed, pc, batch, created, dead>>

Next ==
    \/ \E id \in Timers, at \in -1 .. MaxDelay : AddTimerInLoop(id, at)
    \/ \E id \in Timers : CancelInLoop(id)
    \/ HandleRead \/ HandleReadAtExpiry \/ RunTimer \/ Reset \/ Tick

Spec == Init /\ [][Next]_vars

\* Time passes, the loop serves a readable timerfd and callbacks return.
FairSpec ==
    /\ Spec
    /\ WF_vars(Tick) /\ WF_vars(HandleRead) /\ WF_vars(RunTimer) /\ WF_vars(Reset)

-----------------------------------------------------------------------------
(* Properties.                                                             *)

\* Timers handed to addTimer, at times within the bounds.
Due == {timer \in [at : Int, id : created] :
           -MaxLate <= timer.at /\ timer.at <= Later(MaxDelay, Interval[timer.id])}

TypeOK ==
    /\ timers \in Seq(Due)
    /\ activeTimers \in SUBSET Due
    /\ cancelledTimers \in SUBSET created
    /\ executing \in BOOLEAN
    /\ armed \in BOOLEAN /\ deadline \in Nat
    /\ pc \in {"idle", "callbacks", "aborted"}
    /\ expireds \in Seq(created) /\ next \in 1 .. Len(expireds) + 1
    /\ created \in SUBSET Timers /\ dead \in SUBSET created

\* The multimap and the set of active timers hold the same timers, each once,
\* and the map is sorted, whatever is added or cancelled in callbacks.
TablesMatch ==
    /\ ToSet(timers) = activeTimers
    /\ Len(timers) = Cardinality(activeTimers)
    /\ \A i \in 1 .. Len(timers) - 1 : timers[i].at <= timers[i + 1].at

\* A timer whose cancel was executed is not scheduled again: neither the reset
\* of the batch it was cancelled in nor a later one starts it again.
CancelledStaysDead == dead \cap Ids(activeTimers \cup ToSet(timers)) = {}

\* Whenever the loop is about to wait with timers pending, the timerfd is set to
\* fire no later than the first of them (or at once, when that is past).
ArmedForFirst ==
    pc = "idle" /\ timers # <<>> => armed /\ deadline <= FirstDeadline(timers)

\* Every active timer is eventually taken out of the tables, to run or because
\* it was cancelled: a repeating timer runs again and again, and no addition,
\* cancellation or reset leaves a timer without a timerfd to wake it.  (Unless
\* HandleReadAtExpiry stopped the program.)
TimersExpire ==
    \A id \in Timers :
        id \in Ids(activeTimers) ~> id \notin Ids(activeTimers) \/ pc = "aborted"
=============================================================================

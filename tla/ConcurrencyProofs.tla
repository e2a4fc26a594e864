-------------------------- MODULE ConcurrencyProofs --------------------------
(***************************************************************************)
(* ChannelSafe is an invariant of the channel's program for every number   *)
(* of consumers, producers and values; and ServerSound for any number of   *)
(* threads and connections, if callers do what the code needs of them:     *)
(* start in the base thread, leave the loops of the pool to the server,    *)
(* and not destroy it before they run.                                     *)
(*                                                                         *)
(* The channel's invariant is ChannelSafe with the types.  The server's    *)
(* has three parts: PoolInv says where every thread is from what the base  *)
(* thread has done, ConnInv that what is queued fits the connections,      *)
(* RoundInv that connections go round the loops.                           *)
(***************************************************************************)
EXTENDS Concurrency, FiniteSetTheorems, TLAPS

-----------------------------------------------------------------------------
(* The channel: the inductive invariant. *)

Values == Producers \X Nat

ChannelTypeOK ==
    /\ queue \in Seq(Values) /\ put \in Seq(Values) /\ taken \in Seq(Values)
    /\ consumer \in [Consumers -> {"starting", "taking", "asleep", "woken", "stopped"}]
    /\ producer \in [Producers -> {"starting", "asleep", "putting", "notifying", "done"}]
    /\ sent \in [Producers -> Nat]

\* The three parts of ChannelSafe are inductive together with the types.
ChannelInv == ChannelTypeOK /\ NoneStranded /\ InOrder /\ LatchHolds

-----------------------------------------------------------------------------
(* Lemmas: sets of threads, and the two ways the queue changes *)

\* Waiting consumers, notifying producers and the like are finite sets.
LEMMA Finite ==
    ASSUME NEW S, IsFiniteSet(S), NEW T \in SUBSET S
    PROVE  IsFiniteSet(T) /\ Cardinality(T) \in Nat
BY FS_Subset, FS_CardinalityType

\* One thread more, one thread less.
LEMMA OneMore ==
    ASSUME NEW T, IsFiniteSet(T), NEW x, x \notin T
    PROVE  Cardinality(T \cup {x}) = Cardinality(T) + 1
BY FS_AddElement

LEMMA OneLess ==
    ASSUME NEW T, IsFiniteSet(T), NEW x \in T
    PROVE  Cardinality(T \ {x}) = Cardinality(T) - 1
BY FS_RemoveElement

LEMMA AtLeastOne ==
    ASSUME NEW T, IsFiniteSet(T), NEW x \in T
    PROVE  Cardinality(T) >= 1
<1>1. Cardinality(T) # 0
  BY FS_EmptySet
<1>. QED  BY <1>1, FS_CardinalityType

\* Taking from the front keeps the whole order.
LEMMA TakeFirst ==
    ASSUME NEW S, NEW s \in Seq(S), NEW t \in Seq(S), t # <<>>
    PROVE  /\ Head(t) \in S /\ Tail(t) \in Seq(S) /\ Len(Tail(t)) = Len(t) - 1
           /\ Append(s, Head(t)) \o Tail(t) = s \o t
OBVIOUS

-----------------------------------------------------------------------------

LEMMA Counts ==
    ASSUME ChannelTypeOK
    PROVE  /\ IsFiniteSet(Asleep) /\ IsFiniteSet(Woken) /\ IsFiniteSet(Notifying)
           /\ Cardinality(Woken) \in Nat /\ Cardinality(Notifying) \in Nat
           /\ Len(queue) \in Nat
BY Finite, ChannelAssumption DEF ChannelTypeOK, Asleep, Woken, Notifying

LEMMA ChannelInitial == ChannelInit => ChannelInv
<1>. SUFFICES ASSUME ChannelInit PROVE ChannelInv
  OBVIOUS
<1>1. ChannelTypeOK
  BY DEF ChannelInit, ChannelTypeOK
<1>2. NoneStranded
  BY DEF ChannelInit, NoneStranded, Asleep
<1>3. InOrder
  BY DEF ChannelInit, InOrder
<1>4. LatchHolds
  <2>1. {c \in Consumers : consumer[c] = "starting"} = Consumers
    BY DEF ChannelInit
  <2>2. \A p \in Producers : producer[p] = "starting"
    BY DEF ChannelInit
  <2>. QED  BY <2>1, <2>2 DEF ChannelInit, LatchHolds
<1>. QED  BY <1>1, <1>2, <1>3, <1>4 DEF ChannelInv

-----------------------------------------------------------------------------
(* Types *)

LEMMA ChannelTyped == ChannelTypeOK /\ [ChannelNext]_channelVars => ChannelTypeOK'
<1>. SUFFICES ASSUME ChannelTypeOK, [ChannelNext]_channelVars PROVE ChannelTypeOK'
  OBVIOUS
<1>. USE DEF ChannelTypeOK
<1>1. ASSUME NEW c \in Consumers, CountDown(c) PROVE ChannelTypeOK'
  BY <1>1 DEF CountDown, NotifyAll
<1>2. ASSUME NEW c \in Consumers, DequeueWaits(c) PROVE ChannelTypeOK'
  BY <1>2 DEF DequeueWaits
<1>3. ASSUME NEW c \in Consumers, Dequeue(c) PROVE ChannelTypeOK'
  BY <1>3 DEF Dequeue
<1>4. ASSUME NEW p \in Producers, LatchWait(p) PROVE ChannelTypeOK'
  BY <1>4 DEF LatchWait
<1>5. ASSUME NEW p \in Producers, Enqueue(p) PROVE ChannelTypeOK'
  <2>1. NextValue(p) \in Values
    BY ChannelAssumption DEF NextValue, Stop, Values
  <2>. QED  BY <1>5, <2>1 DEF Enqueue
<1>6. ASSUME NEW p \in Producers, Notify(p) PROVE ChannelTypeOK'
  BY <1>6 DEF Notify, Asleep
<1>7. ASSUME NEW p \in Producers, Finish(p) PROVE ChannelTypeOK'
  BY <1>7 DEF Finish
<1>8. ASSUME Spurious PROVE ChannelTypeOK'
  BY <1>8 DEF Spurious, Asleep
<1>9. ASSUME UNCHANGED channelVars PROVE ChannelTypeOK'
  BY <1>9 DEF channelVars
<1>. QED
  BY <1>1, <1>2, <1>3, <1>4, <1>5, <1>6, <1>7, <1>8, <1>9
  DEF ChannelNext, ConsumerStep, ProducerStep

-----------------------------------------------------------------------------
(* The order of the values *)

LEMMA OrderKept == ChannelTypeOK /\ InOrder /\ [ChannelNext]_channelVars => InOrder'
<1>. SUFFICES ASSUME ChannelTypeOK, InOrder, [ChannelNext]_channelVars PROVE InOrder'
  OBVIOUS
<1>. USE DEF InOrder
<1>1. ASSUME NEW p \in Producers, Enqueue(p) PROVE InOrder'
  <2>1. NextValue(p) \in Values
    BY ChannelAssumption DEF NextValue, Stop, Values, ChannelTypeOK
  <2>2. Append(taken \o queue, NextValue(p)) = taken \o Append(queue, NextValue(p))
    <3>1. taken \in Seq(Values) /\ queue \in Seq(Values)
      BY DEF ChannelTypeOK
    <3>. HIDE DEF InOrder
    <3>. QED  BY <2>1, <3>1, SMTT(30)
  <2>. QED  BY <1>1, <2>2 DEF Enqueue
<1>2. ASSUME NEW c \in Consumers, Dequeue(c) PROVE InOrder'
  BY <1>2, TakeFirst DEF Dequeue, ChannelTypeOK
<1>3. CASE UNCHANGED <<queue, put, taken>>
  BY <1>3
<1>. QED
  BY <1>1, <1>2, <1>3
  DEF ChannelNext, ConsumerStep, ProducerStep, CountDown, DequeueWaits, LatchWait, Notify,
      Finish, Spurious, channelVars

-----------------------------------------------------------------------------
(* The latch *)

ThreadsStarting == {c \in Consumers : consumer[c] = "starting"}

LEMMA LatchKept == ChannelTypeOK /\ LatchHolds /\ [ChannelNext]_channelVars => LatchHolds'
<1>. SUFFICES ASSUME ChannelTypeOK, LatchHolds, [ChannelNext]_channelVars PROVE LatchHolds'
  OBVIOUS
<1>1. IsFiniteSet(ThreadsStarting) /\ count = Cardinality(ThreadsStarting) /\ count \in Nat
  BY Finite, ChannelAssumption DEF LatchHolds, ThreadsStarting
<1>2. ASSUME NEW c \in Consumers, CountDown(c) PROVE LatchHolds'
  <2>1. c \in ThreadsStarting /\ ThreadsStarting' = ThreadsStarting \ {c}
    BY <1>2 DEF CountDown, ThreadsStarting, ChannelTypeOK
  <2>2. count' = Cardinality(ThreadsStarting') /\ count > 0
    BY <1>1, <1>2, <2>1, OneLess, AtLeastOne DEF CountDown
  <2>3. \A p \in Producers : producer[p] \in {"starting", "asleep"}
    BY <2>2 DEF LatchHolds
  <2>4. CASE count' = 0
    <3>1. \A p \in Producers : producer'[p] = "starting"
      BY <1>2, <2>3, <2>4 DEF CountDown, NotifyAll, ChannelTypeOK
    <3>. QED  BY <2>2, <3>1 DEF LatchHolds, ThreadsStarting
  <2>5. CASE count' # 0
    <3>1. producer' = producer /\ count' > 0
      BY <1>1, <1>2, <2>2, <2>5 DEF CountDown
    <3>. QED  BY <2>2, <2>3, <3>1 DEF LatchHolds, ThreadsStarting
  <2>. QED  BY <2>4, <2>5
<1>3. ASSUME NEW p \in Producers, LatchWait(p) PROVE LatchHolds'
  <2>1. ThreadsStarting' = ThreadsStarting /\ count' = count
    BY <1>3 DEF LatchWait, ThreadsStarting
  <2>2. \A q \in Producers \ {p} : producer'[q] = producer[q]
    BY <1>3 DEF LatchWait, ChannelTypeOK
  <2>3. producer'[p] = IF count > 0 THEN "asleep" ELSE "putting"
    BY <1>3 DEF LatchWait, ChannelTypeOK
  <2>. QED  BY <1>1, <2>1, <2>2, <2>3 DEF LatchHolds, ThreadsStarting
<1>. DEFINE Past(p) == \/ producer'[p] = producer[p] \/ producer'[p] = "starting"
                      \/ (producer[p] \notin {"starting", "asleep"} /\ producer'[p] # "asleep")
<1>4. (ThreadsStarting' = ThreadsStarting /\ count' = count /\ \A p \in Producers : Past(p)) => LatchHolds'
  BY DEF LatchHolds, ThreadsStarting
<1>5. ASSUME NEW c \in Consumers, DequeueWaits(c) \/ Dequeue(c) PROVE LatchHolds'
  <2>1. ThreadsStarting' = ThreadsStarting
    BY <1>5 DEF DequeueWaits, Dequeue, ThreadsStarting, ChannelTypeOK
  <2>2. producer' = producer /\ count' = count
    BY <1>5 DEF DequeueWaits, Dequeue
  <2>. QED  BY <1>4, <2>1, <2>2
<1>6. ASSUME NEW p \in Producers, Enqueue(p) \/ Notify(p) \/ Finish(p) PROVE LatchHolds'
  <2>1. ThreadsStarting' = ThreadsStarting
    BY <1>6 DEF Enqueue, Notify, Finish, Asleep, ThreadsStarting, ChannelTypeOK
  <2>2. producer[p] \notin {"starting", "asleep"} /\ producer'[p] # "asleep"
    BY <1>6 DEF Enqueue, Notify, Finish, ChannelTypeOK
  <2>3. \A q \in Producers \ {p} : producer'[q] = producer[q]
    BY <1>6 DEF Enqueue, Notify, Finish, ChannelTypeOK
  <2>4. count' = count
    BY <1>6 DEF Enqueue, Notify, Finish
  <2>. QED  BY <1>4, <2>1, <2>2, <2>3, <2>4
<1>7. ASSUME Spurious PROVE LatchHolds'
  <2>1. ThreadsStarting' = ThreadsStarting
    BY <1>7 DEF Spurious, Asleep, ThreadsStarting, ChannelTypeOK
  <2>2. \A p \in Producers : producer'[p] = producer[p] \/ producer'[p] = "starting"
    BY <1>7 DEF Spurious, ChannelTypeOK
  <2>. QED  BY <1>4, <1>7, <2>1, <2>2 DEF Spurious
<1>8. ASSUME UNCHANGED channelVars PROVE LatchHolds'
  BY <1>4, <1>8 DEF channelVars, ThreadsStarting
<1>. QED
  BY <1>2, <1>3, <1>5, <1>6, <1>7, <1>8 DEF ChannelNext, ConsumerStep, ProducerStep

-----------------------------------------------------------------------------
(* Notifications *)

LEMMA WakingKept == ChannelTypeOK /\ NoneStranded /\ [ChannelNext]_channelVars => NoneStranded'
<1>. SUFFICES ASSUME ChannelTypeOK, NoneStranded, [ChannelNext]_channelVars
              PROVE  NoneStranded'
  OBVIOUS
<1>. USE Counts
<1>1. ASSUME Asleep' = Asleep, Woken' = Woken, Notifying' = Notifying, queue' = queue
      PROVE  NoneStranded'
  BY <1>1 DEF NoneStranded
<1>2. ASSUME NEW c \in Consumers, CountDown(c) PROVE NoneStranded'
  <2>1. Asleep' = Asleep /\ Woken' = Woken
    BY <1>2 DEF CountDown, Asleep, Woken, ChannelTypeOK
  <2>2. Notifying' = Notifying
    BY <1>2 DEF CountDown, NotifyAll, Notifying, ChannelTypeOK
  <2>. QED  BY <1>1, <1>2, <2>1, <2>2 DEF CountDown
<1>3. ASSUME NEW c \in Consumers, DequeueWaits(c) PROVE NoneStranded'
  <2>1. Len(queue') = 0
    BY <1>3 DEF DequeueWaits
  <2>2. ChannelTypeOK'
    BY ChannelTyped
  <2>3. Cardinality(Woken') \in Nat /\ Cardinality(Notifying') \in Nat
    BY <2>2, Finite, ChannelAssumption DEF ChannelTypeOK, Woken, Notifying
  <2>. QED  BY <2>1, <2>3 DEF NoneStranded
<1>4. ASSUME NEW c \in Consumers, Dequeue(c) PROVE NoneStranded'
  <2>1. Asleep' = Asleep /\ Notifying' = Notifying /\ Woken' = Woken \ {c}
    BY <1>4 DEF Dequeue, Asleep, Woken, Notifying, ChannelTypeOK
  <2>2. Len(queue') = Len(queue) - 1
    BY <1>4, TakeFirst DEF Dequeue, ChannelTypeOK
  <2>3. Cardinality(Woken \ {c}) >= Cardinality(Woken) - 1
    <3>1. CASE c \in Woken
      BY <3>1, OneLess
    <3>2. CASE c \notin Woken
      <4>1. Woken \ {c} = Woken
        BY <3>2
      <4>. QED  BY <4>1
    <3>. QED  BY <3>1, <3>2
  <2>4. Cardinality(Woken \ {c}) \in Nat
    BY Finite
  <2>. QED  BY <2>1, <2>2, <2>3, <2>4 DEF NoneStranded
<1>5. ASSUME NEW p \in Producers, LatchWait(p) PROVE NoneStranded'
  <2>1. Asleep' = Asleep /\ Woken' = Woken /\ Notifying' = Notifying
    BY <1>5 DEF LatchWait, Asleep, Woken, Notifying, ChannelTypeOK
  <2>. QED  BY <1>1, <1>5, <2>1 DEF LatchWait
<1>6. ASSUME NEW p \in Producers, Enqueue(p) PROVE NoneStranded'
  <2>1. /\ Asleep' = Asleep /\ Woken' = Woken
        /\ p \notin Notifying /\ Notifying' = Notifying \cup {p}
    BY <1>6 DEF Enqueue, Asleep, Woken, Notifying, ChannelTypeOK
  <2>2. Len(queue') = Len(queue) + 1
    BY <1>6 DEF Enqueue, ChannelTypeOK
  <2>3. Cardinality(Notifying') = Cardinality(Notifying) + 1
    BY <2>1, OneMore
  <2>. QED  BY <2>1, <2>2, <2>3 DEF NoneStranded
<1>7. ASSUME NEW p \in Producers, Notify(p) PROVE NoneStranded'
  <2>1. p \in Notifying /\ Notifying' = Notifying \ {p} /\ queue' = queue
    BY <1>7 DEF Notify, Notifying, ChannelTypeOK
  <2>2. Cardinality(Notifying') = Cardinality(Notifying) - 1
    BY <2>1, OneLess
  <2>3. CASE Asleep = {}
    <3>1. Asleep' = {}
      BY <1>7, <2>3 DEF Notify, Asleep
    <3>. QED  BY <3>1 DEF NoneStranded
  <2>4. CASE Asleep # {}
    <3>1. PICK c \in Asleep : consumer' = [consumer EXCEPT ![c] = "woken"]
      BY <1>7, <2>4 DEF Notify
    <3>2. c \notin Woken /\ Woken' = Woken \cup {c}
      BY <3>1 DEF Woken, Asleep, ChannelTypeOK
    <3>3. Cardinality(Woken') = Cardinality(Woken) + 1
      BY <3>2, OneMore
    <3>. QED  BY <2>1, <2>2, <2>4, <3>3 DEF NoneStranded
  <2>. QED  BY <2>3, <2>4
<1>8. ASSUME NEW p \in Producers, Finish(p) PROVE NoneStranded'
  <2>1. Asleep' = Asleep /\ Woken' = Woken /\ Notifying' = Notifying
    BY <1>8 DEF Finish, Asleep, Woken, Notifying, ChannelTypeOK
  <2>. QED  BY <1>1, <1>8, <2>1 DEF Finish
<1>9. ASSUME Spurious PROVE NoneStranded'
  <2>1. Notifying' = Notifying /\ queue' = queue
    BY <1>9 DEF Spurious, Notifying, ChannelTypeOK
  <2>2. CASE consumer' = consumer
    <3>1. Asleep' = Asleep /\ Woken' = Woken
      BY <2>2 DEF Asleep, Woken
    <3>. QED  BY <1>1, <2>1, <3>1
  <2>3. CASE \E c \in Asleep : consumer' = [consumer EXCEPT ![c] = "woken"]
    <3>1. PICK c \in Asleep : consumer' = [consumer EXCEPT ![c] = "woken"]
      BY <2>3
    <3>2. c \notin Woken /\ Woken' = Woken \cup {c}
      BY <3>1 DEF Woken, Asleep, ChannelTypeOK
    <3>3. Cardinality(Woken') = Cardinality(Woken) + 1
      BY <3>2, OneMore
    <3>. QED  BY <2>1, <3>1, <3>3 DEF NoneStranded
  <2>. QED  BY <1>9, <2>2, <2>3 DEF Spurious
<1>10. ASSUME UNCHANGED channelVars PROVE NoneStranded'
  BY <1>1, <1>10 DEF channelVars, Asleep, Woken, Notifying
<1>. QED
  BY <1>2, <1>3, <1>4, <1>5, <1>6, <1>7, <1>8, <1>9, <1>10
  DEF ChannelNext, ConsumerStep, ProducerStep

-----------------------------------------------------------------------------

\* However many threads wait for the channel and the latch, and however they
\* interleave: no value stays in the queue beside sleeping consumers without
\* a notification or a woken consumer for it (Channel::enqueue notifies after
\* it unlocked), values come out in the order they went in, and wait() of the
\* latch returns only after the last countDown(), which leaves nobody asleep.
THEOREM ChannelIsSafe == ChannelSpec => []ChannelSafe
<1>1. ChannelInit => ChannelInv
  BY ChannelInitial
<1>2. ChannelInv /\ [ChannelNext]_channelVars => ChannelInv'
  BY ChannelTyped, OrderKept, LatchKept, WakingKept DEF ChannelInv
<1>3. ChannelInv => ChannelSafe
  BY DEF ChannelInv, ChannelSafe
<1>. QED  BY <1>1, <1>2, <1>3, PTL DEF ChannelSpec

-----------------------------------------------------------------------------
(* The server: what the code needs of its callers. *)

Careful == {"foreign start", "quit", "early destruction"} \subseteq ServerAvoids

-----------------------------------------------------------------------------
(* The server: the inductive invariant. *)

Starting == pc \in {"setup", "starting", "waiting", "asleep"}

PoolTypeOK ==
    /\ pc \in {"setup", "starting", "waiting", "asleep", "looping",
               "destroying", "waking", "joining", "late", "gone"}
    /\ k \in 1 .. MostThreads + 1
    /\ nThreads \in 0 .. MostThreads
    /\ started \in BOOLEAN
    /\ thread \in [Threads -> {"none", "started", "published", "running", "looping",
                              "ended"}]
    /\ running \in [Threads -> BOOLEAN]
    /\ freed \in SUBSET Threads
    /\ done \in [Threads -> BOOLEAN]
    /\ loops \in Seq(Threads)

\* The i-th thread's loop is the i-th of the pool; k counts the threads that
\* startLoop has returned, and later those that are destroyed.
LoopsNumbered ==
    /\ \A i \in 1 .. Len(loops) : loops[i] = i
    /\ started <=> pc # "setup"
    /\ pc = "setup" => k = 1
    /\ Starting \/ pc = "looping" => Len(loops) = k - 1
    /\ pc \in {"waiting", "asleep"} => k =< nThreads
    /\ pc \in {"starting", "looping"} => k =< nThreads + 1
    /\ pc = "looping" => k > nThreads
    /\ pc \in {"waking", "joining", "late"} => k =< Len(loops)
    /\ pc = "gone" => k > Len(loops)

\* Where each thread of the pool is, from what the base thread has done.
ThreadsMatch ==
    \A t \in Threads :
        /\ InUse /\ t < k => thread[t] \in {"published", "running", "looping"}
        /\ InUse /\ t > k => thread[t] = "none"
        /\ pc \in {"setup", "starting", "looping"} /\ t = k => thread[t] = "none"
        /\ pc = "waiting" /\ t = k =>
               thread[t] \in {"started", "published", "running", "looping"}
        /\ pc = "asleep" /\ t = k => thread[t] = "started"
        /\ InUse => (running[t] <=> thread[t] \in {"running", "looping"})
        /\ InUse => t \notin freed /\ ~done[t]
        /\ ~InUse /\ t > Len(loops) => thread[t] = "none"
        /\ ~InUse /\ t =< Len(loops) /\ t < k => thread[t] = "ended"
        /\ ~InUse /\ t =< Len(loops) /\ t > k =>
               thread[t] \in {"running", "looping"} /\ running[t]
        /\ pc = "destroying" /\ t = k /\ t =< Len(loops) =>
               thread[t] \in {"running", "looping"} /\ running[t]
        /\ pc \in {"waking", "joining", "late"} /\ t = k => thread[t] \in {"running", "looping", "ended"}
        /\ pc = "destroying" /\ done[t] => t < k
        /\ pc \in {"waking", "joining", "late"} /\ done[t] => t =< k

PoolInv == PoolTypeOK /\ LoopsNumbered /\ ThreadsMatch

Kinds == {"established", "remove", "closed"}
Functors == {<<"listen">>} \cup {<<kind, c>> : kind \in Kinds, c \in Conns}
In(s) == {s[i] : i \in DOMAIN s}
Distinct(s) == \A i, j \in DOMAIN s : s[i] = s[j] /\ s[i] # <<"listen">> => i = j

ConnTypeOK ==
    /\ next \in Nat
    /\ pending \in [Loops -> Seq(Functors)]
    /\ loopOf \in [Conns -> Loops]
    /\ conn \in [Conns -> {"none", "connecting", "connected", "closing", "closed"}]
    /\ connections \in SUBSET Conns

\* A functor about a connection is queued once, for its loop, and finds the
\* connection as it was when it was queued.
Fits(l, f) ==
    /\ f[1] = "established" => l = loopOf[f[2]] /\ conn[f[2]] = "connecting"
    /\ f[1] = "remove" => /\ l = 0 /\ conn[f[2]] = "closing"
                          /\ pc # "gone" => f[2] \in connections
    /\ f[1] = "closed" => /\ l = loopOf[f[2]] /\ conn[f[2]] = "closing"
                          /\ f[2] \notin connections
FunctorsMatch ==
    \A l \in Loops : Distinct(pending[l]) /\ \A f \in In(pending[l]) : Fits(l, f)

\* The map holds a connection from acceptance to removal.
MapMatches ==
    \A c \in Conns :
        /\ conn[c] # "none" => loopOf[c] \in 0 .. Len(loops)
        /\ pc # "gone" /\ conn[c] \in {"connecting", "connected"} => c \in connections
        /\ pc # "gone" /\ conn[c] \in {"none", "closed"} => c \notin connections
        /\ Starting => conn[c] = "none"

ConnInv == ConnTypeOK /\ FunctorsMatch /\ MapMatches

\* The loops before _next are one connection ahead of the others.
Shared(m) ==
    \A l \in 1 .. Len(loops) : Cardinality(Assigned(l)) = IF l =< next THEN m + 1 ELSE m
RoundInv ==
    /\ Starting => next = 0
    /\ loops = <<>> => next = 0
    /\ loops # <<>> => next < Len(loops)
    /\ \E m \in Nat : Shared(m)

-----------------------------------------------------------------------------
(* The server: the pool *)

LEMMA SetNumThreadsPool ==
    ASSUME PoolInv, NEW n \in 0 .. MostThreads, SetNumThreads(n)
    PROVE  PoolInv'
<1>1. PoolTypeOK'
  BY DEF SetNumThreads, PoolInv, PoolTypeOK
<1>2. LoopsNumbered'
  BY DEF SetNumThreads, Starting, PoolInv, LoopsNumbered
<1>3. ThreadsMatch'
  BY DEF SetNumThreads, InUse, PoolInv, ThreadsMatch
<1> QED  BY <1>1, <1>2, <1>3 DEF PoolInv

LEMMA StartPool ==
    ASSUME PoolInv, Start
    PROVE  PoolInv'
<1>1. PoolTypeOK'
  BY DEF Start, PoolInv, PoolTypeOK
<1>2. LoopsNumbered'
  BY DEF Start, Starting, PoolInv, PoolTypeOK, LoopsNumbered
<1>3. ThreadsMatch'
  BY DEF Start, InUse, PoolInv, ThreadsMatch
<1> QED  BY <1>1, <1>2, <1>3 DEF PoolInv

LEMMA StartThreadPool ==
    ASSUME PoolInv, StartThread
    PROVE  PoolInv'
<1>1. PoolTypeOK'
  BY DEF StartThread, PoolInv, PoolTypeOK
<1>2. LoopsNumbered'
  BY DEF StartThread, Starting, PoolInv, LoopsNumbered
<1>3. ThreadsMatch'
  BY DEF StartThread, InUse, PoolInv, PoolTypeOK, ThreadsMatch
<1> QED  BY <1>1, <1>2, <1>3 DEF PoolInv

LEMMA StartLoopPool ==
    ASSUME PoolInv, StartLoop
    PROVE  PoolInv'
<1>1. CASE Alive(k)
  <2>1. k \in Threads /\ loops \in Seq(Threads) /\ Len(loops) = k - 1
    BY <1>1, ServerAssumption
       DEF StartLoop, Threads, Starting, PoolInv, PoolTypeOK, LoopsNumbered
  <2>2. pc' = "starting" /\ loops' = Append(loops, k) /\ k' = k + 1
    BY <1>1 DEF StartLoop
  <2>3. /\ loops' \in Seq(Threads) /\ Len(loops') = k /\ loops'[k] = k
        /\ \A i \in 1 .. k - 1 : loops'[i] = loops[i]
    BY <2>1, <2>2 DEF Threads
  <2>4. PoolTypeOK'
    BY <1>1, <2>1, <2>2, <2>3, ServerAssumption
       DEF StartLoop, Threads, PoolInv, PoolTypeOK
  <2>5. LoopsNumbered'
    BY <1>1, <2>1, <2>2, <2>3 DEF StartLoop, PoolInv, PoolTypeOK, LoopsNumbered
  <2>6. ThreadsMatch'
    BY <1>1, <2>1, <2>2, <2>3 DEF StartLoop, Alive, Threads, InUse, PoolInv, ThreadsMatch
  <2> QED  BY <2>4, <2>5, <2>6 DEF PoolInv
<1>2. CASE ~Alive(k)
  <2>1. k \in Threads
    BY ServerAssumption DEF StartLoop, Threads, PoolInv, PoolTypeOK, LoopsNumbered
  <2>2. thread[k] = "started"
    BY <1>2, <2>1 DEF StartLoop, Alive, PoolInv, ThreadsMatch
  <2>3. PoolTypeOK' /\ LoopsNumbered'
    BY <1>2 DEF StartLoop, Starting, PoolInv, PoolTypeOK, LoopsNumbered
  <2>4. ThreadsMatch'
    BY <1>2, <2>1, <2>2 DEF StartLoop, InUse, PoolInv, ThreadsMatch
  <2> QED  BY <2>3, <2>4 DEF PoolInv
<1> QED  BY <1>1, <1>2

LEMMA WakeUnaskedPool ==
    ASSUME PoolInv, WakeUnasked
    PROVE  PoolInv'
<1>1. PoolTypeOK'
  BY DEF WakeUnasked, PoolInv, PoolTypeOK
<1>2. LoopsNumbered'
  BY DEF WakeUnasked, Starting, PoolInv, LoopsNumbered
<1>3. ThreadsMatch'
  BY DEF WakeUnasked, InUse, PoolInv, ThreadsMatch
<1> QED  BY <1>1, <1>2, <1>3 DEF PoolInv

LEMMA ListenPool ==
    ASSUME PoolInv, Listen
    PROVE  PoolInv'
<1>1. PoolTypeOK'
  BY DEF Listen, PoolInv, PoolTypeOK
<1>2. LoopsNumbered'
  BY DEF Listen, Starting, PoolInv, LoopsNumbered
<1>3. ThreadsMatch'
  BY DEF Listen, InUse, PoolInv, ThreadsMatch
<1> QED  BY <1>1, <1>2, <1>3 DEF PoolInv

LEMMA PublishPool ==
    ASSUME PoolInv, NEW t \in Threads, Publish(t)
    PROVE  PoolInv'
<1>1. PoolTypeOK'
  BY DEF Publish, PoolInv, PoolTypeOK
<1>2. LoopsNumbered'
  BY DEF Publish, Starting, PoolInv, LoopsNumbered
<1>3. ThreadsMatch'
  BY DEF Publish, InUse, PoolInv, ThreadsMatch
<1> QED  BY <1>1, <1>2, <1>3 DEF PoolInv

LEMMA SetRunningPool ==
    ASSUME PoolInv, NEW t \in Threads, SetRunning(t)
    PROVE  PoolInv'
<1>1. PoolTypeOK'
  BY DEF SetRunning, PoolInv, PoolTypeOK
<1>2. LoopsNumbered'
  BY DEF SetRunning, Starting, PoolInv, LoopsNumbered
<1>3. ThreadsMatch'
  BY DEF SetRunning, InUse, PoolInv, PoolTypeOK, ThreadsMatch
<1> QED  BY <1>1, <1>2, <1>3 DEF PoolInv

LEMMA EnterLoopPool ==
    ASSUME PoolInv, NEW t \in Threads, EnterLoop(t)
    PROVE  PoolInv'
<1>1. PoolTypeOK'
  BY DEF EnterLoop, PoolInv, PoolTypeOK
<1>2. LoopsNumbered'
  BY DEF EnterLoop, Starting, PoolInv, LoopsNumbered
<1>3. ThreadsMatch'
  BY DEF EnterLoop, InUse, PoolInv, ThreadsMatch
<1> QED  BY <1>1, <1>2, <1>3 DEF PoolInv

LEMMA LeaveLoopPool ==
    ASSUME PoolInv, NEW t \in Threads, LeaveLoop(t)
    PROVE  PoolInv'
<1>1. PoolTypeOK'
  BY DEF LeaveLoop, PoolInv, PoolTypeOK
<1>2. LoopsNumbered'
  BY DEF LeaveLoop, Starting, PoolInv, LoopsNumbered
<1>3. ThreadsMatch'
  BY DEF LeaveLoop, Threads, InUse, PoolInv, PoolTypeOK, LoopsNumbered, ThreadsMatch
<1> QED  BY <1>1, <1>2, <1>3 DEF PoolInv

LEMMA QuitInLoopPool ==
    ASSUME PoolInv, NEW t \in Threads, Careful, QuitInLoop(t)
    PROVE  PoolInv'
<1>0. pc \in {"waking", "joining"} /\ k = t
  BY DEF Careful, QuitInLoop
<1>1. PoolTypeOK'
  BY DEF QuitInLoop, PoolInv, PoolTypeOK
<1>2. LoopsNumbered'
  BY DEF QuitInLoop, Starting, PoolInv, LoopsNumbered
<1>3. ThreadsMatch'
  BY <1>0, ServerAssumption DEF QuitInLoop, Looping, InUse, PoolInv, ThreadsMatch
<1> QED  BY <1>1, <1>2, <1>3 DEF PoolInv

LEMMA QuitBasePool ==
    ASSUME PoolInv, Careful, QuitBase
    PROVE  PoolInv'
<1>0. \A i \in 1 .. Len(loops) : i \in Threads /\ running[i]
  <2>1. /\ \A i \in DOMAIN loops : loops[i] \in Threads
        /\ DOMAIN loops = 1 .. Len(loops)
        /\ \A i \in 1 .. Len(loops) : loops[i] = i
    BY DEF PoolInv, PoolTypeOK, LoopsNumbered
  <2>2. \A i \in DOMAIN loops : running[loops[i]]
    BY DEF Careful, QuitBase
  <2> QED  BY <2>1, <2>2
<1>1. PoolTypeOK'
  <2>1. 1 \in 1 .. MostThreads + 1
    BY ServerAssumption
  <2> QED  BY <2>1 DEF QuitBase, PoolInv, PoolTypeOK
<1>2. LoopsNumbered'
  BY DEF QuitBase, Starting, PoolInv, LoopsNumbered
<1>3. ThreadsMatch'
  <2>1. /\ pc = "looping" /\ InUse /\ Len(loops) = k - 1 /\ k \in Nat
        /\ pc' = "destroying" /\ k' = 1 /\ ~InUse'
        /\ UNCHANGED <<thread, running, done, loops>>
    <3>1. k \in Nat
      BY DEF PoolInv, PoolTypeOK
    <3> QED  BY <3>1 DEF QuitBase, InUse, PoolInv, LoopsNumbered
  <2>2. ASSUME NEW t \in Threads
        PROVE  /\ t \in Nat /\ t >= 1 /\ ~done[t]
               /\ t < k => thread[t] \in {"published", "running", "looping"}
               /\ t >= k => thread[t] = "none"
               /\ running[t] <=> thread[t] \in {"running", "looping"}
    <3>1. t \in Nat /\ t >= 1
      BY DEF Threads
    <3>2. t >= k <=> t > k \/ t = k
      BY <2>1, <3>1
    <3> QED  BY <2>1, <3>1, <3>2 DEF PoolInv, ThreadsMatch
  <2>3. ASSUME NEW t \in Threads, t =< Len(loops)
        PROVE  thread[t] \in {"running", "looping"} /\ running[t]
    BY <1>0, <2>1, <2>2, <2>3
  <2>4. ASSUME NEW t \in Threads, t > Len(loops)
        PROVE  thread[t] = "none"
    BY <2>1, <2>2, <2>4
  <2> QED  BY <2>1, <2>2, <2>3, <2>4 DEF ThreadsMatch
<1> QED  BY <1>1, <1>2, <1>3 DEF PoolInv

LEMMA QuitThreadPool ==
    ASSUME PoolInv, QuitThread
    PROVE  PoolInv'
<1>0. k \in Threads
  <2>1. loops[k] \in Threads /\ loops[k] = k
    BY DEF QuitThread, PoolInv, PoolTypeOK, LoopsNumbered
  <2> QED  BY <2>1
<1>1. PoolTypeOK'
  <2>1. k + 1 \in 1 .. MostThreads + 1 /\ freed \cup {k} \in SUBSET Threads
    BY <1>0, ServerAssumption DEF Threads, PoolInv, PoolTypeOK
  <2>2. CASE running[k]
    BY <2>2 DEF QuitThread, PoolInv, PoolTypeOK
  <2>3. CASE ~running[k]
    BY <2>1, <2>3 DEF QuitThread, PoolInv, PoolTypeOK
  <2> QED  BY <2>2, <2>3
<1>2. LoopsNumbered'
  BY DEF QuitThread, Starting, PoolInv, LoopsNumbered
<1>3. ThreadsMatch'
  <2>1. running[k] /\ thread[k] \in {"running", "looping"}
    BY <1>0 DEF QuitThread, PoolInv, ThreadsMatch
  <2>2. /\ pc = "destroying" /\ pc' = "waking" /\ UNCHANGED <<k, thread, loops>>
        /\ running' = [running EXCEPT ![k] = FALSE]
        /\ done' = [done EXCEPT ![k] = TRUE]
    BY <2>1 DEF QuitThread
  <2>3. /\ pc = "destroying" /\ pc' = "waking" /\ k' = k /\ loops' = loops /\ thread' = thread
    BY <2>2
  <2>4. k \in Nat /\ Len(loops) \in Nat
    BY <1>0 DEF Threads, PoolInv, PoolTypeOK
  <2>5. ASSUME NEW t \in Threads
        PROVE  /\ t \in Nat
               /\ t # k => running'[t] = running[t] /\ done'[t] = done[t]
    <3>1. t \in Nat
      BY DEF Threads
    <3>2. running \in [Threads -> BOOLEAN] /\ done \in [Threads -> BOOLEAN]
      BY DEF PoolInv, PoolTypeOK
    <3> QED  BY <3>1, <3>2, <2>2
  <2>6. ASSUME NEW t \in Threads
        PROVE  /\ t > Len(loops) => thread[t] = "none"
               /\ t =< Len(loops) /\ t < k => thread[t] = "ended"
               /\ t =< Len(loops) /\ t > k => thread[t] \in {"running", "looping"} /\ running[t]
               /\ done[t] => t < k
    BY <2>3 DEF InUse, PoolInv, ThreadsMatch
  <2>7. ~InUse' /\ pc' = "waking"
    BY <2>3 DEF InUse
  <2> QED  BY <2>1, <2>3, <2>4, <2>5, <2>6, <2>7 DEF ThreadsMatch
<1> QED  BY <1>1, <1>2, <1>3 DEF PoolInv

LEMMA WakeThreadPool ==
    ASSUME PoolInv, WakeThread
    PROVE  PoolInv'
<1>1. PoolTypeOK'
  BY DEF WakeThread, PoolInv, PoolTypeOK
<1>2. LoopsNumbered'
  BY DEF WakeThread, Starting, PoolInv, LoopsNumbered
<1>3. ThreadsMatch'
  BY DEF WakeThread, InUse, PoolInv, PoolTypeOK, ThreadsMatch
<1> QED  BY <1>1, <1>2, <1>3 DEF PoolInv

LEMMA JoinPool ==
    ASSUME PoolInv, Join
    PROVE  PoolInv'
<1>1. PoolTypeOK'
  BY ServerAssumption DEF Join, Threads, PoolInv, PoolTypeOK, LoopsNumbered
<1>2. LoopsNumbered'
  BY DEF Join, Starting, PoolInv, LoopsNumbered
<1>3. ThreadsMatch'
  BY DEF Join, InUse, PoolInv, PoolTypeOK, ThreadsMatch
<1> QED  BY <1>1, <1>2, <1>3 DEF PoolInv

LEMMA DestroyedPool ==
    ASSUME PoolInv, Destroyed
    PROVE  PoolInv'
<1>1. PoolTypeOK'
  BY DEF Destroyed, PoolInv, PoolTypeOK
<1>2. LoopsNumbered'
  BY DEF Destroyed, Starting, PoolInv, LoopsNumbered
<1>3. ThreadsMatch'
  BY DEF Destroyed, InUse, PoolInv, ThreadsMatch
<1> QED  BY <1>1, <1>2, <1>3 DEF PoolInv

LEMMA PoolInitial == ServerInit => PoolInv
<1> SUFFICES ASSUME ServerInit PROVE PoolInv
  OBVIOUS
<1>1. PoolTypeOK
  <2>1. /\ 1 \in 1 .. MostThreads + 1 /\ 0 \in 0 .. MostThreads
        /\ <<>> \in Seq(Threads) /\ {} \in SUBSET Threads
    BY ServerAssumption
  <2> QED  BY <2>1 DEF ServerInit, PoolTypeOK
<1>2. LoopsNumbered
  BY DEF ServerInit, LoopsNumbered
<1>3. ThreadsMatch
  BY DEF ServerInit, ThreadsMatch
<1> QED  BY <1>1, <1>2, <1>3 DEF PoolInv

\* Every other step leaves the pool alone.
LEMMA SamePool ==
    ASSUME PoolInv, UNCHANGED poolVars
    PROVE  PoolInv'
  BY DEF poolVars, InUse, Starting, PoolInv, PoolTypeOK, LoopsNumbered, ThreadsMatch

-----------------------------------------------------------------------------
(* Queues of functors *)

\* A functor is about listening or about a connection.
LEMMA FunctorKinds ==
    ASSUME NEW f \in Functors
    PROVE  \/ f = <<"listen">> /\ f[1] = "listen"
           \/ f[1] \in Kinds /\ f[2] \in Conns /\ f = <<f[1], f[2]>> /\ f # <<"listen">>
<1>1. CASE f = <<"listen">>
  BY <1>1
<1>2. CASE \E kind \in Kinds, c \in Conns : f = <<kind, c>>
  <2>1. PICK kind \in Kinds, c \in Conns : f = <<kind, c>>
    BY <1>2
  <2>2. f[1] = kind /\ f[2] = c /\ Len(f) = 2
    BY <2>1
  <2>3. f # <<"listen">>
    BY <2>2
  <2> QED  BY <2>1, <2>2, <2>3
<1> QED  BY <1>1, <1>2 DEF Functors

LEMMA FunctorOf ==
    ASSUME NEW kind \in Kinds, NEW c \in Conns
    PROVE  /\ <<kind, c>> \in Functors /\ <<kind, c>> # <<"listen">>
           /\ <<kind, c>>[1] = kind /\ <<kind, c>>[2] = c
<1>1. Len(<<kind, c>>) = 2 /\ Len(<<"listen">>) = 1
  OBVIOUS
<1> QED  BY <1>1 DEF Functors

\* What a push adds to a queue.
LEMMA Pushed ==
    ASSUME NEW s \in Seq(Functors), NEW f \in Functors
    PROVE  /\ Append(s, f) \in Seq(Functors)
           /\ \A g \in In(Append(s, f)) : g \in In(s) \/ g = f
           /\ Distinct(s) /\ (f = <<"listen">> \/ f \notin In(s)) => Distinct(Append(s, f))
<1> DEFINE t == Append(s, f)
           n == Len(s) + 1
<1>1. /\ t \in Seq(Functors) /\ Len(s) \in Nat
      /\ DOMAIN s = 1 .. Len(s) /\ DOMAIN t = 1 .. n
      /\ t[n] = f
      /\ \A i \in 1 .. Len(s) : t[i] = s[i]
  OBVIOUS
<1>2. \A g \in In(t) : g \in In(s) \/ g = f
  BY <1>1 DEF In
<1>3. ASSUME Distinct(s), f = <<"listen">> \/ f \notin In(s)
      PROVE  Distinct(t)
  <2> SUFFICES ASSUME NEW i \in 1 .. n, NEW j \in 1 .. n, t[i] = t[j], t[i] # <<"listen">>
               PROVE  i = j
    BY <1>1 DEF Distinct
  <2>1. CASE i \in 1 .. Len(s) /\ j \in 1 .. Len(s)
    BY <1>1, <1>3, <2>1 DEF Distinct
  <2>2. CASE i = n \/ j = n
    <3>1. f # <<"listen">> /\ f \notin In(s)
      BY <1>1, <1>3, <2>2
    <3>2. \A h \in 1 .. Len(s) : s[h] # f
      BY <1>1, <3>1 DEF In
    <3> QED  BY <1>1, <2>2, <3>2
  <2> QED  BY <1>1, <2>1, <2>2
<1> QED  BY <1>1, <1>2, <1>3

\* What a pop leaves of one.
LEMMA Pops ==
    ASSUME NEW s \in Seq(Functors), s # <<>>
    PROVE  /\ Tail(s) \in Seq(Functors) /\ In(Tail(s)) \subseteq In(s)
           /\ s[1] \in Functors /\ s[1] \in In(s)
           /\ Distinct(s) => /\ Distinct(Tail(s))
                             /\ s[1] # <<"listen">> => s[1] \notin In(Tail(s))
<1>1. /\ Tail(s) \in Seq(Functors) /\ s[1] \in Functors
      /\ DOMAIN s = 1 .. Len(s) /\ Len(s) \in Nat \ {0}
      /\ DOMAIN Tail(s) = 1 .. Len(s) - 1
      /\ \A i \in 1 .. Len(s) - 1 : Tail(s)[i] = s[i + 1]
  OBVIOUS
<1>2. \A i \in 1 .. Len(s) - 1 : i + 1 \in 1 .. Len(s) /\ i + 1 # 1
  BY <1>1
<1>3. In(Tail(s)) \subseteq In(s) /\ s[1] \in In(s)
  BY <1>1, <1>2 DEF In
<1>4. ASSUME Distinct(s)
      PROVE  Distinct(Tail(s))
  BY <1>1, <1>2, <1>4 DEF Distinct
<1>5. ASSUME Distinct(s), s[1] # <<"listen">>
      PROVE  s[1] \notin In(Tail(s))
  BY <1>1, <1>2, <1>5 DEF Distinct, In
<1> QED  BY <1>1, <1>3, <1>4, <1>5

-----------------------------------------------------------------------------
(* Connections *)

\* Nothing is queued about a connection that is new, established or forgotten.
LEMMA NoneQueued ==
    ASSUME ConnInv, NEW l \in Loops, NEW f \in In(pending[l]), f # <<"listen">>,
           conn[f[2]] \in {"none", "connected", "closed"}
    PROVE  FALSE
<1>1. f \in Functors
  BY DEF In, ConnInv, ConnTypeOK
<1>2. f[1] \in Kinds /\ Fits(l, f)
  BY <1>1, FunctorKinds DEF ConnInv, FunctorsMatch
<1> QED  BY <1>2 DEF Fits, Kinds

\* There is no second functor about the same connection.
LEMMA OneQueued ==
    ASSUME ConnInv, pc # "gone",
           NEW l \in Loops, NEW f \in In(pending[l]), f # <<"listen">>,
           NEW m \in Loops, NEW g \in In(pending[m]), g # <<"listen">>, f[2] = g[2]
    PROVE  l = m /\ f = g
<1>1. f \in Functors /\ g \in Functors
  BY DEF In, ConnInv, ConnTypeOK
<1>2. /\ f[1] \in Kinds /\ f = <<f[1], f[2]>> /\ Fits(l, f)
      /\ g[1] \in Kinds /\ g = <<g[1], g[2]>> /\ Fits(m, g)
  BY <1>1, FunctorKinds DEF ConnInv, FunctorsMatch
<1>3. f[1] = g[1] /\ l = m
  BY <1>2 DEF Fits, Kinds
<1> QED  BY <1>2, <1>3

\* What is in the queues after a step, if what was there still fits.
LEMMA StillFit ==
    ASSUME ConnInv, pc = "gone" => pc' = "gone",
           \A l \in Loops : Distinct(pending'[l]),
           \A l \in Loops : \A f \in In(pending'[l]) :
               \/ Fits(l, f)'
               \/ /\ f \in In(pending[l])
                  /\ f # <<"listen">> => /\ conn'[f[2]] = conn[f[2]]
                                         /\ loopOf'[f[2]] = loopOf[f[2]]
                                         /\ f[2] \in connections' <=> f[2] \in connections
    PROVE  FunctorsMatch'
<1> SUFFICES ASSUME NEW l \in Loops, NEW f \in In(pending[l]),
                    f # <<"listen">> => /\ conn'[f[2]] = conn[f[2]]
                                        /\ loopOf'[f[2]] = loopOf[f[2]]
                                        /\ f[2] \in connections' <=> f[2] \in connections
             PROVE  Fits(l, f)'
  BY DEF FunctorsMatch
<1>1. Fits(l, f)
  BY DEF ConnInv, FunctorsMatch
<1>2. <<"listen">>[1] = "listen"
  OBVIOUS
<1> QED  BY <1>1, <1>2 DEF Fits

\* A step that leaves the connections and the queues alone.
LEMMA SameConns ==
    ASSUME PoolInv, ConnInv, UNCHANGED <<connVars, pending>>,
           pc = "gone" => pc' = "gone", Starting' => Starting,
           Len(loops') \in Nat /\ Len(loops') >= Len(loops)
    PROVE  ConnInv'
<1>1. ConnTypeOK'
  BY DEF connVars, ConnInv, ConnTypeOK
<1>2. FunctorsMatch'
  BY DEF connVars, Fits, ConnInv, FunctorsMatch
<1>3. Len(loops) \in Nat
  BY DEF PoolInv, PoolTypeOK
<1>4. MapMatches'
  BY <1>3 DEF connVars, ConnInv, MapMatches
<1> QED  BY <1>1, <1>2, <1>4 DEF ConnInv

\* A pool that is destroyed runs nothing.
LEMMA NothingRunsAtTheEnd ==
    ASSUME PoolInv, NEW l \in Loops, Looping(l)
    PROVE  pc # "gone"
<1>1. CASE l = 0
  BY <1>1 DEF Looping
<1>2. CASE l # 0
  <2>1. l \in Threads
    BY <1>2, ServerAssumption DEF Loops, Threads
  <2>2. thread[l] = "looping"
    BY <1>2 DEF Looping
  <2> QED  BY <2>1, <2>2, ServerAssumption
              DEF InUse, Threads, PoolInv, PoolTypeOK, LoopsNumbered, ThreadsMatch
<1> QED  BY <1>1, <1>2

\* In use, the loops of the pool and the base loop exist.
LEMMA LoopsExist ==
    ASSUME PoolInv, InUse, NEW l \in 0 .. Len(loops)
    PROVE  l \in Loops /\ Alive(l)
<1>1. CASE l = 0
  BY <1>1, ServerAssumption DEF Loops, Alive
<1>2. CASE l # 0
  <2>1. l \in DOMAIN loops /\ loops[l] = l /\ loops[l] \in Threads
    BY <1>2 DEF PoolInv, PoolTypeOK, LoopsNumbered
  <2>2. l < k
    BY <1>2, ServerAssumption DEF InUse, Starting, PoolInv, PoolTypeOK, LoopsNumbered
  <2>3. thread[l] \in {"published", "running", "looping"}
    BY <2>1, <2>2 DEF PoolInv, ThreadsMatch
  <2> QED  BY <2>1, <2>3, ServerAssumption DEF Loops, Threads, Alive
<1> QED  BY <1>1, <1>2

LEMMA ConnInitial == ServerInit => ConnInv
<1> SUFFICES ASSUME ServerInit PROVE ConnInv
  OBVIOUS
<1>1. <<>> \in Seq(Functors) /\ In(<<>>) = {} /\ Distinct(<<>>) /\ 0 \in Loops
  BY ServerAssumption DEF In, Distinct, Loops
<1>2. ConnTypeOK
  BY <1>1 DEF ServerInit, ConnTypeOK
<1>3. FunctorsMatch
  BY <1>1 DEF ServerInit, FunctorsMatch
<1>4. MapMatches
  BY DEF ServerInit, MapMatches
<1> QED  BY <1>2, <1>3, <1>4 DEF ConnInv

\* A start in another thread leaves listening to the loop.
LEMMA ForeignStartKeeps ==
    ASSUME PoolInv, ConnInv, sound, Careful, ForeignStart
    PROVE  ConnInv' /\ sound'
<1>1. started /\ sound'
  BY DEF Careful, ForeignStart, Assert
<1>2. UNCHANGED <<poolVars, connVars>>
  BY DEF ForeignStart
<1>3. CASE listening
  <2>1. pending' = pending
    BY <1>3 DEF ForeignStart
  <2> QED  BY <1>1, <1>2, <2>1, SameConns DEF poolVars, Starting, PoolInv, PoolTypeOK
<1>4. CASE ~listening
  <2>1. pending' = [pending EXCEPT ![0] = Append(@, <<"listen">>)]
    BY <1>4 DEF ForeignStart
  <2>2. /\ pending \in [Loops -> Seq(Functors)] /\ \A l \in Loops : Distinct(pending[l])
        /\ 0 \in Loops /\ <<"listen">> \in Functors /\ <<"listen">>[1] = "listen"
    BY ServerAssumption DEF Loops, Functors, ConnInv, ConnTypeOK, FunctorsMatch
  <2>3. PICK f \in Functors : f = <<"listen">>
    BY <2>2
  <2>4. /\ pending' \in [Loops -> Seq(Functors)]
        /\ \A l \in Loops : Distinct(pending'[l])
        /\ \A l \in Loops : \A g \in In(pending'[l]) : g \in In(pending[l]) \/ g = f
    <3>1. pending' \in [Loops -> Seq(Functors)]
      BY <2>1, <2>2
    <3>2. /\ pending'[0] = Append(pending[0], f)
          /\ \A l \in Loops : l # 0 => pending'[l] = pending[l]
      BY <2>1, <2>2, <2>3
    <3>3. pending[0] \in Seq(Functors) /\ Distinct(pending[0])
      BY <2>2
    <3>4. /\ Distinct(pending'[0])
          /\ \A g \in In(pending'[0]) : g \in In(pending[0]) \/ g = f
      BY <2>3, <3>2, <3>3, Pushed
    <3> QED  BY <2>2, <3>1, <3>2, <3>4
  <2>5. \A l \in Loops : Fits(l, f)'
    BY <2>2, <2>3 DEF Fits
  <2>6. UNCHANGED <<pc, conn, loopOf, connections>>
    BY <1>2 DEF poolVars, connVars
  <2>7. FunctorsMatch'
    BY <2>4, <2>5, <2>6, StillFit
  <2>8. ConnTypeOK' /\ MapMatches'
    BY <1>2, <2>4 DEF poolVars, connVars, Starting, ConnInv, ConnTypeOK, MapMatches
  <2> QED  BY <1>1, <2>7, <2>8 DEF ConnInv
<1> QED  BY <1>3, <1>4

\* The functors of a loop that ends are dropped.
LEMMA LeaveLoopKeeps ==
    ASSUME PoolInv, ConnInv, NEW t \in Threads, LeaveLoop(t)
    PROVE  ConnInv'
<1>1. /\ UNCHANGED <<pc, loops, connVars>>
      /\ pending' = [pending EXCEPT ![t] = <<>>]
  BY DEF LeaveLoop
<1>2. <<>> \in Seq(Functors) /\ In(<<>>) = {} /\ Distinct(<<>>)
  BY DEF In, Distinct
<1>3. ConnTypeOK'
  BY <1>1, <1>2 DEF connVars, ConnInv, ConnTypeOK
<1>4. \A l \in Loops : pending'[l] = pending[l] \/ pending'[l] = <<>>
  BY <1>1 DEF ConnInv, ConnTypeOK
<1>5. FunctorsMatch'
  BY <1>1, <1>2, <1>4 DEF connVars, Fits, ConnInv, FunctorsMatch
<1>6. MapMatches'
  BY <1>1 DEF connVars, Starting, ConnInv, MapMatches
<1> QED  BY <1>3, <1>5, <1>6 DEF ConnInv

\* The connections that are left are forgotten with the server.
LEMMA DestroyedKeeps ==
    ASSUME PoolInv, ConnInv, Destroyed
    PROVE  ConnInv'
<1>1. /\ pc' = "gone" /\ connections' = {}
      /\ UNCHANGED <<loops, next, loopOf, conn, pending>>
  BY DEF Destroyed
<1>2. ConnTypeOK' /\ MapMatches'
  BY <1>1 DEF Starting, ConnInv, ConnTypeOK, MapMatches
<1>3. FunctorsMatch'
  BY <1>1 DEF Fits, ConnInv, FunctorsMatch
<1> QED  BY <1>2, <1>3 DEF ConnInv

\* A new connection goes to a loop that exists, and the map did not have it.
LEMMA NewConnectionKeeps ==
    ASSUME PoolInv, ConnInv, RoundInv, sound, NEW c \in Conns, NewConnection(c)
    PROVE  /\ ConnInv' /\ sound'
           /\ loopOf'[c] = GetNextLoop /\ GetNextLoop \in 0 .. Len(loops)
<1>1. /\ pc = "looping" /\ InUse /\ conn[c] = "none" /\ c \notin connections
      /\ Len(loops) \in Nat
  BY DEF NewConnection, InUse, PoolInv, PoolTypeOK, ConnInv, MapMatches
<1>2. GetNextLoop \in 0 .. Len(loops)
  <2>1. CASE loops = <<>>
    BY <1>1, <2>1 DEF GetNextLoop
  <2>2. CASE loops # <<>>
    <3>1. next + 1 \in 1 .. Len(loops)
      BY <1>1, <2>2 DEF RoundInv, ConnInv, ConnTypeOK
    <3> QED  BY <2>2, <3>1 DEF GetNextLoop, PoolInv, LoopsNumbered
  <2> QED  BY <2>1, <2>2
<1>0. PICK l \in 0 .. Len(loops) : l = GetNextLoop
  BY <1>2
<1>3. l \in Loops /\ Alive(l)
  BY <1>1, LoopsExist
<1>4. sound'
  BY <1>0, <1>1, <1>3 DEF NewConnection, Assert
<1>5. /\ UNCHANGED poolVars
      /\ loopOf' = [loopOf EXCEPT ![c] = l]
      /\ connections' = connections \cup {c}
      /\ conn' = [conn EXCEPT ![c] = IF l = 0 THEN "connected" ELSE "connecting"]
      /\ pending' = IF l = 0 THEN pending
                    ELSE [pending EXCEPT ![l] = Append(@, <<"established", c>>)]
      /\ next' = Advanced
  BY <1>0 DEF NewConnection
<1>6. PICK f \in Functors : /\ f = <<"established", c>> /\ f # <<"listen">>
                           /\ f[1] = "established" /\ f[2] = c
  <2>1. "established" \in Kinds
    BY DEF Kinds
  <2> QED  BY <2>1, FunctorOf
<1>7. f \notin In(pending[l])
  BY <1>1, <1>3, <1>6, NoneQueued
<1>8. /\ pending' \in [Loops -> Seq(Functors)] /\ \A m \in Loops : Distinct(pending'[m])
      /\ \A m \in Loops : \A g \in In(pending'[m]) :
             g \in In(pending[m]) \/ (m = l /\ g = f /\ l # 0)
  <2>1. pending \in [Loops -> Seq(Functors)] /\ \A m \in Loops : Distinct(pending[m])
    BY DEF ConnInv, ConnTypeOK, FunctorsMatch
  <2>2. CASE l = 0
    BY <1>5, <2>1, <2>2
  <2>3. CASE l # 0
    <3>1. pending' = [pending EXCEPT ![l] = Append(@, f)]
      BY <1>5, <1>6, <2>3
    <3>2. pending' \in [Loops -> Seq(Functors)]
      BY <1>3, <2>1, <3>1
    <3>3. /\ pending'[l] = Append(pending[l], f)
          /\ \A m \in Loops : m # l => pending'[m] = pending[m]
      BY <1>3, <2>1, <3>1
    <3>4. pending[l] \in Seq(Functors) /\ Distinct(pending[l])
      BY <1>3, <2>1
    <3>5. /\ Distinct(pending'[l])
          /\ \A g \in In(pending'[l]) : g \in In(pending[l]) \/ g = f
      BY <1>7, <3>3, <3>4, Pushed
    <3> QED  BY <2>1, <2>3, <3>2, <3>3, <3>5
  <2> QED  BY <2>2, <2>3
<1>9. ConnTypeOK'
  <2>1. next' \in Nat
    BY <1>5 DEF Advanced, ConnInv, ConnTypeOK
  <2> QED  BY <1>3, <1>5, <1>8, <2>1 DEF ConnInv, ConnTypeOK
<1>10. FunctorsMatch'
  <2>1. l # 0 => Fits(l, f)'
    BY <1>3, <1>5, <1>6 DEF Fits, ConnInv, ConnTypeOK
  <2>2. ASSUME NEW m \in Loops, NEW g \in In(pending[m]), g # <<"listen">>
        PROVE  g[2] # c /\ g[2] \in Conns
    <3>1. g \in Functors
      BY DEF In, ConnInv, ConnTypeOK
    <3> QED  BY <1>1, <2>2, <3>1, FunctorKinds, NoneQueued
  <2>3. \A m \in Loops : \A g \in In(pending[m]) :
           g # <<"listen">> => /\ conn'[g[2]] = conn[g[2]] /\ loopOf'[g[2]] = loopOf[g[2]]
                               /\ g[2] \in connections' <=> g[2] \in connections
    BY <1>5, <2>2 DEF ConnInv, ConnTypeOK
  <2>4. pc' = pc
    BY <1>5 DEF poolVars
  <2> QED  BY <1>8, <2>1, <2>3, <2>4, StillFit
<1>11. MapMatches'
  BY <1>1, <1>3, <1>5 DEF poolVars, Starting, ConnInv, ConnTypeOK, MapMatches
<1>12. loopOf'[c] = l
  BY <1>3, <1>5 DEF ConnInv, ConnTypeOK
<1> QED  BY <1>0, <1>2, <1>4, <1>9, <1>10, <1>11, <1>12 DEF ConnInv

\* The first functor fits, and nothing else is queued about its connection.
LEMMA PoppedAt ==
    ASSUME ConnInv, NEW l \in Loops, pending[l] # <<>>, pc # "gone"
    PROVE  /\ Popped(l) \in [Loops -> Seq(Functors)]
           /\ \A m \in Loops : /\ Distinct(Popped(l)[m])
                               /\ In(Popped(l)[m]) \subseteq In(pending[m])
           /\ pending[l][1] \in Functors /\ Fits(l, pending[l][1])
           /\ pending[l][1] # <<"listen">> =>
                  \A m \in Loops : \A g \in In(Popped(l)[m]) :
                      g # <<"listen">> => g[2] # pending[l][1][2]
<1>1. /\ pending \in [Loops -> Seq(Functors)]
      /\ \A m \in Loops : Distinct(pending[m]) /\ \A f \in In(pending[m]) : Fits(m, f)
  BY DEF ConnInv, ConnTypeOK, FunctorsMatch
<1>2. pending[l] \in Seq(Functors) /\ Distinct(pending[l])
  BY <1>1
<1>3. /\ Tail(pending[l]) \in Seq(Functors) /\ In(Tail(pending[l])) \subseteq In(pending[l])
      /\ pending[l][1] \in Functors /\ pending[l][1] \in In(pending[l])
      /\ Distinct(Tail(pending[l]))
      /\ pending[l][1] # <<"listen">> => pending[l][1] \notin In(Tail(pending[l]))
  BY <1>2, Pops
<1>4. /\ Popped(l) \in [Loops -> Seq(Functors)]
      /\ Popped(l)[l] = Tail(pending[l])
      /\ \A m \in Loops : m # l => Popped(l)[m] = pending[m]
  BY <1>1, <1>3 DEF Popped
<1>5. \A m \in Loops : Distinct(Popped(l)[m]) /\ In(Popped(l)[m]) \subseteq In(pending[m])
  BY <1>1, <1>3, <1>4
<1>6. ASSUME pending[l][1] # <<"listen">>, NEW m \in Loops, NEW g \in In(Popped(l)[m]),
             g # <<"listen">>, g[2] = pending[l][1][2]
      PROVE  FALSE
  <2>1. g \in In(pending[m])
    BY <1>5
  <2>2. m = l /\ g = pending[l][1]
    BY <1>3, <1>6, <2>1, OneQueued
  <2> QED  BY <1>3, <1>4, <1>6, <2>2
<1> QED  BY <1>1, <1>3, <1>4, <1>5, <1>6

LEMMA RunListenKeeps ==
    ASSUME PoolInv, ConnInv, RunListen
    PROVE  ConnInv'
<1>1. 0 \in Loops /\ pc # "gone" /\ pending[0] # <<>>
  BY ServerAssumption DEF RunListen, First, Looping, Loops
<1>2. /\ UNCHANGED <<pc, loops, next, conn, loopOf, connections>> /\ pending' = Popped(0)
  BY DEF RunListen, poolVars, connVars
<1>3. ConnTypeOK'
  BY <1>1, <1>2, PoppedAt DEF ConnInv, ConnTypeOK
<1>4. FunctorsMatch'
  BY <1>1, <1>2, PoppedAt, StillFit
<1>5. MapMatches'
  BY <1>2 DEF Starting, ConnInv, MapMatches
<1> QED  BY <1>3, <1>4, <1>5 DEF ConnInv

\* connectionEstablished finds the connection connecting.
LEMMA RunEstablishedKeeps ==
    ASSUME PoolInv, ConnInv, sound, NEW l \in Loops, RunEstablished(l)
    PROVE  ConnInv' /\ sound' /\ \A c \in Conns : conn'[c] = "none" <=> conn[c] = "none"
<1>1. pc # "gone" /\ pending[l] # <<>> /\ pending[l][1][1] = "established"
  BY NothingRunsAtTheEnd DEF RunEstablished, First
<1>2. PICK c \in Conns : /\ c = pending[l][1][2] /\ conn[c] = "connecting"
                         /\ pending[l][1] # <<"listen">>
  <2>1. pending[l][1] \in Functors /\ Fits(l, pending[l][1])
    BY <1>1, PoppedAt
  <2> QED  BY <1>1, <2>1, FunctorKinds DEF Fits
<1>3. /\ UNCHANGED <<pc, loops, next, loopOf, connections>> /\ pending' = Popped(l)
      /\ conn' = [conn EXCEPT ![c] = "connected"]
  BY <1>2 DEF RunEstablished, poolVars
<1>4. sound'
  BY <1>2 DEF RunEstablished, Assert
<1>5. ConnTypeOK'
  BY <1>1, <1>3, PoppedAt DEF ConnInv, ConnTypeOK
<1>6. FunctorsMatch'
  <2>1. \A m \in Loops : Distinct(pending'[m]) /\ In(pending'[m]) \subseteq In(pending[m])
    BY <1>1, <1>3, PoppedAt
  <2>2. ASSUME NEW m \in Loops, NEW g \in In(pending'[m]), g # <<"listen">>
        PROVE  conn'[g[2]] = conn[g[2]]
    <3>1. g[2] # c
      BY <1>1, <1>2, <1>3, <2>2, PoppedAt
    <3> QED  BY <1>3, <3>1, <2>1, <2>2, <1>2 DEF ConnInv, ConnTypeOK
  <2> QED  BY <1>3, <2>1, <2>2, StillFit
<1>7. MapMatches'
  BY <1>2, <1>3 DEF Starting, ConnInv, ConnTypeOK, MapMatches
<1>8. \A d \in Conns : conn'[d] = "none" <=> conn[d] = "none"
  BY <1>2, <1>3 DEF ConnInv, ConnTypeOK
<1> QED  BY <1>4, <1>5, <1>6, <1>7, <1>8 DEF ConnInv

\* connectionClosed finds it closing.
LEMMA RunClosedKeeps ==
    ASSUME PoolInv, ConnInv, sound, NEW l \in Loops, RunClosed(l)
    PROVE  ConnInv' /\ sound' /\ \A c \in Conns : conn'[c] = "none" <=> conn[c] = "none"
<1>1. pc # "gone" /\ pending[l] # <<>> /\ pending[l][1][1] = "closed"
  BY NothingRunsAtTheEnd DEF RunClosed, First
<1>2. PICK c \in Conns : /\ c = pending[l][1][2] /\ conn[c] = "closing" /\ c \notin connections
                         /\ pending[l][1] # <<"listen">>
  <2>1. pending[l][1] \in Functors /\ Fits(l, pending[l][1])
    BY <1>1, PoppedAt
  <2> QED  BY <1>1, <2>1, FunctorKinds DEF Fits
<1>3. /\ UNCHANGED <<pc, loops, next, loopOf, connections>> /\ pending' = Popped(l)
      /\ conn' = [conn EXCEPT ![c] = "closed"]
  BY <1>2 DEF RunClosed, poolVars
<1>4. sound'
  BY <1>2 DEF RunClosed, Assert
<1>5. ConnTypeOK'
  BY <1>1, <1>3, PoppedAt DEF ConnInv, ConnTypeOK
<1>6. FunctorsMatch'
  <2>1. \A m \in Loops : Distinct(pending'[m]) /\ In(pending'[m]) \subseteq In(pending[m])
    BY <1>1, <1>3, PoppedAt
  <2>2. ASSUME NEW m \in Loops, NEW g \in In(pending'[m]), g # <<"listen">>
        PROVE  conn'[g[2]] = conn[g[2]]
    <3>1. g[2] # c
      BY <1>1, <1>2, <1>3, <2>2, PoppedAt
    <3> QED  BY <1>3, <3>1, <2>1, <2>2, <1>2 DEF ConnInv, ConnTypeOK
  <2> QED  BY <1>3, <2>1, <2>2, StillFit
<1>7. MapMatches'
  BY <1>2, <1>3 DEF Starting, ConnInv, ConnTypeOK, MapMatches
<1>8. \A d \in Conns : conn'[d] = "none" <=> conn[d] = "none"
  BY <1>2, <1>3 DEF ConnInv, ConnTypeOK
<1> QED  BY <1>4, <1>5, <1>6, <1>7, <1>8 DEF ConnInv

\* removeConnectionInLoop, when nothing else is queued about the connection.
LEMMA RemoveKeeps ==
    ASSUME PoolInv, ConnInv, sound, pc = "looping",
           NEW c \in connections, conn[c] \in {"connected", "closing"},
           NEW Q \in [Loops -> Seq(Functors)],
           \A m \in Loops : /\ Distinct(Q[m]) /\ In(Q[m]) \subseteq In(pending[m])
                            /\ \A g \in In(Q[m]) : g # <<"listen">> => g[2] # c,
           RemoveConnectionInLoop(c, Q),
           conn' = [conn EXCEPT ![c] = "closing"],
           UNCHANGED <<pc, loops, next, loopOf>>
    PROVE  ConnInv' /\ sound'
<1>0. c \in Conns
  BY DEF ConnInv, ConnTypeOK
<1>1. PICK l \in Loops : l = loopOf[c] /\ Alive(l)
  <2>1. loopOf[c] \in 0 .. Len(loops) /\ InUse
    BY <1>0 DEF InUse, ConnInv, MapMatches
  <2> QED  BY <2>1, LoopsExist
<1>2. sound'
  BY <1>1 DEF RemoveConnectionInLoop, Assert
<1>3. PICK f \in Functors : /\ f = <<"closed", c>> /\ f # <<"listen">>
                           /\ f[1] = "closed" /\ f[2] = c
  <2>1. "closed" \in Kinds
    BY DEF Kinds
  <2> QED  BY <1>0, <2>1, FunctorOf
<1>4. /\ connections' = connections \ {c}
      /\ pending' = [Q EXCEPT ![l] = Append(@, f)]
  BY <1>1, <1>3 DEF RemoveConnectionInLoop
<1>5. pending' \in [Loops -> Seq(Functors)]
  BY <1>4
<1>6. pending'[l] = Append(Q[l], f) /\ \A m \in Loops : m # l => pending'[m] = Q[m]
  BY <1>4
<1>7. Q[l] \in Seq(Functors) /\ Distinct(Q[l]) /\ f \notin In(Q[l])
  BY <1>3
<1>8. /\ Distinct(pending'[l])
      /\ \A g \in In(pending'[l]) : g \in In(Q[l]) \/ g = f
  BY <1>6, <1>7, Pushed
<1>9. ConnTypeOK'
  BY <1>0, <1>4, <1>5 DEF ConnInv, ConnTypeOK
<1>10. FunctorsMatch'
  <2>1. Fits(l, f)'
    BY <1>0, <1>1, <1>3, <1>4 DEF Fits, ConnInv, ConnTypeOK
  <2>2. ASSUME NEW m \in Loops, NEW g \in In(Q[m])
        PROVE  /\ g \in In(pending[m])
               /\ g # <<"listen">> => /\ conn'[g[2]] = conn[g[2]]
                                      /\ loopOf'[g[2]] = loopOf[g[2]]
                                      /\ g[2] \in connections' <=> g[2] \in connections
    <3>1. g \in Functors
      BY DEF In
    <3>2. g # <<"listen">> => g[2] \in Conns /\ g[2] # c
      BY <3>1, FunctorKinds
    <3> QED  BY <1>4, <3>2 DEF ConnInv, ConnTypeOK
  <2>3. \A m \in Loops : Distinct(pending'[m])
    BY <1>6, <1>8
  <2>4. \A m \in Loops : \A g \in In(pending'[m]) : g \in In(Q[m]) \/ (m = l /\ g = f)
    BY <1>6, <1>8
  <2> QED  BY <2>1, <2>2, <2>3, <2>4, StillFit
<1>11. MapMatches'
  BY <1>0, <1>4 DEF Starting, ConnInv, ConnTypeOK, MapMatches
<1> QED  BY <1>2, <1>9, <1>10, <1>11 DEF ConnInv

LEMMA RunRemoveKeeps ==
    ASSUME PoolInv, ConnInv, sound, RunRemove
    PROVE  ConnInv' /\ sound' /\ UNCHANGED conn
<1>1. 0 \in Loops /\ pc = "looping" /\ pending[0] # <<>> /\ pending[0][1][1] = "remove"
  BY ServerAssumption DEF RunRemove, First, Looping, Loops
<1>2. PICK c \in Conns : /\ c = pending[0][1][2] /\ conn[c] = "closing" /\ c \in connections
                         /\ pending[0][1] # <<"listen">>
  <2>1. pending[0][1] \in Functors /\ Fits(0, pending[0][1])
    BY <1>1, PoppedAt
  <2> QED  BY <1>1, <2>1, FunctorKinds DEF Fits
<1>3. /\ UNCHANGED <<pc, loops, next, loopOf, conn>>
      /\ RemoveConnectionInLoop(c, Popped(0))
  BY <1>2 DEF RunRemove, poolVars
<1>4. conn' = [conn EXCEPT ![c] = "closing"]
  BY <1>2, <1>3 DEF ConnInv, ConnTypeOK
<1>5. /\ Popped(0) \in [Loops -> Seq(Functors)]
      /\ \A m \in Loops :
             /\ Distinct(Popped(0)[m]) /\ In(Popped(0)[m]) \subseteq In(pending[m])
             /\ \A g \in In(Popped(0)[m]) : g # <<"listen">> => g[2] # c
  BY <1>1, <1>2, PoppedAt
<1> QED  BY <1>1, <1>2, <1>3, <1>4, <1>5, RemoveKeeps

\* handleClose asks the base loop to remove the connection, or does it there.
LEMMA HandleCloseKeeps ==
    ASSUME PoolInv, ConnInv, sound, NEW c \in Conns, HandleClose(c)
    PROVE  ConnInv' /\ sound' /\ \A d \in Conns : conn'[d] = "none" <=> conn[d] = "none"
<1>1. /\ conn[c] = "connected" /\ pc # "gone" /\ c \in connections
      /\ conn' = [conn EXCEPT ![c] = "closing"]
      /\ UNCHANGED <<pc, loops, next, loopOf>>
  BY NothingRunsAtTheEnd DEF HandleClose, poolVars, ConnInv, ConnTypeOK, MapMatches
<1>2. \A d \in Conns : conn'[d] = "none" <=> conn[d] = "none"
  BY <1>1 DEF ConnInv, ConnTypeOK
<1>3. \A m \in Loops : \A g \in In(pending[m]) : g # <<"listen">> => g[2] # c
  BY <1>1, NoneQueued
<1>4. pending \in [Loops -> Seq(Functors)] /\ \A m \in Loops : Distinct(pending[m])
  BY DEF ConnInv, ConnTypeOK, FunctorsMatch
<1>5. CASE loopOf[c] = 0
  <2>1. pc = "looping" /\ RemoveConnectionInLoop(c, pending)
    BY <1>5 DEF HandleClose, Looping
  <2> QED  BY <1>1, <1>2, <1>3, <1>4, <2>1, RemoveKeeps
<1>6. CASE loopOf[c] # 0
  <2>1. PICK f \in Functors : /\ f = <<"remove", c>> /\ f # <<"listen">>
                              /\ f[1] = "remove" /\ f[2] = c
    <3>1. "remove" \in Kinds
      BY DEF Kinds
    <3> QED  BY <3>1, FunctorOf
  <2>2. /\ pending' = [pending EXCEPT ![0] = Append(@, f)] /\ 0 \in Loops
        /\ UNCHANGED <<connections, sound>>
    BY <1>6, <2>1, ServerAssumption DEF HandleClose, Loops
  <2>3. pending' \in [Loops -> Seq(Functors)]
    BY <1>4, <2>2
  <2>4. /\ pending'[0] = Append(pending[0], f)
        /\ \A m \in Loops : m # 0 => pending'[m] = pending[m]
    BY <1>4, <2>2
  <2>5. pending[0] \in Seq(Functors) /\ Distinct(pending[0]) /\ f \notin In(pending[0])
    BY <1>3, <1>4, <2>1, <2>2
  <2>6. /\ Distinct(pending'[0])
        /\ \A g \in In(pending'[0]) : g \in In(pending[0]) \/ g = f
    BY <2>4, <2>5, Pushed
  <2>7. ConnTypeOK'
    BY <1>1, <2>2, <2>3 DEF ConnInv, ConnTypeOK
  <2>8. FunctorsMatch'
    <3>1. Fits(0, f)'
      BY <1>1, <2>1, <2>2 DEF Fits, ConnInv, ConnTypeOK
    <3>2. ASSUME NEW m \in Loops, NEW g \in In(pending[m]), g # <<"listen">>
          PROVE  conn'[g[2]] = conn[g[2]]
      <4>1. g \in Functors
        BY <1>4 DEF In
      <4>2. g[2] \in Conns /\ g[2] # c
        BY <1>3, <3>2, <4>1, FunctorKinds
      <4> QED  BY <1>1, <4>2 DEF ConnInv, ConnTypeOK
    <3>3. \A m \in Loops : Distinct(pending'[m])
      BY <1>4, <2>4, <2>6
    <3>4. \A m \in Loops : \A g \in In(pending'[m]) : g \in In(pending[m]) \/ (m = 0 /\ g = f)
      BY <2>4, <2>6
    <3> QED  BY <1>1, <2>2, <3>1, <3>2, <3>3, <3>4, StillFit
  <2>9. MapMatches'
    BY <1>1, <2>2 DEF Starting, ConnInv, ConnTypeOK, MapMatches
  <2> QED  BY <1>2, <2>2, <2>7, <2>8, <2>9 DEF ConnInv
<1> QED  BY <1>5, <1>6

-----------------------------------------------------------------------------
(* Rounds *)

LEMMA RoundInitial == ServerInit => RoundInv
<1> SUFFICES ASSUME ServerInit PROVE RoundInv
  OBVIOUS
<1>1. Shared(0)
  BY DEF ServerInit, Shared
<1> QED  BY <1>1 DEF ServerInit, RoundInv

\* A step that accepts no connection.
LEMMA SameRound ==
    ASSUME RoundInv, \A c \in Conns : conn'[c] = "none" <=> conn[c] = "none",
           UNCHANGED <<loops, next, loopOf>>, Starting' => Starting
    PROVE  RoundInv'
<1>1. \A l : Assigned(l)' = Assigned(l)
  BY DEF Assigned
<1>2. PICK m \in Nat : Shared(m)
  BY DEF RoundInv
<1>3. Shared(m)'
  BY <1>1, <1>2 DEF Shared
<1> QED  BY <1>3 DEF RoundInv

\* While the pool starts there are no connections to share.
LEMMA EarlyRound ==
    ASSUME RoundInv, MapMatches', Starting, Starting', next' = next, loops' \in Seq(Threads)
    PROVE  RoundInv'
<1>1. next' = 0
  BY DEF RoundInv
<1>2. \A l : Assigned(l)' = {}
  BY DEF Assigned, MapMatches
<1>3. Cardinality({}) = 0
  BY FS_EmptySet
<1>4. Shared(0)'
  <2>1. \A l \in 1 .. Len(loops') : ~(l =< 0)
    OBVIOUS
  <2> QED  BY <1>1, <1>2, <1>3, <2>1 DEF Shared
<1>5. loops' # <<>> => Len(loops') > 0
  OBVIOUS
<1> QED  BY <1>1, <1>4, <1>5 DEF RoundInv

LEMMA NewConnectionRound ==
    ASSUME PoolInv, ConnInv, RoundInv, NEW c \in Conns, NewConnection(c)
    PROVE  RoundInv'
<1>1. /\ pc = "looping" /\ conn[c] = "none" /\ next' = Advanced
      /\ loopOf' = [loopOf EXCEPT ![c] = GetNextLoop]
      /\ \A d \in Conns : d # c => conn'[d] = conn[d]
      /\ conn'[c] # "none"
      /\ UNCHANGED <<pc, loops>>
  BY DEF NewConnection, poolVars, ConnInv, ConnTypeOK
<1>2. loopOf \in [Conns -> Loops] /\ next \in Nat /\ Len(loops) \in Nat
  BY DEF PoolInv, PoolTypeOK, ConnInv, ConnTypeOK
<1>3. CASE loops = <<>>
  <2>1. next' = 0
    BY <1>1, <1>3 DEF Advanced
  <2>2. Shared(0)'
    BY <1>1, <1>3 DEF Shared
  <2> QED  BY <1>1, <1>3, <2>1, <2>2 DEF RoundInv
<1>4. CASE loops # <<>>
  <2>1. PICK n \in Nat : n = next
    BY <1>2
  <2>2. n < Len(loops) /\ n + 1 \in 1 .. Len(loops) /\ GetNextLoop = n + 1
    BY <1>2, <1>4, <2>1 DEF RoundInv, GetNextLoop, PoolInv, LoopsNumbered
  <2>3. PICK m \in Nat : Shared(m)
    BY DEF RoundInv
  <2>4. \A l : l # n + 1 => Assigned(l)' = Assigned(l)
    BY <1>1, <1>2, <2>2 DEF Assigned
  <2>5. Cardinality(Assigned(n + 1)') = m + 1
    <3> DEFINE S == Assigned(n + 1)
    <3>1. Assigned(n + 1)' = S \cup {c} /\ c \notin S
      BY <1>1, <1>2, <2>2 DEF Assigned
    <3>2. IsFiniteSet(S)
      BY ServerAssumption, FS_Subset DEF Assigned
    <3>3. Cardinality(S) = m
      BY <1>2, <2>1, <2>2, <2>3 DEF Shared
    <3>4. Cardinality(S \cup {c}) = m + 1
      BY <3>1, <3>2, <3>3, FS_AddElement
    <3> QED  BY <3>1, <3>4
  <2>6. \A l \in 1 .. Len(loops) :
            Cardinality(Assigned(l)') = IF l =< n + 1 THEN m + 1 ELSE m
    <3> SUFFICES ASSUME NEW l \in 1 .. Len(loops)
                 PROVE  Cardinality(Assigned(l)') = IF l =< n + 1 THEN m + 1 ELSE m
      OBVIOUS
    <3>1. CASE l = n + 1
      BY <2>5, <3>1
    <3>2. CASE l # n + 1
      <4>1. Cardinality(Assigned(l)) = IF l =< n THEN m + 1 ELSE m
        BY <2>1, <2>3 DEF Shared
      <4>2. l =< n + 1 <=> l =< n
        BY <1>2, <3>2
      <4> QED  BY <2>4, <3>2, <4>1, <4>2
    <3> QED  BY <3>1, <3>2
  <2>7. CASE n + 1 >= Len(loops)
    <3>1. next' = 0
      BY <1>1, <2>1, <2>7 DEF Advanced
    <3>2. Shared(m + 1)'
      BY <1>1, <1>2, <2>2, <2>6, <2>7, <3>1 DEF Shared
    <3> QED  BY <1>1, <1>2, <1>4, <2>2, <3>1, <3>2 DEF RoundInv
  <2>8. CASE n + 1 < Len(loops)
    <3>1. next' = n + 1
      BY <1>1, <1>2, <1>4, <2>1, <2>8 DEF Advanced
    <3>2. Shared(m)'
      BY <1>1, <2>6, <3>1 DEF Shared
    <3> QED  BY <1>1, <1>4, <2>8, <3>1, <3>2 DEF RoundInv, Starting
  <2> QED  BY <1>2, <2>7, <2>8
<1> QED  BY <1>3, <1>4

-----------------------------------------------------------------------------
(* All steps *)

\* The steps that start and destroy the pool and run its threads.
PoolStep ==
    \/ \E n \in 0 .. MostThreads : SetNumThreads(n)
    \/ Start \/ StartThread \/ StartLoop \/ WakeUnasked \/ Listen
    \/ \E t \in Threads : Publish(t) \/ SetRunning(t) \/ EnterLoop(t) \/ QuitInLoop(t)
    \/ QuitBase \/ QuitThread \/ WakeThread \/ Join

\* They leave connections and queues alone, and no assertion of theirs fails.
LEMMA PoolStepLeaves ==
    ASSUME PoolInv, sound, Careful, PoolStep
    PROVE  /\ UNCHANGED <<connVars, pending>>
           /\ pc = "gone" => pc' = "gone"
           /\ Starting' => Starting
           /\ loops' = loops \/ (Starting /\ Starting' /\ Len(loops') >= Len(loops))
           /\ sound'
<1>1. CASE \E n \in 0 .. MostThreads : SetNumThreads(n)
  BY <1>1 DEF SetNumThreads, Starting
<1>2. CASE Start \/ WakeUnasked \/ Listen \/ WakeThread \/ Join
  BY <1>2 DEF Start, WakeUnasked, Listen, WakeThread, Join, Starting
<1>3. CASE StartThread
  <2>1. k \in Threads
    BY <1>3, ServerAssumption DEF StartThread, Threads, PoolInv, PoolTypeOK
  <2>2. thread[k] = "none"
    BY <1>3, <2>1 DEF StartThread, PoolInv, ThreadsMatch
  <2> QED  BY <1>3, <2>2 DEF StartThread, Starting, Assert
<1>4. CASE StartLoop
  <2>1. loops' = loops \/ Len(loops') >= Len(loops)
    BY <1>4 DEF StartLoop, PoolInv, PoolTypeOK
  <2> QED  BY <1>4, <2>1 DEF StartLoop, Starting
<1>5. ASSUME NEW t \in Threads, Publish(t) \/ EnterLoop(t)
      PROVE  /\ UNCHANGED <<connVars, pending, loops, sound>>
             /\ pc = "gone" => pc' = "gone"
             /\ Starting' => Starting
  BY <1>5 DEF Publish, EnterLoop, Starting
<1>6. ASSUME NEW t \in Threads, SetRunning(t)
      PROVE  UNCHANGED <<connVars, pending, loops, pc>> /\ sound'
  <2>1. thread[t] = "published" /\ t \notin freed
    BY <1>6, ServerAssumption
       DEF SetRunning, InUse, Threads, PoolInv, PoolTypeOK, LoopsNumbered, ThreadsMatch
  <2> QED  BY <1>6, <2>1 DEF SetRunning, Assert
<1>7. ASSUME NEW t \in Threads, QuitInLoop(t)
      PROVE  UNCHANGED <<connVars, pending, loops, pc, sound>>
  BY <1>7 DEF QuitInLoop
<1>8. CASE QuitBase
  BY <1>8 DEF QuitBase, Starting
<1>9. CASE QuitThread
  <2>1. k \in Threads
    <3>1. loops[k] \in Threads /\ loops[k] = k
      BY <1>9 DEF QuitThread, PoolInv, PoolTypeOK, LoopsNumbered
    <3> QED  BY <3>1
  <2>2. thread[k] # "ended"
    BY <1>9, <2>1 DEF QuitThread, PoolInv, ThreadsMatch
  <2> QED  BY <1>9, <2>2 DEF QuitThread, Starting, Assert
<1> QED  BY <1>1, <1>2, <1>3, <1>4, <1>5, <1>6, <1>7, <1>8, <1>9 DEF PoolStep, Starting

LEMMA PoolStepPool ==
    ASSUME PoolInv, Careful, PoolStep
    PROVE  PoolInv'
  BY SetNumThreadsPool, StartPool, StartThreadPool, StartLoopPool, WakeUnaskedPool,
     ListenPool, PublishPool, SetRunningPool, EnterLoopPool, QuitInLoopPool, QuitBasePool,
     QuitThreadPool, WakeThreadPool, JoinPool DEF PoolStep

ServerInv == PoolInv /\ ConnInv /\ RoundInv /\ sound

LEMMA PoolStepKeeps ==
    ASSUME ServerInv, Careful, PoolStep
    PROVE  ServerInv'
<1>1. PoolInv /\ ConnInv /\ RoundInv /\ sound
  BY DEF ServerInv
<1>2. PoolInv'
  BY <1>1, PoolStepPool
<1>3. Len(loops) \in Nat /\ Len(loops') \in Nat /\ loops' \in Seq(Threads)
  BY <1>1, <1>2 DEF PoolInv, PoolTypeOK
<1>4. /\ UNCHANGED <<connVars, pending>>
      /\ pc = "gone" => pc' = "gone"
      /\ Starting' => Starting
      /\ loops' = loops \/ (Starting /\ Starting' /\ Len(loops') >= Len(loops))
      /\ sound'
  BY <1>1, PoolStepLeaves
<1>5. ConnInv'
  BY <1>1, <1>3, <1>4, SameConns
<1>6. RoundInv'
  <2>1. CASE loops' = loops
    BY <1>1, <1>4, <2>1, SameRound DEF connVars
  <2>2. CASE Starting /\ Starting'
    BY <1>1, <1>3, <1>4, <1>5, <2>2, EarlyRound DEF connVars, ConnInv
  <2> QED  BY <1>4, <2>1, <2>2
<1> QED  BY <1>2, <1>4, <1>5, <1>6 DEF ServerInv

\* A step that leaves the pool alone but for its queues and connections.
LEMMA SameKeeps ==
    ASSUME ServerInv, ConnInv', sound', UNCHANGED <<poolVars, next, loopOf>>,
           \A c \in Conns : conn'[c] = "none" <=> conn[c] = "none"
    PROVE  ServerInv'
<1>1. PoolInv'
  BY SamePool DEF ServerInv
<1>2. UNCHANGED <<pc, loops>>
  BY DEF poolVars
<1>3. RoundInv'
  BY <1>2, SameRound DEF Starting, ServerInv
<1> QED  BY <1>1, <1>3 DEF ServerInv

LEMMA ServerStepKeeps == ServerInv /\ Careful /\ [ServerNext]_serverVars => ServerInv'
<1> SUFFICES ASSUME ServerInv, Careful, [ServerNext]_serverVars PROVE ServerInv'
  OBVIOUS
<1> USE DEF ServerInv
<1>1. CASE PoolStep
  BY <1>1, PoolStepKeeps
<1>2. CASE ForeignStart
  BY <1>2, ForeignStartKeeps, SameKeeps DEF ForeignStart, connVars
<1>3. ASSUME NEW t \in Threads, LeaveLoop(t)
      PROVE  ServerInv'
  <2>1. UNCHANGED <<loops, next, loopOf, conn, sound, pc>>
    BY <1>3 DEF LeaveLoop, connVars
  <2>2. RoundInv'
    BY <2>1, SameRound DEF Starting
  <2> QED  BY <1>3, <2>1, <2>2, LeaveLoopPool, LeaveLoopKeeps
<1>4. CASE Destroyed
  <2>1. UNCHANGED <<loops, next, loopOf, conn, sound>> /\ ~Starting'
    BY <1>4 DEF Destroyed, Starting
  <2>2. RoundInv'
    BY <2>1, SameRound
  <2> QED  BY <1>4, <2>1, <2>2, DestroyedPool, DestroyedKeeps
<1>5. ASSUME NEW c \in Conns, NewConnection(c)
      PROVE  ServerInv'
  <2>1. UNCHANGED poolVars
    BY <1>5 DEF NewConnection
  <2> QED  BY <1>5, <2>1, SamePool, NewConnectionKeeps, NewConnectionRound
<1>6. ASSUME NEW c \in Conns, HandleClose(c)
      PROVE  ServerInv'
  <2>1. UNCHANGED <<poolVars, next, loopOf>>
    BY <1>6 DEF HandleClose
  <2> QED  BY <1>6, <2>1, HandleCloseKeeps, SameKeeps
<1>7. CASE RunListen
  BY <1>7, RunListenKeeps, SameKeeps DEF RunListen, connVars
<1>8. CASE RunRemove
  BY <1>8, RunRemoveKeeps, SameKeeps DEF RunRemove
<1>9. ASSUME NEW l \in Loops, RunEstablished(l) \/ RunClosed(l)
      PROVE  ServerInv'
  <2>1. UNCHANGED <<poolVars, next, loopOf>>
    BY <1>9 DEF RunEstablished, RunClosed
  <2> QED  BY <1>9, <2>1, RunEstablishedKeeps, RunClosedKeeps, SameKeeps
<1>10. CASE UNCHANGED serverVars
  <2>1. /\ UNCHANGED <<poolVars, connVars, pending, sound>>
        /\ UNCHANGED <<pc, loops, next, loopOf, conn>>
    BY <1>10 DEF serverVars, poolVars, connVars
  <2>2. ConnInv'
    BY <2>1, SameConns DEF Starting, PoolInv, PoolTypeOK
  <2> QED  BY <2>1, <2>2, SameKeeps
<1>11. 0 \in Loops /\ Threads \subseteq Loops
  BY ServerAssumption DEF Loops, Threads
<1> QED  BY <1>1, <1>2, <1>3, <1>4, <1>5, <1>6, <1>7, <1>8, <1>9, <1>10, <1>11
            DEF ServerNext, BaseStep, ThreadStep, PoolStep

\* The invariant says what ServerSound does.
LEMMA InvariantSuffices == ServerInv => ServerSound
<1> SUFFICES ASSUME ServerInv PROVE ServerSound
  OBVIOUS
<1>1. PoolInv /\ ConnInv /\ RoundInv /\ sound
  BY DEF ServerInv
<1>2. \A i \in DOMAIN loops : i \in 1 .. Len(loops) /\ loops[i] = i
  BY <1>1 DEF PoolInv, PoolTypeOK, LoopsNumbered
<1>3. LoopsLive
  <2>1. ASSUME InUse, NEW i \in DOMAIN loops
        PROVE  Alive(loops[i])
    BY <1>1, <1>2, <2>1, LoopsExist
  <2>2. ASSUME pc = "gone", NEW t \in Threads
        PROVE  thread[t] \in {"none", "ended"}
    BY <1>1, <2>2, ServerAssumption
       DEF InUse, Threads, PoolInv, PoolTypeOK, LoopsNumbered, ThreadsMatch
  <2> QED  BY <2>1, <2>2 DEF LoopsLive
<1>4. ASSUME NEW i \in DOMAIN loops, NEW j \in DOMAIN loops
      PROVE  Cardinality(Assigned(loops[i])) =< Cardinality(Assigned(loops[j])) + 1
  <2>1. PICK m \in Nat : Shared(m)
    BY <1>1 DEF RoundInv
  <2>2. /\ Cardinality(Assigned(loops[i])) \in {m, m + 1}
        /\ Cardinality(Assigned(loops[j])) \in {m, m + 1}
    BY <1>2, <2>1 DEF Shared
  <2> QED  BY <2>2
<1>5. ASSUME NEW l \in Loops, NEW i \in DOMAIN pending[l],
             pending[l][i][1] \in {"established", "closed"}
      PROVE  loopOf[pending[l][i][2]] = l
  <2>1. pending[l][i] \in In(pending[l])
    BY DEF In
  <2>2. Fits(l, pending[l][i])
    BY <1>1, <2>1 DEF ConnInv, FunctorsMatch
  <2> QED  BY <1>5, <2>2 DEF Fits
<1>6. ConnectionsTracked
  BY <1>1, <1>4, <1>5 DEF InUse, ConnInv, MapMatches, ConnectionsTracked
<1> QED  BY <1>1, <1>3, <1>6 DEF ServerSound

\* Careful callers make no assertion fail, no call abort and nothing use a
\* destroyed object, up to the one wake-up that may come too late, which ends
\* what is said of the program (QuitMeetsLoop); startLoop returns only loops
\* that live until the server is destroyed, and no thread outlives it;
\* connections go round the loops, and the map and the functors about them
\* agree with what they are.
THEOREM ServerIsSound == ASSUME Careful PROVE ServerSpec => []ServerSound
<1>1. ServerInit => ServerInv
  BY PoolInitial, ConnInitial, RoundInitial DEF ServerInv, ServerInit
<1>2. ServerInv /\ [ServerNext]_serverVars => ServerInv'
  BY ServerStepKeeps
<1> QED  BY <1>1, <1>2, InvariantSuffices, PTL DEF ServerSpec

-----------------------------------------------------------------------------
(* The two programs, of which one runs. *)

LEMMA OneRuns ==
    /\ [Next]_vars => [ChannelNext]_channelVars
    /\ [Next]_vars => [ServerNext]_serverVars
BY DEF Next, vars, RunsChannel, RunsServer

\* What the runs check of both programs, under the specification they check:
\* the channel loses, repeats and reorders no value and strands no consumer,
\* and the server's threads, queues and connections fit each other up to a
\* wake-up that comes too late.
THEOREM ProgramsAreSafe ==
    ASSUME Careful
    PROVE  FairSpec => [](ChannelSafe /\ ServerSound)
<1>1. Init => ChannelInv /\ ServerInv
    <2>1. Init => ChannelInit /\ ServerInit
        BY DEF Init
    <2>2. ServerInit => ServerInv
        BY PoolInitial, ConnInitial, RoundInitial DEF ServerInv, ServerInit
    <2>3. QED
        BY <2>1, <2>2, ChannelInitial
<1>2. ChannelInv /\ [Next]_vars => ChannelInv'
    BY OneRuns, ChannelTyped, OrderKept, LatchKept, WakingKept DEF ChannelInv
<1>3. ServerInv /\ [Next]_vars => ServerInv'
    BY OneRuns, ServerStepKeeps
<1>4. ChannelInv /\ ServerInv => ChannelSafe /\ ServerSound
    BY InvariantSuffices DEF ChannelInv, ChannelSafe
<1>5. QED
    BY <1>1, <1>2, <1>3, <1>4, PTL DEF FairSpec

=============================================================================

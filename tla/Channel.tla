------------------------------ MODULE Channel ------------------------------
(***************************************************************************)
(* Channel and CountdownLatch over Mutex and Condition, in the program     *)
(* test_LatchAndQueue: consumers count the latch down and take values      *)
(* until they get a stop; producers wait for the latch and put values, and *)
(* the main one, when the others are done, a stop for every consumer.      *)
(*                                                                         *)
(* What a thread does between locking and unlocking the mutex is one step; *)
(* waiting for a condition releases the mutex, and a woken thread has to   *)
(* lock it again.  The queue is written front last: put appends.           *)
(***************************************************************************)
EXTENDS Integers, Sequences, FiniteSets

CONSTANTS Consumers, Producers,
          Main,     \* the producer that puts the stops
          Quota     \* values each producer puts

ASSUME ChannelAssumption ==
    /\ IsFiniteSet(Consumers) /\ IsFiniteSet(Producers)
    /\ Main \in Producers
    /\ Quota \in Nat

VARIABLES count,      \* of the latch
          queue,      \* of the channel
          consumer,   \* where each consumer is
          producer,   \* where each producer is
          sent,       \* how many values each producer put
          put, taken  \* every value put, every value taken, in order

channelVars == <<count, queue, consumer, producer, sent, put, taken>>

Stop == <<Main, 0>>
Last(p) == IF p = Main THEN Quota + Cardinality(Consumers) ELSE Quota
NextValue(p) == IF sent[p] < Quota THEN <<p, sent[p] + 1>> ELSE Stop

\* The threads asleep in dequeue, and those a notification woke that have
\* not looked at the queue again.
Asleep == {c \in Consumers : consumer[c] = "asleep"}
Woken == {c \in Consumers : consumer[c] = "woken"}
\* The producers between unlocking the mutex and notifying.
Notifying == {p \in Producers : producer[p] = "notifying"}

ChannelInit ==
    /\ count = Cardinality(Consumers)
    /\ queue = <<>>
    /\ consumer = [c \in Consumers |-> "starting"]
    /\ producer = [p \in Producers |-> "starting"]
    /\ sent = [p \in Producers |-> 0]
    /\ put = <<>>
    /\ taken = <<>>

-----------------------------------------------------------------------------
(* The latch *)

\* Mutant of NotifyAll: notify.
NotifyOne ==
    IF \A p \in Producers : producer[p] # "asleep" THEN UNCHANGED producer
    ELSE \E p \in Producers : producer[p] = "asleep" /\ producer' = [producer EXCEPT ![p] = "starting"]

NotifyAll ==
    producer' = [p \in Producers |-> IF producer[p] = "asleep" THEN "starting" ELSE producer[p]]

CountDown(c) ==
    /\ consumer[c] = "starting"
    /\ count' = count - 1
    /\ consumer' = [consumer EXCEPT ![c] = "taking"]
    /\ IF count' = 0 THEN NotifyAll ELSE UNCHANGED producer
    /\ UNCHANGED <<queue, sent, put, taken>>

\* A woken waiter looks at the count again.
LatchWait(p) ==
    /\ producer[p] = "starting"
    /\ producer' = [producer EXCEPT ![p] = IF count > 0 THEN "asleep" ELSE "putting"]
    /\ UNCHANGED <<count, queue, consumer, sent, put, taken>>

-----------------------------------------------------------------------------
(* The channel *)

\* Mutant of Enqueue: notifies only when the queue was empty.
EnqueueNotifiesFirst(p) ==
    /\ producer[p] = "putting" /\ sent[p] < Last(p)
    /\ sent[p] >= Quota => \A q \in Producers \ {p} : producer[q] = "done"
    /\ queue' = Append(queue, NextValue(p))
    /\ put' = Append(put, NextValue(p))
    /\ sent' = [sent EXCEPT ![p] = @ + 1]
    /\ producer' = [producer EXCEPT ![p] = IF queue = <<>> THEN "notifying" ELSE @]
    /\ UNCHANGED <<count, consumer, taken>>

\* Main joins the other producers before it puts the stops.
Enqueue(p) ==
    /\ producer[p] = "putting" /\ sent[p] < Last(p)
    /\ sent[p] >= Quota => \A q \in Producers \ {p} : producer[q] = "done"
    /\ queue' = Append(queue, NextValue(p))
    /\ put' = Append(put, NextValue(p))
    /\ sent' = [sent EXCEPT ![p] = @ + 1]
    /\ producer' = [producer EXCEPT ![p] = "notifying"]
    /\ UNCHANGED <<count, consumer, taken>>

\* One sleeping consumer is woken, if there is one.
Notify(p) ==
    /\ producer[p] = "notifying"
    /\ producer' = [producer EXCEPT ![p] = "putting"]
    /\ IF Asleep = {} THEN UNCHANGED consumer
       ELSE \E c \in Asleep : consumer' = [consumer EXCEPT ![c] = "woken"]
    /\ UNCHANGED <<count, queue, sent, put, taken>>

Finish(p) ==
    /\ producer[p] = "putting" /\ sent[p] = Last(p)
    /\ producer' = [producer EXCEPT ![p] = "done"]
    /\ UNCHANGED <<count, queue, consumer, sent, put, taken>>

DequeueWaits(c) ==
    /\ consumer[c] \in {"taking", "woken"}
    /\ queue = <<>>
    /\ consumer' = [consumer EXCEPT ![c] = "asleep"]
    /\ UNCHANGED <<count, queue, producer, sent, put, taken>>

Dequeue(c) ==
    /\ consumer[c] \in {"taking", "woken"}
    /\ queue # <<>>
    /\ queue' = Tail(queue)
    /\ taken' = Append(taken, Head(queue))
    /\ consumer' = [consumer EXCEPT ![c] = IF Head(queue) = Stop THEN "stopped" ELSE "taking"]
    /\ UNCHANGED <<count, producer, sent, put>>

\* pthread_cond_wait may return without a notification.
Spurious ==
    /\ \/ \E c \in Asleep : consumer' = [consumer EXCEPT ![c] = "woken"] /\ UNCHANGED producer
       \/ \E p \in Producers : /\ producer[p] = "asleep"
                               /\ producer' = [producer EXCEPT ![p] = "starting"]
                               /\ UNCHANGED consumer
    /\ UNCHANGED <<count, queue, sent, put, taken>>

ConsumerStep(c) == CountDown(c) \/ DequeueWaits(c) \/ Dequeue(c)
ProducerStep(p) == LatchWait(p) \/ Enqueue(p) \/ Notify(p) \/ Finish(p)

ChannelNext ==
    \/ \E c \in Consumers : ConsumerStep(c)
    \/ \E p \in Producers : ProducerStep(p)
    \/ Spurious

ChannelSpec == ChannelInit /\ [][ChannelNext]_channelVars

-----------------------------------------------------------------------------
(* Properties *)

\* While a consumer sleeps, every value in the queue has a notification on
\* its way or a woken consumer coming for it, although enqueue notifies
\* after it released the mutex and other consumers take values meanwhile.
NoneStranded ==
    Asleep # {} => Len(queue) =< Cardinality(Woken) + Cardinality(Notifying)

\* Values are taken in the order they were put, none lost, none twice.
InOrder == put = taken \o queue

\* No producer gets past the latch before every consumer counted down, and
\* the last countDown leaves none asleep.
LatchHolds ==
    /\ count = Cardinality({c \in Consumers : consumer[c] = "starting"})
    /\ \A p \in Producers :
         /\ producer[p] \notin {"starting", "asleep"} => count = 0
         /\ producer[p] = "asleep" => count > 0

ChannelSafe == NoneStranded /\ InOrder /\ LatchHolds

AllStopped ==
    /\ \A c \in Consumers : consumer[c] = "stopped"
    /\ \A p \in Producers : producer[p] = "done"

=============================================================================

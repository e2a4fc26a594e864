-------------------------- MODULE EventLoopProofs --------------------------
(***************************************************************************)
(* Proofs about EventLoop, for any number of threads and functors.         *)
(*                                                                         *)
(* NoLostWakeup is not inductive: that poll() starts with the eventfd      *)
(* readable depends on what happened since the last swap.  The invariant   *)
(* WorkIsAnnounced holds everywhere but between the read of the eventfd    *)
(* and the swap, and PhasesAgree ties _executingFunctors, the batch in     *)
(* hand and the active list to the place the loop thread is at.            *)
(***************************************************************************)
EXTENDS EventLoop, SequenceTheorems, TLAPS

\* Outside the dispatch phase, work that came while looping has a wake-up due.
WorkIsAnnounced == pc # "dispatch" /\ LateWork => WakeupDue

\* The flag, the batch and the active list match the phase of the loop.
PhasesAgree ==
    /\ executing <=> pc \in {"exec", "body"}
    /\ toExecute # <<>> => pc \in {"exec", "body"}
    /\ active # {} => pc = "dispatch"

IInv ==
    /\ TypeOK
    /\ PhasesAgree
    /\ WorkIsAnnounced
    /\ NoLostQuit
    /\ WakeupReadSucceeds
    /\ ExactlyOnceInOrder

-----------------------------------------------------------------------------
\* Appending to a sequence adds at most the new element.
LEMMA ElementsOfAppend ==
    ASSUME NEW S, NEW s \in Seq(S), NEW e \in S
    PROVE  Elements(Append(s, e)) \subseteq Elements(s) \cup {e}
BY AppendProperties DEF Elements

\* The empty sequence has no element.
LEMMA ElementsOfEmpty == Elements(<<>>) = {}
BY DEF Elements

\* Moving the head of the middle sequence to the end of the first one.
LEMMA MoveHead ==
    ASSUME NEW S, NEW s \in Seq(S), NEW t \in Seq(S), t # <<>>
    PROVE  Append(s, Head(t)) \o Tail(t) = s \o t
<1>1. Head(t) \in S /\ Tail(t) \in Seq(S) /\ Len(t) \in Nat /\ Len(t) > 0
    BY HeadTailProperties, EmptySeq
<1>2. <<Head(t)>> \in Seq(S) /\ Append(s, Head(t)) = s \o <<Head(t)>>
    BY <1>1, AppendIsConcat
<1>3. <<Head(t)>> \o Tail(t) = t
    BY <1>1, HeadTailProperties
<1>4. QED
    BY <1>1, <1>2, <1>3, ConcatAssociative

\* Head and tail of a concatenation whose first part is not empty.
LEMMA HeadTailOfConcat ==
    ASSUME NEW S, NEW s \in Seq(S), NEW t \in Seq(S), s # <<>>
    PROVE  Head(s \o t) = Head(s) /\ Tail(s \o t) = Tail(s) \o t
<1>1. Len(s) \in Nat /\ Len(s) > 0 /\ Len(t) \in Nat /\ Tail(s) \in Seq(S)
      /\ Len(Tail(s)) = Len(s) - 1
    BY EmptySeq, HeadTailProperties
<1>2. s \o t \in Seq(S) /\ Len(s \o t) = Len(s) + Len(t) /\ s \o t # <<>>
    BY <1>1, ConcatProperties, ConcatEqualIffEmpty
<1>3. Head(s \o t) = Head(s)
    BY <1>1, <1>2, ConcatProperties
<1>4. Tail(s \o t) = Tail(s) \o t
    <2>1. /\ Tail(s \o t) \in Seq(S) /\ Tail(s) \o t \in Seq(S)
          /\ Len(Tail(s \o t)) = Len(s) + Len(t) - 1
          /\ Len(Tail(s) \o t) = Len(s) + Len(t) - 1
        BY <1>1, <1>2, HeadTailProperties, ConcatProperties
    <2>2. ASSUME NEW i \in 1 .. Len(s) + Len(t) - 1
          PROVE  Tail(s \o t)[i] = (Tail(s) \o t)[i]
        <3>1. Tail(s \o t)[i] = (s \o t)[i + 1]
            BY <1>1, <1>2, <2>1, HeadTailProperties
        <3>2. (Tail(s) \o t)[i] = IF i <= Len(s) - 1 THEN Tail(s)[i] ELSE t[i - (Len(s) - 1)]
            BY <1>1, ConcatProperties
        <3>3. (s \o t)[i + 1] = IF i + 1 <= Len(s) THEN s[i + 1] ELSE t[i + 1 - Len(s)]
            BY <1>1, ConcatProperties
        <3>4. QED
            BY <1>1, <3>1, <3>2, <3>3, HeadTailProperties
    <2>3. QED
        BY <2>1, <2>2, SeqEqual
<1>5. QED
    BY <1>3, <1>4

\* Appending to the last of two sequences appends to their concatenation.
LEMMA AppendToConcat ==
    ASSUME NEW S, NEW s \in Seq(S), NEW t \in Seq(S), NEW e \in S
    PROVE  s \o Append(t, e) = Append(s \o t, e)
<1>1. <<e>> \in Seq(S) /\ Append(t, e) = t \o <<e>>
    BY AppendIsConcat
<1>2. s \o t \in Seq(S) /\ Append(s \o t, e) = (s \o t) \o <<e>>
    BY ConcatProperties, AppendIsConcat
<1>3. QED
    BY <1>1, <1>2, ConcatAssociative

\* Every action keeps the types.
LEMMA TypeStep == TypeOK /\ [Next]_vars => TypeOK'
<1> SUFFICES ASSUME TypeOK, [Next]_vars PROVE TypeOK'
    OBVIOUS
<1> USE DEF TypeOK, Looping, Sources, loopVars, shared, history
<1>1. CASE EnterLoop
    BY <1>1 DEF EnterLoop
<1>2. CASE TestDone
    BY <1>2 DEF TestDone
<1>3. CASE HandleRead
    BY <1>3 DEF HandleRead
<1>4. CASE OtherHandled
    BY <1>4 DEF OtherHandled
<1>5. CASE FunctorReturns
    BY <1>5 DEF FunctorReturns
<1>6. CASE EndExecute
    BY <1>6 DEF EndExecute
<1>7. CASE PollWakeup
    BY <1>7 DEF PollWakeup, PollReturns
<1>8. CASE PollOther \/ PollTimeout
    BY <1>8 DEF PollOther, PollTimeout, PollReturns
<1>9. CASE BeginExecute
    BY <1>9, EmptySeq DEF BeginExecute
<1>10. CASE RunFunctor
    BY <1>10, HeadTailProperties, AppendProperties DEF RunFunctor
<1>11. CASE LoopQuit
    BY <1>11 DEF LoopQuit
<1>12. ASSUME NEW f \in Functors, LoopEnqueue(f) PROVE TypeOK'
    BY <1>12, AppendProperties DEF LoopEnqueue, Push, Wakeup
<1>13. ASSUME NEW t \in Threads, ThreadQuit(t) PROVE TypeOK'
    BY <1>13 DEF ThreadQuit
<1>14. ASSUME NEW t \in Threads, ThreadWakeup(t) PROVE TypeOK'
    BY <1>14 DEF ThreadWakeup, Wakeup
<1>15. ASSUME NEW t \in Threads, NEW f \in Functors, ThreadEnqueue(t, f) PROVE TypeOK'
    BY <1>15, AppendProperties DEF ThreadEnqueue, Push
<1>16. CASE UNCHANGED vars
    BY <1>16 DEF vars
<1>17. QED
    BY <1>1, <1>2, <1>3, <1>4, <1>5, <1>6, <1>7, <1>8, <1>9, <1>10, <1>11, <1>12, <1>13, <1>14, <1>15, <1>16 DEF Next, LoopStep

-----------------------------------------------------------------------------
\* TypeOK holds initially.
LEMMA TypeInit == Init => TypeOK
<1> SUFFICES ASSUME Init PROVE TypeOK
    OBVIOUS
<1>1. <<>> \in Seq(Functors)
    BY EmptySeq
<1>2. tpc \in [Threads -> {"idle", "wake"}]
    BY DEF Init
<1>3. QED
    BY <1>1, <1>2 DEF Init, TypeOK, Looping, Sources

\* TypeOK holds in every reachable state.
THEOREM TypeCorrect == Spec => []TypeOK
    BY TypeInit, TypeStep, PTL DEF Spec

-----------------------------------------------------------------------------

\* The flag, the batch and the active list follow the loop thread.
LEMMA PhaseStep == TypeOK /\ PhasesAgree /\ [Next]_vars => PhasesAgree'
<1> SUFFICES ASSUME TypeOK /\ PhasesAgree, [Next]_vars PROVE PhasesAgree'
    OBVIOUS
<1> USE DEF PhasesAgree, TypeOK, Sources, loopVars, shared, history
<1>1. CASE EnterLoop
    BY <1>1 DEF EnterLoop
<1>2. CASE TestDone
    BY <1>2 DEF TestDone
<1>3. CASE PollWakeup
    BY <1>3 DEF PollWakeup, PollReturns
<1>4. CASE HandleRead
    BY <1>4 DEF HandleRead
<1>5. CASE OtherHandled
    BY <1>5 DEF OtherHandled
<1>6. CASE BeginExecute
    BY <1>6 DEF BeginExecute
<1>7. CASE RunFunctor
    BY <1>7 DEF RunFunctor
<1>8. CASE FunctorReturns
    BY <1>8 DEF FunctorReturns
<1>9. CASE EndExecute
    BY <1>9 DEF EndExecute
<1>10. CASE PollOther \/ PollTimeout
    BY <1>10 DEF PollOther, PollTimeout, PollReturns
<1>11. CASE LoopQuit
    BY <1>11 DEF LoopQuit
<1>12. ASSUME NEW f \in Functors, LoopEnqueue(f) PROVE PhasesAgree'
    BY <1>12 DEF LoopEnqueue, InUserCode, MustWakeSelf, Push, Wakeup
<1>13. ASSUME NEW t \in Threads, ThreadQuit(t) PROVE PhasesAgree'
    BY <1>13 DEF ThreadQuit
<1>14. ASSUME NEW t \in Threads, ThreadWakeup(t) PROVE PhasesAgree'
    BY <1>14 DEF ThreadWakeup, Wakeup
<1>15. ASSUME NEW t \in Threads, NEW f \in Functors, ThreadEnqueue(t, f) PROVE PhasesAgree'
    BY <1>15 DEF ThreadEnqueue, Push
<1>16. CASE UNCHANGED vars
    BY <1>16 DEF vars
<1>17. QED
    BY <1>1, <1>2, <1>3, <1>4, <1>5, <1>6, <1>7, <1>8, <1>9, <1>10, <1>11, <1>12, <1>13, <1>14, <1>15, <1>16 DEF Next, LoopStep

\* The eventfd is reset only by the read that was announced.
LEMMA ReadStep == TypeOK /\ PhasesAgree /\ WakeupReadSucceeds /\ [Next]_vars => WakeupReadSucceeds'
<1> SUFFICES ASSUME TypeOK /\ PhasesAgree /\ WakeupReadSucceeds, [Next]_vars PROVE WakeupReadSucceeds'
    OBVIOUS
<1> USE DEF WakeupReadSucceeds, PhasesAgree, TypeOK, Sources, loopVars, shared, history
<1>1. CASE EnterLoop
    BY <1>1 DEF EnterLoop
<1>2. CASE TestDone
    BY <1>2 DEF TestDone
<1>3. CASE PollWakeup
    BY <1>3 DEF PollWakeup, PollReturns
<1>4. CASE HandleRead
    BY <1>4 DEF HandleRead
<1>5. CASE OtherHandled
    BY <1>5 DEF OtherHandled
<1>6. CASE BeginExecute
    BY <1>6 DEF BeginExecute
<1>7. CASE RunFunctor
    BY <1>7 DEF RunFunctor
<1>8. CASE FunctorReturns
    BY <1>8 DEF FunctorReturns
<1>9. CASE EndExecute
    BY <1>9 DEF EndExecute
<1>10. CASE PollOther \/ PollTimeout
    BY <1>10 DEF PollOther, PollTimeout, PollReturns
<1>11. CASE LoopQuit
    BY <1>11 DEF LoopQuit
<1>12. ASSUME NEW f \in Functors, LoopEnqueue(f) PROVE WakeupReadSucceeds'
    BY <1>12 DEF LoopEnqueue, InUserCode, MustWakeSelf, Push, Wakeup
<1>13. ASSUME NEW t \in Threads, ThreadQuit(t) PROVE WakeupReadSucceeds'
    BY <1>13 DEF ThreadQuit
<1>14. ASSUME NEW t \in Threads, ThreadWakeup(t) PROVE WakeupReadSucceeds'
    BY <1>14 DEF ThreadWakeup, Wakeup
<1>15. ASSUME NEW t \in Threads, NEW f \in Functors, ThreadEnqueue(t, f) PROVE WakeupReadSucceeds'
    BY <1>15 DEF ThreadEnqueue, Push
<1>16. CASE UNCHANGED vars
    BY <1>16 DEF vars
<1>17. QED
    BY <1>1, <1>2, <1>3, <1>4, <1>5, <1>6, <1>7, <1>8, <1>9, <1>10, <1>11, <1>12, <1>13, <1>14, <1>15, <1>16 DEF Next, LoopStep

\* A quit during poll() leaves a wake-up due until poll() returns.
LEMMA QuitStep == TypeOK /\ NoLostQuit /\ [Next]_vars => NoLostQuit'
<1> SUFFICES ASSUME TypeOK /\ NoLostQuit, [Next]_vars PROVE NoLostQuit'
    OBVIOUS
<1> USE DEF NoLostQuit, WakeupDue, TypeOK, loopVars, shared, history
<1>1. CASE EnterLoop
    BY <1>1 DEF EnterLoop
<1>2. CASE TestDone
    BY <1>2 DEF TestDone
<1>3. CASE PollWakeup
    BY <1>3 DEF PollWakeup, PollReturns
<1>4. CASE HandleRead
    BY <1>4 DEF HandleRead
<1>5. CASE OtherHandled
    BY <1>5 DEF OtherHandled
<1>6. CASE BeginExecute
    BY <1>6 DEF BeginExecute
<1>7. CASE RunFunctor
    BY <1>7 DEF RunFunctor
<1>8. CASE FunctorReturns
    BY <1>8 DEF FunctorReturns
<1>9. CASE EndExecute
    BY <1>9 DEF EndExecute
<1>10. CASE PollOther \/ PollTimeout
    BY <1>10 DEF PollOther, PollTimeout, PollReturns
<1>11. CASE LoopQuit
    BY <1>11 DEF LoopQuit, InUserCode
<1>12. ASSUME NEW f \in Functors, LoopEnqueue(f) PROVE NoLostQuit'
    BY <1>12 DEF LoopEnqueue, InUserCode, MustWakeSelf, Push, Wakeup
<1>13. ASSUME NEW t \in Threads, ThreadQuit(t) PROVE NoLostQuit'
    BY <1>13 DEF ThreadQuit
<1>14. ASSUME NEW t \in Threads, ThreadWakeup(t) PROVE NoLostQuit'
    BY <1>14 DEF ThreadWakeup, Wakeup
<1>15. ASSUME NEW t \in Threads, NEW f \in Functors, ThreadEnqueue(t, f) PROVE NoLostQuit'
    BY <1>15 DEF ThreadEnqueue, Push
<1>16. CASE UNCHANGED vars
    BY <1>16 DEF vars
<1>17. QED
    BY <1>1, <1>2, <1>3, <1>4, <1>5, <1>6, <1>7, <1>8, <1>9, <1>10, <1>11, <1>12, <1>13, <1>14, <1>15, <1>16 DEF Next, LoopStep

\* Work pushed while looping stays announced until the next dispatch phase.
LEMMA WorkStep == TypeOK /\ PhasesAgree /\ WorkIsAnnounced /\ [Next]_vars => WorkIsAnnounced'
<1> SUFFICES ASSUME TypeOK /\ PhasesAgree /\ WorkIsAnnounced, [Next]_vars PROVE WorkIsAnnounced'
    OBVIOUS
<1> USE DEF WorkIsAnnounced, PhasesAgree, WakeupDue, LateWork, TypeOK, loopVars, shared, history
<1>1. CASE EnterLoop
    BY <1>1 DEF EnterLoop
<1>2. CASE TestDone
    BY <1>2 DEF TestDone
<1>3. CASE PollWakeup
    BY <1>3 DEF PollWakeup, PollReturns
<1>4. CASE HandleRead
    BY <1>4 DEF HandleRead
<1>5. CASE OtherHandled
    BY <1>5 DEF OtherHandled
<1>6. CASE BeginExecute
    BY <1>6, ElementsOfEmpty DEF BeginExecute
<1>7. CASE RunFunctor
    BY <1>7 DEF RunFunctor
<1>8. CASE FunctorReturns
    BY <1>8 DEF FunctorReturns
<1>9. CASE EndExecute
    BY <1>9 DEF EndExecute
<1>10. CASE PollOther \/ PollTimeout
    BY <1>10 DEF PollOther, PollTimeout, PollReturns
<1>11. CASE LoopQuit
    BY <1>11 DEF LoopQuit
<1>12. ASSUME NEW f \in Functors, LoopEnqueue(f) PROVE WorkIsAnnounced'
    BY <1>12, ElementsOfAppend DEF LoopEnqueue, InUserCode, MustWakeSelf, Push, Wakeup
<1>13. ASSUME NEW t \in Threads, ThreadQuit(t) PROVE WorkIsAnnounced'
    BY <1>13 DEF ThreadQuit
<1>14. ASSUME NEW t \in Threads, ThreadWakeup(t) PROVE WorkIsAnnounced'
    BY <1>14 DEF ThreadWakeup, Wakeup
<1>15. ASSUME NEW t \in Threads, NEW f \in Functors, ThreadEnqueue(t, f) PROVE WorkIsAnnounced'
    BY <1>15, ElementsOfAppend DEF ThreadEnqueue, Push
<1>16. CASE UNCHANGED vars
    BY <1>16 DEF vars
<1>17. QED
    BY <1>1, <1>2, <1>3, <1>4, <1>5, <1>6, <1>7, <1>8, <1>9, <1>10, <1>11, <1>12, <1>13, <1>14, <1>15, <1>16 DEF Next, LoopStep

\* The pushes, the swap and the runs keep the functors in the order they were
\* submitted, each in exactly one place.
LEMMA OrderStep ==
    TypeOK /\ PhasesAgree /\ ExactlyOnceInOrder /\ [Next]_vars => ExactlyOnceInOrder'
<1> SUFFICES ASSUME TypeOK, PhasesAgree, ExactlyOnceInOrder, [Next]_vars
             PROVE  ExactlyOnceInOrder'
    OBVIOUS
<1> USE DEF loopVars, shared, history
<1>1. /\ ran \in Seq(Functors) /\ toExecute \in Seq(Functors)
      /\ pending \in Seq(Functors)
      /\ ran \o toExecute \in Seq(Functors)
    BY ConcatProperties DEF TypeOK
<1>2. CASE UNCHANGED <<ran, toExecute, pending, submitted>>
    BY <1>2 DEF ExactlyOnceInOrder
<1>3. CASE BeginExecute
    <2>1. toExecute = <<>> /\ toExecute' = pending /\ pending' = <<>>
          /\ ran' = ran /\ submitted' = submitted
        BY <1>3 DEF BeginExecute, PhasesAgree
    <2>2. ran \o toExecute = ran
        BY <2>1, <1>1, ConcatEmptySeq
    <2>3. ran \o pending \in Seq(Functors) /\ (ran \o pending) \o <<>> = ran \o pending
        BY <1>1, ConcatProperties, ConcatEmptySeq
    <2>4. QED
        BY <2>1, <2>2, <2>3 DEF ExactlyOnceInOrder
<1>4. CASE RunFunctor
    <2>1. Append(ran, Head(toExecute)) \o Tail(toExecute) = ran \o toExecute
        BY <1>1, <1>4, MoveHead DEF RunFunctor
    <2>2. QED
        BY <2>1, <1>4 DEF RunFunctor, ExactlyOnceInOrder
<1>5. ASSUME NEW f \in Functors, Push(f), UNCHANGED <<ran, toExecute>>
      PROVE  ExactlyOnceInOrder'
    <2>1. (ran \o toExecute) \o Append(pending, f) = Append((ran \o toExecute) \o pending, f)
        BY <1>1, AppendToConcat
    <2>2. QED
        BY <2>1, <1>5 DEF Push, ExactlyOnceInOrder
<1>6. ASSUME NEW f \in Functors, LoopEnqueue(f) PROVE ExactlyOnceInOrder'
    BY <1>5, <1>6 DEF LoopEnqueue
<1>7. ASSUME NEW t \in Threads, NEW f \in Functors, ThreadEnqueue(t, f)
      PROVE  ExactlyOnceInOrder'
    BY <1>5, <1>7 DEF ThreadEnqueue
<1>8. CASE LoopStep
    BY <1>2, <1>3, <1>4, <1>8 DEF LoopStep, EnterLoop, TestDone, PollWakeup, PollReturns,
       HandleRead, OtherHandled, FunctorReturns, EndExecute
<1>9. QED
    BY <1>2, <1>6, <1>7, <1>8 DEF Next, PollOther, PollTimeout, PollReturns, LoopQuit,
       ThreadQuit, ThreadWakeup, vars

-----------------------------------------------------------------------------
\* The inductive invariant.
LEMMA Inductive == Spec => []IInv
<1>1. Init => IInv
    <2> SUFFICES ASSUME Init PROVE IInv
        OBVIOUS
    <2>1. TypeOK
        BY TypeInit
    <2>2. ExactlyOnceInOrder
        BY EmptySeq, ConcatEmptySeq DEF Init, ExactlyOnceInOrder
    <2>3. QED
        BY <2>1, <2>2, ElementsOfEmpty DEF Init, IInv, PhasesAgree, WorkIsAnnounced, LateWork,
           NoLostQuit, WakeupReadSucceeds
<1>2. IInv /\ [Next]_vars => IInv'
    BY TypeStep, PhaseStep, ReadStep, QuitStep, WorkStep, OrderStep DEF IInv
<1>3. QED
    BY <1>1, <1>2, PTL DEF Spec

\* The loop never sleeps over a functor pushed while it runs: the wake-up
\* protocol of enqueue, handleRead and executePendingFunctors is sound.
THEOREM NeverSleepsOnWork == Spec => []NoLostWakeup
<1>1. IInv => NoLostWakeup
    BY DEF IInv, WorkIsAnnounced, NoLostWakeup
<1>2. QED
    BY <1>1, Inductive, PTL

\* The loop never sleeps over a quit, whenever the quit comes.
THEOREM NeverSleepsOnQuit == Spec => []NoLostQuit
<1>1. IInv => NoLostQuit
    BY DEF IInv
<1>2. QED
    BY <1>1, Inductive, PTL

\* The assertion of handleRead never fails.
THEOREM ReadNeverFails == Spec => []WakeupReadSucceeds
<1>1. IInv => WakeupReadSucceeds
    BY DEF IInv
<1>2. QED
    BY <1>1, Inductive, PTL

\* No functor is lost, duplicated or reordered by the queue and the swap.
THEOREM RunsExactlyOnceInOrder == Spec => []ExactlyOnceInOrder
<1>1. IInv => ExactlyOnceInOrder
    BY DEF IInv
<1>2. QED
    BY <1>1, Inductive, PTL

-----------------------------------------------------------------------------
(* The safety part of the refinement.                                      *)

\* The queue of the abstract executor.
Queue == toExecute \o pending

\* A functor pushed for the first time is neither queued nor already run.
LEMMA PushSubmits ==
    ASSUME TypeOK, ExactlyOnceInOrder, NEW f \in Functors, Push(f),
           UNCHANGED <<toExecute, ran, done, pc>>,
           early' = early \/ early' = early \cup {f}
    PROVE  Abstract!Submit(f)
<1>1. /\ ran \in Seq(Functors) /\ Queue \in Seq(Functors)
      /\ submitted = ran \o Queue
    BY ConcatProperties, ConcatAssociative DEF TypeOK, ExactlyOnceInOrder, Queue
<1>2. Elements(ran) \subseteq Elements(submitted) /\ Elements(Queue) \subseteq Elements(submitted)
    <2>1. ASSUME NEW i \in DOMAIN ran PROVE ran[i] \in Elements(submitted)
        <3>1. i \in 1 .. Len(ran) /\ Len(ran) \in Nat /\ Len(Queue) \in Nat
            BY <1>1, <2>1
        <3>2. i \in DOMAIN submitted /\ submitted[i] = ran[i]
            BY <1>1, <3>1, ConcatProperties
        <3>3. QED
            BY <3>2 DEF Elements
    <2>2. ASSUME NEW i \in DOMAIN Queue PROVE Queue[i] \in Elements(submitted)
        <3>1. i \in 1 .. Len(Queue) /\ Len(ran) \in Nat /\ Len(Queue) \in Nat
            BY <1>1, <2>2
        <3>2. i + Len(ran) \in DOMAIN submitted /\ submitted[i + Len(ran)] = Queue[i]
            BY <1>1, <3>1, ConcatProperties
        <3>3. QED
            BY <3>2 DEF Elements
    <2>3. QED
        BY <2>1, <2>2 DEF Elements
<1>3. toExecute \o Append(pending, f) = Append(toExecute \o pending, f)
    BY AppendToConcat DEF TypeOK
<1>4. f \notin Elements(Queue) \cup Elements(ran)
    BY <1>2 DEF Push
<1>5. QED
    BY <1>3, <1>4 DEF Push, Queue, Elements, Abstract!Submit, Abstract!Elements

\* Every step of the loop or of a thread is a step of the executor or leaves
\* its queue, its history and its flags alone.
LEMMA StepRefines == IInv /\ [Next]_vars => [Abstract!Next]_(Abstract!vars)
<1> SUFFICES ASSUME IInv, [Next]_vars PROVE [Abstract!Next]_(Abstract!vars)
    OBVIOUS
<1> USE DEF loopVars, shared, history
<1>1. /\ TypeOK /\ PhasesAgree /\ ExactlyOnceInOrder
    BY DEF IInv
<1>2. toExecute \in Seq(Functors) /\ pending \in Seq(Functors)
    BY <1>1 DEF TypeOK
<1>3. CASE UNCHANGED <<toExecute, pending, ran, early, done>> /\ (pc' = "returned" <=> pc = "returned")
    BY <1>3 DEF Abstract!vars
<1>4. CASE TestDone
    <2>1. CASE done
        BY <2>1, <1>4 DEF TestDone, Abstract!Next, Abstract!Stop
    <2>2. CASE ~done
        BY <2>2, <1>3, <1>4 DEF TestDone
    <2>3. QED
        BY <2>1, <2>2
<1>5. CASE BeginExecute
    <2>1. toExecute = <<>> /\ toExecute' = pending /\ pending' = <<>>
        BY <1>1, <1>5 DEF BeginExecute, PhasesAgree
    <2>2. toExecute' \o pending' = toExecute \o pending
        BY <1>2, <2>1, ConcatEmptySeq
    <2>3. QED
        BY <2>2, <1>5 DEF BeginExecute, Abstract!vars
<1>6. CASE RunFunctor
    <2>1. toExecute # <<>> /\ pc = "exec" /\ pc' = "body"
        BY <1>6 DEF RunFunctor
    <2>2. toExecute \o pending # <<>>
        BY <1>2, <2>1, ConcatEqualIffEmpty
    <2>3. /\ Head(toExecute \o pending) = Head(toExecute)
          /\ Tail(toExecute \o pending) = Tail(toExecute) \o pending
        BY <1>2, <2>1, HeadTailOfConcat
    <2>4. Abstract!Run
        BY <1>6, <2>1, <2>2, <2>3 DEF RunFunctor, Abstract!Run
    <2>5. QED
        BY <2>4 DEF Abstract!Next
<1>7. CASE LoopQuit
    BY <1>7 DEF LoopQuit, Abstract!Next, Abstract!Quit
<1>8. ASSUME NEW f \in Functors, LoopEnqueue(f) PROVE Abstract!Next
    BY <1>1, <1>8, PushSubmits DEF LoopEnqueue, Abstract!Next
<1>9. ASSUME NEW t \in Threads, NEW f \in Functors, ThreadEnqueue(t, f) PROVE Abstract!Next
    BY <1>1, <1>9, PushSubmits DEF ThreadEnqueue, Abstract!Next
<1>10. ASSUME NEW t \in Threads, ThreadQuit(t) PROVE Abstract!Next
    BY <1>10 DEF ThreadQuit, Abstract!Next, Abstract!Quit
<1>11. ASSUME NEW t \in Threads, ThreadWakeup(t) PROVE [Abstract!Next]_(Abstract!vars)
    BY <1>3, <1>11 DEF ThreadWakeup
<1>12. CASE LoopStep
    BY <1>3, <1>4, <1>5, <1>6, <1>12 DEF LoopStep, EnterLoop, PollWakeup, PollReturns,
       HandleRead, OtherHandled, FunctorReturns, EndExecute
<1>13. QED
    BY <1>3, <1>7, <1>8, <1>9, <1>10, <1>11, <1>12 DEF Next, PollOther, PollTimeout,
       PollReturns, vars

\* The loop implements the abstract executor, its liveness aside: what any
\* interleaving of pushes, swaps, runs and quits does is a FIFO executor.
THEOREM RefinesExecutor == Spec => Abstract!Init /\ [][Abstract!Next]_(Abstract!vars)
<1>1. Init => Abstract!Init
    BY EmptySeq, ConcatEmptySeq DEF Init, Abstract!Init
<1>2. IInv /\ [Next]_vars => [Abstract!Next]_(Abstract!vars)
    BY StepRefines
<1>3. QED
    BY <1>1, <1>2, Inductive, PTL DEF Spec
=============================================================================

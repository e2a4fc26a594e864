---------------------------- MODULE PollerProofs ----------------------------
(***************************************************************************)
(* Proofs about Poller, for any set of dispatchers and any descriptors.    *)
(*                                                                         *)
(* The tables and the lists need one another: that fillDispatchers finds a *)
(* dispatcher (the type of active) follows from TablesAgree, that AddSlot  *)
(* is not taken for a live dispatcher from IndexMeansKnown, and that the   *)
(* pointers of the active list stay valid from where each of them may be   *)
(* in its life (Reported).                                                 *)
(***************************************************************************)
EXTENDS Poller, TLAPS

\* A dispatcher has an index from its first update on.
IndexMeansKnown == \A d \in Dispatchers : index[d] = 0 <=> life[d] = "new"

\* The active list is empty outside the dispatch phase.
ActiveInDispatch == phase # "dispatch" => active = {} /\ current = None

\* What was reported and is still to be handled, or is being handled, is in the
\* tables, or its deletion waits for the functors: no connection is past
\* connectionClosed, after which it may be deleted at any moment.
Reported ==
    \A d \in active \cup ({current} \ {None}) : life[d] \in {"live", "closing", "removed"}

\* A dispatcher never updated has not given up anything.
NewAskNothing == \A d \in Dispatchers : life[d] = "new" => d \notin gaveUp

IInv ==
    /\ PollerTypeOK
    /\ TablesAgree
    /\ NothingUnasked
    /\ IndexMeansKnown
    /\ ActiveInDispatch
    /\ Reported
    /\ NewAskNothing
    /\ PolledUntilGivenUp

-----------------------------------------------------------------------------
\* Two live dispatchers have two descriptors, and so two slots.
LEMMA LiveAreDistinct ==
    ASSUME PollerTypeOK, TablesAgree, NEW d \in Live, NEW e \in Live,
           Fd[d] = Fd[e] \/ index[d] = index[e]
    PROVE  d = e
BY DEF TablesAgree

\* RealFd undoes the negation and leaves a descriptor alone.
LEMMA RealFdOfSlot ==
    ASSUME NEW fd \in Nat
    PROVE  /\ RealFd(fd) = fd /\ RealFd(Negated(fd)) = fd
           /\ Negated(fd) < 0 /\ Negated(fd) \in Int
BY DEF RealFd, Negated

\* The last slot belongs to one live dispatcher, which the code finds.
LEMMA LastIsLive ==
    ASSUME PollerTypeOK, TablesAgree, Len(pollfds) > 0
    PROVE  LastDispatcher \in Live /\ index[LastDispatcher] = Len(pollfds)
<1>1. Len(pollfds) \in 1 .. Len(pollfds)
    BY DEF PollerTypeOK
<1>2. PICK m \in Live : index[m] = Len(pollfds)
    BY <1>1 DEF TablesAgree
<1>3. LastDispatcher = m
    BY <1>2 DEF TablesAgree, LastDispatcher
<1>4. QED
    BY <1>2, <1>3

\* A new slot at the end.
LEMMA AddKeepsTables ==
    ASSUME IInv, NEW d \in Dispatchers, NEW ev \in SUBSET Interest,
           life[d] = "new", dispatchers[Fd[d]] = None, ev # {},
           Update(d, ev), life' = [life EXCEPT ![d] = "live"]
    PROVE  PollerTypeOK' /\ TablesAgree' /\ NothingUnasked' /\ PolledUntilGivenUp'
<1>1. /\ AddSlot(d, ev)
      /\ events' = [events EXCEPT ![d] = ev]
      /\ gaveUp' = gaveUp /\ d \notin gaveUp
      /\ UNCHANGED control
    BY DEF Update, IInv, IndexMeansKnown, ChangeSlot, NewAskNothing
<1>2. Live' = Live \cup {d} /\ d \notin Live
    BY <1>1 DEF Live, IInv, PollerTypeOK
<1>3. /\ Fd[d] \in Nat /\ Fd[d] \in Fds
      /\ Len(pollfds) \in Nat
      /\ pollfds \in Seq(Slots)
      /\ [fd |-> Fd[d], events |-> ev] \in Slots
    <2>1. Fd[d] \in Nat /\ Fd[d] \in Fds
        BY FdAssumption DEF Fds
    <2>2. [fd |-> Fd[d], events |-> ev] \in Slots
        BY <2>1 DEF Slots
    <2>3. pollfds \in Seq(Slots)
        BY DEF IInv, PollerTypeOK
    <2>4. QED
        BY <2>1, <2>2, <2>3
<1>4. /\ Len(pollfds') = Len(pollfds) + 1
      /\ pollfds' \in Seq(Slots)
      /\ \A i \in 1 .. Len(pollfds) : pollfds'[i] = pollfds[i]
      /\ pollfds'[Len(pollfds) + 1] = [fd |-> Fd[d], events |-> ev]
    BY <1>1, <1>3 DEF AddSlot
<1>5. /\ index'[d] = Len(pollfds) + 1
      /\ \A e \in Live : index'[e] = index[e] /\ events'[e] = events[e]
      /\ events'[d] = ev
    BY <1>1, <1>2 DEF AddSlot, IInv, PollerTypeOK, Live
<1>6. PollerTypeOK'
    BY <1>1, <1>3, <1>4 DEF AddSlot, IInv, PollerTypeOK, control
<1>7. TablesAgree'
    <2>1. ASSUME NEW e \in Live
          PROVE  /\ index'[e] \in 1 .. Len(pollfds')
                 /\ RealFd(pollfds'[index'[e]].fd) = Fd[e]
                 /\ dispatchers'[Fd[e]] = e
        <3>1. /\ index[e] \in 1 .. Len(pollfds)
              /\ RealFd(pollfds[index[e]].fd) = Fd[e]
              /\ dispatchers[Fd[e]] = e
            BY <2>1 DEF IInv, TablesAgree
        <3>2. Fd[e] # Fd[d]
            BY <3>1, NoneAssumption DEF Live
        <3>3. dispatchers'[Fd[e]] = e
            BY <1>1, <3>1, <3>2, FdAssumption DEF AddSlot, IInv, PollerTypeOK, Fds, Live
        <3>4. QED
            BY <1>3, <1>4, <1>5, <3>1, <3>3
    <2>2. /\ index'[d] \in 1 .. Len(pollfds')
          /\ RealFd(pollfds'[index'[d]].fd) = Fd[d]
          /\ dispatchers'[Fd[d]] = d
        BY <1>1, <1>3, <1>4, <1>5, RealFdOfSlot DEF AddSlot, IInv, PollerTypeOK
    <2>3. ASSUME NEW i \in 1 .. Len(pollfds') PROVE \E e \in Live' : index'[e] = i
        <3>1. CASE i = Len(pollfds) + 1
            BY <3>1, <1>2, <1>5
        <3>2. CASE i \in 1 .. Len(pollfds)
            BY <3>2, <1>2, <1>5 DEF IInv, TablesAgree
        <3>3. QED
            BY <3>1, <3>2, <1>3, <1>4
    <2>4. ASSUME NEW fd \in Fds, dispatchers'[fd] # None 
          PROVE  dispatchers'[fd] \in Live' /\ Fd[dispatchers'[fd]] = fd
        BY <1>1, <1>2, <1>3, <2>4 DEF AddSlot, IInv, PollerTypeOK, TablesAgree
    <2>5. QED
        BY <1>2, <2>1, <2>2, <2>3, <2>4 DEF TablesAgree
<1>8. NothingUnasked'
    BY <1>2, <1>3, <1>4, <1>5 DEF NothingUnasked, IInv, TablesAgree
<1>9. PolledUntilGivenUp'
    BY <1>1, <1>2, <1>3, <1>4, <1>5 DEF PolledUntilGivenUp, IInv, TablesAgree
<1>10. QED
    BY <1>6, <1>7, <1>8, <1>9

\* A change of the slot of a live dispatcher.
LEMMA ChangeKeepsTables ==
    ASSUME IInv, NEW d \in Live, NEW ev \in SUBSET Interest, Update(d, ev),
           life' = life \/ life' = [life EXCEPT ![d] = "closing"]
    PROVE  PollerTypeOK' /\ TablesAgree' /\ NothingUnasked' /\ PolledUntilGivenUp'
<1>1. /\ ChangeSlot(d, ev)
      /\ events' = [events EXCEPT ![d] = ev]
      /\ gaveUp' = IF ev = {} THEN gaveUp \cup {d} ELSE gaveUp
      /\ UNCHANGED control
    BY DEF Update, IInv, IndexMeansKnown, AddSlot, Live
<1>2. Live' = Live
    BY DEF Live, IInv, PollerTypeOK
<1>3. /\ Fd[d] \in Nat
      /\ pollfds \in Seq(Slots)
      /\ index[d] \in 1 .. Len(pollfds)
      /\ RealFd(pollfds[index[d]].fd) = Fd[d]
      /\ pollfds[index[d]] \in Slots
    BY FdAssumption DEF IInv, PollerTypeOK, TablesAgree, Live
<1> DEFINE new == [fd |-> IF ev = {} THEN Negated(Fd[d]) ELSE pollfds[index[d]].fd,
                   events |-> ev]
<1>4. /\ new \in Slots /\ RealFd(new.fd) = Fd[d] /\ new.events = ev /\ (ev = {} => new.fd < 0)
      /\ ev # {} => new.fd = pollfds[index[d]].fd
    BY <1>3, RealFdOfSlot DEF Slots
<1>5. pollfds' = [pollfds EXCEPT ![index[d]] = new]
    BY <1>1 DEF ChangeSlot
<1> HIDE DEF new
<1>6. /\ Len(pollfds') = Len(pollfds) /\ pollfds' \in Seq(Slots)
      /\ pollfds'[index[d]] = new
      /\ \A i \in 1 .. Len(pollfds) : i # index[d] => pollfds'[i] = pollfds[i]
    BY <1>3, <1>4, <1>5
<1>7. UNCHANGED <<dispatchers, index>>
    BY <1>1 DEF ChangeSlot
<1>8. PollerTypeOK'
    <2>1. /\ events' \in [Dispatchers -> SUBSET Interest]
          /\ gaveUp' \in SUBSET Dispatchers
        BY <1>1 DEF IInv, PollerTypeOK, Live
    <2>2. life' \in [Dispatchers -> {"new", "live", "closing", "removed", "released", "destroyed"}]
        BY DEF IInv, PollerTypeOK
    <2>3. QED
        BY <2>1, <2>2, <1>1, <1>6, <1>7 DEF IInv, PollerTypeOK, control
<1>9. \A e \in Live : e # d => index[e] # index[d]
    BY LiveAreDistinct DEF IInv
<1>10. TablesAgree'
    BY <1>2, <1>3, <1>4, <1>6, <1>7, <1>9 DEF IInv, TablesAgree
<1>11. NothingUnasked'
    <2>1. \A e \in Live : events'[e] = IF e = d THEN ev ELSE events[e]
        BY <1>1 DEF IInv, PollerTypeOK, Live
    <2>2. QED
        BY <2>1, <1>2, <1>4, <1>6, <1>7, <1>9 DEF IInv, TablesAgree, NothingUnasked
<1>12. PolledUntilGivenUp'
    <2>1. ASSUME NEW e \in Live, e # d
          PROVE  pollfds'[index'[e]] = pollfds[index[e]] /\ (e \in gaveUp' <=> e \in gaveUp)
        BY <2>1, <1>1, <1>6, <1>7, <1>9 DEF IInv, TablesAgree
    <2>2. pollfds'[index'[d]].fd = Fd[d] <=> d \notin gaveUp'
        BY <1>1, <1>3, <1>4, <1>6, <1>7 DEF IInv, PolledUntilGivenUp
    <2>3. QED
        BY <2>1, <2>2, <1>2 DEF IInv, PolledUntilGivenUp
<1>13. QED
    BY <1>8, <1>10, <1>11, <1>12

\* The hole a removal leaves is filled by the last slot.
LEMMA RemoveKeepsTables ==
    ASSUME IInv, NEW d \in Live, NEW next \in {"removed", "released"}, Retire(d, next)
    PROVE  PollerTypeOK' /\ TablesAgree' /\ NothingUnasked' /\ PolledUntilGivenUp'
<1> DEFINE n == Len(pollfds)
           i == index[d]
           m == LastDispatcher
<1>1. /\ d \in Live /\ i \in 1 .. n /\ n \in Nat /\ n > 0 /\ pollfds \in Seq(Slots)
      /\ dispatchers[Fd[d]] = d
    BY DEF Live, IInv, PollerTypeOK, TablesAgree
<1>2. m \in Live /\ index[m] = n
    BY <1>1, LastIsLive DEF IInv
<1> HIDE DEF m
<1>3. /\ dispatchers' = [dispatchers EXCEPT ![Fd[d]] = None]
      /\ pollfds' = [k \in 1 .. n - 1 |-> IF k = i THEN pollfds[n] ELSE pollfds[k]]
      /\ index' = IF i = n THEN index ELSE [index EXCEPT ![m] = i]
      /\ life' = [life EXCEPT ![d] = next]
      /\ events' = [events EXCEPT ![d] = {}]
      /\ gaveUp' = gaveUp \cup {d}
      /\ UNCHANGED control
    BY DEF Retire, Remove, FillHole, m
<1>4. Live' = Live \ {d}
    BY <1>3 DEF Live, IInv, PollerTypeOK
<1>5. /\ pollfds' \in Seq(Slots) /\ Len(pollfds') = n - 1
      /\ \A k \in 1 .. n - 1 : pollfds'[k] = IF k = i THEN pollfds[n] ELSE pollfds[k]
    BY <1>1, <1>3
<1>6. PollerTypeOK'
    BY <1>1, <1>2, <1>3, <1>5 DEF IInv, PollerTypeOK, control, Live
<1>7. ASSUME NEW e \in Live, e # d
      PROVE  /\ index[e] \in 1 .. n /\ index[e] # i
             /\ index[e] = n <=> e = m
             /\ index'[e] \in 1 .. n - 1
             /\ pollfds'[index'[e]] = pollfds[index[e]]
    <2>1. index[e] \in 1 .. n /\ index[e] # i
        BY <1>7, <1>1, LiveAreDistinct DEF IInv, TablesAgree
    <2>2. index[e] = n <=> e = m
        BY <1>2, LiveAreDistinct DEF IInv
    <2>3. index'[e] = IF e = m THEN i ELSE index[e]
        BY <1>2, <1>3, <2>1, <2>2 DEF IInv, PollerTypeOK, Live
    <2>4. e = m => i # n
        BY <2>1, <2>2
    <2>5. QED
        BY <1>1, <1>5, <2>1, <2>2, <2>3, <2>4
<1>8. TablesAgree'
    <2>1. ASSUME NEW e \in Live, e # d
          PROVE  /\ index'[e] \in 1 .. Len(pollfds')
                 /\ RealFd(pollfds'[index'[e]].fd) = Fd[e]
                 /\ dispatchers'[Fd[e]] = e
        <3>1. RealFd(pollfds[index[e]].fd) = Fd[e] /\ dispatchers[Fd[e]] = e /\ Fd[e] # Fd[d]
            BY <1>1, <2>1, LiveAreDistinct DEF IInv, TablesAgree
        <3>2. dispatchers'[Fd[e]] = e
            BY <1>3, <3>1, FdAssumption DEF IInv, PollerTypeOK, Fds, Live
        <3>3. QED
            BY <1>5, <1>7, <2>1, <3>1, <3>2
    <2>2. ASSUME NEW k \in 1 .. Len(pollfds') PROVE \E e \in Live' : index'[e] = k
        <3>1. k \in 1 .. n /\ k # n
            BY <1>1, <1>5
        <3>2. CASE k = i
            <4>1. m # d
                BY <1>2, <3>1, <3>2
            <4>2. index'[m] = i
                BY <1>2, <1>3, <3>1, <3>2 DEF IInv, PollerTypeOK, Live
            <4>3. QED
                BY <1>2, <1>4, <3>2, <4>1, <4>2
        <3>3. CASE k # i
            <4>1. PICK e \in Live : index[e] = k
                BY <3>1 DEF IInv, TablesAgree
            <4>2. e # d /\ e # m
                BY <1>2, <3>1, <3>3, <4>1
            <4>3. index'[e] = k
                BY <1>3, <4>1, <4>2 DEF IInv, PollerTypeOK, Live
            <4>4. QED
                BY <1>4, <4>1, <4>2, <4>3
        <3>4. QED
            BY <3>2, <3>3
    <2>3. ASSUME NEW fd \in Fds, dispatchers'[fd] # None 
          PROVE  dispatchers'[fd] \in Live' /\ Fd[dispatchers'[fd]] = fd
        <3>1. fd # Fd[d] /\ dispatchers'[fd] = dispatchers[fd]
            BY <1>3, <2>3 DEF IInv, PollerTypeOK
        <3>2. dispatchers[fd] \in Live
            BY <2>3, <3>1 DEF IInv, TablesAgree
        <3>3. dispatchers[fd] # d /\ Fd[dispatchers[fd]] = fd
            BY <2>3, <3>1 DEF IInv, TablesAgree
        <3>4. QED
            BY <1>4, <3>1, <3>2, <3>3
    <2>4. QED
        BY <1>4, <2>1, <2>2, <2>3 DEF TablesAgree
<1>9. NothingUnasked' /\ PolledUntilGivenUp'
    <2>1. \A e \in Live : e # d => events'[e] = events[e] /\ (e \in gaveUp' <=> e \in gaveUp)
        BY <1>3 DEF IInv, PollerTypeOK, Live
    <2>2. QED
        BY <2>1, <1>4, <1>7 DEF IInv, NothingUnasked, PolledUntilGivenUp
<1>10. QED
    BY <1>6, <1>8, <1>9

-----------------------------------------------------------------------------
\* Every update by a caller is one of the two lemmas.
LEMMA UpdateKeepsTables ==
    ASSUME IInv, NEW d \in Dispatchers,
           \/ \E what \in Interest : Enable(d, what)
           \/ DisableWriting(d) \/ Disable(d) \/ HandleClose(d)
    PROVE  IInv'
<1>1. PICK ev \in SUBSET Interest :
          /\ Update(d, ev)
          /\ \/ d \in Live /\ (life' = life \/ life' = [life EXCEPT ![d] = "closing"])
             \/ /\ life[d] = "new" /\ dispatchers[Fd[d]] = None /\ ev # {}
                /\ life' = [life EXCEPT ![d] = "live"]
    <2>1. ASSUME NEW what \in Interest, Enable(d, what)
          PROVE  /\ Update(d, events[d] \cup {what})
                 /\ \/ d \in Live /\ life' = life
                    \/ /\ life[d] = "new" /\ dispatchers[Fd[d]] = None
                       /\ life' = [life EXCEPT ![d] = "live"]
        BY <2>1 DEF Enable, Live, IInv, PollerTypeOK
    <2>2. events[d] \subseteq Interest
        BY DEF IInv, PollerTypeOK
    <2>3. QED
        BY <2>1, <2>2 DEF DisableWriting, Disable, HandleClose, Live
<1>2. PollerTypeOK' /\ TablesAgree' /\ NothingUnasked' /\ PolledUntilGivenUp'
    BY <1>1, AddKeepsTables, ChangeKeepsTables
<1>3. IndexMeansKnown'
    BY <1>1, <1>2 DEF Update, AddSlot, ChangeSlot, IInv, IndexMeansKnown, PollerTypeOK, Live
<1>4. ActiveInDispatch'
    BY <1>1 DEF Update, control, IInv, ActiveInDispatch
<1>5. Reported'
    <2>1. \A e \in Dispatchers :
             /\ e # d => life'[e] = life[e]
             /\ life'[d] = life[d] \/ life'[d] \in {"live", "closing"}
        BY <1>1 DEF IInv, PollerTypeOK
    <2>2. active \cup ({current} \ {None}) \subseteq Dispatchers
        BY DEF IInv, PollerTypeOK
    <2>3. QED
        BY <1>1, <2>1, <2>2 DEF Update, control, IInv, Reported
<1>6. NewAskNothing'
    BY <1>1 DEF Update, IInv, NewAskNothing, PollerTypeOK, Live
<1>7. QED
    BY <1>2, <1>3, <1>4, <1>5, <1>6 DEF IInv

\* Both removals are the third.
LEMMA RetireKeeps ==
    ASSUME IInv, NEW d \in Live, NEW next \in {"removed", "released"}, Retire(d, next), 
           next = "released" => phase = "functors"
    PROVE  IInv'
<1>1. PollerTypeOK' /\ TablesAgree' /\ NothingUnasked' /\ PolledUntilGivenUp'
    BY RemoveKeepsTables
<1>2. IndexMeansKnown'
    <2>1. index[d] \in 1 .. Len(pollfds) /\ Len(pollfds) > 0 /\ Len(pollfds) \in Nat
        BY DEF Live, IInv, PollerTypeOK, TablesAgree
    <2>2. LastDispatcher \in Live /\ index[LastDispatcher] > 0
        BY <2>1, LastIsLive DEF IInv
    <2>3. \A e \in Dispatchers : index'[e] = 0 <=> index[e] = 0
        BY <2>1, <2>2 DEF Retire, Remove, IInv, PollerTypeOK, Live
    <2>4. QED
        BY <2>1, <2>3 DEF Retire, IInv, IndexMeansKnown, PollerTypeOK, Live
<1>3. ActiveInDispatch'
    BY DEF Retire, control, IInv, ActiveInDispatch
<1>4. Reported'
    BY DEF Retire, control, IInv, ActiveInDispatch, Reported, PollerTypeOK, Live
<1>5. NewAskNothing'
    BY DEF Retire, IInv, NewAskNothing, PollerTypeOK, Live
<1>6. QED
    BY <1>1, <1>2, <1>3, <1>4, <1>5 DEF IInv

\* Neither deletion meets a dispatcher of the tables or of the active list.
LEMMA DestroyKeeps ==
    ASSUME IInv, NEW d \in Dispatchers, ResetDispatcher(d) \/ Release(d)
    PROVE  IInv'
<1>1. /\ life' = [life EXCEPT ![d] = "destroyed"]
      /\ life[d] = "released" \/ (life[d] = "removed" /\ phase = "functors")
      /\ UNCHANGED <<tables, events, gaveUp, control>>
    BY DEF ResetDispatcher, Release
<1>2. Live' = Live
    BY <1>1 DEF Live, IInv, PollerTypeOK
<1>3. PollerTypeOK' /\ TablesAgree' /\ NothingUnasked' /\ PolledUntilGivenUp' /\ IndexMeansKnown'
    BY <1>1, <1>2 DEF tables, control, IInv, PollerTypeOK, TablesAgree, NothingUnasked,
       PolledUntilGivenUp, IndexMeansKnown
<1>4. ActiveInDispatch' /\ NewAskNothing'
    BY <1>1 DEF control, IInv, ActiveInDispatch, NewAskNothing, PollerTypeOK
<1>5. Reported'
    BY <1>1 DEF control, IInv, ActiveInDispatch, Reported, PollerTypeOK
<1>6. QED
    BY <1>3, <1>4, <1>5 DEF IInv

\* Every step keeps the inductive invariant.
LEMMA Step == IInv /\ [PollerNext]_pollerVars => IInv'
<1> SUFFICES ASSUME IInv, [PollerNext]_pollerVars PROVE IInv'
    OBVIOUS
<1>1. ASSUME NEW d \in Dispatchers,
             \/ \E what \in Interest : Enable(d, what)
             \/ DisableWriting(d) \/ Disable(d) \/ HandleClose(d)
      PROVE  IInv'
    BY <1>1, UpdateKeepsTables
<1>2. ASSUME NEW d \in Dispatchers, RemoveAndReset(d) \/ ConnectionClosed(d) PROVE IInv'
    BY <1>2, RetireKeeps DEF RemoveAndReset, ConnectionClosed, Live
<1>3. ASSUME NEW d \in Dispatchers, ResetDispatcher(d) \/ Release(d) PROVE IInv'
    BY <1>3, DestroyKeeps
<1>4. ASSUME UNCHANGED <<tables, events, life, gaveUp>> PROVE
        /\ TablesAgree' /\ NothingUnasked' /\ IndexMeansKnown' /\ NewAskNothing'
        /\ PolledUntilGivenUp'
        /\ (active' \in SUBSET Dispatchers /\ current' \in Dispatchers \cup {None}
            /\ phase' \in {"poll", "dispatch", "functors"} => PollerTypeOK')
    BY <1>4 DEF tables, IInv, PollerTypeOK, TablesAgree, NothingUnasked, IndexMeansKnown, Live,
       NewAskNothing, PolledUntilGivenUp
<1>5. ASSUME NEW ready \in SUBSET (1 .. Len(pollfds)), Poll(ready) PROVE IInv'
    <2>1. ASSUME NEW i \in ready PROVE dispatchers[pollfds[i].fd] \in Live
        <3>1. PICK d \in Live : index[d] = i
            BY DEF IInv, TablesAgree
        <3>2. pollfds[i] \in Slots /\ pollfds[i].fd >= 0
            BY <1>5 DEF Poll, IInv, PollerTypeOK
        <3>3. RealFd(pollfds[i].fd) = pollfds[i].fd
            BY <3>2 DEF RealFd, Slots
        <3>4. QED
            BY <3>1, <3>2, <3>3 DEF IInv, TablesAgree
    <2>2. active' \in SUBSET Live
        BY <1>5, <2>1 DEF Poll
    <2>3. current = None
        BY <1>5 DEF Poll, IInv, ActiveInDispatch
    <2>4. ActiveInDispatch' /\ Reported'
        BY <1>5, <2>2, <2>3 DEF Poll, ActiveInDispatch, Reported, Live
    <2>5. QED
        BY <1>4, <1>5, <2>2, <2>3, <2>4 DEF Poll, IInv, Live
<1>6. ASSUME NEW d \in Dispatchers, HandleEvent(d) PROVE IInv'
    BY <1>4, <1>6 DEF HandleEvent, IInv, PollerTypeOK, ActiveInDispatch, Reported
<1>7. CASE EventHandled
    BY <1>4, <1>7 DEF EventHandled, IInv, PollerTypeOK, ActiveInDispatch, Reported
<1>8. CASE RunFunctors \/ NextIteration
    BY <1>4, <1>8 DEF RunFunctors, NextIteration, IInv, PollerTypeOK, ActiveInDispatch,
       Reported
<1>9. CASE UNCHANGED pollerVars
    BY <1>4, <1>9 DEF pollerVars, control, IInv, PollerTypeOK, ActiveInDispatch, Reported
<1>10. QED
    BY <1>1, <1>2, <1>3, <1>5, <1>6, <1>7, <1>8, <1>9 DEF PollerNext

\* The inductive invariant holds in every reachable state.
LEMMA Inductive == PollerSpec => []IInv
<1>1. PollerInit => IInv
    <2> SUFFICES ASSUME PollerInit PROVE IInv
        OBVIOUS
    <2>1. Live = {}
        BY DEF PollerInit, Live
    <2>2. PollerTypeOK
        <3>1. pollfds \in Seq(Slots)
            BY DEF PollerInit
        <3>2. index \in [Dispatchers -> Nat] /\ events \in [Dispatchers -> SUBSET Interest]
            BY DEF PollerInit
        <3>3. QED
            BY <3>1, <3>2 DEF PollerInit, PollerTypeOK
    <2>3. TablesAgree
        BY <2>1 DEF PollerInit, TablesAgree
    <2>4. QED
        BY <2>1, <2>2, <2>3 DEF PollerInit, IInv, NothingUnasked, IndexMeansKnown, ActiveInDispatch,
           Reported, NewAskNothing, PolledUntilGivenUp
<1>2. QED
    BY <1>1, Step, PTL DEF PollerSpec

\* Every variable keeps its type: in particular fillDispatchers always finds
\* a dispatcher for a descriptor poll() reports.
THEOREM TypeCorrect == PollerSpec => []PollerTypeOK
<1>1. IInv => PollerTypeOK
    BY DEF IInv
<1>2. QED
    BY <1>1, Inductive, PTL

\* The vector, the map and the indices agree after any sequence of updates and
\* removals, the removal that moves an ignored slot into the hole included.
THEOREM TablesAlwaysAgree == PollerSpec => []TablesAgree
<1>1. IInv => TablesAgree
    BY DEF IInv
<1>2. QED
    BY <1>1, Inductive, PTL

\* No slot is polled for what its dispatcher did not ask.
THEOREM NothingIsPolledUnasked == PollerSpec => []NothingUnasked
<1>1. IInv => NothingUnasked
    BY DEF IInv
<1>2. QED
    BY <1>1, Inductive, PTL

\* The pointers of the active list stay valid during the dispatch phase: what
\* connectionClosed has run for was removed while functors ran and is not
\* reported again, and a Connector's dispatcher waits for the functors.
THEOREM ActiveStayValid == PollerSpec => []ActiveNotDestroyed
<1>1. IInv => ActiveNotDestroyed
    BY DEF IInv, Reported, ActiveNotDestroyed
<1>2. QED
    BY <1>1, Inductive, PTL

\* A slot has its descriptor until its dispatcher first gives up all interest,
\* and the negated one from then on, wherever removals move the slot.
THEOREM PolledExactlyUntilGivenUp == PollerSpec => []PolledUntilGivenUp
<1>1. IInv => PolledUntilGivenUp
    BY DEF IInv
<1>2. QED
    BY <1>1, Inductive, PTL
=============================================================================
